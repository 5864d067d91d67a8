---------------------------- MODULE TicketLifecycle ----------------------------
(***************************************************************************)
(* The tables of domain/ticket/TicketLifecycle.ts: the customer lifecycle  *)
(* of a ticket, the states of its work item in Plane, the two mappings     *)
(* between them and who may move a ticket along which edge.                *)
(***************************************************************************)
EXTENDS Sequences

Status == {"NEW", "TRIAGED", "OPEN", "IN_PROGRESS", "WAITING_CUSTOMER",
           "WAITING_INTERNAL", "RESOLVED", "CUSTOMER_CONFIRMED", "CLOSED",
           "REOPENED", "CANCELLED"}

Finished == {"CLOSED", "CANCELLED"}
Awaiting == {"RESOLVED", "CUSTOMER_CONFIRMED"}
Working  == Status \ (Finished \cup Awaiting)

\* The states the Plane project defines.
PlaneState == {"Backlog", "Triaged", "In Progress", "Test Failed",
               "Waiting for Customer", "Delivery to Customer", "Re-Open",
               "Close", "Cancelled"}

Actor == {"customer", "plane", "operator", "system"}

\* Mutant: the names of a project with Plane's default states.
ToDefaultPlane(status) == IF status \in Finished THEN "Done" ELSE "In Progress"

\* The Plane state the outbox writes for a status.
ToPlane(status) ==
    CASE status = "NEW" -> "Backlog"
      [] status = "TRIAGED" -> "Triaged"
      [] status \in {"OPEN", "IN_PROGRESS", "WAITING_INTERNAL"} -> "In Progress"
      [] status = "WAITING_CUSTOMER" -> "Waiting for Customer"
      [] status \in Awaiting -> "Delivery to Customer"
      [] status = "REOPENED" -> "Re-Open"
      [] status = "CLOSED" -> "Close"
      [] status = "CANCELLED" -> "Cancelled"

\* A ticket in one of the statuses kept stays as it is: the code answers null.
Unless(kept, current, target) == IF current \in kept THEN current ELSE target

\* The status a Plane state implies for a ticket.
FromPlane(label, current) ==
    CASE label \in {"Backlog", "Triaged"} ->
           Unless(Status \ {"NEW"}, current, "TRIAGED")
      [] label = "In Progress" ->
           Unless({"WAITING_INTERNAL"}, current, "IN_PROGRESS")
      [] label = "Test Failed" ->
           Unless({"WAITING_INTERNAL", "WAITING_CUSTOMER"}, current, "IN_PROGRESS")
      [] label = "Waiting for Customer" ->
           Unless(Awaiting \cup Finished, current, "WAITING_CUSTOMER")
      [] label = "Re-Open" ->
           Unless(Working, current, "REOPENED")
      [] label \in {"Delivery to Customer", "Close"} ->
           Unless(Awaiting \cup {"CLOSED"}, current, "RESOLVED")
      [] label = "Cancelled" -> "CANCELLED"

\* Structurally valid transitions.
Allowed ==
    [s \in Status |->
       CASE s = "NEW" -> {"TRIAGED", "OPEN", "IN_PROGRESS", "WAITING_CUSTOMER",
                          "RESOLVED", "CANCELLED"}
         [] s = "TRIAGED" -> {"OPEN", "IN_PROGRESS", "WAITING_CUSTOMER",
                              "WAITING_INTERNAL", "RESOLVED", "CANCELLED"}
         [] s = "OPEN" -> {"IN_PROGRESS", "WAITING_CUSTOMER",
                           "WAITING_INTERNAL", "RESOLVED", "CANCELLED"}
         [] s = "IN_PROGRESS" -> {"WAITING_CUSTOMER", "WAITING_INTERNAL",
                                  "RESOLVED", "CANCELLED"}
         [] s \in {"WAITING_CUSTOMER", "WAITING_INTERNAL"} ->
                {"IN_PROGRESS", "RESOLVED", "CANCELLED"}
         [] s = "RESOLVED" -> {"CUSTOMER_CONFIRMED", "REOPENED"}
         [] s = "CUSTOMER_CONFIRMED" -> {"CLOSED", "REOPENED", "RESOLVED"}
         [] s \in Finished -> {"REOPENED"}
         [] s = "REOPENED" -> {"IN_PROGRESS", "WAITING_CUSTOMER", "RESOLVED",
                               "CANCELLED"}]

\* The edges of the actors that may not use all of them.
CustomerEdges ==
    (Awaiting \X {"REOPENED"})
    \cup {<<"RESOLVED", "CUSTOMER_CONFIRMED">>,
          <<"CUSTOMER_CONFIRMED", "CLOSED">>,
          <<"CUSTOMER_CONFIRMED", "RESOLVED">>,
          <<"CLOSED", "REOPENED">>,
          <<"WAITING_CUSTOMER", "IN_PROGRESS">>}

PlaneEdges ==
    {<<"NEW", "TRIAGED">>}
    \cup ((Working \ {"IN_PROGRESS", "WAITING_INTERNAL"}) \X {"IN_PROGRESS"})
    \cup ((Working \ {"WAITING_CUSTOMER", "WAITING_INTERNAL"}) \X {"WAITING_CUSTOMER"})
    \cup (Working \X {"RESOLVED", "CANCELLED"})
    \cup (({"RESOLVED"} \cup Finished) \X {"REOPENED"})

CanTransition(from, to, actor) ==
    /\ from # to
    /\ to \in Allowed[from]
    /\ actor = "customer" => <<from, to>> \in CustomerEdges
    /\ actor = "plane" => <<from, to>> \in PlaneEdges

-----------------------------------------------------------------------------
(* The routes the callers of the state machine walk, hop by hop.           *)

\* Visit the statuses of path; the hops into mine are the customer's, the
\* others the system's.
Walk(path, mine) ==
    [i \in DOMAIN path |->
       [to |-> path[i],
        actor |-> IF path[i] \in mine THEN "customer" ELSE "system"]]

\* ROUTE_TO_CLOSED of CustomerConfirmationHandler.ts
RouteToClosed(status) ==
    LET end == <<"CUSTOMER_CONFIRMED", "CLOSED">>
    IN CASE status \in {"NEW", "TRIAGED"} -> <<"IN_PROGRESS", "RESOLVED">> \o end
         [] status = "RESOLVED" -> end
         [] status = "CUSTOMER_CONFIRMED" -> <<"CLOSED">>
         [] OTHER -> <<"RESOLVED">> \o end
=============================================================================
