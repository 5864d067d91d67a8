------------------------------ MODULE TicketSync ------------------------------
(***************************************************************************)
(* One ticket and the Plane work item it is linked to.                     *)
(*                                                                         *)
(* tickets.status is moved by TicketStateMachine.transition, which reads   *)
(* the row, checks the move and writes with AND status = <what it read>;   *)
(* its callers are the poller that brings Plane's state in, the handler of *)
(* the customer's answers and the automatic close.  Other code writes the  *)
(* column directly.  Whoever writes it, a trigger appends the new status   *)
(* to the outbox in the same statement, and the outbox processor patches   *)
(* the work item with it later.  Engineers edit the work item in Plane.    *)
(***************************************************************************)
EXTENDS TicketLifecycle, SequencesExt, Naturals

CONSTANTS
    Message,        \* customer messages and passes of automatic closing
    Poller,         \* the reverse-sync poller
    MaxTries,       \* MAX_TRANSIENT_ATTEMPTS
    MaxEdits,       \* bound: edits made in Plane
    MaxSaves,       \* bound: whole-row saves by background workers
    MaxOverwrites,  \* bound: closes and restores by console and routes
    MaxFaults,      \* bound: outbox dispatches that fail
    MaxEvents       \* bound: how many of the last four in all

ASSUME SyncAssumption ==
    /\ Poller \notin Message
    /\ MaxTries \in Nat \ {0}
    /\ {MaxEdits, MaxSaves, MaxOverwrites, MaxFaults,
        MaxEvents} \subseteq Nat

VARIABLES
    status,     \* tickets.status
    outbox,     \* pending PlaneWorkItemUpdateRequested events, by id
    remote,     \* the work item's state
    fresh,      \* its updated_at is later than plane_last_seen_updated_at
    call,       \* calls of transition: where they are, the hops left to make
    poll,       \* where the poller is, the state it fetched, and whether the
                \* work item was updated after that
    copy,       \* the status in a background worker's copy of the row
    count,      \* edits, saves, overwrites and faults so far
    ours,       \* ghost: the last change of the work item was a dispatch
    buried,     \* ghost: an event was dead-lettered
    refused     \* ghost: the customer's last word is that the problem is still
                \* there, and Plane was not edited since

ticket == <<status, outbox>>
plane  == <<remote, fresh, ours>>
ghosts == <<buried, refused>>
vars   == <<ticket, plane, call, poll, copy, count, ghosts>>

NotCalled == [at |-> "idle", from |-> "NEW", route |-> <<>>]
NotPolling == [at |-> "idle", label |-> "Backlog", moved |-> FALSE]
NoCopy == "none"

TypeOK ==
    /\ status \in Status
    /\ outbox \in Seq([status: Status, tries: 0..(MaxTries - 1)])
    /\ remote \in PlaneState
    /\ {fresh, ours, buried, refused} \subseteq BOOLEAN
    /\ call \in [Message \cup {Poller} ->
                   [at: {"idle", "load", "update", "done"}, from: Status,
                    route: Seq([to: Status, actor: Actor])]]
    /\ poll \in [at: {"idle", "selected", "got", "moving", "seen"},
                 label: PlaneState, moved: BOOLEAN]
    /\ copy \in Status \cup {NoCopy}
    /\ count \in [{"edits", "saves", "overwrites", "faults"} -> Nat]

\* A ticket that was just promoted to Plane.
Init ==
    /\ status = "NEW"
    /\ outbox = <<>>
    /\ remote = "Backlog"
    /\ fresh = TRUE
    /\ call = [k \in Message \cup {Poller} |-> NotCalled]
    /\ poll = NotPolling
    /\ copy = NoCopy
    /\ count = [edits |-> 0, saves |-> 0, overwrites |-> 0, faults |-> 0]
    /\ ours = TRUE
    /\ buried = FALSE
    /\ refused = FALSE

\* One more event of a bounded kind.
Count(what, bound) ==
    /\ count[what] < bound
    /\ count.edits + count.saves + count.overwrites + count.faults < MaxEvents
    /\ count' = [count EXCEPT ![what] = @ + 1]

-----------------------------------------------------------------------------
(* The column, the trigger on it and the state machine.                    *)

\* UPDATE tickets SET status, with its AFTER UPDATE trigger.
SetStatus(s) ==
    /\ status' = s
    /\ outbox' = IF s # status
                 THEN Append(outbox, [status |-> s, tries |-> 0]) ELSE outbox

End(k) == call' = [call EXCEPT ![k] = [NotCalled EXCEPT !.at = "done"]]

\* transition: read the row and check the next hop; a rejected hop ends the
\* caller's walk.
Load(k) ==
    LET hop == Head(call[k].route)
    IN /\ call[k].at = "load"
       /\ IF CanTransition(status, hop.to, hop.actor)
          THEN call' = [call EXCEPT ![k].at = "update", ![k].from = status]
          ELSE End(k)
       /\ UNCHANGED <<ticket, plane, poll, copy, count, ghosts>>

\* Mutant: the UPDATE has lost AND status = $4.
Unmoved(k) == TRUE

\* transition: the row still has the status that was read.
Unchanged(k) == status = call[k].from

\* transition: the conditional UPDATE.
Update(k) ==
    LET hop == Head(call[k].route)
    IN /\ call[k].at = "update"
       /\ IF Unchanged(k)
          THEN /\ SetStatus(hop.to)
               /\ IF Tail(call[k].route) = <<>> THEN End(k)
                  ELSE call' = [call EXCEPT ![k].at = "load", ![k].route = Tail(@)]
               /\ refused' = IF hop.actor = "customer" THEN hop.to = "REOPENED"
                             ELSE refused
          ELSE End(k) /\ UNCHANGED <<ticket, refused>>
       /\ UNCHANGED <<plane, poll, copy, count, buried>>

-----------------------------------------------------------------------------
(* Its callers.  Each computes its route from the status it read first.    *)

Start(k, route) ==
    /\ call[k].at = "idle"
    /\ call' = [call EXCEPT ![k] = [NotCalled EXCEPT !.at = "load", !.route = route]]
    /\ UNCHANGED <<ticket, plane, poll, copy, count, ghosts>>

\* The customer confirms the close of the ticket.
Confirm(m) ==
    /\ status \notin Finished
    /\ Start(m, Walk(RouteToClosed(status), {"CUSTOMER_CONFIRMED", "CLOSED"}))

\* The customer says it works, or asks to close: the close question is asked,
\* and a resolved ticket is marked.
ItWorks(m) ==
    /\ status = "RESOLVED"
    /\ Start(m, Walk(<<"CUSTOMER_CONFIRMED">>, Status))

\* The customer does not want it closed yet.
Decline(m) ==
    /\ status = "CUSTOMER_CONFIRMED"
    /\ Start(m, Walk(<<"RESOLVED">>, Status))

\* The customer says that the problem is still there.
StillBroken(m) ==
    /\ status \in Awaiting
    /\ Start(m, Walk(<<"REOPENED", "IN_PROGRESS">>, {"REOPENED"}))

\* The customer asks for one move in the portal.
Portal(m) ==
    \E to \in {edge[2] : edge \in CustomerEdges} : Start(m, Walk(<<to>>, Status))

\* The customer stayed silent: the system closes.
AutoClose(m) ==
    /\ status \in Awaiting
    /\ Start(m, Walk(RouteToClosed(status), {}))

\* A caller throws, or its process ends, between two of its statements.
GiveUp(m) ==
    /\ call[m].at \in {"load", "update"}
    /\ End(m)
    /\ UNCHANGED <<ticket, plane, poll, copy, count, ghosts>>

-----------------------------------------------------------------------------
(* The poller: one cycle's handling of this ticket.                        *)

Poll(at) == poll' = [poll EXCEPT !.at = at]

\* The work item is updated while the poller may hold an older state of it.
Outdate == poll' = [poll EXCEPT !.moved = poll.at \in {"got", "moving", "seen"}]

\* The cycle's SELECT finds the ticket.
Select ==
    /\ poll.at = "idle"
    /\ status \notin Finished
    /\ Poll("selected")
    /\ UNCHANGED <<ticket, plane, call, copy, count, ghosts>>

\* The work item is fetched; one that was not updated is skipped.
Fetch ==
    /\ poll.at = "selected"
    /\ poll' = IF fresh THEN [at |-> "got", label |-> remote, moved |-> FALSE]
               ELSE NotPolling
    /\ UNCHANGED <<ticket, plane, call, copy, count, ghosts>>

\* applyPlaneStatus: what the fetched state implies for the status now.
Apply ==
    LET target == FromPlane(poll.label, status)
    IN /\ poll.at = "got"
       /\ IF target = status THEN Poll("seen") /\ UNCHANGED call
          ELSE /\ Poll("moving")
               /\ call' = [call EXCEPT ![Poller] =
                             [NotCalled EXCEPT !.at = "load",
                              !.route = <<[to |-> target, actor |-> "plane"]>>]]
       /\ UNCHANGED <<ticket, plane, copy, count, ghosts>>

\* Mutant: the time of the poll is recorded, not the fetched updated_at.
RecordNow ==
    /\ poll.at = "seen" \/ (poll.at = "moving" /\ call[Poller].at = "done")
    /\ fresh' = FALSE
    /\ poll' = NotPolling
    /\ call' = [call EXCEPT ![Poller] = NotCalled]
    /\ UNCHANGED <<ticket, remote, ours, copy, count, ghosts>>

\* The fetched updated_at is recorded as seen, whatever came of the move.
Record ==
    /\ poll.at = "seen" \/ (poll.at = "moving" /\ call[Poller].at = "done")
    /\ fresh' = poll.moved
    /\ poll' = NotPolling
    /\ call' = [call EXCEPT ![Poller] = NotCalled]
    /\ UNCHANGED <<ticket, remote, ours, copy, count, ghosts>>

\* A request fails, a statement throws or the process ends: nothing is
\* recorded.
PollFails ==
    /\ poll.at # "idle"
    /\ poll' = NotPolling
    /\ call' = [call EXCEPT ![Poller] = NotCalled]
    /\ UNCHANGED <<ticket, plane, copy, count, ghosts>>

-----------------------------------------------------------------------------
(* The outbox processor.                                                   *)

\* The work item gets state s; writing the state it has may or may not count
\* as an update.
Patch(s) ==
    /\ remote' = s
    /\ ours' = TRUE
    /\ \/ fresh' = TRUE /\ Outdate
       \/ s = remote /\ UNCHANGED <<fresh, poll>>

\* Mutant: ORDER BY is missing.
AnyDue(i) == i \in DOMAIN outbox

\* Events are taken in the order of their ids, past those that wait for a
\* retry.
Due(i) == i \in DOMAIN outbox /\ \A j \in 1..(i - 1) : outbox[j].tries > 0

\* markProcessed
Dispatch(i) ==
    /\ Due(i)
    /\ Patch(ToPlane(outbox[i].status))
    /\ outbox' = RemoveAt(outbox, i)
    /\ UNCHANGED <<status, call, copy, count, ghosts>>

\* The dispatch throws, before or after Plane applied it: a transient failure
\* is retried until the attempts are used up, others are dead-lettered.
DispatchFails(i) ==
    /\ Due(i)
    /\ Count("faults", MaxFaults)
    /\ Patch(ToPlane(outbox[i].status)) \/ UNCHANGED <<plane, poll>>
    /\ \/ /\ outbox[i].tries + 1 < MaxTries
          /\ outbox' = [outbox EXCEPT ![i].tries = @ + 1]
          /\ UNCHANGED buried
       \/ /\ outbox' = RemoveAt(outbox, i)
          /\ buried' = TRUE
    /\ UNCHANGED <<status, call, copy, refused>>

-----------------------------------------------------------------------------
(* Everybody else.                                                         *)

\* An engineer changes the state of the work item.
Edit(s) ==
    /\ s # remote
    /\ Count("edits", MaxEdits)
    /\ remote' = s
    /\ fresh' = TRUE
    /\ ours' = FALSE
    /\ Outdate
    /\ refused' = FALSE
    /\ UNCHANGED <<ticket, call, copy, buried>>

\* A background worker reads the row, asks the language model, and saves the
\* whole row.
ReadRow ==
    /\ copy = NoCopy
    /\ Count("saves", MaxSaves)
    /\ copy' = status
    /\ UNCHANGED <<ticket, plane, call, poll, ghosts>>

SaveRow ==
    /\ copy # NoCopy
    /\ SetStatus(copy)
    /\ copy' = NoCopy
    /\ UNCHANGED <<plane, call, poll, count, ghosts>>

\* The SLA console closes or cancels, the restore route reopens.
Overwrite(s) ==
    /\ Count("overwrites", MaxOverwrites)
    /\ SetStatus(s)
    /\ UNCHANGED <<plane, call, poll, copy, ghosts>>

ConsoleClose == \E s \in Finished : Overwrite(s)
Restore == Overwrite("REOPENED")

-----------------------------------------------------------------------------
Answer(m) ==
    \/ Confirm(m) \/ ItWorks(m) \/ Decline(m) \/ StillBroken(m)
    \/ Portal(m) \/ AutoClose(m) \/ GiveUp(m)

PollStep == Select \/ Fetch \/ Apply \/ Record \/ PollFails

Next ==
    \/ \E k \in Message \cup {Poller} : Load(k) \/ Update(k)
    \/ \E m \in Message : Answer(m)
    \/ PollStep
    \/ \E i \in DOMAIN outbox : Dispatch(i) \/ DispatchFails(i)
    \/ \E s \in PlaneState : Edit(s)
    \/ ReadRow \/ SaveRow \/ ConsoleClose \/ Restore

Spec == Init /\ [][Next]_vars

-----------------------------------------------------------------------------
(* Properties.                                                             *)

\* The state machine moved the ticket for k in this step.
Moved(k) == call[k].at = "update" /\ status' # status /\ call'[k] # call[k]

\* A move is one its actor may make from the status the ticket has when it is
\* made, not only from the one it had when it was checked: concurrent callers,
\* saves and overwrites cannot turn it into another.
MovesLegal ==
    [][\A k \in Message \cup {Poller} :
         Moved(k) => CanTransition(status, status', Head(call[k].route).actor)]_vars

\* As long as no dispatch failed, the last event of the outbox carries the
\* ticket's status, whoever wrote it, and once the outbox is empty the work
\* item shows it, unless an engineer has edited it since.
MirrorsWhenDrained ==
    count.faults = 0 =>
        IF outbox # <<>> THEN Last(outbox).status = status
        ELSE ours => remote = ToPlane(status)

\* The poller's comment on recording what it saw even if nothing was applied:
\* "re-fetching it changes nothing".  Once everything is dispatched, a work
\* item the poller will skip has nothing to say that it would accept (but for
\* a ticket that a save put back to NEW: it would be triaged again).
RefetchChangesNothing ==
    /\ count.faults = 0 /\ outbox = <<>> /\ poll.at = "idle"
    /\ ~fresh /\ status # "NEW"
    =>
        LET target == FromPlane(remote, status)
        IN ~CanTransition(status, target, "plane")

\* CustomerConfirmationHandler: "straight back into engineering hands".  After
\* the customer said that the problem is still there, the poller does not call
\* the ticket resolved before anybody has touched the work item.
RejectionHeard ==
    [][refused /\ Moved(Poller) => status' # "RESOLVED"]_vars

\* SLACadenceService: "Plane follows to Close through the outbox trigger".
ClosedShownInPlane ==
    status = "CLOSED" /\ outbox = <<>> /\ ours /\ ~buried => remote = "Close"

\* TicketStateMachine: "The only sanctioned way to change tickets.status."
\* Whoever changes it, some actor may make that move.
SanctionedOnly ==
    [][status' # status => \E a \in Actor : CanTransition(status, status', a)]_vars
=============================================================================
