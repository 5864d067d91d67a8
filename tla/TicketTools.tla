------------------------------ MODULE TicketTools ------------------------------
(***************************************************************************)
(* Who writes whole ticket rows of one project: creations by the agent,    *)
(* the console and the portal, the agent's tools, the console's close and  *)
(* restore, and the enrichment workers.  A tool that locks its row reads   *)
(* and saves under the lock; the others save the copy they read.           *)
(*                                                                         *)
(* Moves of status by the state machine, and what becomes of the work item *)
(* in Plane, are in TicketSync; a tool's request to Plane can only fail    *)
(* here.  Titles, assignees, priorities and reasons are left out.          *)
(***************************************************************************)
EXTENDS Naturals, FiniteSets

CONSTANTS
    TicketId,   \* rows there may be
    Caller,     \* calls of tools, routes and workers; each is made once
    Report,     \* what is reported: a conversation and a subject
    Topic,      \* report -> its conversation, with the HTTP status in its
                \* subject or else the subject normalised
    Title,      \* report -> its subject, whose ever it is
    Matter,     \* report -> what it is about, by topic or title
    Detail,     \* what a follow-up may add to the history
    NoTicket,   \* NULL
    BornStatus, \* statuses of the tickets there are at the start
    MaxSlips    \* bound: statements that fail and processes that die

ASSUME ToolsAssumption ==
    /\ IsFiniteSet(TicketId) /\ NoTicket \notin TicketId
    /\ "free" \notin Caller
    /\ \A r, s \in Report : Topic[r] = Topic[s] \/ Title[r] = Title[s] => Matter[r] = Matter[s]
    /\ BornStatus \subseteq {"NEW", "RESOLVED", "CUSTOMER_CONFIRMED", "CLOSED"}
    /\ MaxSlips \in Nat

VARIABLES
    tickets,    \* report, status, running_summary, duplicate_of_ticket_id
    announced,  \* tickets with a TicketCreated event in the outbox
    heldBy,     \* FOR UPDATE: who holds the row
    calls,      \* each call: its tool, where it is, and what it has read
    slips,      \* failures so far
    saved,      \* ghost: the details update_summary has committed
    exposed,    \* ghost: those committed while a copy of the row was out
    rewritten,  \* ghost: histories a language model has written anew
    reported,   \* ghost: matters whose creation has been answered
    ended,      \* ghost: matters of which a ticket was to be closed or merged
    doubled,    \* ghost: topics a second ticket may have been let in for
    undone,     \* ghost: matters whose tickets were cancelled crosswise, or
                \* whose ticket an old copy has put to rest
    silent      \* ghost: tickets whose portal request broke off half-way

toolGhosts == <<saved, exposed, rewritten, reported, ended, doubled, undone, silent>>
toolVars == <<tickets, announced, heldBy, calls, slips, toolGhosts>>

RowStatus == {"NEW", "RESOLVED", "CUSTOMER_CONFIRMED", "REOPENED", "CLOSED", "CANCELLED"}
Row == [report: Report, status: RowStatus, history: SUBSET Detail, of: TicketId \cup {NoTicket}]
Absent == [report |-> "none", status |-> "none", history |-> {}, of |-> NoTicket]
NewRow(s) == [report |-> s, status |-> "NEW", history |-> {}, of |-> NoTicket]

Exists(t) == tickets[t] # Absent
IsOpen(r) == r # Absent /\ r.status \notin {"CLOSED", "CANCELLED", "CUSTOMER_CONFIRMED"}
Terminal(r) == r.status \in {"CLOSED", "CANCELLED"}
TopicOf(t) == Topic[tickets[t].report]
MatterOf(t) == Matter[tickets[t].report]
SameTopic(s) == {t \in TicketId : IsOpen(tickets[t]) /\ TopicOf(t) = Topic[s]}

\* A call: its tool, where it is, its ticket, the row it read, the primary
\* ticket or the duplicate found, the detail, and the report of a creation.
Tool == {"create", "portal", "update_summary", "reopen", "assign", "title", "digest",
         "duplicates", "merge", "close"}
Ready == [tool |-> "none", step |-> "ready", on |-> NoTicket, copy |-> Absent,
          other |-> NoTicket, text |-> "none"]
Spent == [Ready EXCEPT !.step = "over"]

ToolsTypeOK ==
    /\ tickets \in [TicketId -> Row \cup {Absent}]
    /\ announced \subseteq TicketId
    /\ heldBy \in [TicketId -> Caller \cup {"free"}]
    /\ \A c \in Caller :
         calls[c] \in {Ready, Spent} \cup
             [tool: Tool, step: {"insert", "announce", "locked", "copied", "scanned", "mark"},
              on: TicketId \cup {NoTicket}, copy: Row \cup {Absent},
              other: TicketId \cup {NoTicket}, text: Report \cup Detail \cup {"none"}]
    /\ slips \in 0..MaxSlips
    /\ saved \subseteq TicketId \X Detail /\ exposed \subseteq saved
    /\ silent \subseteq TicketId /\ rewritten \subseteq TicketId

\* Before any call there is no ticket, or some of one topic each, announced.
ToolsInit ==
    /\ tickets \in [TicketId -> {Absent} \cup [report: Report, status: BornStatus,
                                             history: {{}}, of: {NoTicket}]]
    /\ \A s \in Report : Cardinality(SameTopic(s)) <= 1
    /\ announced = {t \in TicketId : Exists(t)}
    /\ heldBy = [t \in TicketId |-> "free"]
    /\ calls = [c \in Caller |-> Ready]
    /\ slips = 0
    /\ saved = {} /\ exposed = {} /\ rewritten = {} /\ silent = {}
    /\ reported = {MatterOf(t) : t \in {u \in TicketId : IsOpen(tickets[u])}}
    /\ ended = {} /\ doubled = {} /\ undone = {}

Unused(c) == calls[c] = Ready
At(c, step) == calls[c].step = step
Returns(c) == calls' = [calls EXCEPT ![c] = Spent]

-----------------------------------------------------------------------------
(* Creation.                                                               *)

\* TicketService looks for an active ticket of the conversation before it
\* makes one, and returns the one it finds.
LookUp(c, s) ==
    /\ Unused(c)
    /\ IF SameTopic(s) # {}
       THEN /\ Returns(c)
            /\ reported' = reported \cup {Matter[s]}
            /\ UNCHANGED doubled
       ELSE /\ calls' = [calls EXCEPT ![c] = [Ready EXCEPT !.tool = "create", !.step = "insert",
                                                         !.text = s]]
            /\ doubled' = IF \E d \in Caller : /\ calls[d].tool = "create"
                                               /\ Topic[calls[d].text] = Topic[s]
                          THEN doubled \cup {Topic[s]} ELSE doubled
            /\ UNCHANGED reported
    /\ UNCHANGED <<tickets, announced, heldBy, slips, saved, exposed, rewritten, ended,
                   undone, silent>>

\* One transaction writes the row and its event; no index keeps a second row
\* of the subject out.
Insert(c, t) ==
    /\ At(c, "insert") /\ ~Exists(t)
    /\ tickets' = [tickets EXCEPT ![t] = NewRow(calls[c].text)]
    /\ announced' = announced \cup {t}
    /\ reported' = reported \cup {Matter[calls[c].text]}
    /\ Returns(c)
    /\ UNCHANGED <<heldBy, slips, saved, exposed, rewritten, ended, doubled, undone, silent>>

\* The portal looks for nothing, and writes row and event by two statements.
PortalRow(c, s, t) ==
    /\ Unused(c) /\ ~Exists(t)
    /\ tickets' = [tickets EXCEPT ![t] = NewRow(s)]
    /\ calls' = [calls EXCEPT ![c] = [Ready EXCEPT !.tool = "portal", !.step = "announce",
                                                 !.on = t]]
    /\ reported' = reported \cup {Matter[s]}
    /\ doubled' = doubled \cup {Topic[s]}
    /\ UNCHANGED <<announced, heldBy, slips, saved, exposed, rewritten, ended, undone, silent>>

PortalEvent(c) ==
    /\ At(c, "announce")
    /\ announced' = announced \cup {calls[c].on}
    /\ Returns(c)
    /\ UNCHANGED <<tickets, heldBy, slips, toolGhosts>>

-----------------------------------------------------------------------------
(* Tools that lock their row.                                              *)

\* Mutant: the row is read without FOR UPDATE.
TakeLockFree(c, tool, t, d) ==
    /\ Unused(c) /\ Exists(t)
    /\ calls' = [calls EXCEPT ![c] = [Ready EXCEPT !.tool = tool, !.step = "locked", !.on = t,
                                                 !.copy = tickets[t], !.text = d]]
    /\ UNCHANGED <<tickets, announced, heldBy, slips, toolGhosts>>

TakeLock(c, tool, t, d) ==
    /\ Unused(c) /\ Exists(t) /\ heldBy[t] = "free"
    /\ heldBy' = [heldBy EXCEPT ![t] = c]
    /\ calls' = [calls EXCEPT ![c] = [Ready EXCEPT !.tool = tool, !.step = "locked", !.on = t,
                                                 !.copy = tickets[t], !.text = d]]
    /\ UNCHANGED <<tickets, announced, slips, toolGhosts>>

\* PostgresTicketRepository.save writes every column from the copy.  The
\* ghosts note a save that makes a ticket active again, or puts one to rest.
Save(t, new) ==
    /\ tickets' = [tickets EXCEPT ![t] = new]
    /\ doubled' = IF IsOpen(new) /\ ~IsOpen(tickets[t])
                  THEN doubled \cup {Topic[new.report]} ELSE doubled

FreeRow(t) == heldBy' = [heldBy EXCEPT ![t] = "free"]
CopyOut(t) == \E d \in Caller : calls[d].on = t /\ calls[d].step \in {"copied", "scanned"}

\* appendSummaryHistory adds the detail unless it is there; a closed ticket
\* refuses.
SaveSummary(c) ==
    LET t == calls[c].on
        new == [calls[c].copy EXCEPT !.history = @ \cup {calls[c].text}]
    IN /\ At(c, "locked") /\ calls[c].tool = "update_summary"
       /\ IF Terminal(calls[c].copy)
          THEN UNCHANGED <<tickets, doubled, saved, exposed>>
          ELSE /\ Save(t, new)
               /\ saved' = saved \cup {<<t, calls[c].text>>}
               /\ exposed' = IF CopyOut(t) THEN exposed \cup {<<t, calls[c].text>>}
                             ELSE exposed
       /\ FreeRow(t)
       /\ Returns(c)
       /\ UNCHANGED <<announced, slips, rewritten, reported, ended, undone, silent>>

SaveReopened(c) ==
    LET copy == calls[c].copy
        new == IF copy.status \in {"RESOLVED", "CUSTOMER_CONFIRMED", "CLOSED", "CANCELLED"}
               THEN [copy EXCEPT !.status = "REOPENED"] ELSE copy
    IN /\ At(c, "locked") /\ calls[c].tool = "reopen"
       /\ Save(calls[c].on, new)
       /\ FreeRow(calls[c].on)
       /\ Returns(c)
       /\ UNCHANGED <<announced, slips, saved, exposed, rewritten, reported, ended, undone,
                      silent>>

-----------------------------------------------------------------------------
(* Tools and workers that do not.                                          *)

\* merge and close are wanted: their matter may be left without a ticket.
Read(c, tool, t, other) ==
    /\ Unused(c) /\ Exists(t)
    /\ tool = "merge" => other # NoTicket /\ Exists(other)
    /\ tool # "merge" => other = NoTicket
    /\ calls' = [calls EXCEPT ![c] = [Ready EXCEPT !.tool = tool, !.step = "copied", !.on = t,
                                                 !.copy = tickets[t], !.other = other]]
    /\ ended' = IF tool \in {"merge", "close"} THEN ended \cup {MatterOf(t)} ELSE ended
    /\ UNCHANGED <<tickets, announced, heldBy, slips, saved, exposed, rewritten, reported,
                   doubled, undone, silent>>

\* Mutant: tickets already closed or cancelled count as the first report.
ScanAll(c) ==
    LET t == calls[c].on
        twins == {u \in TicketId \ {t} : /\ Exists(u)
                                       /\ Title[tickets[u].report] = Title[calls[c].copy.report]}
        crossing == \E d \in Caller : /\ calls[d].step = "scanned" /\ calls[d].other # NoTicket
                                      /\ Title[calls[d].copy.report] = Title[calls[c].copy.report]
    IN /\ At(c, "copied") /\ calls[c].tool = "duplicates"
       /\ \E u \in IF twins = {} THEN {NoTicket} ELSE twins :
            calls' = [calls EXCEPT ![c].step = "scanned", ![c].other = u]
       /\ undone' = IF twins # {} /\ crossing
                    THEN undone \cup {Matter[calls[c].copy.report]} ELSE undone
       /\ UNCHANGED <<tickets, announced, heldBy, slips, saved, exposed, rewritten, reported,
                      ended, doubled, silent>>

\* DuplicateDetectorWorker: the first other active ticket of the same subject
\* in the project, whoever reported it, in whatever order the database
\* returns them.
Scan(c) ==
    LET t == calls[c].on
        twins == {u \in TicketId \ {t} : /\ IsOpen(tickets[u])
                                       /\ Title[tickets[u].report] = Title[calls[c].copy.report]}
        crossing == \E d \in Caller : /\ calls[d].step = "scanned" /\ calls[d].other # NoTicket
                                      /\ Title[calls[d].copy.report] = Title[calls[c].copy.report]
    IN /\ At(c, "copied") /\ calls[c].tool = "duplicates"
       /\ \E u \in IF twins = {} THEN {NoTicket} ELSE twins :
            calls' = [calls EXCEPT ![c].step = "scanned", ![c].other = u]
       /\ undone' = IF twins # {} /\ crossing
                    THEN undone \cup {Matter[calls[c].copy.report]} ELSE undone
       /\ UNCHANGED <<tickets, announced, heldBy, slips, saved, exposed, rewritten, reported,
                      ended, doubled, silent>>

\* What the tool makes of its copy: a duplicate is cancelled, close resolves,
\* the summary worker takes the history a language model returned.
Results(c) ==
    LET copy == calls[c].copy
    IN CASE calls[c].tool \in {"assign", "title"} -> {copy}
         [] calls[c].tool = "digest" ->
              {[copy EXCEPT !.history = h] : h \in SUBSET copy.history}
         [] calls[c].tool = "close" -> {[copy EXCEPT !.status = "RESOLVED"]}
         [] calls[c].other = NoTicket -> {copy}
         [] OTHER -> {[copy EXCEPT !.status = "CANCELLED", !.of = calls[c].other]}

\* Each refuses a closed ticket, merge also a ticket with itself.
TurnedDown(c) == Terminal(calls[c].copy) \/ calls[c].other = calls[c].on

SaveCopy(c) ==
    LET t == calls[c].on
    IN /\ At(c, IF calls[c].tool = "duplicates" THEN "scanned" ELSE "copied")
       /\ IF TurnedDown(c)
          THEN UNCHANGED <<tickets, doubled, rewritten, undone>>
          ELSE /\ heldBy[t] = "free"
               /\ \E new \in Results(c) :
                    /\ Save(t, new)
                    /\ undone' = IF IsOpen(tickets[t]) /\ ~IsOpen(new) /\ ~IsOpen(calls[c].copy)
                                 THEN undone \cup {Matter[new.report]} ELSE undone
               /\ rewritten' = IF calls[c].tool = "digest" THEN rewritten \cup {t}
                               ELSE rewritten
       /\ IF calls[c].tool = "close"
          THEN calls' = [calls EXCEPT ![c].step = "mark"] ELSE Returns(c)
       /\ UNCHANGED <<announced, heldBy, slips, saved, exposed, reported, ended, silent>>

\* The close route's own transaction, after the tool's.
MarkCancelled(c) ==
    /\ At(c, "mark") /\ heldBy[calls[c].on] = "free"
    /\ Save(calls[c].on, [tickets[calls[c].on] EXCEPT !.status = "CANCELLED"])
    /\ Returns(c)
    /\ UNCHANGED <<announced, heldBy, slips, saved, exposed, rewritten, reported, ended,
                   undone, silent>>

RestoreRow(c, t) ==
    /\ Unused(c) /\ Exists(t) /\ heldBy[t] = "free"
    /\ Save(t, [tickets[t] EXCEPT !.status = "REOPENED"])
    /\ Returns(c)
    /\ UNCHANGED <<announced, heldBy, slips, saved, exposed, rewritten, reported, ended,
                   undone, silent>>

\* A statement or a request to Plane fails, or the process dies: the
\* transaction is rolled back, what was committed before stays.
BreakOff(c) ==
    /\ calls[c] \notin {Ready, Spent}
    /\ slips < MaxSlips
    /\ slips' = slips + 1
    /\ silent' = IF At(c, "announce") THEN silent \cup {calls[c].on} ELSE silent
    /\ heldBy' = [t \in TicketId |-> IF heldBy[t] = c THEN "free" ELSE heldBy[t]]
    /\ Returns(c)
    /\ UNCHANGED <<tickets, announced, saved, exposed, rewritten, reported, ended, doubled,
                   undone>>

-----------------------------------------------------------------------------
ToolStep(c) ==
    \/ \E s \in Report : LookUp(c, s)
    \/ \E t \in TicketId : Insert(c, t)
    \/ \E s \in Report, t \in TicketId : PortalRow(c, s, t)
    \/ PortalEvent(c)
    \/ \E t \in TicketId, d \in Detail : TakeLock(c, "update_summary", t, d)
    \/ \E t \in TicketId : TakeLock(c, "reopen", t, "none")
    \/ SaveSummary(c) \/ SaveReopened(c)
    \/ \E t \in TicketId, o \in TicketId \cup {NoTicket},
          tool \in {"assign", "title", "digest", "duplicates", "merge", "close"} :
            Read(c, tool, t, o)
    \/ Scan(c) \/ SaveCopy(c) \/ MarkCancelled(c)
    \/ \E t \in TicketId : RestoreRow(c, t)
    \/ BreakOff(c)

ToolsNext == \E c \in Caller : ToolStep(c)

ToolsSpec == ToolsInit /\ [][ToolsNext]_toolVars

-----------------------------------------------------------------------------
\* No topic has two active tickets unless two creations looked before either
\* wrote, the portal made one, or a ticket was made active again.
AtMostOneCase ==
    \A t, u \in TicketId :
        IsOpen(tickets[t]) /\ IsOpen(tickets[u]) /\ t # u /\ TopicOf(t) = TopicOf(u)
            => TopicOf(t) \in doubled

\* What a customer reported and was told is recorded has an active ticket until
\* somebody closes or merges one about it, whatever the duplicate check and
\* the workers' saves do; two checks that overlap may cancel each the other's.
SomeCase ==
    \A p \in reported \ (ended \cup undone) :
        \E t \in TicketId : IsOpen(tickets[t]) /\ MatterOf(t) = p

\* Every ticket is announced in the outbox unless the portal's request broke off
\* between its two statements.
EachAnnounced ==
    \A t \in TicketId :
        Exists(t) => \/ t \in announced \cup silent
                     \/ \E c \in Caller : At(c, "announce") /\ calls[c].on = t

\* All three: reports are neither doubled nor lost, and operators hear of each.
CasesAccounted == AtMostOneCase /\ SomeCase /\ EachAnnounced

\* A detail that update_summary committed stays in the ticket's history, through
\* overlapping follow-ups, reopenings, closings and workers, unless a copy read
\* without the lock was out when it was committed, or a language model has
\* written the history anew.
HistoryKept ==
    \A p \in saved \ exposed :
        p[1] \in rewritten \/ p[2] \in tickets[p[1]].history
=============================================================================
