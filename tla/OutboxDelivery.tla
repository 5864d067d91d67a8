---------------------------- MODULE OutboxDelivery ----------------------------
(***************************************************************************)
(* The rows of outbox_events and the processes that dispatch them.         *)
(*                                                                         *)
(* Every process runs OutboxProcessor: a timer calls processPendingEvents, *)
(* which reads the due pending rows, oldest first, without locking them,   *)
(* and takes them one after the other through dispatch and the UPDATE that *)
(* records the outcome.  The UPDATEs name the row by its id alone and use  *)
(* the attempts that were read with the batch.  An operator may return a   *)
(* dead letter to the queue.                                               *)
(***************************************************************************)
EXTENDS Naturals, FiniteSets

CONSTANTS
    Proc,               \* processes that run an OutboxProcessor
    MaxRows,            \* bound: rows ever inserted
    BatchSize,          \* the argument of fetchPending
    MaxAttempts,        \* MAX_TRANSIENT_ATTEMPTS
    MaxTrouble          \* bound: crashes, lost replies, failed UPDATEs and
                        \* requeues by an operator, in all

ASSUME OutboxAssumption ==
    /\ {MaxRows, MaxTrouble} \subseteq Nat
    /\ {BatchSize, MaxAttempts} \subseteq Nat \ {0}

Id == 1..MaxRows

\* What classifyOutboxFailure says of an error.  "permanent" and "blocked"
\* differ only in the failure_kind recorded: both are "final" here.
Verdict == {"transient", "final"}

VARIABLES
    row,        \* outbox_events by id: status, attempts, failure_kind, due
    at,         \* where processPendingEvents is in each process
    todo,       \* the rows of its batch it has not finished
    seen,       \* the attempts it read with them
    verdict,    \* classifyOutboxFailure of the error it is recording
    troubles,   \* how many of what MaxTrouble bounds so far
    effects,    \* ghost: how often the event's effect took place
    failures,   \* ghost: how often its dispatch, or recording that, failed
    excuses     \* ghost: how often something happened that may repeat it

table  == <<row, troubles>>
passes == <<at, todo, seen, verdict>>
ghosts == <<effects, failures, excuses>>
outboxVars == <<table, passes, ghosts>>

NoRow == [status |-> "none", attempts |-> 0, kind |-> "none", due |-> TRUE]
Fresh == [NoRow EXCEPT !.status = "pending"]

OutboxTypeOK ==
    /\ row \in [Id -> [status: {"none", "pending", "processed", "dead_letter"},
                       attempts: Nat,
                       kind: {"none"} \cup Verdict,
                       due: BOOLEAN]]
    /\ at \in [Proc -> {"down", "idle", "dispatch", "mark", "record"}]
    /\ todo \in [Proc -> SUBSET Id]
    /\ seen \in [Proc -> [Id -> Nat]]
    /\ verdict \in [Proc -> Verdict]
    /\ troubles \in Nat
    /\ effects \in [Id -> Nat]
    /\ failures \in [Id -> Nat]
    /\ excuses \in [Id -> Nat]

OutboxInit ==
    /\ row = [e \in Id |-> NoRow]
    /\ at = [p \in Proc |-> "idle"]
    /\ todo = [p \in Proc |-> {}]
    /\ seen = [p \in Proc |-> [e \in Id |-> 0]]
    /\ verdict = [p \in Proc |-> "transient"]
    /\ troubles = 0
    /\ effects = [e \in Id |-> 0]
    /\ failures = [e \in Id |-> 0]
    /\ excuses = [e \in Id |-> 0]

\* The event a process is working on: the oldest one left in its batch.
Current(p) == CHOOSE e \in todo[p] : \A f \in todo[p] : e <= f

Due == {e \in Id : row[e].status = "pending" /\ row[e].due}
Batch == {e \in Due : Cardinality({f \in Due : f < e}) < BatchSize}
HeldElsewhere(p, e) == \E q \in Proc \ {p} : e \in todo[q]

-----------------------------------------------------------------------------
(* The table.                                                              *)

\* INSERT INTO outbox_events, by a trigger on tickets or with a new ticket.
InsertRow(e) ==
    /\ row[e].status = "none"
    /\ \A f \in Id : f < e => row[f].status # "none"
    /\ row' = [row EXCEPT ![e] = Fresh]
    /\ UNCHANGED <<troubles, passes, ghosts>>

\* next_attempt_at passes.
FallDue(e) ==
    /\ row[e].status = "pending"
    /\ ~row[e].due
    /\ row' = [row EXCEPT ![e].due = TRUE]
    /\ UNCHANGED <<troubles, passes, ghosts>>

\* An operator requeues a dead letter.
RequeueDeadLetter(e) ==
    /\ troubles < MaxTrouble
    /\ row[e].status = "dead_letter"
    /\ row' = [row EXCEPT ![e] = Fresh]
    /\ troubles' = troubles + 1
    /\ UNCHANGED <<passes, ghosts>>

-----------------------------------------------------------------------------
(* processPendingEvents, in process p.                                     *)

Trouble(e) ==
    /\ troubles < MaxTrouble
    /\ troubles' = troubles + 1
    /\ excuses' = [excuses EXCEPT ![e] = @ + 1]

\* On to the next event of the batch, or the pass is over.
Advance(p) ==
    /\ todo' = [todo EXCEPT ![p] = @ \ {Current(p)}]
    /\ seen' = [seen EXCEPT ![p][Current(p)] = 0]
    /\ verdict' = [verdict EXCEPT ![p] = "transient"]
    /\ at' = [at EXCEPT ![p] = IF todo[p] = {Current(p)} THEN "idle" ELSE "dispatch"]

\* The pass is over with its batch unfinished.
Abandon(p, where) ==
    /\ todo' = [todo EXCEPT ![p] = {}]
    /\ seen' = [seen EXCEPT ![p] = [e \in Id |-> 0]]
    /\ verdict' = [verdict EXCEPT ![p] = "transient"]
    /\ at' = [at EXCEPT ![p] = where]

\* Not while isProcessing; an empty batch ends the pass at once.
Fetch(p) ==
    /\ at[p] = "idle"
    /\ Batch # {}
    /\ todo' = [todo EXCEPT ![p] = Batch]
    /\ seen' = [seen EXCEPT ![p] =
          [e \in Id |-> IF e \in Batch THEN row[e].attempts ELSE 0]]
    /\ at' = [at EXCEPT ![p] = "dispatch"]
    /\ excuses' = [e \in Id |->
          excuses[e] + (IF e \in Batch /\ HeldElsewhere(p, e) THEN 1 ELSE 0)]
    /\ UNCHANGED <<table, verdict, effects, failures>>

\* Enqueue the job, patch or delete the work item: it works.
Dispatch(p) ==
    /\ at[p] = "dispatch"
    /\ effects' = [effects EXCEPT ![Current(p)] = @ + 1]
    /\ at' = [at EXCEPT ![p] = "mark"]
    /\ UNCHANGED <<table, todo, seen, verdict, failures, excuses>>

\* Mutant: the dispatcher swallows the error.
DispatchFailsUnnoticed(p) ==
    /\ at[p] = "dispatch"
    /\ failures' = [failures EXCEPT ![Current(p)] = @ + 1]
    /\ at' = [at EXCEPT ![p] = "mark"]
    /\ UNCHANGED <<table, todo, seen, verdict, effects, excuses>>

\* It is refused, or the target cannot be reached.
DispatchFails(p) ==
    /\ at[p] = "dispatch"
    /\ \E v \in Verdict : verdict' = [verdict EXCEPT ![p] = v]
    /\ failures' = [failures EXCEPT ![Current(p)] = @ + 1]
    /\ at' = [at EXCEPT ![p] = "record"]
    /\ UNCHANGED <<table, todo, seen, effects, excuses>>

\* It takes place but its answer is lost: an error without a status.
AnswerLost(p) ==
    /\ at[p] = "dispatch"
    /\ Trouble(Current(p))
    /\ effects' = [effects EXCEPT ![Current(p)] = @ + 1]
    /\ failures' = [failures EXCEPT ![Current(p)] = @ + 1]
    /\ verdict' = [verdict EXCEPT ![p] = "transient"]
    /\ at' = [at EXCEPT ![p] = "record"]
    /\ UNCHANGED <<row, todo, seen>>

\* Mutant: the batch is marked by nobody.
MarkProcessedLater(p) ==
    /\ at[p] = "mark"
    /\ Advance(p)
    /\ UNCHANGED <<table, ghosts>>

MarkProcessed(p) ==
    /\ at[p] = "mark"
    /\ row' = [row EXCEPT ![Current(p)].status = "processed"]
    /\ Advance(p)
    /\ UNCHANGED <<troubles, ghosts>>

\* The same catch handles a failure of markProcessed.
MarkFails(p) ==
    /\ at[p] = "mark"
    /\ Trouble(Current(p))
    /\ failures' = [failures EXCEPT ![Current(p)] = @ + 1]
    /\ verdict' = [verdict EXCEPT ![p] = "transient"]
    /\ at' = [at EXCEPT ![p] = "record"]
    /\ UNCHANGED <<row, todo, seen, effects>>

\* Mutant: attempts are counted one ahead.
ExhaustedEarly(p) ==
    seen[p][Current(p)] + 2 >= MaxAttempts

Exhausted(p) == seen[p][Current(p)] + 1 >= MaxAttempts
GivenUp(p) == verdict[p] # "transient" \/ Exhausted(p)

DeadLetter(p) ==
    /\ at[p] = "record"
    /\ GivenUp(p)
    /\ row' = [row EXCEPT ![Current(p)] =
                  [@ EXCEPT !.status = "dead_letter",
                            !.attempts = seen[p][Current(p)] + 1,
                            !.kind = verdict[p],
                            !.due = TRUE]]
    /\ Advance(p)
    /\ UNCHANGED <<troubles, ghosts>>

ScheduleRetry(p) ==
    /\ at[p] = "record"
    /\ ~GivenUp(p)
    /\ row' = [row EXCEPT ![Current(p)] =
                  [@ EXCEPT !.status = "pending",
                            !.attempts = seen[p][Current(p)] + 1,
                            !.kind = "transient",
                            !.due = FALSE]]
    /\ Advance(p)
    /\ UNCHANGED <<troubles, ghosts>>

\* Neither UPDATE succeeds: the error ends the pass, the rest of the batch
\* waits for another.
RecordFails(p) ==
    /\ at[p] = "record"
    /\ Trouble(Current(p))
    /\ Abandon(p, "idle")
    /\ UNCHANGED <<row, effects, failures>>

Crash(p) ==
    /\ at[p] # "down"
    /\ troubles < MaxTrouble
    /\ troubles' = troubles + 1
    /\ excuses' = [e \in Id |-> excuses[e] + (IF e \in todo[p] THEN 1 ELSE 0)]
    /\ Abandon(p, "down")
    /\ UNCHANGED <<row, effects, failures>>

Restart(p) ==
    /\ at[p] = "down"
    /\ at' = [at EXCEPT ![p] = "idle"]
    /\ UNCHANGED <<table, todo, seen, verdict, ghosts>>

-----------------------------------------------------------------------------
Work(p) ==
    \/ Fetch(p) \/ Dispatch(p) \/ DispatchFails(p) \/ AnswerLost(p)
    \/ MarkProcessed(p) \/ MarkFails(p)
    \/ DeadLetter(p) \/ ScheduleRetry(p) \/ RecordFails(p)

OutboxNext ==
    \/ \E e \in Id : InsertRow(e) \/ FallDue(e) \/ RequeueDeadLetter(e)
    \/ \E p \in Proc : Work(p) \/ Crash(p) \/ Restart(p)

OutboxSpec == OutboxInit /\ [][OutboxNext]_outboxVars

(* A dispatch ends by its HTTP timeout, the poll timer fires again after   *)
(* every pass, a backoff ends, and a process is restarted.                 *)
OutboxFairness ==
    /\ \A p \in Proc : WF_outboxVars(Work(p)) /\ WF_outboxVars(Restart(p))
    /\ \A e \in Id : WF_outboxVars(FallDue(e))

OutboxFairSpec == OutboxSpec /\ OutboxFairness

-----------------------------------------------------------------------------
(* What the outbox promises.                                               *)

\* At least once: a row is marked processed only after its effect took
\* place, whoever marked it and whatever was retried or lost before.
ProcessedTookEffect ==
    \A e \in Id : row[e].status = "processed" => effects[e] > 0

\* The retry budget is not cut short: a row given up as transient really
\* failed MAX_TRANSIENT_ATTEMPTS times, also when processes overwrite each
\* other's attempt counts.
BudgetNotCutShort ==
    \A e \in Id :
        row[e].status = "dead_letter" /\ row[e].kind = "transient"
            => failures[e] >= MaxAttempts

\* An effect is repeated only for a reason: a crash or an answer or UPDATE
\* that was lost, or another process that read the row while it was being
\* dispatched.  Backoff, retries and dead letters alone never repeat one.
RepeatsHaveCause ==
    \A e \in Id : effects[e] <= 1 + excuses[e]

\* Nothing waits for ever: a pending row is processed or handed to the
\* operators, whatever its dispatches do.
RowsSettle ==
    \A e \in Id : row[e].status = "pending" ~> row[e].status # "pending"
=============================================================================
