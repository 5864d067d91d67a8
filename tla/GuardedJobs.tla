----------------------------- MODULE GuardedJobs -----------------------------
(***************************************************************************)
(* BullMQ jobs and the idempotency guard their workers share.              *)
(*                                                                         *)
(* The workers of incoming messages, ticket titles, summaries, duplicates  *)
(* and Plane promotion have one shape: SET processed:<id> NX, run the      *)
(* handler, SET it to "done"; on an error DEL it and rethrow, so that      *)
(* BullMQ tries the job again.  BullMQ itself is external: it hands a      *)
(* waiting job to a worker, gives it back when the worker dies or stalls,  *)
(* ignores an id it already holds, and forgets a job that completed.       *)
(***************************************************************************)
EXTENDS Naturals, FiniteSets

CONSTANTS
    Job,            \* job ids
    Runner,         \* concurrent job slots of the workers, in all processes
    JobAttempts,    \* the job's "attempts": 3, or maxRetry + 1
    DlqAt,          \* attemptsMade from which "failed" writes a dead letter
    MaxStalls,      \* bound: workers that die or stall
    MaxRedis        \* bound: guard writes that fail

ASSUME JobsAssumption ==
    /\ JobAttempts \in Nat \ {0} /\ DlqAt \in Nat
    /\ "none" \notin Runner

VARIABLES
    job,        \* BullMQ's view of each job: its state, attemptsMade, who has
                \* its lock, and whether it was ever found stalled
    guard,      \* the key processed:<id>: "free", "processing" or "done"
    runner,     \* what each slot is doing: the job, and where it is
    stalls,     \* stalls so far
    redis,      \* failed guard writes so far
    dlq,        \* how many entries queue:jobs:dlq holds for each job
    runs,       \* ghost: how often the handler ran to its end
    sent,       \* ghost: how often the job was added
    remarks     \* ghost: how often writing "done" failed or the key expired

jobVars == <<job, guard, runner, stalls, redis, dlq, runs, sent, remarks>>

Nobody == [job |-> "none", at |-> "idle"]
Unknown == [state |-> "unknown", made |-> 0, lock |-> "none", stalled |-> FALSE]
Waiting == [Unknown EXCEPT !.state = "waiting"]

JobsTypeOK ==
    /\ job \in [Job -> [state: {"unknown", "waiting", "active", "completed", "failed"},
                        made: 0..JobAttempts,
                        lock: {"none"} \cup Runner, stalled: BOOLEAN]]
    /\ guard \in [Job -> {"free", "processing", "done"}]
    /\ runner \in [Runner -> {Nobody} \cup
          [job: Job, at: {"guard", "handler", "mark", "release", "finish", "fail"}]]
    /\ {stalls, redis} \subseteq Nat
    /\ {dlq, runs, sent, remarks} \subseteq [Job -> Nat]

JobsInit ==
    /\ job = [j \in Job |-> Unknown]
    /\ guard = [j \in Job |-> "free"]
    /\ runner = [w \in Runner |-> Nobody]
    /\ stalls = 0
    /\ redis = 0
    /\ dlq = [j \in Job |-> 0]
    /\ runs = [j \in Job |-> 0]
    /\ sent = [j \in Job |-> 0]
    /\ remarks = [j \in Job |-> 0]

Slot(w, j, where) == runner[w] = [job |-> j, at |-> where]
Go(w, j, where) == runner' = [runner EXCEPT ![w] = [job |-> j, at |-> where]]

-----------------------------------------------------------------------------
(* BullMQJobQueue.enqueue: an id the queue holds is ignored.  Twice at     *)
(* most: a request or an outbox row is repeated.                           *)
Add(j) ==
    /\ sent[j] < 2
    /\ sent' = [sent EXCEPT ![j] = @ + 1]
    /\ job' = IF job[j].state \in {"unknown", "completed"}
              THEN [job EXCEPT ![j] = Waiting] ELSE job
    /\ UNCHANGED <<guard, runner, stalls, redis, dlq, runs, remarks>>

Take(w, j) ==
    /\ runner[w] = Nobody
    /\ job[j].state = "waiting"
    /\ job' = [job EXCEPT ![j].state = "active", ![j].lock = w]
    /\ Go(w, j, "guard")
    /\ UNCHANGED <<guard, stalls, redis, dlq, runs, sent, remarks>>

\* Mutant: only a running job is bypassed.
TryGuardUnlessBusy(w, j) ==
    /\ Slot(w, j, "guard")
    /\ IF guard[j] # "processing"
       THEN /\ guard' = [guard EXCEPT ![j] = "processing"]
            /\ Go(w, j, "handler")
       ELSE /\ Go(w, j, "finish")
            /\ UNCHANGED guard
    /\ UNCHANGED <<job, stalls, redis, dlq, runs, sent, remarks>>

\* SET key "processing" NX: held by somebody else, the job is bypassed.
TryGuard(w, j) ==
    /\ Slot(w, j, "guard")
    /\ IF guard[j] = "free"
       THEN /\ guard' = [guard EXCEPT ![j] = "processing"]
            /\ Go(w, j, "handler")
       ELSE /\ Go(w, j, "finish")
            /\ UNCHANGED guard
    /\ UNCHANGED <<job, stalls, redis, dlq, runs, sent, remarks>>

HandlerEnds(w, j) ==
    /\ Slot(w, j, "handler")
    /\ runs' = [runs EXCEPT ![j] = @ + 1]
    /\ Go(w, j, "mark")
    /\ UNCHANGED <<job, guard, stalls, redis, dlq, sent, remarks>>

HandlerThrows(w, j) ==
    /\ Slot(w, j, "handler")
    /\ Go(w, j, "release")
    /\ UNCHANGED <<job, guard, stalls, redis, dlq, runs, sent, remarks>>

MarkDone(w, j) ==
    /\ Slot(w, j, "mark")
    /\ guard' = [guard EXCEPT ![j] = "done"]
    /\ Go(w, j, "finish")
    /\ UNCHANGED <<job, stalls, redis, dlq, runs, sent, remarks>>

\* The catch handles this like an error of the handler.
MarkDoneFails(w, j) ==
    /\ Slot(w, j, "mark")
    /\ redis < MaxRedis
    /\ redis' = redis + 1
    /\ remarks' = [remarks EXCEPT ![j] = @ + 1]
    /\ Go(w, j, "release")
    /\ UNCHANGED <<job, guard, stalls, dlq, runs, sent>>

\* Mutant: the key is left in place.
ReleaseNothing(w, j) ==
    /\ Slot(w, j, "release")
    /\ Go(w, j, "fail")
    /\ UNCHANGED <<job, guard, stalls, redis, dlq, runs, sent, remarks>>

\* DEL, whoever set the key, and rethrow.
Release(w, j) ==
    /\ Slot(w, j, "release")
    /\ guard' = [guard EXCEPT ![j] = "free"]
    /\ Go(w, j, "fail")
    /\ UNCHANGED <<job, stalls, redis, dlq, runs, sent, remarks>>

\* The DEL fails as well: the error is rethrown with the key in place.
ReleaseFails(w, j) ==
    /\ Slot(w, j, "release")
    /\ redis < MaxRedis
    /\ redis' = redis + 1
    /\ Go(w, j, "fail")
    /\ UNCHANGED <<job, guard, stalls, dlq, runs, sent, remarks>>

-----------------------------------------------------------------------------
(* BullMQ's side of a job's end.  A slot that lost the job is ignored.     *)

Complete(w, j) ==
    /\ Slot(w, j, "finish")
    /\ runner' = [runner EXCEPT ![w] = Nobody]
    /\ job' = IF job[j].lock = w
              THEN [job EXCEPT ![j].state = "completed", ![j].lock = "none"] ELSE job
    /\ UNCHANGED <<guard, stalls, redis, dlq, runs, sent, remarks>>

\* Mutant: one attempt too many.
FailJobOnceMore(w, j) ==
    /\ Slot(w, j, "fail")
    /\ runner' = [runner EXCEPT ![w] = Nobody]
    /\ IF job[j].lock = w
       THEN LET made == job[j].made + 1 IN
            /\ job' = [job EXCEPT ![j].made = made, ![j].lock = "none",
                                  ![j].state = IF made <= JobAttempts
                                               THEN "waiting" ELSE "failed"]
            /\ dlq' = [dlq EXCEPT ![j] = @ + (IF made >= DlqAt THEN 1 ELSE 0)]
       ELSE UNCHANGED <<job, dlq>>
    /\ UNCHANGED <<guard, stalls, redis, runs, sent, remarks>>

\* attemptsMade grows; the "failed" listener writes the dead letter when it
\* has reached three.
FailJob(w, j) ==
    /\ Slot(w, j, "fail")
    /\ runner' = [runner EXCEPT ![w] = Nobody]
    /\ IF job[j].lock = w
       THEN LET made == job[j].made + 1 IN
            /\ job' = [job EXCEPT ![j].made = made, ![j].lock = "none",
                                  ![j].state = IF made < JobAttempts
                                               THEN "waiting" ELSE "failed"]
            /\ dlq' = [dlq EXCEPT ![j] = @ + (IF made >= DlqAt THEN 1 ELSE 0)]
       ELSE UNCHANGED <<job, dlq>>
    /\ UNCHANGED <<guard, stalls, redis, runs, sent, remarks>>

\* BullMQ finds the lock of w's job expired: the first time the job is given
\* back, the second time it is failed.
Stalled(w) ==
    LET j == runner[w].job IN
    job' = IF job[j].lock # w THEN job
           ELSE [job EXCEPT ![j].stalled = TRUE, ![j].lock = "none",
                            ![j].state = IF job[j].stalled THEN "failed" ELSE "waiting"]

\* The process dies.
WorkerDies(w) ==
    /\ runner[w] # Nobody
    /\ stalls < MaxStalls
    /\ stalls' = stalls + 1
    /\ runner' = [runner EXCEPT ![w] = Nobody]
    /\ Stalled(w)
    /\ UNCHANGED <<guard, redis, dlq, runs, sent, remarks>>

\* The process blocks its event loop past the lock's renewal: the job is
\* given back while the slot goes on.
WorkerStalls(w) ==
    /\ runner[w] # Nobody
    /\ job[runner[w].job].lock = w
    /\ stalls < MaxStalls
    /\ stalls' = stalls + 1
    /\ Stalled(w)
    /\ UNCHANGED <<guard, runner, redis, dlq, runs, sent, remarks>>

\* The key's time to live passes, a day after the job (five minutes for a
\* promotion): nobody is running it any more.
GuardExpires(j) ==
    /\ guard[j] # "free"
    /\ \A w \in Runner : runner[w].job # j
    /\ job[j].state \in {"completed", "failed"}
    /\ guard' = [guard EXCEPT ![j] = "free"]
    /\ remarks' = [remarks EXCEPT ![j] = @ + 1]
    /\ UNCHANGED <<job, runner, stalls, redis, dlq, runs, sent>>

RunnerStep(w, j) ==
    \/ Take(w, j) \/ TryGuard(w, j)
    \/ HandlerEnds(w, j) \/ HandlerThrows(w, j)
    \/ MarkDone(w, j) \/ MarkDoneFails(w, j) \/ Release(w, j) \/ ReleaseFails(w, j)
    \/ Complete(w, j) \/ FailJob(w, j)

JobsNext ==
    \/ \E j \in Job : Add(j) \/ GuardExpires(j)
    \/ \E w \in Runner, j \in Job : RunnerStep(w, j)
    \/ \E w \in Runner : WorkerDies(w) \/ WorkerStalls(w)

JobsSpec == JobsInit /\ [][JobsNext]_jobVars
JobsFairness == \A w \in Runner, j \in Job : WF_jobVars(RunnerStep(w, j))
JobsFairSpec == JobsSpec /\ JobsFairness

-----------------------------------------------------------------------------
\* A handler that ran to its end is not run again for the same id, whatever
\* is repeated, retried or given back, unless its "done" was not written or
\* is forgotten.
HandledOnce == \A j \in Job : runs[j] <= 1 + remarks[j]

\* A job does not end without a trace: every job added is handled, or
\* leaves a dead letter, or a worker was lost while it had one.
NoSilentDrop ==
    \A j \in Job :
        job[j].state \in {"completed", "failed"} /\ stalls = 0 /\ redis = 0
            => runs[j] > 0 \/ dlq[j] > 0

\* A job that waits ends.
JobsEnd ==
    \A j \in Job :
        job[j].state = "waiting" ~> job[j].state \in {"completed", "failed"}
=============================================================================
