------------------------------ MODULE JobProofs ------------------------------
(***************************************************************************)
(* Theorems of the background work: of GuardedJobs, for any number of      *)
(* jobs, slots, stalls and failures of Redis; of WorkItemEvidence, for any *)
(* number of images, attachments, promotions and failures of Plane.        *)
(***************************************************************************)
EXTENDS GuardedJobs, WorkItemEvidence, TLAPS

-----------------------------------------------------------------------------
(* GuardedJobs.                                                            *)

(***************************************************************************)
(* The inductive invariant.                                                *)
(***************************************************************************)

\* A locked job is active, and one that has not failed has tries left.
EntryInv ==
    \A j \in Job :
      /\ job[j].lock # "none" => job[j].state = "active"
      /\ job[j].state # "failed" => job[j].made < JobAttempts

\* A slot that took the guard and has neither left nor given it back.
Inside(w, j) ==
    runner[w].job = j /\ runner[w].at \in {"handler", "mark", "release"}

\* One slot at a time is inside, and the guard is set while one is.
GuardInv ==
    \A j \in Job :
      /\ \A v, w \in Runner : Inside(v, j) /\ Inside(w, j) => v = w
      /\ \A w \in Runner : Inside(w, j) => guard[j] = "processing"

\* While the guard is free or its slot has not run the handler, every run so
\* far is owed to a "done" that was not written or was forgotten.
RunsInv ==
    \A j \in Job :
      /\ guard[j] = "free" => runs[j] <= remarks[j]
      /\ \A w \in Runner :
           Inside(w, j) /\ runner[w].at # "mark" => runs[j] <= remarks[j]
      /\ runs[j] <= 1 + remarks[j]

OnceInv == JobsTypeOK /\ EntryInv /\ GuardInv /\ RunsInv

\* With no worker lost and Redis sound, a slot's job is locked by it, a set
\* guard has a slot inside, and a job that ended was handled or given up.
LockInv ==
    \A w \in Runner : runner[w].at # "idle" =>
        /\ job[runner[w].job].lock = w /\ job[runner[w].job].state = "active"
        /\ runner[w].at \in {"mark", "finish"} => runs[runner[w].job] > 0

TraceInv ==
    \A j \in Job :
      /\ guard[j] = "processing" => \E w \in Runner : Inside(w, j)
      /\ guard[j] = "done" => runs[j] > 0
      /\ job[j].state = "completed" => runs[j] > 0
      /\ job[j].state = "failed" => runs[j] > 0 \/ dlq[j] > 0

Sound == stalls = 0 /\ redis = 0
DropInv == JobsTypeOK /\ EntryInv /\ (Sound => LockInv /\ TraceInv)



Stage == {"guard", "handler", "mark", "release", "finish", "fail"}
Handling == [job: Job, at: Stage]
Entry == [state: {"unknown", "waiting", "active", "completed", "failed"},
          made: 0..JobAttempts, lock: {"none"} \cup Runner, stalled: BOOLEAN]

LEMMA Types ==
  JobsTypeOK <=>
    /\ job \in [Job -> Entry]
    /\ guard \in [Job -> {"free", "processing", "done"}]
    /\ runner \in [Runner -> {Nobody} \cup Handling]
    /\ stalls \in Nat /\ redis \in Nat
    /\ dlq \in [Job -> Nat] /\ runs \in [Job -> Nat]
    /\ sent \in [Job -> Nat] /\ remarks \in [Job -> Nat]
  BY DEF JobsTypeOK, Entry, Handling, Stage

LEMMA TypesNext ==
  JobsTypeOK' <=>
    /\ job' \in [Job -> Entry]
    /\ guard' \in [Job -> {"free", "processing", "done"}]
    /\ runner' \in [Runner -> {Nobody} \cup Handling]
    /\ stalls' \in Nat /\ redis' \in Nat
    /\ dlq' \in [Job -> Nat] /\ runs' \in [Job -> Nat]
    /\ sent' \in [Job -> Nat] /\ remarks' \in [Job -> Nat]
  BY DEF JobsTypeOK, Entry, Handling, Stage

\* What a slot that moves, and one that is emptied, do to the slots.
LEMMA Goes ==
  ASSUME JobsTypeOK, NEW w \in Runner, NEW j \in Job, NEW where \in Stage, Go(w, j, where)
  PROVE  /\ runner' \in [Runner -> {Nobody} \cup Handling]
         /\ runner'[w].job = j /\ runner'[w].at = where
         /\ \A v \in Runner \ {w} : runner'[v] = runner[v]
<1> DEFINE new == [job |-> j, at |-> where]
<1>1. new \in Handling /\ new.job = j /\ new.at = where
  BY DEF Handling
<1>2. runner' = [runner EXCEPT ![w] = new]
  BY DEF Go
<1> HIDE DEF new
<1> QED
  BY <1>1, <1>2, Types

LEMMA Empties ==
  ASSUME JobsTypeOK, NEW w \in Runner, runner' = [runner EXCEPT ![w] = Nobody]
  PROVE  /\ runner' \in [Runner -> {Nobody} \cup Handling]
         /\ runner'[w].at = "idle"
         /\ \A v \in Runner \ {w} : runner'[v] = runner[v]
<1>1. Nobody.at = "idle"
  BY DEF Nobody
<1>2. runner'[w] = Nobody
  BY Types
<1> QED
  BY <1>1, <1>2, Types

LEMMA SlotAt ==
  ASSUME NEW w \in Runner, NEW j \in Job, NEW where, Slot(w, j, where)
  PROVE  runner[w].job = j /\ runner[w].at = where
  BY DEF Slot

(***************************************************************************)
(* Type correctness.                                                       *)
(***************************************************************************)
Good(r) ==
    /\ r \in Entry
    /\ r.lock # "none" => r.state = "active"
    /\ r.state # "failed" => r.made < JobAttempts

LEMMA EntriesGood == JobsTypeOK /\ EntryInv => \A j \in Job : Good(job[j])
  BY Types DEF EntryInv, Good

\* A step changes one good entry, at most, into a good one.
LEMMA EntryStep ==
  ASSUME JobsTypeOK, EntryInv, NEW j \in Job, NEW new, Good(new),
         job' = job \/ job' = [job EXCEPT ![j] = new]
  PROVE  job' \in [Job -> Entry] /\ EntryInv'
  BY Types, EntriesGood DEF EntryInv, Good

LEMMA TypeInit == JobsInit => JobsTypeOK /\ EntryInv
<1>1. Unknown \in Entry /\ Unknown.lock = "none" /\ Unknown.made = 0
  BY JobsAssumption DEF Unknown, Entry
<1> QED
  BY <1>1, Types, JobsAssumption DEF JobsInit, EntryInv

LEMMA StalledType ==
  ASSUME JobsTypeOK, EntryInv, NEW w \in Runner, runner[w] # Nobody, Stalled(w)
  PROVE  job' \in [Job -> Entry] /\ EntryInv'
<1> DEFINE j == runner[w].job
           new == [job[j] EXCEPT !.stalled = TRUE, !.lock = "none",
                                 !.state = IF job[j].stalled THEN "failed" ELSE "waiting"]
<1>1. j \in Job /\ Good(job[j])
  BY Types, EntriesGood DEF Handling
<1>2. job' = IF job[j].lock # w THEN job ELSE [job EXCEPT ![j] = new]
  BY <1>1, Types DEF Stalled, Entry
<1>3. job[j].lock = w => Good(new)
  BY <1>1, JobsAssumption DEF Good, Entry
<1> HIDE DEF new
<1> QED
  BY <1>1, <1>2, <1>3, Types, EntryStep

\* What BullMQ makes of a job whose try failed.
Failed(r) ==
    [r EXCEPT !.made = r.made + 1, !.lock = "none",
              !.state = IF r.made + 1 < JobAttempts THEN "waiting" ELSE "failed"]

LEMMA FailJobType ==
  ASSUME JobsTypeOK, EntryInv, NEW w \in Runner, NEW j \in Job, FailJob(w, j)
  PROVE  /\ job' \in [Job -> Entry] /\ EntryInv' /\ dlq' \in [Job -> Nat]
         /\ job' = IF job[j].lock = w THEN [job EXCEPT ![j] = Failed(job[j])] ELSE job
<1>1. Good(job[j])
  BY EntriesGood
<1>2. job' = IF job[j].lock = w THEN [job EXCEPT ![j] = Failed(job[j])] ELSE job
  BY <1>1, Types DEF FailJob, Failed, Good, Entry
<1>3. job[j].lock = w => Good(Failed(job[j]))
  <2> SUFFICES ASSUME job[j].lock = w PROVE Good(Failed(job[j]))
    OBVIOUS
  <2> DEFINE made == job[j].made + 1
             state == IF made < JobAttempts THEN "waiting" ELSE "failed"
  <2>1. job[j].made < JobAttempts /\ job[j].made \in Nat
    BY <1>1, JobsAssumption DEF Good, Entry
  <2>2. made \in 0..JobAttempts /\ (state # "failed" => made < JobAttempts)
    BY <2>1, JobsAssumption
  <2>3. state \in {"waiting", "failed"} /\ Failed(job[j])
          = [job[j] EXCEPT !.made = made, !.lock = "none", !.state = state]
    BY DEF Failed
  <2> HIDE DEF made, state
  <2> QED
    BY <1>1, <2>2, <2>3 DEF Good, Entry
<1>4. dlq' \in [Job -> Nat]
  BY Types, <1>1, JobsAssumption DEF FailJob, Good, Entry
<1> QED
  BY <1>1, <1>2, <1>3, <1>4, EntryStep

LEMMA TypeStep ==
  ASSUME JobsTypeOK, EntryInv, [JobsNext]_jobVars
  PROVE  JobsTypeOK' /\ EntryInv'
<1> USE DEF Stage
<1>1. ASSUME NEW j \in Job, Add(j) PROVE JobsTypeOK' /\ EntryInv'
  <2>1. Good(Waiting)
    <3>1. 0 \in 0..JobAttempts /\ 0 < JobAttempts
      BY JobsAssumption
    <3>2. Unknown \in Entry /\ Unknown.made = 0 /\ Unknown.lock = "none"
      BY <3>1 DEF Unknown, Entry
    <3> QED
      BY <3>1, <3>2 DEF Waiting, Good, Entry
  <2>2. job' \in [Job -> Entry] /\ EntryInv'
    BY <1>1, <2>1, EntriesGood, EntryStep DEF Add
  <2> QED
    BY <1>1, <2>2, Types, TypesNext DEF Add
<1>2. ASSUME NEW j \in Job, GuardExpires(j) PROVE JobsTypeOK' /\ EntryInv'
  BY <1>2, Types, TypesNext DEF GuardExpires, EntryInv
<1>3. ASSUME NEW w \in Runner, WorkerDies(w) PROVE JobsTypeOK' /\ EntryInv'
  <2>1. job' \in [Job -> Entry] /\ EntryInv'
    BY <1>3, StalledType DEF WorkerDies
  <2>2. runner' \in [Runner -> {Nobody} \cup Handling]
    BY <1>3, Empties DEF WorkerDies
  <2> QED
    BY <1>3, <2>1, <2>2, Types, TypesNext DEF WorkerDies
<1>4. ASSUME NEW w \in Runner, WorkerStalls(w) PROVE JobsTypeOK' /\ EntryInv'
  <2>1. job' \in [Job -> Entry] /\ EntryInv'
    BY <1>4, StalledType DEF WorkerStalls
  <2> QED
    BY <1>4, <2>1, Types, TypesNext DEF WorkerStalls
<1>5. ASSUME NEW w \in Runner, NEW j \in Job, Take(w, j) PROVE JobsTypeOK' /\ EntryInv'
  <2> DEFINE new == [job[j] EXCEPT !.state = "active", !.lock = w]
  <2>1. Good(new) /\ job' = [job EXCEPT ![j] = new]
    BY <1>5, EntriesGood, Types, TypesNext DEF Take, Good, Entry
  <2> HIDE DEF new
  <2>2. job' \in [Job -> Entry] /\ EntryInv'
    BY <2>1, EntryStep
  <2>3. runner' \in [Runner -> {Nobody} \cup Handling]
    BY <1>5, Goes DEF Take
  <2> QED
    BY <1>5, <2>2, <2>3, Types, TypesNext DEF Take
<1>6. ASSUME NEW w \in Runner, NEW j \in Job, TryGuard(w, j) PROVE JobsTypeOK' /\ EntryInv'
  <2>1. runner' \in [Runner -> {Nobody} \cup Handling]
    BY <1>6, Goes DEF TryGuard
  <2> QED
    BY <1>6, <2>1, Types, TypesNext DEF TryGuard, EntryInv
<1>7. ASSUME NEW w \in Runner, NEW j \in Job,
             HandlerEnds(w, j) \/ HandlerThrows(w, j) \/ MarkDone(w, j) \/ MarkDoneFails(w, j)
               \/ Release(w, j) \/ ReleaseFails(w, j)
      PROVE  JobsTypeOK' /\ EntryInv'
  <2>1. runner' \in [Runner -> {Nobody} \cup Handling]
    BY <1>7, Goes DEF HandlerEnds, HandlerThrows, MarkDone, MarkDoneFails,
              Release, ReleaseFails
  <2>2. UNCHANGED <<job, stalls, dlq, sent>>
    BY <1>7 DEF HandlerEnds, HandlerThrows, MarkDone, MarkDoneFails,
              Release, ReleaseFails
  <2>3. EntryInv'
    BY <2>2 DEF EntryInv
  <2>4. guard' \in [Job -> {"free", "processing", "done"}]
    BY <1>7, Types, TypesNext DEF HandlerEnds, HandlerThrows, MarkDone, MarkDoneFails,
              Release, ReleaseFails
  <2>5. redis' \in Nat /\ runs' \in [Job -> Nat] /\ remarks' \in [Job -> Nat]
    BY <1>7, Types, TypesNext DEF HandlerEnds, HandlerThrows, MarkDone, MarkDoneFails,
              Release, ReleaseFails
  <2> QED
    BY <2>1, <2>2, <2>3, <2>4, <2>5, Types, TypesNext
<1>8. ASSUME NEW w \in Runner, NEW j \in Job, Complete(w, j) PROVE JobsTypeOK' /\ EntryInv'
  <2> DEFINE new == [job[j] EXCEPT !.state = "completed", !.lock = "none"]
  <2>1. job' = IF job[j].lock = w THEN [job EXCEPT ![j] = new] ELSE job
    BY <1>8, Types, TypesNext DEF Complete, Entry
  <2>2. job[j].lock = w => Good(new)
    BY EntriesGood, JobsAssumption DEF Good, Entry
  <2> HIDE DEF new
  <2>3. job' \in [Job -> Entry] /\ EntryInv'
    BY <2>1, <2>2, EntriesGood, EntryStep
  <2>4. runner' \in [Runner -> {Nobody} \cup Handling]
    BY <1>8, Empties DEF Complete
  <2> QED
    BY <1>8, <2>3, <2>4, Types, TypesNext DEF Complete
<1>9. ASSUME NEW w \in Runner, NEW j \in Job, FailJob(w, j) PROVE JobsTypeOK' /\ EntryInv'
  <2>1. runner' \in [Runner -> {Nobody} \cup Handling]
    BY <1>9, Empties DEF FailJob
  <2>2. job' \in [Job -> Entry] /\ EntryInv' /\ dlq' \in [Job -> Nat]
    BY <1>9, FailJobType
  <2> QED
    BY <1>9, <2>1, <2>2, Types, TypesNext DEF FailJob
<1>10. CASE UNCHANGED jobVars
  BY <1>10 DEF jobVars, JobsTypeOK, EntryInv
<1> QED
  BY <1>1, <1>2, <1>3, <1>4, <1>5, <1>6, <1>7, <1>8, <1>9, <1>10 DEF JobsNext, RunnerStep

(***************************************************************************)
(* The guard: HandledOnce.                                                 *)
(***************************************************************************)

\* A step that leaves the guard, the runs and every slot inside as they are.
LEMMA OutsideStep ==
  ASSUME GuardInv, RunsInv, UNCHANGED <<guard, runs, remarks>>,
         \A w \in Runner, j \in Job :
           Inside(w, j)' => Inside(w, j) /\ runner'[w] = runner[w]
  PROVE  GuardInv' /\ RunsInv'
  BY DEF GuardInv, RunsInv

LEMMA OnceStep ==
  ASSUME OnceInv, [JobsNext]_jobVars
  PROVE  OnceInv'
<1> USE DEF Stage
<1>0. JobsTypeOK /\ EntryInv /\ GuardInv /\ RunsInv /\ JobsTypeOK' /\ EntryInv'
  BY TypeStep DEF OnceInv
<1> SUFFICES GuardInv' /\ RunsInv'
  BY <1>0 DEF OnceInv
<1>1. ASSUME NEW j \in Job, Add(j) PROVE GuardInv' /\ RunsInv'
  BY <1>0, <1>1, OutsideStep DEF Add, Inside
<1>2. ASSUME NEW j \in Job, GuardExpires(j) PROVE GuardInv' /\ RunsInv'
  <2>1. /\ \A w \in Runner : ~Inside(w, j)
        /\ UNCHANGED <<runner, runs>>
    BY <1>2 DEF GuardExpires, Inside
  <2>2. GuardInv'
    BY <1>0, <1>2, <2>1, Types DEF GuardExpires, GuardInv, Inside
  <2>3. remarks' = [remarks EXCEPT ![j] = @ + 1] /\ guard' = [guard EXCEPT ![j] = "free"]
    BY <1>2 DEF GuardExpires
  <2>4. ASSUME NEW k \in Job PROVE runs'[k] <= 1 + remarks'[k]
    BY <1>0, <2>1, <2>3, Types DEF RunsInv
  <2>5. ASSUME NEW k \in Job, guard'[k] = "free" PROVE runs'[k] <= remarks'[k]
    BY <1>0, <2>1, <2>3, <2>5, Types DEF RunsInv
  <2>6. ASSUME NEW k \in Job, NEW w \in Runner, Inside(w, k)', runner'[w].at # "mark"
        PROVE  runs'[k] <= remarks'[k]
    BY <1>0, <2>1, <2>3, <2>6, Types DEF RunsInv, Inside
  <2> QED
    BY <2>2, <2>4, <2>5, <2>6 DEF RunsInv
<1>3. ASSUME NEW w \in Runner, WorkerDies(w) PROVE GuardInv' /\ RunsInv'
  <2>1. /\ UNCHANGED <<guard, runs, remarks>>
        /\ runner'[w].at = "idle" /\ \A v \in Runner \ {w} : runner'[v] = runner[v]
    BY <1>0, <1>3, Empties DEF WorkerDies
  <2> QED
    BY <1>0, <2>1, OutsideStep DEF Inside
<1>4. ASSUME NEW w \in Runner, WorkerStalls(w) PROVE GuardInv' /\ RunsInv'
  BY <1>0, <1>4, OutsideStep DEF WorkerStalls, Inside
<1>5. ASSUME NEW w \in Runner, NEW j \in Job, Take(w, j) PROVE GuardInv' /\ RunsInv'
  <2>1. /\ UNCHANGED <<guard, runs, remarks>>
        /\ runner'[w].at = "guard" /\ \A v \in Runner \ {w} : runner'[v] = runner[v]
    BY <1>0, <1>5, Goes DEF Take
  <2> QED
    BY <1>0, <2>1, OutsideStep DEF Inside
<1>6. ASSUME NEW w \in Runner, NEW j \in Job, TryGuard(w, j) PROVE GuardInv' /\ RunsInv'
  <2>1. CASE guard[j] # "free"
    <3>1. /\ UNCHANGED <<guard, runs, remarks>>
          /\ runner'[w].at = "finish" /\ \A v \in Runner \ {w} : runner'[v] = runner[v]
      BY <1>0, <1>6, <2>1, Goes DEF TryGuard
    <3> QED
      BY <1>0, <3>1, OutsideStep DEF Inside
  <2>2. CASE guard[j] = "free"
    <3>1. /\ runner'[w].job = j /\ runner'[w].at = "handler"
          /\ \A v \in Runner \ {w} : runner'[v] = runner[v]
          /\ guard' = [guard EXCEPT ![j] = "processing"] /\ UNCHANGED <<runs, remarks>>
      BY <1>0, <1>6, <2>2, Goes DEF TryGuard
    <3>2. \A v \in Runner : ~Inside(v, j)
      BY <1>0, <2>2 DEF GuardInv
    <3>3. GuardInv'
      BY <1>0, <3>1, <3>2, Types DEF GuardInv, Inside
    <3>4. RunsInv'
      BY <1>0, <2>2, <3>1, <3>2, Types DEF RunsInv, Inside
    <3> QED
      BY <3>3, <3>4
  <2> QED
    BY <2>1, <2>2
<1>7. ASSUME NEW w \in Runner, NEW j \in Job, HandlerEnds(w, j) PROVE GuardInv' /\ RunsInv'
  <2>1. /\ runner'[w].job = j /\ runner'[w].at = "mark"
        /\ \A v \in Runner \ {w} : runner'[v] = runner[v]
        /\ runs' = [runs EXCEPT ![j] = @ + 1] /\ UNCHANGED <<guard, remarks>>
    BY <1>0, <1>7, Goes DEF HandlerEnds
  <2>2. runner[w].job = j /\ runner[w].at = "handler" /\ Inside(w, j)
    BY <1>7, SlotAt DEF HandlerEnds, Inside
  <2>3. GuardInv'
    BY <1>0, <2>1, <2>2 DEF GuardInv, Inside
  <2>4. guard[j] = "processing" /\ runs[j] <= remarks[j]
    BY <1>0, <2>2 DEF GuardInv, RunsInv
  <2>5. RunsInv'
    BY <1>0, <2>1, <2>2, <2>4, Types DEF RunsInv, GuardInv, Inside
  <2> QED
    BY <2>3, <2>5
<1>8. ASSUME NEW w \in Runner, NEW j \in Job, HandlerThrows(w, j) PROVE GuardInv' /\ RunsInv'
  <2>1. /\ runner'[w].job = j /\ runner'[w].at = "release"
        /\ \A v \in Runner \ {w} : runner'[v] = runner[v]
        /\ UNCHANGED <<guard, runs, remarks>>
    BY <1>0, <1>8, Goes DEF HandlerThrows
  <2>2. runner[w].job = j /\ runner[w].at = "handler" /\ Inside(w, j)
    BY <1>8, SlotAt DEF HandlerThrows, Inside
  <2>3. GuardInv'
    BY <1>0, <2>1, <2>2 DEF GuardInv, Inside
  <2>4. RunsInv'
    BY <1>0, <2>1, <2>2 DEF RunsInv, Inside
  <2> QED
    BY <2>3, <2>4
<1>9. ASSUME NEW w \in Runner, NEW j \in Job, MarkDone(w, j) PROVE GuardInv' /\ RunsInv'
  <2>1. /\ runner'[w].at = "finish" /\ \A v \in Runner \ {w} : runner'[v] = runner[v]
        /\ guard' = [guard EXCEPT ![j] = "done"] /\ UNCHANGED <<runs, remarks>>
    BY <1>0, <1>9, Goes DEF MarkDone
  <2>2. Inside(w, j)
    BY <1>9, SlotAt DEF MarkDone, Inside
  <2>3. GuardInv'
    BY <1>0, <2>1, <2>2, Types DEF GuardInv, Inside
  <2>4. RunsInv'
    BY <1>0, <2>1, <2>2, Types DEF RunsInv, Inside
  <2> QED
    BY <2>3, <2>4
<1>10. ASSUME NEW w \in Runner, NEW j \in Job, MarkDoneFails(w, j) PROVE GuardInv' /\ RunsInv'
  <2>1. /\ runner'[w].job = j /\ runner'[w].at = "release"
        /\ \A v \in Runner \ {w} : runner'[v] = runner[v]
        /\ remarks' = [remarks EXCEPT ![j] = @ + 1] /\ UNCHANGED <<guard, runs>>
    BY <1>0, <1>10, Goes DEF MarkDoneFails
  <2>2. Inside(w, j)
    BY <1>10, SlotAt DEF MarkDoneFails, Inside
  <2>3. GuardInv'
    BY <1>0, <2>1, <2>2 DEF GuardInv, Inside
  <2>4. \A k \in Job : runs[k] \in Nat /\ remarks[k] \in Nat
    BY <1>0, Types
  <2>5. \A k \in Job : remarks'[k] = IF k = j THEN remarks[k] + 1 ELSE remarks[k]
    BY <1>0, <2>1, Types
  <2>6. RunsInv'
    BY <1>0, <2>1, <2>2, <2>4, <2>5 DEF RunsInv, Inside
  <2> QED
    BY <2>3, <2>6
<1>11. ASSUME NEW w \in Runner, NEW j \in Job, Release(w, j) PROVE GuardInv' /\ RunsInv'
  <2>1. /\ runner'[w].at = "fail" /\ \A v \in Runner \ {w} : runner'[v] = runner[v]
        /\ guard' = [guard EXCEPT ![j] = "free"] /\ UNCHANGED <<runs, remarks>>
    BY <1>0, <1>11, Goes DEF Release
  <2>2. Inside(w, j) /\ runner[w].at = "release"
    BY <1>11, SlotAt DEF Release, Inside
  <2>3. GuardInv'
    BY <1>0, <2>1, <2>2, Types DEF GuardInv, Inside
  <2>4. runs[j] <= remarks[j]
    BY <1>0, <2>2 DEF RunsInv
  <2>5. RunsInv'
    BY <1>0, <2>1, <2>2, <2>4, Types DEF RunsInv, Inside
  <2> QED
    BY <2>3, <2>5
<1>12. ASSUME NEW w \in Runner, NEW j \in Job, ReleaseFails(w, j) PROVE GuardInv' /\ RunsInv'
  <2>1. /\ UNCHANGED <<guard, runs, remarks>>
        /\ runner'[w].at = "fail" /\ \A v \in Runner \ {w} : runner'[v] = runner[v]
    BY <1>0, <1>12, Goes DEF ReleaseFails
  <2> QED
    BY <1>0, <2>1, OutsideStep DEF Inside
<1>13. ASSUME NEW w \in Runner, NEW j \in Job, Complete(w, j) \/ FailJob(w, j)
       PROVE  GuardInv' /\ RunsInv'
  <2>1. /\ UNCHANGED <<guard, runs, remarks>>
        /\ runner'[w].at = "idle" /\ \A v \in Runner \ {w} : runner'[v] = runner[v]
    BY <1>0, <1>13, Empties DEF Complete, FailJob
  <2> QED
    BY <1>0, <2>1, OutsideStep DEF Inside
<1>14. CASE UNCHANGED jobVars
  BY <1>0, <1>14 DEF jobVars, GuardInv, RunsInv, Inside
<1> QED
  BY <1>1, <1>2, <1>3, <1>4, <1>5, <1>6, <1>7, <1>8, <1>9, <1>10, <1>11, <1>12, <1>13, <1>14
     DEF JobsNext, RunnerStep

LEMMA OnceInductive == JobsSpec => []OnceInv
<1>1. JobsInit => OnceInv
  <2> SUFFICES ASSUME JobsInit PROVE OnceInv
    OBVIOUS
  <2>1. \A w \in Runner : runner[w].at = "idle"
    BY DEF JobsInit, Nobody
  <2> QED
    BY <2>1, TypeInit DEF JobsInit, OnceInv, GuardInv, RunsInv, Inside
<1> QED
  BY <1>1, OnceStep, PTL DEF JobsSpec

\* A handler that ran to its end is not run again for the same id, unless its
\* "done" was not written or is forgotten (executeWithRetry's guard), however
\* many workers, retries, stalls and redeliveries there are.
THEOREM RunOnce == JobsSpec => []HandledOnce
<1>1. OnceInv => HandledOnce
  BY DEF OnceInv, RunsInv, HandledOnce
<1> QED
  BY <1>1, OnceInductive, PTL

(***************************************************************************)
(* The trace of every job: NoSilentDrop.                                   *)
(***************************************************************************)

\* A slot at work has a job of its own.
LEMMA OwnJob ==
  ASSUME JobsTypeOK, LockInv, NEW v \in Runner, NEW w \in Runner,
         runner[v].at # "idle", runner[w].at # "idle", runner[v].job = runner[w].job
  PROVE  v = w
  BY DEF LockInv

LEMMA AtWork ==
  ASSUME JobsTypeOK, NEW w \in Runner, runner[w].at # "idle"
  PROVE  runner[w].job \in Job
  BY Types DEF Nobody, Handling

\* A slot that moves on with its job.
LEMMA MoveStep ==
  ASSUME JobsTypeOK, LockInv, NEW w \in Runner, NEW j \in Job, NEW where \in Stage,
         runner[w].job = j, runner[w].at # "idle", Go(w, j, where), UNCHANGED job,
         \A k \in Job : runs'[k] >= runs[k],
         where \in {"mark", "finish"} => runs'[j] > 0,
         runs \in [Job -> Nat], runs' \in [Job -> Nat]
  PROVE  LockInv'
<1>1. /\ runner'[w].job = j /\ runner'[w].at = where
      /\ \A v \in Runner \ {w} : runner'[v] = runner[v]
  BY Goes
<1> SUFFICES ASSUME NEW v \in Runner, runner'[v].at # "idle"
             PROVE  /\ job[runner'[v].job].lock = v /\ job[runner'[v].job].state = "active"
                    /\ runner'[v].at \in {"mark", "finish"} => runs'[runner'[v].job] > 0
  BY DEF LockInv
<1>2. CASE v = w
  BY <1>1, <1>2 DEF LockInv
<1>3. CASE v # w
  <2>1. runner'[v] = runner[v] /\ runner[v].job \in Job
    BY <1>1, <1>3, AtWork
  <2>2. runs'[runner[v].job] >= runs[runner[v].job]
    BY <2>1
  <2>3. runs[runner[v].job] \in Nat /\ runs'[runner[v].job] \in Nat
    BY <2>1
  <2> QED
    BY <2>1, <2>2, <2>3 DEF LockInv
<1> QED
  BY <1>2, <1>3

\* A slot that is emptied; its job, if it still had it, is somebody's no more.
LEMMA EndStep ==
  ASSUME JobsTypeOK, LockInv, NEW w \in Runner, NEW j \in Job, NEW new,
         runner[w].job = j, runner[w].at # "idle",
         runner' = [runner EXCEPT ![w] = Nobody], job' = [job EXCEPT ![j] = new],
         UNCHANGED runs
  PROVE  LockInv'
<1>1. runner'[w].at = "idle" /\ \A v \in Runner \ {w} : runner'[v] = runner[v]
  BY Empties
<1>2. \A v \in Runner \ {w} : runner[v].at # "idle" => runner[v].job \in Job \ {j}
  BY OwnJob, AtWork
<1>3. \A k \in Job \ {j} : job'[k] = job[k]
  BY Types
<1> QED
  BY <1>1, <1>2, <1>3 DEF LockInv

LEMMA DropStep ==
  ASSUME DlqAt <= JobAttempts, DropInv, [JobsNext]_jobVars
  PROVE  DropInv'
<1> USE DEF Stage
<1>0. JobsTypeOK /\ EntryInv /\ JobsTypeOK' /\ EntryInv'
  BY TypeStep DEF DropInv
<1>a. Sound' => Sound
  <2>1. stalls \in Nat /\ redis \in Nat
    BY <1>0, Types
  <2>2. ASSUME NEW j \in Job, Add(j) \/ GuardExpires(j) PROVE UNCHANGED <<stalls, redis>>
    BY <2>2 DEF Add, GuardExpires
  <2>3. ASSUME NEW w \in Runner, WorkerDies(w) \/ WorkerStalls(w) PROVE stalls' = stalls + 1
    BY <2>3 DEF WorkerDies, WorkerStalls
  <2>4. ASSUME NEW w \in Runner, NEW j \in Job, RunnerStep(w, j)
        PROVE  stalls' = stalls /\ redis' \in {redis, redis + 1}
    BY <2>4 DEF RunnerStep, Take, TryGuard, HandlerEnds, HandlerThrows, MarkDone,
       MarkDoneFails, Release, ReleaseFails, Complete, FailJob
  <2>5. CASE UNCHANGED jobVars
    BY <2>5 DEF jobVars, Sound
  <2> QED
    BY <2>1, <2>2, <2>3, <2>4, <2>5 DEF JobsNext, Sound
<1> SUFFICES ASSUME Sound' PROVE LockInv' /\ TraceInv'
  BY <1>0 DEF DropInv
<1>b. Sound /\ LockInv /\ TraceInv
  BY <1>a DEF DropInv
<1>c. \A k \in Job : runs[k] \in Nat /\ dlq[k] \in Nat
  BY <1>0, Types
<1>1. ASSUME NEW j \in Job, Add(j) PROVE LockInv' /\ TraceInv'
  <2>1. UNCHANGED <<guard, runner, runs, dlq>>
    BY <1>1 DEF Add
  <2>2. CASE UNCHANGED job
    BY <1>b, <2>1, <2>2 DEF LockInv, TraceInv, Inside
  <2>3. CASE job[j].state \in {"unknown", "completed"} /\ job' = [job EXCEPT ![j] = Waiting]
    <3>1. Waiting.state = "waiting"
      BY DEF Waiting, Unknown
    <3>2. \A w \in Runner : runner[w].at # "idle" => runner[w].job \in Job \ {j}
      BY <1>0, <1>b, <2>3, AtWork DEF LockInv
    <3>3. job'[j].state = "waiting" /\ \A k \in Job \ {j} : job'[k] = job[k]
      BY <1>0, <2>3, <3>1, Types
    <3>4. LockInv'
      BY <1>b, <2>1, <3>2, <3>3 DEF LockInv
    <3>5. TraceInv'
      BY <1>b, <2>1, <3>3 DEF TraceInv, Inside
    <3> QED
      BY <3>4, <3>5
  <2> QED
    BY <1>1, <2>2, <2>3 DEF Add
<1>2. ASSUME NEW j \in Job, GuardExpires(j) PROVE LockInv' /\ TraceInv'
  <2>1. UNCHANGED <<job, runner, runs, dlq>> /\ guard' = [guard EXCEPT ![j] = "free"]
    BY <1>2 DEF GuardExpires
  <2>2. \A k \in Job : guard'[k] = IF k = j THEN "free" ELSE guard[k]
    BY <1>0, <2>1, Types
  <2> QED
    BY <1>b, <2>1, <2>2 DEF LockInv, TraceInv, Inside
<1>3. ASSUME NEW w \in Runner, WorkerDies(w) \/ WorkerStalls(w) PROVE FALSE
  BY <1>0, <1>3, <1>b, Types DEF WorkerDies, WorkerStalls, Sound
<1>4. ASSUME NEW w \in Runner, NEW j \in Job, Take(w, j) PROVE LockInv' /\ TraceInv'
  <2>1. /\ runner'[w].job = j /\ runner'[w].at = "guard"
        /\ \A v \in Runner \ {w} : runner'[v] = runner[v]
        /\ UNCHANGED <<guard, runs, dlq>> /\ runner[w] = Nobody /\ job[j].state = "waiting"
    BY <1>0, <1>4, Goes DEF Take
  <2>2. runner[w].at = "idle"
    BY <2>1 DEF Nobody
  <2>3. /\ job'[j].state = "active" /\ job'[j].lock = w
        /\ \A k \in Job \ {j} : job'[k] = job[k]
    BY <1>0, <1>4, Types DEF Take, Entry
  <2>4. \A v \in Runner \ {w} : runner[v].at # "idle" => runner[v].job \in Job \ {j}
    BY <1>0, <1>b, <2>1, AtWork DEF LockInv
  <2>5. LockInv'
    BY <1>b, <2>1, <2>3, <2>4 DEF LockInv
  <2>6. \A v \in Runner, k \in Job : Inside(v, k) => Inside(v, k)'
    BY <2>1, <2>2 DEF Inside
  <2>7. TraceInv'
    BY <1>b, <2>1, <2>3, <2>6 DEF TraceInv
  <2> QED
    BY <2>5, <2>7
<1>5. ASSUME NEW w \in Runner, NEW j \in Job, TryGuard(w, j) PROVE LockInv' /\ TraceInv'
  <2>0. /\ runner[w].job = j /\ runner[w].at = "guard" /\ UNCHANGED <<job, runs, dlq>>
        /\ ~Inside(w, j)
    BY <1>5, SlotAt DEF TryGuard, Inside
  <2>1. CASE guard[j] = "free"
    <3>1. Go(w, j, "handler") /\ guard' = [guard EXCEPT ![j] = "processing"]
      BY <1>5, <2>1 DEF TryGuard
    <3>2. LockInv'
      BY <1>0, <1>b, <1>c, <2>0, <3>1, MoveStep, Types
    <3>3. /\ runner'[w].job = j /\ runner'[w].at = "handler"
          /\ \A v \in Runner \ {w} : runner'[v] = runner[v]
      BY <1>0, <3>1, Goes
    <3>4. Inside(w, j)' /\ \A v \in Runner, k \in Job : Inside(v, k) => Inside(v, k)'
      BY <2>0, <3>3 DEF Inside
    <3>5. \A k \in Job : guard'[k] = IF k = j THEN "processing" ELSE guard[k]
      BY <1>0, <3>1, Types
    <3>6. TraceInv'
      BY <1>b, <2>0, <3>4, <3>5 DEF TraceInv
    <3> QED
      BY <3>2, <3>6
  <2>2. CASE guard[j] # "free"
    <3>1. Go(w, j, "finish") /\ UNCHANGED guard
      BY <1>5, <2>2 DEF TryGuard
    <3>2. \A v \in Runner : ~Inside(v, j)
      BY <1>0, <1>b, <2>0, OwnJob DEF Inside
    <3>3. runs[j] > 0
      BY <1>0, <1>b, <2>2, <3>2, Types DEF TraceInv
    <3>4. LockInv'
      BY <1>0, <1>b, <1>c, <2>0, <3>1, <3>3, MoveStep, Types
    <3>5. \A v \in Runner \ {w} : runner'[v] = runner[v]
      BY <1>0, <3>1, Goes
    <3>6. \A v \in Runner, k \in Job : Inside(v, k) => Inside(v, k)'
      BY <2>0, <3>5 DEF Inside
    <3>7. TraceInv'
      BY <1>b, <2>0, <3>1, <3>6 DEF TraceInv
    <3> QED
      BY <3>4, <3>7
  <2> QED
    BY <2>1, <2>2
<1>6. ASSUME NEW w \in Runner, NEW j \in Job, HandlerEnds(w, j) \/ HandlerThrows(w, j)
      PROVE  LockInv' /\ TraceInv'
  <2>1. PICK where \in {"mark", "release"} :
          /\ Go(w, j, where) /\ UNCHANGED <<job, guard, dlq>>
          /\ runs' = IF where = "mark" THEN [runs EXCEPT ![j] = @ + 1] ELSE runs
    BY <1>6 DEF HandlerEnds, HandlerThrows
  <2>2. runner[w].job = j /\ runner[w].at = "handler"
    BY <1>6, SlotAt DEF HandlerEnds, HandlerThrows
  <2>3. \A k \in Job : runs'[k] = IF k = j /\ where = "mark" THEN runs[k] + 1 ELSE runs[k]
    BY <1>0, <2>1, Types
  <2>4. LockInv'
    <3>1. \A k \in Job : runs'[k] >= runs[k]
      BY <1>c, <2>3
    <3>2. where \in {"mark", "finish"} => runs'[j] > 0
      BY <1>c, <2>1, <2>3
    <3> QED
      BY <1>0, <1>b, <2>1, <2>2, <3>1, <3>2, MoveStep, Types
  <2>5. runner'[w].job = j /\ runner'[w].at = where
        /\ \A v \in Runner \ {w} : runner'[v] = runner[v]
    BY <1>0, <2>1, Goes
  <2>6. \A v \in Runner, k \in Job : Inside(v, k) => Inside(v, k)'
    BY <2>1, <2>2, <2>5 DEF Inside
  <2>7. TraceInv'
    BY <1>b, <1>c, <2>1, <2>3, <2>6 DEF TraceInv
  <2> QED
    BY <2>4, <2>7
<1>7. ASSUME NEW w \in Runner, NEW j \in Job, MarkDone(w, j) PROVE LockInv' /\ TraceInv'
  <2>1. /\ Go(w, j, "finish") /\ UNCHANGED <<job, runs, dlq>>
        /\ guard' = [guard EXCEPT ![j] = "done"]
    BY <1>7 DEF MarkDone
  <2>2. runner[w].job = j /\ runner[w].at = "mark"
    BY <1>7, SlotAt DEF MarkDone
  <2>3. runs[j] > 0
    BY <1>b, <2>2 DEF LockInv
  <2>4. LockInv'
    BY <1>0, <1>b, <1>c, <2>1, <2>2, <2>3, MoveStep, Types
  <2>5. \A v \in Runner \ {w} : runner'[v] = runner[v]
    BY <1>0, <2>1, Goes
  <2>6. \A v \in Runner, k \in Job \ {j} : Inside(v, k) => Inside(v, k)'
    BY <2>2, <2>5 DEF Inside
  <2>7. \A k \in Job : guard'[k] = IF k = j THEN "done" ELSE guard[k]
    BY <1>0, <2>1, Types
  <2>8. TraceInv'
    BY <1>b, <2>1, <2>3, <2>6, <2>7 DEF TraceInv
  <2> QED
    BY <2>4, <2>8
<1>8. ASSUME NEW w \in Runner, NEW j \in Job, MarkDoneFails(w, j) \/ ReleaseFails(w, j) PROVE FALSE
  BY <1>0, <1>8, <1>b, Types DEF MarkDoneFails, ReleaseFails, Sound
<1>9. ASSUME NEW w \in Runner, NEW j \in Job, Release(w, j) PROVE LockInv' /\ TraceInv'
  <2>1. /\ Go(w, j, "fail") /\ UNCHANGED <<job, runs, dlq>>
        /\ guard' = [guard EXCEPT ![j] = "free"]
    BY <1>9 DEF Release
  <2>2. runner[w].job = j /\ runner[w].at = "release"
    BY <1>9, SlotAt DEF Release
  <2>3. LockInv'
    BY <1>0, <1>b, <1>c, <2>1, <2>2, MoveStep, Types
  <2>4. \A v \in Runner \ {w} : runner'[v] = runner[v]
    BY <1>0, <2>1, Goes
  <2>5. \A v \in Runner, k \in Job \ {j} : Inside(v, k) => Inside(v, k)'
    BY <2>2, <2>4 DEF Inside
  <2>6. \A k \in Job : guard'[k] = IF k = j THEN "free" ELSE guard[k]
    BY <1>0, <2>1, Types
  <2>7. TraceInv'
    BY <1>b, <2>1, <2>5, <2>6 DEF TraceInv
  <2> QED
    BY <2>3, <2>7
<1>10. ASSUME NEW w \in Runner, NEW j \in Job, Complete(w, j) PROVE LockInv' /\ TraceInv'
  <2>1. /\ runner' = [runner EXCEPT ![w] = Nobody] /\ UNCHANGED <<guard, runs, dlq>>
        /\ runner[w].job = j /\ runner[w].at = "finish"
    BY <1>10, SlotAt DEF Complete
  <2>2. job[j].lock = w /\ runs[j] > 0
    BY <1>b, <2>1 DEF LockInv
  <2> DEFINE new == [job[j] EXCEPT !.state = "completed", !.lock = "none"]
  <2>3. job' = [job EXCEPT ![j] = new] /\ new.state = "completed"
    BY <1>0, <1>10, <2>2, Types DEF Complete, Entry
  <2> HIDE DEF new
  <2>4. LockInv'
    BY <1>0, <1>b, <2>1, <2>3, EndStep
  <2>5. \A v \in Runner \ {w} : runner'[v] = runner[v]
    BY <1>0, <2>1, Empties
  <2>6. \A v \in Runner, k \in Job : Inside(v, k) => Inside(v, k)'
    BY <2>1, <2>5 DEF Inside
  <2>7. \A k \in Job : job'[k] = IF k = j THEN new ELSE job[k]
    BY <1>0, <2>3, Types
  <2>8. TraceInv'
    BY <1>b, <2>1, <2>2, <2>3, <2>6, <2>7 DEF TraceInv
  <2> QED
    BY <2>4, <2>8
<1>11. ASSUME NEW w \in Runner, NEW j \in Job, FailJob(w, j) PROVE LockInv' /\ TraceInv'
  <2>1. /\ runner' = [runner EXCEPT ![w] = Nobody] /\ UNCHANGED <<guard, runs>>
        /\ runner[w].job = j /\ runner[w].at = "fail"
    BY <1>11, SlotAt DEF FailJob
  <2>2. job[j].lock = w
    BY <1>b, <2>1 DEF LockInv
  <2>3. job' = [job EXCEPT ![j] = Failed(job[j])]
    BY <1>0, <1>11, <2>2, FailJobType
  <2>4. LockInv'
    BY <1>0, <1>b, <2>1, <2>3, EndStep
  <2>5. job[j] \in Entry
    BY <1>0, Types
  <2>6. Failed(job[j]).state = "failed" => job[j].made + 1 >= JobAttempts
    BY <2>5, JobsAssumption DEF Failed, Entry
  <2>7. /\ dlq' = [dlq EXCEPT ![j] = @ + (IF job[j].made + 1 >= DlqAt THEN 1 ELSE 0)]
    BY <1>11, <2>2 DEF FailJob
  <2>8. Failed(job[j]).state = "failed" => dlq'[j] > 0
    BY <1>0, <1>c, <2>5, <2>6, <2>7, JobsAssumption, Types DEF Entry
  <2>9. \A k \in Job : dlq'[k] >= dlq[k]
    BY <1>0, <1>c, <2>7, Types
  <2>10. Failed(job[j]).state # "completed"
    BY <2>5 DEF Failed, Entry
  <2>11. \A v \in Runner \ {w} : runner'[v] = runner[v]
    BY <1>0, <2>1, Empties
  <2>12. \A v \in Runner, k \in Job : Inside(v, k) => Inside(v, k)'
    BY <2>1, <2>11 DEF Inside
  <2>13. \A k \in Job : job'[k] = IF k = j THEN Failed(job[k]) ELSE job[k]
    BY <1>0, <2>3, Types
  <2>14. \A k \in Job : dlq[k] > 0 => dlq'[k] > 0
    <3>1. \A k \in Job : dlq'[k] \in Nat
      BY <1>0, TypesNext
    <3> QED
      BY <1>c, <2>9, <3>1
  <2>15. TraceInv'
    BY <1>b, <2>1, <2>8, <2>10, <2>12, <2>13, <2>14 DEF TraceInv
  <2> QED
    BY <2>4, <2>15
<1>12. CASE UNCHANGED jobVars
  BY <1>b, <1>12 DEF jobVars, LockInv, TraceInv, Inside
<1> QED
  BY <1>1, <1>2, <1>3, <1>4, <1>5, <1>6, <1>7, <1>8, <1>9, <1>10, <1>11, <1>12
     DEF JobsNext, RunnerStep

\* With no worker lost and Redis sound, a job ends handled or with a dead
\* letter, provided the "failed" listener's three attempts are not more than
\* the job has: for any number of jobs, slots and repeated requests.
THEOREM NothingDropped ==
  ASSUME DlqAt <= JobAttempts
  PROVE  JobsSpec => []NoSilentDrop
<1>1. JobsInit => DropInv
  <2> SUFFICES ASSUME JobsInit PROVE DropInv
    OBVIOUS
  <2>1. /\ \A w \in Runner : runner[w].at = "idle"
        /\ \A j \in Job : job[j].state = "unknown"
    BY DEF JobsInit, Nobody, Unknown
  <2> QED
    BY <2>1, TypeInit DEF JobsInit, DropInv, LockInv, TraceInv
<1>2. DropInv /\ [JobsNext]_jobVars => DropInv'
  BY DropStep
<1>3. DropInv => NoSilentDrop
  BY DEF DropInv, TraceInv, NoSilentDrop, Sound
<1> QED
  BY <1>1, <1>2, <1>3, PTL DEF JobsSpec

-----------------------------------------------------------------------------
(* WorkItemEvidence.                                                       *)

Record == [at: {"new", "create", "select", "upload", "patch", "link", "over"},
           item: {"none"} \cup Item, base: SUBSET Content,
           left: SUBSET Image, urls: SUBSET Image]

\* Handling item i is the only one, and shows all but what is still to be added.
Shows(i, pending) ==
    /\ DOMAIN body = {i} /\ typed \subseteq body[i]
    /\ \A m \in Image : image[m] \in Item => m \in body[i] \cup pending

\* There is no work item, and nothing was added to one.
Empty == DOMAIN body = {} /\ typed = {} /\ \A m \in Image : image[m] \notin Item
Whole == (link = "none" /\ Empty) \/ (link # "none" /\ Shows(link, {}))

\* What the only call under way has found and left so far.
Halfway(c) ==
    LET i == op[c].item IN
    /\ c \in Promotion => link = "none" /\ (op[c].at # "create" => i = c)
    /\ c \in Attach => link = i /\ op[c].at \notin {"create", "link"}
    /\ op[c].at = "create" => Empty
    /\ op[c].at # "create" => i \in Item /\ Shows(i, op[c].urls)
    /\ op[c].at \in {"select", "upload", "patch"} => op[c].base = body[i]
    /\ op[c].at \in {"create", "select", "link"} => op[c].urls = {}
    /\ op[c].at = "upload" => op[c].left # {}

WholeInv ==
    breaks = 0 /\ ~mingled =>
        /\ \A c, d \in Call : Running(c) /\ Running(d) => c = d
        /\ (\A c \in Call : ~Running(c)) => Whole
        /\ \A c \in Call : Running(c) => Halfway(c)
EvidenceInv ==
    /\ EvidenceTypeOK /\ WholeInv
    /\ \A c \in Call : ~Running(c) => op[c].item = "none" /\ op[c].urls = {}
    /\ \A c \in Call : op[c].item \in {"none"} \cup DOMAIN body
    /\ link \in {"none"} \cup DOMAIN body
    /\ \A c \in Call : op[c].at \in {"create", "link"} => c \in Promotion
    /\ \A c \in Call : op[c].at \in {"select", "upload", "patch", "link"} => op[c].item # "none"

LEMMA OpMoves ==
  ASSUME EvidenceTypeOK, NEW c \in Call, NEW k \in Record, op' = [op EXCEPT ![c] = k]
  PROVE  /\ op' \in [Call -> Record] /\ op'[c] = k
         /\ \A d \in Call : d # c => op'[d] = op[d]
BY DEF EvidenceTypeOK, Record

\* The only call under way, or the first one, moves.
LEMMA AloneMoves ==
  ASSUME EvidenceInv, NEW c \in Call, NEW k \in Record, op' = [op EXCEPT ![c] = k],
         breaks' = 0 => breaks = 0, ~mingled' => ~mingled,
         breaks' = 0 /\ ~mingled' => Running(c) \/ \A d \in Call : ~Running(d),
         breaks' = 0 /\ ~mingled' =>
            IF k.at \in {"new", "over"} THEN Whole' ELSE Halfway(c)'
  PROVE  WholeInv'
<1> SUFFICES ASSUME breaks' = 0, ~mingled'
             PROVE  /\ \A d, e \in Call : Running(d)' /\ Running(e)' => d = e
                    /\ (\A d \in Call : ~Running(d)') => Whole'
                    /\ \A d \in Call : Running(d)' => Halfway(d)'
  BY DEF WholeInv
<1>1. /\ op'[c] = k /\ \A d \in Call : d # c => op'[d] = op[d]
  BY OpMoves DEF EvidenceInv
<1>2. \A d \in Call : d # c => ~Running(d)'
  BY <1>1 DEF EvidenceInv, WholeInv, Running
<1>3. Running(c)' <=> k.at \notin {"new", "over"}
  BY <1>1 DEF Running
<1> QED
  BY <1>2, <1>3

\* The items of the calls stay those of work items that exist.
LEMMA ItemsKept ==
  ASSUME EvidenceInv, NEW c \in Call, NEW k \in Record, op' = [op EXCEPT ![c] = k],
         DOMAIN body \subseteq DOMAIN body', link' \in {"none"} \cup DOMAIN body',
         k.at \in {"new", "over"} => k.item = "none" /\ k.urls = {},
         k.item \in {"none"} \cup DOMAIN body',
         k.at \in {"create", "link"} => c \in Promotion,
         k.at \in {"select", "upload", "patch", "link"} => k.item # "none",
         EvidenceTypeOK', WholeInv'
  PROVE  EvidenceInv'
<1>1. /\ op'[c] = k /\ \A d \in Call : d # c => op'[d] = op[d]
  BY OpMoves DEF EvidenceInv
<1> QED
  BY <1>1 DEF EvidenceInv, Running

LEMMA NotStartedType ==
  /\ NotStarted \in Record
  /\ NotStarted.at = "new" /\ NotStarted.item = "none" /\ NotStarted.base = {}
  /\ NotStarted.left = {} /\ NotStarted.urls = {}
BY DEF NotStarted, Record, Content

LEMMA OverType ==
  ASSUME NEW c \in Call, Over(c)
  PROVE  \E k \in Record : /\ op' = [op EXCEPT ![c] = k]
                           /\ k.at = "over" /\ k.item = "none" /\ k.urls = {}
<1> DEFINE k == [NotStarted EXCEPT !.at = "over"]
<1>1. op' = [op EXCEPT ![c] = k]
  BY DEF Over
<1>2. k \in Record /\ k.at = "over" /\ k.item = "none" /\ k.urls = {}
  BY NotStartedType DEF Record
<1> HIDE DEF k
<1> QED
  BY <1>1, <1>2

LEMMA PushedType ==
  ASSUME EvidenceTypeOK, NEW c \in Call, Pushed(c)
  PROVE  \E k \in Record :
           /\ op' = [op EXCEPT ![c] = k] /\ k.urls = {}
           /\ c \in Promotion => k.at = "link" /\ k.item = op[c].item
           /\ c \notin Promotion => k.at = "over" /\ k.item = "none"
<1> DEFINE k == [NotStarted EXCEPT !.at = AfterPush(c), !.item =
                                IF c \in Promotion THEN op[c].item ELSE "none"]
<1>1. op' = [op EXCEPT ![c] = k]
  BY DEF Pushed
<1>2. op[c].item \in {"none"} \cup Item
  BY DEF EvidenceTypeOK
<1>3. /\ k \in Record /\ k.urls = {}
      /\ c \in Promotion => k.at = "link" /\ k.item = op[c].item
      /\ c \notin Promotion => k.at = "over" /\ k.item = "none"
  BY <1>2, NotStartedType DEF Record, AfterPush
<1> HIDE DEF k
<1> QED
  BY <1>1, <1>3

\* A call that failed: only the types are left to promise.
LEMMA FailedStep ==
  ASSUME EvidenceInv, NEW c \in Call, Break, Over(c), EvidenceTypeOK',
         DOMAIN body \subseteq DOMAIN body', UNCHANGED <<link, mingled>>
  PROVE  EvidenceInv'
<1>1. WholeInv'
  BY DEF Break, EvidenceInv, EvidenceTypeOK, WholeInv
<1>2. PICK k \in Record : /\ op' = [op EXCEPT ![c] = k] /\ k.at = "over" /\ k.item = "none"
                          /\ k.urls = {}
  BY OverType
<1> QED
  BY <1>1, <1>2, ItemsKept DEF EvidenceInv

LEMMA FailedType ==
  ASSUME EvidenceInv, NEW c \in Call, Break, Over(c), UNCHANGED <<link, image, typed, mingled>>,
         DOMAIN body' \subseteq Item, \A i \in DOMAIN body' : body'[i] \subseteq Content,
         DOMAIN body \subseteq DOMAIN body'
  PROVE  EvidenceInv'
<1>1. PICK k \in Record : op' = [op EXCEPT ![c] = k]
  BY OverType
<1>2. op' \in [Call -> Record]
  BY <1>1, OpMoves DEF EvidenceInv
<1>3. breaks' \in Nat
  BY DEF EvidenceInv, Break, EvidenceTypeOK
<1>4. EvidenceTypeOK'
  BY <1>2, <1>3 DEF EvidenceInv, EvidenceTypeOK, Record
<1> QED
  BY <1>4, FailedStep

\* A call ends undisturbed, or begins and finds nothing to do.
LEMMA EvidenceEnds ==
  ASSUME EvidenceInv, NEW c \in Call, Over(c), UNCHANGED <<image, typed, body, breaks>>,
         link' \in {"none"} \cup DOMAIN body, mingled' \in BOOLEAN, ~mingled' => ~mingled,
         breaks = 0 /\ ~mingled' =>
           (Running(c) \/ \A d \in Call : ~Running(d)) /\ Whole'
  PROVE  EvidenceInv'
<1>1. PICK k \in Record : /\ op' = [op EXCEPT ![c] = k]
                          /\ k.at = "over" /\ k.item = "none" /\ k.urls = {}
  BY OverType
<1>2. op' \in [Call -> Record]
  BY <1>1, OpMoves DEF EvidenceInv
<1>3. EvidenceTypeOK'
  BY <1>2 DEF EvidenceInv, EvidenceTypeOK, Record
<1>4. WholeInv'
  BY <1>1, AloneMoves
<1> QED
  BY <1>1, <1>3, <1>4, ItemsKept

LEMMA PromoteStep ==
  ASSUME EvidenceInv, NEW c \in Promotion, Promote(c)
  PROVE  EvidenceInv'
<1>1. /\ c \in Call /\ mingled' \in BOOLEAN /\ (~mingled' => ~mingled /\ \A d \in Call : ~Running(d))
      /\ op[c].at = "new" /\ op[c] \in Record /\ UNCHANGED <<link, body, image, typed, breaks>>
      /\ op[c].item = "none" /\ op[c].urls = {}
  BY DEF Promote, Start, EvidenceInv, EvidenceTypeOK, Call, Record, Running
<1>2. breaks = 0 /\ ~mingled' => Whole
  BY <1>1 DEF EvidenceInv, WholeInv
<1>3. CASE link = "none"
  <2> DEFINE k == [op[c] EXCEPT !.at = "create"]
  <2>1. op' = [op EXCEPT ![c] = k]
    BY <1>3 DEF Promote
  <2>2. k \in Record /\ k.at = "create" /\ k.item = "none" /\ k.urls = {}
    BY <1>1 DEF Record
  <2> HIDE DEF k
  <2>3. op' \in [Call -> Record] /\ op'[c] = k
    BY <1>1, <2>1, <2>2, OpMoves DEF EvidenceInv
  <2>4. EvidenceTypeOK'
    BY <1>1, <2>3 DEF EvidenceInv, EvidenceTypeOK, Record
  <2>5. breaks = 0 /\ ~mingled' => Halfway(c)'
    BY <1>1, <1>2, <1>3, <2>2, <2>3, EvidenceAssumption DEF Whole, Halfway, Empty
  <2>6. WholeInv'
    BY <1>1, <2>1, <2>2, <2>5, AloneMoves
  <2> QED
    BY <1>1, <2>1, <2>2, <2>4, <2>6, ItemsKept DEF EvidenceInv
<1>4. CASE link # "none"
  <2>1. Over(c)
    BY <1>4 DEF Promote
  <2>2. breaks = 0 /\ ~mingled' => Whole'
    BY <1>1, <1>2 DEF Whole, Empty, Shows
  <2> QED
    BY <1>1, <2>1, <2>2, EvidenceEnds DEF EvidenceInv
<1> QED
  BY <1>3, <1>4

LEMMA StartAttachStep ==
  ASSUME EvidenceInv, NEW c \in Attach, StartAttach(c)
  PROVE  EvidenceInv'
<1>1. /\ c \in Call /\ mingled' \in BOOLEAN /\ (~mingled' => ~mingled /\ \A d \in Call : ~Running(d))
      /\ op[c].at = "new" /\ op[c] \in Record /\ UNCHANGED <<link, body, image, typed, breaks>>
      /\ op[c].item = "none" /\ c \notin Promotion
  BY EvidenceAssumption DEF StartAttach, Start, EvidenceInv, EvidenceTypeOK, Call, Record, Running
<1>2. breaks = 0 /\ ~mingled' => Whole
  BY <1>1 DEF EvidenceInv, WholeInv
<1>3. CASE link # "none"
  <2> DEFINE k == [op[c] EXCEPT !.at = "select", !.item = link, !.base = body[link]]
  <2>1. op' = [op EXCEPT ![c] = k]
    BY <1>3 DEF StartAttach
  <2>2. link \in Item /\ body[link] \subseteq Content /\ link \in DOMAIN body
    BY <1>3 DEF EvidenceInv, EvidenceTypeOK
  <2>3. /\ k \in Record /\ k.at = "select" /\ k.item = link /\ k.base = body[link]
        /\ k.urls = op[c].urls
    BY <1>1, <2>2 DEF Record
  <2> HIDE DEF k
  <2>4. op' \in [Call -> Record] /\ op'[c] = k
    BY <1>1, <2>1, <2>3, OpMoves DEF EvidenceInv
  <2>5. EvidenceTypeOK'
    BY <1>1, <2>4 DEF EvidenceInv, EvidenceTypeOK, Record
  <2>6. op[c].urls = {}
    BY <1>1 DEF EvidenceInv, Running
  <2>7. breaks = 0 /\ ~mingled' => Halfway(c)'
    BY <1>1, <1>2, <1>3, <2>2, <2>3, <2>4, <2>6, EvidenceAssumption DEF Whole, Halfway, Shows
  <2>8. WholeInv'
    BY <1>1, <2>1, <2>3, <2>7, AloneMoves
  <2> QED
    BY <1>1, <1>3, <2>1, <2>2, <2>3, <2>5, <2>8, ItemsKept DEF EvidenceInv
<1>4. CASE link = "none"
  <2>1. Over(c)
    BY <1>4 DEF StartAttach
  <2>2. breaks = 0 /\ ~mingled' => Whole'
    BY <1>1, <1>2 DEF Whole, Empty, Shows
  <2> QED
    BY <1>1, <2>1, <2>2, EvidenceEnds DEF EvidenceInv
<1> QED
  BY <1>3, <1>4

\* A call under way moves on.
LEMMA EvidenceMoves ==
  ASSUME EvidenceInv, NEW c \in Call, Running(c), NEW k \in Record, op' = [op EXCEPT ![c] = k],
         UNCHANGED <<link, typed, breaks, mingled>>, image' \in [Image -> {"absent", "ready"} \cup Item],
         DOMAIN body \subseteq DOMAIN body', DOMAIN body' \subseteq Item,
         \A i \in DOMAIN body' : body'[i] \subseteq Content,
         k.at \in {"new", "over"} => k.item = "none" /\ k.urls = {},
         k.item \in {"none"} \cup DOMAIN body',
         k.at \in {"create", "link"} => c \in Promotion,
         k.at \in {"select", "upload", "patch", "link"} => k.item # "none",
         breaks = 0 /\ ~mingled /\ Halfway(c) =>
            IF k.at \in {"new", "over"} THEN Whole' ELSE Halfway(c)'
  PROVE  EvidenceInv'
<1>1. op' \in [Call -> Record]
  BY OpMoves DEF EvidenceInv
<1>2. EvidenceTypeOK'
  BY <1>1 DEF EvidenceInv, EvidenceTypeOK, Record
<1>3. breaks = 0 /\ ~mingled => Halfway(c)
  BY DEF EvidenceInv, WholeInv
<1>4. WholeInv'
  BY <1>3, AloneMoves
<1> QED
  BY <1>2, <1>4, ItemsKept DEF EvidenceInv

LEMMA CreateStep ==
  ASSUME EvidenceInv, NEW c \in Promotion, CreateWorkItem(c)
  PROVE  EvidenceInv'
<1> DEFINE k == [op[c] EXCEPT !.at = "select", !.item = c, !.base = {"report"}]
<1>1. /\ c \in Call /\ op[c] \in Record /\ op[c].at = "create" /\ Running(c)
      /\ c # "none" /\ c \in Item
  BY EvidenceAssumption
  DEF CreateWorkItem, EvidenceInv, EvidenceTypeOK, Call, Record, Running, Item
<1>2. op' = [op EXCEPT ![c] = k]
  BY DEF CreateWorkItem
<1>3. /\ k \in Record /\ k.at = "select" /\ k.item = c /\ k.base = {"report"}
      /\ k.urls = op[c].urls
  BY <1>1 DEF Record, Content
<1> HIDE DEF k
<1>4. op'[c] = k
  BY <1>1, <1>2, <1>3, OpMoves DEF EvidenceInv
<1>5. DOMAIN body' = DOMAIN body \cup {c} /\ body'[c] = {"report"}
      /\ \A i \in DOMAIN body' : body'[i] \in {{"report"}, body[i]} /\ (i # c => i \in DOMAIN body)
  BY DEF CreateWorkItem
<1>6. DOMAIN body' \subseteq Item /\ \A i \in DOMAIN body' : body'[i] \subseteq Content
  BY <1>1, <1>5 DEF EvidenceInv, EvidenceTypeOK, Content
<1>7. Halfway(c) => op[c].urls = {}
  BY <1>1 DEF Halfway
<1>8. UNCHANGED <<link, image, typed, breaks, mingled>>
  BY DEF CreateWorkItem
<1>9. Halfway(c) => Halfway(c)'
  <2> SUFFICES ASSUME Halfway(c) PROVE Halfway(c)'
    OBVIOUS
  <2>1. Empty /\ link = "none" /\ c \notin Attach
    BY <1>1, EvidenceAssumption DEF Halfway
  <2> QED
    BY <1>1, <1>3, <1>4, <1>5, <1>8, <2>1, EvidenceAssumption DEF Halfway, Empty, Shows
<1> QED
  BY <1>1, <1>2, <1>3, <1>5, <1>6, <1>8, <1>9, EvidenceMoves DEF EvidenceInv, EvidenceTypeOK

LEMMA PushedStep ==
  ASSUME EvidenceInv, NEW c \in Call, op[c].at \in {"select", "upload", "patch"}, Pushed(c),
         NEW i, i = op[c].item,
         UNCHANGED <<link, typed, breaks, mingled>>, image' \in [Image -> {"absent", "ready"} \cup Item],
         DOMAIN body = DOMAIN body', \A j \in DOMAIN body' : body'[j] \subseteq Content,
         Halfway(c) => Shows(i, {})'
  PROVE  EvidenceInv'
<1>1. PICK k \in Record :
           /\ op' = [op EXCEPT ![c] = k] /\ k.urls = {}
           /\ c \in Promotion => k.at = "link" /\ k.item = op[c].item
           /\ c \notin Promotion => k.at = "over" /\ k.item = "none"
  BY PushedType DEF EvidenceInv
<1>2. op'[c] = k /\ Running(c) /\ op[c].item \in DOMAIN body /\ op[c].item # "none"
  BY <1>1, OpMoves DEF EvidenceInv, Running
<1>3. Halfway(c) => IF k.at \in {"new", "over"} THEN Whole' ELSE Halfway(c)'
  <2> SUFFICES ASSUME Halfway(c) PROVE IF k.at \in {"new", "over"} THEN Whole' ELSE Halfway(c)'
    OBVIOUS
  <2>1. Shows(i, {})' /\ op[c].item \in Item
    BY DEF Halfway
  <2>2. CASE c \in Promotion
    <3>1. c \notin Attach /\ link = "none" /\ op[c].item = c
      BY <2>2, EvidenceAssumption DEF Halfway
    <3>2. /\ op'[c].at = "link" /\ op'[c].item = c /\ op'[c].urls = {}
          /\ DOMAIN body' = {c} /\ (typed \subseteq body[c])'
          /\ (\A m \in Image : image[m] \in Item => m \in body[c] \cup {})'
      BY <1>1, <1>2, <2>1, <2>2, <3>1 DEF Shows
    <3> QED
      BY <1>1, <2>1, <2>2, <3>1, <3>2 DEF Halfway, Shows
  <2>3. CASE c \notin Promotion
    <3>1. link = op[c].item
      BY <2>3 DEF Halfway, Call
    <3> QED
      BY <1>1, <1>2, <2>1, <2>3, <3>1 DEF Whole, Shows
  <2> QED
    BY <2>2, <2>3
<1> QED
  BY <1>1, <1>2, <1>3, EvidenceMoves DEF EvidenceInv, EvidenceTypeOK

LEMMA SelectStep ==
  ASSUME EvidenceInv, NEW c \in Call, Select(c)
  PROVE  EvidenceInv'
<1> DEFINE ready == {m \in Image : image[m] = "ready"}
<1>1. /\ op[c] \in Record /\ op[c].at = "select" /\ Running(c)
      /\ UNCHANGED <<link, body, image, typed, breaks, mingled>>
      /\ image' \in [Image -> {"absent", "ready"} \cup Item]
      /\ \A i \in DOMAIN body' : body'[i] \subseteq Content
  BY DEF Select, EvidenceInv, EvidenceTypeOK, Record, Running
<1>2. CASE ready = {}
  <2>1. PICK i : i = op[c].item
    OBVIOUS
  <2>2. Halfway(c) => Shows(i, {})
    BY <1>1, <2>1 DEF Halfway
  <2>3. Halfway(c) => Shows(i, {})'
    BY <1>1, <2>2 DEF Shows
  <2>4. Pushed(c)
    BY <1>2 DEF Select
  <2> QED
    BY <1>1, <2>1, <2>3, <2>4, PushedStep
<1>3. CASE ready # {}
  <2> DEFINE k == [op[c] EXCEPT !.at = "upload", !.left = ready]
  <2>1. op' = [op EXCEPT ![c] = k]
    BY <1>3 DEF Select
  <2>2. /\ k \in Record /\ k.at = "upload" /\ k.item = op[c].item /\ k.base = op[c].base
        /\ k.urls = op[c].urls /\ k.left # {}
    BY <1>1, <1>3 DEF Record
  <2> HIDE DEF k
  <2>3. op'[c] = k
    BY <1>1, <2>1, <2>2, OpMoves DEF EvidenceInv
  <2>4. Halfway(c) => Halfway(c)'
    BY <1>1, <2>2, <2>3 DEF Halfway, Shows
  <2> QED
    BY <1>1, <2>1, <2>2, <2>4, EvidenceMoves DEF EvidenceInv, EvidenceTypeOK
<1> QED
  BY <1>2, <1>3

LEMMA UploadStep ==
  ASSUME EvidenceInv, NEW c \in Call, Upload(c)
  PROVE  EvidenceInv'
<1>1. PICK m \in op[c].left : /\ image' = [image EXCEPT ![m] = op[c].item]
                              /\ NextUpload(c, m, TRUE)
  BY DEF Upload
<1> DEFINE rest == op[c].left \ {m}
           k == [op[c] EXCEPT !.left = rest, !.urls = op[c].urls \cup {m},
                              !.at = IF rest = {} THEN "patch" ELSE "upload"]
<1>2. /\ op[c] \in Record /\ op[c].at = "upload" /\ Running(c) /\ m \in Image
      /\ op[c].item \in Item
  BY DEF Upload, EvidenceInv, EvidenceTypeOK, Record, Running
<1>3. op' = [op EXCEPT ![c] = k]
  BY <1>1 DEF NextUpload
<1>4. /\ k \in Record /\ k.at \in {"patch", "upload"} /\ k.item = op[c].item
      /\ k.base = op[c].base /\ k.urls = op[c].urls \cup {m} /\ (k.at = "upload" => k.left # {})
  BY <1>2 DEF Record
<1> HIDE DEF k
<1>5. op'[c] = k
  BY <1>2, <1>3, <1>4, OpMoves DEF EvidenceInv
<1>6. UNCHANGED <<link, body, typed, breaks, mingled>>
  BY DEF Upload
<1>7. image' \in [Image -> {"absent", "ready"} \cup Item] /\ \A n \in Image : n # m => image'[n] = image[n]
  BY <1>1, <1>2 DEF EvidenceInv, EvidenceTypeOK
<1>8. Halfway(c) => Halfway(c)'
  BY <1>2, <1>4, <1>5, <1>6, <1>7 DEF Halfway, Shows
<1> QED
  BY <1>2, <1>3, <1>4, <1>6, <1>7, <1>8, EvidenceMoves DEF EvidenceInv, EvidenceTypeOK

LEMMA PatchStep ==
  ASSUME EvidenceInv, NEW c \in Call, PatchDescription(c)
  PROVE  EvidenceInv'
<1>1. PICK i : i = op[c].item
  OBVIOUS
<1>2. /\ op[c] \in Record /\ op[c].at = "patch" /\ i \in DOMAIN body
      /\ UNCHANGED <<link, image, typed, breaks, mingled>>
      /\ image' \in [Image -> {"absent", "ready"} \cup Item]
      /\ body' = [body EXCEPT ![i] = op[c].base \cup op[c].urls] /\ Pushed(c)
  BY <1>1 DEF PatchDescription, EvidenceInv, EvidenceTypeOK, Record
<1>3. /\ DOMAIN body' = DOMAIN body /\ body'[i] = op[c].base \cup op[c].urls
      /\ \A j \in DOMAIN body : j # i => body'[j] = body[j]
  BY <1>2
<1>4. \A j \in DOMAIN body' : body'[j] \subseteq Content
  BY <1>2, <1>3 DEF EvidenceInv, EvidenceTypeOK, Record, Content
<1>5. Halfway(c) => Shows(i, {})'
  BY <1>1, <1>2, <1>3 DEF Halfway, Shows
<1> QED
  BY <1>1, <1>2, <1>3, <1>4, <1>5, PushedStep

\* A call that goes on after a failure.
LEMMA BrokenStep ==
  ASSUME EvidenceInv, NEW c \in Call, Break, NEW k \in Record, op' = [op EXCEPT ![c] = k],
         UNCHANGED <<link, body, image, typed, mingled>>,
         k.at \in {"new", "over"} => k.item = "none" /\ k.urls = {},
         k.at \in {"create", "link"} => c \in Promotion,
         k.at \notin {"new", "over"} => k.item = op[c].item /\ op[c].item # "none"
  PROVE  EvidenceInv'
<1>1. op' \in [Call -> Record]
  BY OpMoves DEF EvidenceInv
<1>2. breaks' \in Nat /\ WholeInv'
  BY DEF EvidenceInv, Break, EvidenceTypeOK, WholeInv
<1>3. EvidenceTypeOK'
  BY <1>1, <1>2 DEF EvidenceInv, EvidenceTypeOK, Record
<1>4. k.item \in {"none"} \cup DOMAIN body /\ link \in {"none"} \cup DOMAIN body
  BY DEF EvidenceInv, Record
<1> QED
  BY <1>2, <1>3, <1>4, ItemsKept

LEMMA PushFailsStep ==
  ASSUME EvidenceInv, NEW c \in Call, UploadFails(c) \/ PatchFails(c)
  PROVE  EvidenceInv'
<1>1. /\ op[c] \in Record /\ op[c].at \in {"upload", "patch"} /\ op[c].item # "none"
      /\ Break /\ UNCHANGED <<link, body, image, typed, mingled>>
  BY DEF UploadFails, PatchFails, EvidenceInv, EvidenceTypeOK, Record
<1>2. CASE Pushed(c)
  <2>1. PICK k \in Record :
           /\ op' = [op EXCEPT ![c] = k] /\ k.urls = {}
           /\ c \in Promotion => k.at = "link" /\ k.item = op[c].item
           /\ c \notin Promotion => k.at = "over" /\ k.item = "none"
    BY <1>2, PushedType DEF EvidenceInv
  <2> QED
    BY <1>1, <2>1, BrokenStep
<1>3. CASE ~Pushed(c)
  <2>1. PICK m \in op[c].left, uploaded \in BOOLEAN : NextUpload(c, m, uploaded)
    BY <1>3 DEF UploadFails, PatchFails
  <2> DEFINE rest == op[c].left \ {m}
             urls == IF uploaded THEN op[c].urls \cup {m} ELSE op[c].urls
             k == [op[c] EXCEPT !.left = rest, !.urls = urls,
                                !.at = IF rest = {} THEN "patch" ELSE "upload"]
  <2>2. op' = [op EXCEPT ![c] = k]
    BY <1>3, <2>1 DEF NextUpload
  <2>3. /\ k \in Record /\ k.at \in {"patch", "upload"} /\ k.item = op[c].item
    BY <1>1, <2>1 DEF Record
  <2> HIDE DEF k
  <2> QED
    BY <1>1, <2>2, <2>3, BrokenStep
<1> QED
  BY <1>2, <1>3

LEMMA StoreLinkStep ==
  ASSUME EvidenceInv, NEW c \in Promotion, StoreLink(c)
  PROVE  EvidenceInv'
<1>1. /\ c \in Call /\ op[c].at = "link" /\ Running(c) /\ link' = op[c].item /\ Over(c)
      /\ op[c].item \in DOMAIN body /\ op[c].item # "none"
      /\ UNCHANGED <<image, typed, body, breaks, mingled>> /\ mingled' \in BOOLEAN
  BY DEF StoreLink, EvidenceInv, EvidenceTypeOK, Call, Running
<1>2. breaks = 0 /\ ~mingled => Whole'
  <2> SUFFICES ASSUME breaks = 0, ~mingled PROVE Whole'
    OBVIOUS
  <2>1. Shows(op[c].item, {})
    BY <1>1 DEF EvidenceInv, WholeInv, Halfway
  <2> QED
    BY <1>1, <2>1 DEF Whole, Shows
<1> QED
  BY <1>1, <1>2, EvidenceEnds

\* Nobody's calls.
LEMMA OthersStep ==
  ASSUME EvidenceInv,
         \/ \E m \in Image : ImageArrives(m)
         \/ \E i \in DOMAIN body, e \in Edit : EngineerEdits(i, e)
  PROVE  EvidenceInv'
<1>1. CASE \E m \in Image : ImageArrives(m)
  <2>1. PICK m \in Image : ImageArrives(m)
    BY <1>1
  <2>2. /\ UNCHANGED <<link, body, typed, op, breaks, mingled>>
        /\ image' \in [Image -> {"absent", "ready"} \cup Item]
        /\ \A n \in Image : image'[n] \in Item => image[n] \in Item
    BY <2>1, EvidenceAssumption DEF ImageArrives, EvidenceInv, EvidenceTypeOK, Item
  <2>3. EvidenceTypeOK'
    BY <2>2 DEF EvidenceInv, EvidenceTypeOK
  <2>4. Whole => Whole'
    BY <2>2 DEF Whole, Empty, Shows
  <2>5. \A c \in Call : Halfway(c) => Halfway(c)'
    BY <2>2 DEF Halfway, Empty, Shows
  <2>6. WholeInv'
    BY <2>2, <2>4, <2>5 DEF EvidenceInv, WholeInv, Running
  <2> QED
    BY <2>2, <2>3, <2>6 DEF EvidenceInv, Running
<1>2. CASE \E i \in DOMAIN body, e \in Edit : EngineerEdits(i, e)
  <2>1. PICK i \in DOMAIN body, e \in Edit : EngineerEdits(i, e)
    BY <1>2
  <2>2. /\ UNCHANGED <<link, image, op, breaks>> /\ typed' = typed \cup {e}
        /\ body' = [body EXCEPT ![i] = @ \cup {e}]
        /\ mingled' = (mingled \/ \E c \in Call : op[c].item = i)
    BY <2>1 DEF EngineerEdits
  <2>3. /\ DOMAIN body' = DOMAIN body /\ body'[i] = body[i] \cup {e}
        /\ \A j \in DOMAIN body : j # i => body'[j] = body[j]
    BY <2>2
  <2>4. /\ mingled' \in BOOLEAN
        /\ ~mingled' => ~mingled /\ \A c \in Call : op[c].item # i
    BY <2>2 DEF EvidenceInv, EvidenceTypeOK
  <2>5. EvidenceTypeOK'
    BY <2>2, <2>3, <2>4 DEF EvidenceInv, EvidenceTypeOK, Content
  <2>6. Whole => Whole'
    BY <2>2, <2>3 DEF Whole, Empty, Shows
  <2>7. ASSUME ~mingled', NEW c \in Call, Running(c), Halfway(c) PROVE FALSE
    <3>1. op[c].at # "create" => op[c].item = i
      BY <2>7 DEF Halfway, Shows
    <3>2. op[c].at = "create" => DOMAIN body = {}
      BY <2>7 DEF Halfway, Empty
    <3> QED
      BY <2>4, <2>7, <3>1, <3>2
  <2>8. WholeInv'
    BY <2>2, <2>4, <2>6, <2>7 DEF EvidenceInv, WholeInv, Running
  <2> QED
    BY <2>2, <2>3, <2>5, <2>8 DEF EvidenceInv, Running
<1> QED
  BY <1>1, <1>2

LEMMA DeadStep ==
  ASSUME EvidenceInv,
         \/ \E c \in Promotion : CreateFails(c) \/ StoreLinkFails(c)
         \/ \E c \in Attach : AttachFails(c)
         \/ \E c \in Call : ProcessDies(c)
  PROVE  EvidenceInv'
<1>1. CASE \E c \in Promotion : CreateFails(c)
  <2>1. PICK c \in Promotion : CreateFails(c)
    BY <1>1
  <2>2. /\ DOMAIN body \subseteq DOMAIN body' /\ DOMAIN body' \subseteq DOMAIN body \cup {c}
        /\ \A i \in DOMAIN body' : body'[i] = {"report"} \/ (i \in DOMAIN body /\ body'[i] = body[i])
    BY <2>1 DEF CreateFails
  <2>3. DOMAIN body' \subseteq Item /\ \A i \in DOMAIN body' : body'[i] \subseteq Content
    BY <2>2 DEF EvidenceInv, EvidenceTypeOK, Content, Item
  <2> QED
    BY <2>1, <2>2, <2>3, FailedType DEF CreateFails, Call
<1>2. CASE \E c \in Promotion : StoreLinkFails(c)
  <2>1. PICK c \in Promotion : StoreLinkFails(c)
    BY <1>2
  <2> QED
    BY <2>1, FailedType DEF StoreLinkFails, Call, EvidenceInv, EvidenceTypeOK
<1>3. CASE \E c \in Call : ProcessDies(c)
  <2>1. PICK c \in Call : ProcessDies(c)
    BY <1>3
  <2> QED
    BY <2>1, FailedType DEF ProcessDies, EvidenceInv, EvidenceTypeOK
<1>4. CASE \E c \in Attach : AttachFails(c)
  <2>1. PICK c \in Attach : AttachFails(c)
    BY <1>4
  <2>2. /\ c \in Call /\ Break /\ Over(c) /\ UNCHANGED <<link, body, image, typed>>
        /\ mingled' \in BOOLEAN
    BY <2>1 DEF AttachFails, Start, Call, EvidenceInv, EvidenceTypeOK
  <2>3. PICK k \in Record : /\ op' = [op EXCEPT ![c] = k]
                            /\ k.at = "over" /\ k.item = "none" /\ k.urls = {}
    BY <2>2, OverType
  <2>4. op' \in [Call -> Record]
    BY <2>2, <2>3, OpMoves DEF EvidenceInv
  <2>5. breaks' \in Nat /\ WholeInv'
    BY <2>2 DEF Break, EvidenceInv, EvidenceTypeOK, WholeInv
  <2>6. EvidenceTypeOK'
    BY <2>2, <2>4, <2>5 DEF EvidenceInv, EvidenceTypeOK, Record
  <2> QED
    BY <2>2, <2>3, <2>5, <2>6, ItemsKept DEF EvidenceInv
<1> QED
  BY <1>1, <1>2, <1>3, <1>4

\* EvidenceInv is inductive.
THEOREM EvidenceInductive == EvidenceSpec => []EvidenceInv
<1>1. EvidenceInit => EvidenceInv
  <2> SUFFICES ASSUME EvidenceInit PROVE EvidenceInv
    OBVIOUS
  <2>1. /\ op \in [Call -> Record] /\ \A c \in Call : op[c] = NotStarted
        /\ DOMAIN body = {}
    BY NotStartedType DEF EvidenceInit
  <2>2. EvidenceTypeOK
    BY <2>1 DEF EvidenceInit, EvidenceTypeOK, Record
  <2>3. Empty
    BY <2>1, EvidenceAssumption DEF EvidenceInit, Empty, Item
  <2>4. \A c \in Call : ~Running(c)
    BY <2>1, NotStartedType DEF Running
  <2> QED
    BY <2>1, <2>2, <2>3, <2>4, NotStartedType DEF EvidenceInit, EvidenceInv, WholeInv, Whole
<1>2. EvidenceInv /\ [EvidenceNext]_evidenceVars => EvidenceInv'
  <2> SUFFICES ASSUME EvidenceInv, [EvidenceNext]_evidenceVars PROVE EvidenceInv'
    OBVIOUS
  <2>1. CASE \E c \in Promotion : Promote(c) \/ CreateWorkItem(c) \/ StoreLink(c)
    BY <2>1, PromoteStep, CreateStep, StoreLinkStep
  <2>2. CASE \E c \in Attach : StartAttach(c)
    BY <2>2, StartAttachStep
  <2>3. CASE \E c \in Call : Push(c)
    BY <2>3, SelectStep, UploadStep, PatchStep, PushFailsStep DEF Push
  <2>4. CASE UNCHANGED evidenceVars
    BY <2>4 DEF evidenceVars, EvidenceInv, EvidenceTypeOK, WholeInv, Whole, Halfway, Running,
                Empty, Shows
  <2> QED
    BY <2>1, <2>2, <2>3, <2>4, DeadStep, OthersStep DEF EvidenceNext
<1> QED
  BY <1>1, <1>2, PTL DEF EvidenceSpec

\* For any number of promotions, late images and edits: if no two calls
\* overlapped, no edit fell into one and nothing failed, the ticket is linked
\* to the only work item, which shows every image marked as attached and
\* every edit.
THEOREM LeftWhole == EvidenceSpec => []UndisturbedIsWhole
<1>1. EvidenceInv => UndisturbedIsWhole
  BY DEF EvidenceInv, EvidenceTypeOK, WholeInv, Whole, Empty, Shows, UndisturbedIsWhole
<1> QED
  BY <1>1, EvidenceInductive, PTL
=============================================================================
