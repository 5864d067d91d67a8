----------------------- MODULE AgentSessionQueueProofs -----------------------
(***************************************************************************)
(* Theorems of AgentSessionQueue, for every number of events,              *)
(* conversations and processes, with and without database faults.          *)
(***************************************************************************)
EXTENDS AgentSessionQueue, FiniteSetTheorems, TLAPS

(***************************************************************************)
(* Type correctness.                                                       *)
(***************************************************************************)

LEMMA InitType == Init => TypeOK
  BY QueueAssumption
  DEF Init, TypeOK, Status, LoopPoint, NoToken, NoJob, Resting

LEMMA StoredCount == Cardinality(Stored) \in Nat
  BY QueueAssumption, FS_Subset, FS_CardinalityType DEF Stored

\* A fresh lease writes only well-typed values.
LEMMA LeaseType ==
  ASSUME TypeOK, NEW c \in Conv, NEW e \in Event, NEW done \in SUBSET Event, Lease(c, e, done)
  PROVE  /\ status' \in [Event -> Status]
         /\ token' \in [Event -> Nat]
         /\ attempts' \in [Event -> Nat]
         /\ active' \in [Conv -> Event \cup {NoEvent}]
         /\ held' \in [Conv -> Nat]
         /\ live' \subseteq Nat
         /\ nextToken' \in Nat \ {0}
<1> USE DEF TypeOK
<1>1. status' \in [Event -> Status] /\ token' \in [Event -> Nat]
  BY DEF Lease, Status
<1>2. attempts' \in [Event -> Nat]
  BY DEF Lease
<1>3. active' \in [Conv -> Event \cup {NoEvent}] /\ held' \in [Conv -> Nat]
  BY DEF Lease
<1>4. nextToken' \in Nat \ {0}
  BY DEF Lease
<1>5. live' \subseteq live \cup {nextToken}
  BY DEF Lease
<1> QED
  BY <1>1, <1>2, <1>3, <1>4, <1>5

LEMMA ClearType ==
  ASSUME TypeOK, NEW c \in Conv, NEW done \in SUBSET Event, ClearState(c, done)
  PROVE  /\ active' \in [Conv -> Event \cup {NoEvent}]
         /\ held' \in [Conv -> Nat]
         /\ live' \subseteq Nat
         /\ nextToken' \in Nat \ {0}
  BY DEF TypeOK, ClearState, NoToken

LEMMA GotoType ==
  ASSUME TypeOK, NEW p \in Proc, NEW c \in Conv, NEW point \in LoopPoint,
         Goto(p, c, point)
  PROVE  loop' \in [Proc -> [Conv -> LoopPoint]]
  BY DEF TypeOK, Goto

Job == [item: Event \cup {NoEvent}, token: Nat]

LEMMA JobType ==
  ASSUME TypeOK, NEW p \in Proc, NEW c \in Conv, NEW j \in Job,
         job' = [job EXCEPT ![p][c] = j]
  PROVE  job' \in [Proc -> [Conv -> Job]]
  BY DEF TypeOK, Job

LEMMA ReturnType ==
  ASSUME TypeOK, NEW p \in Proc, NEW c \in Conv, Return(p, c)
  PROVE  /\ loop' \in [Proc -> [Conv -> LoopPoint]]
         /\ job' \in [Proc -> [Conv -> Job]]
<1>1. NoJob \in Job
  BY DEF NoJob, NoToken, Job
<1> QED
  BY <1>1, GotoType, JobType DEF Return, LoopPoint

LEMMA ReceiveType ==
  ASSUME TypeOK, NEW p \in Proc, NEW c \in Conv, NEW e \in Event, Receive(p, c, e)
  PROVE  /\ loop' \in [Proc -> [Conv -> LoopPoint]]
         /\ job' \in [Proc -> [Conv -> Job]]
<1>1. [item |-> e, token |-> nextToken] \in Job
  BY DEF TypeOK, Job
<1> QED
  BY <1>1, GotoType, JobType DEF Receive, LoopPoint

LEMMA EnqueueType == ASSUME TypeOK, NEW p \in Proc, NEW e \in Event, Enqueue(p, e)
                     PROVE  TypeOK'
<1>1. ConvOf[e] \in Conv
  BY QueueAssumption
<1>2. status' \in [Event -> Status]
  BY DEF TypeOK, Enqueue, Status
<1>3. kick' \in [Proc -> SUBSET Conv]
  BY <1>1 DEF TypeOK, Enqueue
<1>4. seq' \in [Event -> Nat]
  <2>1. CASE UNCHANGED seq
    BY <2>1 DEF TypeOK
  <2>2. CASE seq' = [seq EXCEPT ![e] = Cardinality(Stored) + 1]
    BY <2>2, StoredCount DEF TypeOK
  <2> QED
    BY <2>1, <2>2 DEF Enqueue
<1> QED
  BY <1>2, <1>3, <1>4 DEF TypeOK, Enqueue, state

LEMMA DispatchType == ASSUME TypeOK, NEW p \in Proc, NEW c \in Conv, Dispatch(p, c)
                      PROVE  TypeOK'
<1>1. loop' \in [Proc -> [Conv -> LoopPoint]]
  BY GotoType DEF TypeOK, Dispatch, LoopPoint
<1>2. kick' \in [Proc -> SUBSET Conv]
  BY DEF TypeOK, Dispatch
<1> QED
  BY <1>1, <1>2 DEF TypeOK, Dispatch, rows, state

LEMMA ClaimType == ASSUME TypeOK, NEW p \in Proc, NEW c \in Conv, Claim(p, c)
                   PROVE  TypeOK'
<1> USE DEF Claim, rows, state
<1>1. CASE Return(p, c) /\ UNCHANGED <<rows, state>>
  BY <1>1, ReturnType DEF TypeOK, Job
<1>2. CASE ClearState(c, {}) /\ Return(p, c) /\ UNCHANGED rows
  BY <1>2, ReturnType, ClearType DEF TypeOK, Job
<1>3. ASSUME NEW e \in Event, Lease(c, e, {}), UNCHANGED seq,
             Receive(p, c, e) \/ Return(p, c)
      PROVE  TypeOK'
  BY <1>3, ReturnType, ReceiveType, LeaseType DEF TypeOK, Job
<1> QED
  BY <1>1, <1>2, <1>3

LEMMA ContinueType == ASSUME TypeOK, NEW p \in Proc, NEW c \in Conv, Continue(p, c)
                      PROVE  TypeOK'
<1>1. /\ loop' \in [Proc -> [Conv -> LoopPoint]]
      /\ job' \in [Proc -> [Conv -> Job]]
  BY ReturnType, GotoType DEF TypeOK, Continue, LoopPoint, Job
<1> QED
  BY <1>1 DEF TypeOK, Continue, rows, state, Job

LEMMA PostType ==
  ASSUME TypeOK, JobsNamed, NEW p \in Proc, NEW c \in Conv, Post(p, c)
  PROVE  TypeOK'
<1>0. job[p][c].item \in Event
  BY DEF JobsNamed, Holding, Driving, Post
<1>1. loop' \in [Proc -> [Conv -> LoopPoint]]
  BY GotoType DEF Post, LoopPoint
<1>2. turns' \in [Event -> Nat]
  <2>1. \/ turns' = [turns EXCEPT ![job[p][c].item] = @ + 1]
        \/ turns' = turns
    BY DEF Post
  <2> QED
    BY <1>0, <2>1 DEF TypeOK
<1> QED
  BY <1>1, <1>2 DEF TypeOK, Post, rows, state

LEMMA CompleteType ==
  ASSUME TypeOK, JobsNamed, NEW p \in Proc, NEW c \in Conv, Complete(p, c)
  PROVE  TypeOK'
<1> DEFINE done == job[p][c].item
<1>0. done \in Event
  BY DEF JobsNamed, Holding, Driving, Complete
<1>1. CASE Return(p, c) /\ UNCHANGED <<rows, state>>
  BY <1>1, ReturnType DEF TypeOK, Complete, rows, state, Job
<1>2. CASE /\ status' = [status EXCEPT ![done] = "completed"]
           /\ ClearState(c, {done})
           /\ UNCHANGED <<token, attempts, seq>>
           /\ Return(p, c) \/ (Goto(p, c, "fail") /\ UNCHANGED job)
  <2>1. /\ loop' \in [Proc -> [Conv -> LoopPoint]]
        /\ job' \in [Proc -> [Conv -> Job]]
    BY <1>2, ReturnType, GotoType DEF TypeOK, LoopPoint, Job
  <2>2. status' \in [Event -> Status]
    BY <1>0, <1>2 DEF TypeOK, Status
  <2> QED
    BY <1>0, <1>2, <2>1, <2>2, ClearType DEF TypeOK, Complete, Job
<1>3. ASSUME NEW e \in Event, Lease(c, e, {done}), UNCHANGED seq,
             Receive(p, c, e) \/ (Goto(p, c, "fail") /\ UNCHANGED job)
      PROVE  TypeOK'
  <2>1. /\ loop' \in [Proc -> [Conv -> LoopPoint]]
        /\ job' \in [Proc -> [Conv -> Job]]
    BY <1>3, ReceiveType, GotoType DEF TypeOK, LoopPoint, Job
  <2> QED
    BY <1>0, <1>3, <2>1, LeaseType DEF TypeOK, Complete, Job
<1>4. CASE Goto(p, c, "fail") /\ UNCHANGED <<rows, state, job>>
  BY <1>4, GotoType DEF TypeOK, Complete, rows, state, LoopPoint
<1> QED
  BY <1>1, <1>2, <1>3, <1>4 DEF Complete

LEMMA FailType ==
  ASSUME TypeOK, JobsNamed, NEW p \in Proc, NEW c \in Conv, Fail(p, c)
  PROVE  TypeOK'
<1> DEFINE e == job[p][c].item
<1>0. e \in Event
  BY DEF JobsNamed, Holding, Driving, Fail
<1>1. /\ loop' \in [Proc -> [Conv -> LoopPoint]]
      /\ job' \in [Proc -> [Conv -> Job]]
  BY ReturnType DEF Fail
<1>2. status' \in [Event -> Status]
  BY DEF TypeOK, Fail, Verdict, Status
<1>3. \/ \E done \in SUBSET Event : ClearState(c, done)
      \/ UNCHANGED state
  BY <1>0 DEF Fail
<1> QED
  BY <1>1, <1>2, <1>3, ClearType DEF TypeOK, Fail, state, Job

LEMMA LeaveType == ASSUME TypeOK, NEW p \in Proc, NEW c \in Conv, Leave(p, c)
                   PROVE  TypeOK'
  BY GotoType DEF TypeOK, Leave, rows, state, LoopPoint

LEMMA RecoveryType == ASSUME TypeOK, NEW p \in Proc, RecoveryStep(p)
                      PROVE  TypeOK'
<1> USE DEF rows, state
<1>1. ASSUME NEW by \in Caller, StartRecovery(p, by)
      PROVE  TypeOK'
  <2>1. status' \in [Event -> Status]
    BY <1>1 DEF TypeOK, StartRecovery, Status
  <2>2. recovery' \in [Proc -> [at: {"requeue", "clear"}, found: SUBSET Conv,
                                by: Caller] \cup {Resting}]
    BY <1>1 DEF TypeOK, StartRecovery
  <2> QED
    BY <1>1, <2>1, <2>2 DEF TypeOK, StartRecovery
<1>2. CASE Requeue(p)
  <2>1. status' \in [Event -> Status] /\ token' \in [Event -> Nat]
    BY <1>2 DEF TypeOK, Requeue, Status, NoToken
  <2>2. {ConvOf[e] : e \in {f \in Event : Retriable(f)}} \in SUBSET Conv
    BY QueueAssumption
  <2>3. recovery' \in [Proc -> [at: {"requeue", "clear"}, found: SUBSET Conv,
                                by: Caller] \cup {Resting}]
    <3>1. recovery[p] \in [at: {"requeue", "clear"}, found: SUBSET Conv, by: Caller]
      BY <1>2 DEF TypeOK, Requeue, Resting
    <3>2. PICK F \in SUBSET Conv :
            recovery' = [recovery EXCEPT ![p].at = "clear", ![p].found = F]
      BY <1>2, <2>2 DEF Requeue
    <3> QED
      BY <3>1, <3>2 DEF TypeOK
  <2> QED
    BY <1>2, <2>1, <2>3 DEF TypeOK, Requeue
<1>3. CASE ClearExpired(p)
  <2>1. active' \in [Conv -> Event \cup {NoEvent}] /\ held' \in [Conv -> Nat]
    BY <1>3 DEF TypeOK, ClearExpired, NoToken
  <2>2. recovery[p].found \in SUBSET Conv
    BY <1>3 DEF TypeOK, ClearExpired, Resting
  <2>3. kick' \in [Proc -> SUBSET Conv]
    BY <1>3, <2>2 DEF TypeOK, ClearExpired
  <2> QED
    BY <1>3, <2>1, <2>3 DEF TypeOK, ClearExpired
<1>4. CASE RecoveryFails(p)
  BY <1>4 DEF TypeOK, RecoveryFails
<1> QED
  BY <1>1, <1>2, <1>3, <1>4 DEF RecoveryStep, BeginRecovery

LEMMA ProcessType ==
  ASSUME TypeOK,
         \/ \E t \in live : Expire(t)
         \/ \E p \in Proc : Stop(p) \/ Exit(p) \/ Start(p)
  PROVE  TypeOK'
<1> USE DEF TypeOK, rows, state, workers
<1>1. ASSUME NEW t \in live, Expire(t) PROVE TypeOK'
  BY <1>1 DEF Expire
<1>2. ASSUME NEW p \in Proc, Stop(p) \/ Start(p) PROVE TypeOK'
  BY <1>2 DEF Stop, Start
<1>3. ASSUME NEW p \in Proc, Exit(p) PROVE TypeOK'
  BY <1>3 DEF Exit, LoopPoint, NoJob, NoToken
<1> QED
  BY <1>1, <1>2, <1>3

LEMMA NextType == ASSUME TypeOK, JobsNamed, [Next]_vars
                  PROVE  TypeOK'
<1>1. CASE UNCHANGED vars
  BY <1>1 DEF TypeOK, vars, rows, state, workers
<1>2. CASE Next
  BY <1>2, EnqueueType, DispatchType, ClaimType, ContinueType, PostType,
     CompleteType, FailType, LeaveType, RecoveryType, ProcessType
  DEF Next, LoopStep, LeaseExpires
<1> QED
  BY <1>1, <1>2

(***************************************************************************)
(* The lease invariant.                                                    *)
(***************************************************************************)

LEMMA InitLease == Init => LeaseInv
  BY QueueAssumption
  DEF Init, LeaseInv, JobsNamed, TokensIssued, TokensUnshared, JobsBacked,
      OneLiveLease, Holding, Driving, NoToken

\* What a step of loop (p, c) leaves at the other loops.
LEMMA LoopAt ==
  ASSUME TypeOK, NEW p \in Proc, NEW c \in Conv, NEW point, Goto(p, c, point)
  PROVE  \A q \in Proc, d \in Conv :
            loop'[q][d] = IF q = p /\ d = c THEN point ELSE loop[q][d]
  BY DEF TypeOK, Goto

LEMMA JobAt ==
  ASSUME TypeOK, NEW p \in Proc, NEW c \in Conv, NEW j,
         job' = [job EXCEPT ![p][c] = j]
  PROVE  \A q \in Proc, d \in Conv :
            job'[q][d] = IF q = p /\ d = c THEN j ELSE job[q][d]
  BY DEF TypeOK

LEMMA ReturnAt ==
  ASSUME TypeOK, NEW p \in Proc, NEW c \in Conv, Return(p, c)
  PROVE  /\ ~Holding(p, c)'
         /\ \A q \in Proc, d \in Conv :
              Holding(q, d)' => /\ Holding(q, d)
                                /\ <<q, d>> # <<p, c>>
                                /\ job'[q][d] = job[q][d]
                                /\ Driving(q, d)' = Driving(q, d)
  BY LoopAt, JobAt DEF Return, Holding, Driving

\* Moves between points at which a loop holds no job, or holds the one it has.
LEMMA MoveLease ==
  ASSUME TypeOK, LeaseInv, NEW p \in Proc, NEW c \in Conv,
         NEW point \in LoopPoint, Goto(p, c, point),
         UNCHANGED <<token, state, job>>,
         \A e \in Event : status[e] = "processing" <=> status'[e] = "processing",
         point \in {"claimed", "post", "complete"} => Driving(p, c),
         point = "fail" => Holding(p, c)
  PROVE  LeaseInv'
<1>0. /\ token' = token /\ active' = active /\ held' = held
      /\ live' = live /\ nextToken' = nextToken /\ job' = job
  BY DEF state
<1>1. \A q \in Proc, d \in Conv : (Holding(q, d)' => Holding(q, d))
                                  /\ (Driving(q, d)' => Driving(q, d))
  BY LoopAt DEF Holding, Driving
<1>2. JobsNamed'
  BY <1>0, <1>1 DEF LeaseInv, JobsNamed, Holding, Driving
<1>3. TokensIssued'
  BY <1>0, <1>1 DEF LeaseInv, TokensIssued, Holding, Driving
<1>4. TokensUnshared'
  BY <1>0, <1>1 DEF LeaseInv, TokensUnshared, Holding, Driving
<1>5. JobsBacked'
  BY <1>0, <1>1 DEF LeaseInv, JobsBacked, JobsNamed, Holding, Driving
<1>6. OneLiveLease'
  BY <1>0 DEF LeaseInv, OneLiveLease
<1> QED
  BY <1>2, <1>3, <1>4, <1>5, <1>6 DEF LeaseInv

\* A loop returns and the tables stay as they are.
LEMMA ReturnLease ==
  ASSUME TypeOK, LeaseInv, NEW p \in Proc, NEW c \in Conv, Return(p, c),
         UNCHANGED <<token, state>>,
         \A e \in Event : status'[e] = "processing" => status[e] = "processing",
         \A e \in Event : status[e] = "processing" /\ token[e] \in live
                            => status'[e] = "processing"
  PROVE  LeaseInv'
<1>0. /\ token' = token /\ active' = active /\ held' = held
      /\ live' = live /\ nextToken' = nextToken
  BY DEF state
<1>1. \A q \in Proc, d \in Conv :
        Holding(q, d)' => /\ Holding(q, d)
                          /\ job'[q][d] = job[q][d]
                          /\ Driving(q, d)' = Driving(q, d)
  BY ReturnAt DEF Holding, Driving
<1>2. JobsNamed'
  BY <1>0, <1>1 DEF LeaseInv, JobsNamed, Holding, Driving
<1>3. TokensIssued'
  BY <1>0, <1>1 DEF LeaseInv, TokensIssued, Holding, Driving
<1>4. TokensUnshared'
  BY <1>0, <1>1 DEF LeaseInv, TokensUnshared, Holding, Driving
<1>5. JobsBacked'
  BY <1>0, <1>1 DEF LeaseInv, JobsBacked, JobsNamed, Holding, Driving
<1>6. OneLiveLease'
  BY <1>0 DEF LeaseInv, OneLiveLease
<1> QED
  BY <1>2, <1>3, <1>4, <1>5, <1>6 DEF LeaseInv

\* A transaction issues a fresh lease: claimNext finds the conversation not
\* busy, completeAndClaimNext settles the item it holds the lease of.
LEMMA LeaseStep ==
  ASSUME TypeOK, LeaseInv, NEW p \in Proc, NEW c \in Conv, NEW e \in Event,
         NEW done \in SUBSET Event,
         Oldest(e, c), Lease(c, e, done),
         \/ /\ done = {}
            /\ ~Busy(c)
            /\ ~Holding(p, c)
         \/ /\ done = {job[p][c].item}
            /\ Holding(p, c)
            /\ OwnsLease(p, c)
            /\ token[job[p][c].item] = job[p][c].token,
         \/ Receive(p, c, e)
         \/ Return(p, c)
         \/ Goto(p, c, "fail") /\ UNCHANGED job /\ Holding(p, c)
  PROVE  LeaseInv'
<1>1. /\ status[e] = "queued"
      /\ ConvOf[e] = c
  BY DEF Oldest, Queued
<1>2. /\ nextToken \in Nat /\ nextToken > 0 /\ nextToken' = nextToken + 1
      /\ \A f \in Event : token'[f] = IF f = e THEN nextToken ELSE token[f]
      /\ \A d \in Conv : /\ held'[d] = IF d = c THEN nextToken ELSE held[d]
                         /\ active'[d] = IF d = c THEN e ELSE active[d]
      /\ \A t \in live' : t = nextToken \/ t \in live
      /\ \A f \in Event : token[f] # nextToken
  BY DEF TypeOK, LeaseInv, TokensIssued, Lease
<1>3. \A f \in Event \ {e} :
        status'[f] = "processing" => status[f] = "processing" /\ f \notin done
  BY DEF TypeOK, Lease
<1>4. status'[e] = "processing"
  BY DEF Lease
<1>5. \A f \in Event \ {e} :
        status'[f] = "processing" /\ token'[f] \in live'
           => ConvOf[f] # c /\ status[f] = "processing" /\ token[f] \in live
  <2> SUFFICES ASSUME NEW f \in Event \ {e},
                      status'[f] = "processing", token'[f] \in live'
               PROVE  ConvOf[f] # c /\ status[f] = "processing" /\ token[f] \in live
    OBVIOUS
  <2>1. status[f] = "processing" /\ f \notin done /\ token[f] \in live
    BY <1>2, <1>3
  <2>2. active[ConvOf[f]] = f /\ held[ConvOf[f]] = token[f]
    BY <2>1 DEF LeaseInv, OneLiveLease
  <2>3. ConvOf[f] # c
    BY <2>1, <2>2, QueueAssumption DEF Busy, OwnsLease
  <2> QED
    BY <2>1, <2>3
<1>6. OneLiveLease'
  <2> SUFFICES ASSUME NEW f \in Event, status'[f] = "processing", token'[f] \in live'
               PROVE  active'[ConvOf[f]] = f /\ held'[ConvOf[f]] = token'[f]
    BY DEF OneLiveLease
  <2>1. ConvOf[f] \in Conv
    BY QueueAssumption
  <2>2. CASE f = e
    BY <1>1, <1>2, <2>1, <2>2
  <2>3. CASE f # e
    BY <1>2, <1>5, <2>1, <2>3 DEF LeaseInv, OneLiveLease
  <2> QED
    BY <2>2, <2>3

\* The loops: (p, c) holds the new lease, keeps its old job or holds none.
<1>7. \A q \in Proc, d \in Conv :
        Holding(q, d)' =>
          \/ /\ q = p /\ d = c
             /\ job'[q][d].item = e /\ job'[q][d].token = nextToken
          \/ /\ Holding(q, d)
             /\ job'[q][d] = job[q][d]
             /\ ~Driving(q, d)' \/ (Driving(q, d) /\ <<q, d>> # <<p, c>>)
  <2>1. CASE Receive(p, c, e)
    <3> DEFINE j == [item |-> e, token |-> nextToken]
    <3>1. \A q \in Proc, d \in Conv :
            job'[q][d] = IF q = p /\ d = c THEN j ELSE job[q][d]
      BY <2>1 DEF Receive, TypeOK
    <3>2. \A q \in Proc, d \in Conv :
            loop'[q][d] = IF q = p /\ d = c THEN "claimed" ELSE loop[q][d]
      BY <2>1, LoopAt DEF Receive
    <3> QED
      BY <3>1, <3>2 DEF Holding, Driving
  <2>2. CASE Return(p, c)
    BY <2>2, ReturnAt DEF Holding, Driving
  <2>3. CASE Goto(p, c, "fail") /\ UNCHANGED job /\ Holding(p, c)
    BY <2>3, LoopAt DEF Holding, Driving
  <2> QED
    BY <2>1, <2>2, <2>3
<1>8. JobsNamed'
  BY <1>1, <1>7 DEF LeaseInv, JobsNamed, Holding, Driving
<1>9. TokensIssued'
  <2>0. /\ \A f \in Event : token[f] \in Nat /\ token[f] < nextToken
        /\ \A d \in Conv : held[d] \in Nat /\ held[d] < nextToken
        /\ \A t \in live : t \in Nat /\ 0 < t /\ t < nextToken
        /\ \A q \in Proc, d \in Conv : Holding(q, d) =>
              job[q][d].token \in Nat /\ 0 < job[q][d].token /\ job[q][d].token < nextToken
    BY DEF TypeOK, LeaseInv, TokensIssued
  <2>1. \A f \in Event : token'[f] < nextToken'
    BY <1>2, <2>0
  <2>2. \A d \in Conv : held'[d] < nextToken'
    BY <1>2, <2>0
  <2>3. \A t \in live' : 0 < t /\ t < nextToken'
    BY <1>2, <2>0
  <2>4. \A q \in Proc, d \in Conv :
          Holding(q, d)' => 0 < job'[q][d].token /\ job'[q][d].token < nextToken'
    BY <1>2, <1>7, <2>0 DEF Holding, Driving
  <2> QED
    BY <2>1, <2>2, <2>3, <2>4 DEF TokensIssued, Holding, Driving
<1>10. TokensUnshared'
  BY <1>2, <1>7 DEF LeaseInv, TokensUnshared, TokensIssued, Holding, Driving
<1>11. JobsBacked'
  <2> SUFFICES ASSUME NEW q \in Proc, NEW d \in Conv,
                      Driving(q, d)', job'[q][d].token \in live'
               PROVE  /\ status'[job'[q][d].item] = "processing"
                      /\ token'[job'[q][d].item] = job'[q][d].token
    BY DEF JobsBacked, Driving
  <2>1. CASE q = p /\ d = c /\ job'[q][d].item = e /\ job'[q][d].token = nextToken
    BY <1>2, <1>4, <2>1
  <2>2. CASE /\ Driving(q, d) /\ <<q, d>> # <<p, c>>
             /\ job'[q][d] = job[q][d]
    <3> DEFINE f == job[q][d].item
    <3>1. f \in Event /\ job[q][d].token \in live
      BY <1>2, <2>2 DEF LeaseInv, JobsNamed, TokensIssued, Holding, Driving
    <3>2. status[f] = "processing" /\ token[f] = job[q][d].token
      BY <2>2, <3>1 DEF LeaseInv, JobsBacked
    <3>3. f \notin done
      BY <2>2, <3>2 DEF LeaseInv, TokensUnshared, Holding
    <3>4. status'[f] = "processing"
      BY <1>1, <3>1, <3>2, <3>3 DEF Lease
    <3> QED
      BY <1>1, <1>2, <2>2, <3>1, <3>2, <3>4
  <2> QED
    BY <1>7, <2>1, <2>2 DEF Holding, Driving
<1> QED
  BY <1>6, <1>8, <1>9, <1>10, <1>11 DEF LeaseInv

\* A transaction clears the state row without issuing a lease, and no row of
\* the conversation is left with an unexpired lease.
LEMMA ClearStep ==
  ASSUME TypeOK, LeaseInv, NEW p \in Proc, NEW c \in Conv,
         NEW done \in SUBSET Event,
         ClearState(c, done), UNCHANGED token,
         \/ Return(p, c)
         \/ Goto(p, c, "fail") /\ UNCHANGED job /\ Holding(p, c),
         \A f \in Event : /\ status'[f] = "processing" => status[f] = "processing"
                          /\ \/ status'[f] = status[f]
                             \/ f = job[p][c].item /\ token[f] \in {job[p][c].token, NoToken},
         \A f \in Event : ConvOf[f] = c /\ status'[f] = "processing"
                            => token[f] \notin live,
         Holding(p, c) \/ status' = status
  PROVE  LeaseInv'
<1>1. /\ token' = token
      /\ nextToken' = nextToken
      /\ \A t \in live' : t \in live
      /\ \A d \in Conv : /\ held'[d] = IF d = c THEN NoToken ELSE held[d]
                         /\ active'[d] = IF d = c THEN NoEvent ELSE active[d]
      /\ nextToken > 0
  BY DEF TypeOK, ClearState
<1>2. \A q \in Proc, d \in Conv :
        Holding(q, d)' =>
          /\ Holding(q, d)
          /\ job'[q][d] = job[q][d]
          /\ ~Driving(q, d)' \/ (Driving(q, d) /\ <<q, d>> # <<p, c>>)
  <2>1. CASE Return(p, c)
    BY <2>1, ReturnAt DEF Holding, Driving
  <2>2. CASE Goto(p, c, "fail") /\ UNCHANGED job /\ Holding(p, c)
    BY <2>2, LoopAt DEF Holding, Driving
  <2> QED
    BY <2>1, <2>2
<1>3. JobsNamed'
  BY <1>2 DEF LeaseInv, JobsNamed, Holding, Driving
<1>4. TokensIssued'
  BY <1>1, <1>2 DEF LeaseInv, TokensIssued, Holding, Driving, NoToken
<1>5. TokensUnshared'
  BY <1>2 DEF LeaseInv, TokensUnshared, Holding, Driving
<1>6. JobsBacked'
  <2> SUFFICES ASSUME NEW q \in Proc, NEW d \in Conv,
                      Driving(q, d)', job'[q][d].token \in live'
               PROVE  /\ status'[job'[q][d].item] = "processing"
                      /\ token'[job'[q][d].item] = job'[q][d].token
    BY DEF JobsBacked, Driving
  <2> DEFINE f == job[q][d].item
  <2>1. /\ Driving(q, d) /\ <<q, d>> # <<p, c>>
        /\ job'[q][d] = job[q][d] /\ job[q][d].token \in live
    BY <1>1, <1>2 DEF Holding, Driving
  <2>2. /\ f \in Event /\ status[f] = "processing"
        /\ token[f] = job[q][d].token /\ token[f] # NoToken
    BY <2>1 DEF LeaseInv, JobsBacked, JobsNamed, TokensIssued, Holding, NoToken
  <2>3. status'[f] = "processing"
    BY <2>1, <2>2 DEF LeaseInv, TokensUnshared, Holding
  <2> QED
    BY <1>1, <2>1, <2>2, <2>3
<1>7. OneLiveLease'
  BY <1>1, QueueAssumption DEF LeaseInv, OneLiveLease
<1> QED
  BY <1>3, <1>4, <1>5, <1>6, <1>7 DEF LeaseInv

\* What holding the lease means for the other rows of the conversation.
LEMMA OwnerAlone ==
  ASSUME TypeOK, LeaseInv, NEW p \in Proc, NEW c \in Conv, OwnsLease(p, c),
         NEW f \in Event, ConvOf[f] = c, status[f] = "processing", token[f] \in live
  PROVE  f = job[p][c].item /\ token[f] = job[p][c].token
  BY DEF LeaseInv, OneLiveLease, OwnsLease

LEMMA ClaimLease ==
  ASSUME TypeOK, LeaseInv, NEW p \in Proc, NEW c \in Conv, Claim(p, c)
  PROVE  LeaseInv'
<1>1. ~Holding(p, c)
  BY DEF Claim, Holding, Driving
<1>2. CASE Return(p, c) /\ UNCHANGED <<rows, state>>
  BY <1>2, ReturnLease DEF rows
<1>3. CASE ~Busy(c) /\ ClearState(c, {}) /\ Return(p, c) /\ UNCHANGED rows
  <2>1. \A f \in Event : ConvOf[f] = c /\ status[f] = "processing"
                           => token[f] \notin live
    BY <1>3, QueueAssumption DEF LeaseInv, OneLiveLease, Busy
  <2>2. status' = status /\ token' = token
    BY <1>3 DEF rows
  <2> QED
    BY <1>3, <2>1, <2>2, ClearStep
<1>4. ASSUME NEW e \in Event, Oldest(e, c), ~Busy(c), Lease(c, e, {}),
             Receive(p, c, e) \/ Return(p, c)
      PROVE  LeaseInv'
  BY <1>1, <1>4, LeaseStep
<1> QED
  BY <1>2, <1>3, <1>4 DEF Claim

LEMMA CompleteLease ==
  ASSUME TypeOK, LeaseInv, NEW p \in Proc, NEW c \in Conv, Complete(p, c)
  PROVE  LeaseInv'
<1> DEFINE done == job[p][c].item
<1>1. Holding(p, c) /\ done \in Event
  BY DEF Complete, Holding, Driving, LeaseInv, JobsNamed
<1>2. CASE Return(p, c) /\ UNCHANGED <<rows, state>>
  BY <1>2, ReturnLease DEF rows
<1>3. CASE /\ OwnsLease(p, c) /\ token[done] = job[p][c].token
           /\ status' = [status EXCEPT ![done] = "completed"]
           /\ ClearState(c, {done})
           /\ UNCHANGED <<token, attempts, seq>>
           /\ Return(p, c) \/ (Goto(p, c, "fail") /\ UNCHANGED job)
  <2>1. \A f \in Event : status'[f] = IF f = done THEN "completed" ELSE status[f]
    BY <1>3 DEF TypeOK
  <2>2. \A f \in Event : ConvOf[f] = c /\ status'[f] = "processing"
                           => token[f] \notin live
    BY <1>3, <2>1, OwnerAlone
  <2> QED
    BY <1>1, <1>3, <2>1, <2>2, ClearStep
<1>4. ASSUME NEW e \in Event, Oldest(e, c), Lease(c, e, {done}),
             OwnsLease(p, c), token[done] = job[p][c].token,
             Receive(p, c, e) \/ (Goto(p, c, "fail") /\ UNCHANGED job)
      PROVE  LeaseInv'
  BY <1>1, <1>4, LeaseStep
<1>5. CASE Goto(p, c, "fail") /\ UNCHANGED <<rows, state, job>>
  BY <1>1, <1>5, MoveLease DEF rows, LoopPoint
<1> QED
  BY <1>2, <1>3, <1>4, <1>5 DEF Complete

LEMMA FailLease ==
  ASSUME TypeOK, LeaseInv, NEW p \in Proc, NEW c \in Conv, Fail(p, c)
  PROVE  LeaseInv'
<1> DEFINE e == job[p][c].item
           settles == token[e] \in {job[p][c].token, NoToken}
<1>1. Holding(p, c) /\ e \in Event /\ Return(p, c) /\ UNCHANGED token
  BY DEF Fail, Holding, Driving, LeaseInv, JobsNamed
<1>2. CASE UNCHANGED <<status, state>>
  BY <1>1, <1>2, ReturnLease
<1>3. CASE /\ OwnsLease(p, c)
           /\ status' = IF settles THEN [status EXCEPT ![e] = Verdict(e)] ELSE status
           /\ ClearState(c, IF settles THEN {e} ELSE {})
  <2>1. \A f \in Event :
          status'[f] = IF f = e /\ settles THEN Verdict(e) ELSE status[f]
    BY <1>3 DEF TypeOK
  <2>2. Verdict(e) # "processing"
    BY DEF Verdict
  <2>3. \A f \in Event : ConvOf[f] = c /\ status'[f] = "processing"
                           => token[f] \notin live
    BY <1>3, <2>1, <2>2, OwnerAlone
  <2>4. (IF settles THEN {e} ELSE {}) \in SUBSET Event
    BY <1>1
  <2> QED
    BY <1>1, <1>3, <2>1, <2>2, <2>3, <2>4, ClearStep
<1> QED
  BY <1>2, <1>3 DEF Fail

\* Steps that leave loops, jobs and state rows alone, and neither start nor
\* keep alive a lease.
LEMMA TableLease ==
  ASSUME TypeOK, LeaseInv, UNCHANGED <<loop, job, active, held, nextToken>>,
         live' \subseteq live,
         \A e \in Event :
            \/ token'[e] = token[e] /\ (status'[e] = "processing" <=> status[e] = "processing")
            \/ token[e] \notin live /\ status'[e] # "processing"
                 /\ token'[e] \in {token[e], NoToken}
  PROVE  LeaseInv'
<1>1. JobsNamed'
  BY DEF LeaseInv, JobsNamed, Holding, Driving
<1>2. TokensIssued'
  BY DEF LeaseInv, TokensIssued, TypeOK, Holding, Driving, NoToken
<1>3. TokensUnshared'
  BY DEF LeaseInv, TokensUnshared, Holding, Driving
<1>4. JobsBacked'
  BY DEF LeaseInv, JobsBacked, JobsNamed, Holding, Driving
<1>5. OneLiveLease'
  BY DEF LeaseInv, OneLiveLease
<1> QED
  BY <1>1, <1>2, <1>3, <1>4, <1>5 DEF LeaseInv

LEMMA EnqueueLease ==
  ASSUME TypeOK, LeaseInv, NEW p \in Proc, NEW e \in Event, Enqueue(p, e)
  PROVE  LeaseInv'
<1>1. \A f \in Event : status'[f] = "processing" <=> status[f] = "processing"
  BY DEF Enqueue, TypeOK
<1> QED
  BY <1>1, TableLease DEF Enqueue, state

LEMMA LoopLease ==
  ASSUME TypeOK, LeaseInv, NEW p \in Proc, NEW c \in Conv,
         Dispatch(p, c) \/ Continue(p, c) \/ Post(p, c) \/ Leave(p, c)
  PROVE  LeaseInv'
<1>1. CASE Dispatch(p, c)
  <2>1. CASE Goto(p, c, "claim")
    BY <1>1, <2>1, MoveLease DEF Dispatch, rows, LoopPoint
  <2>2. CASE UNCHANGED loop
    BY <1>1, <2>2, TableLease DEF Dispatch, rows, state
  <2> QED
    BY <1>1, <2>1, <2>2 DEF Dispatch
<1>2. CASE Continue(p, c)
  <2>1. CASE Return(p, c)
    BY <1>2, <2>1, ReturnLease DEF Continue, rows
  <2>2. CASE Goto(p, c, "post") /\ UNCHANGED job
    BY <1>2, <2>2, MoveLease DEF Continue, rows, LoopPoint, Driving
  <2> QED
    BY <1>2, <2>1, <2>2 DEF Continue
<1>3. CASE Post(p, c)
  <2>1. Goto(p, c, "complete") \/ Goto(p, c, "fail")
    BY <1>3 DEF Post
  <2>2. Driving(p, c) /\ Holding(p, c)
    BY <1>3 DEF Post, Driving, Holding
  <2>3. UNCHANGED <<status, token, state, job>>
    BY <1>3 DEF Post, rows
  <2> QED
    BY <2>1, <2>2, <2>3, MoveLease DEF LoopPoint
<1>4. CASE Leave(p, c)
  BY <1>4, MoveLease DEF Leave, rows, LoopPoint
<1> QED
  BY <1>1, <1>2, <1>3, <1>4

LEMMA RecoveryLease ==
  ASSUME TypeOK, LeaseInv, NEW p \in Proc, RecoveryStep(p)
  PROVE  LeaseInv'
<1>1. ASSUME NEW by \in Caller, StartRecovery(p, by)
      PROVE  LeaseInv'
  <2>1. \A e \in Event : \/ status'[e] = status[e]
                         \/ token[e] \notin live /\ status'[e] # "processing"
    BY <1>1 DEF StartRecovery, Expired
  <2> QED
    BY <1>1, <2>1, TableLease DEF StartRecovery, state
<1>2. CASE Requeue(p)
  <2>1. \A e \in Event :
          \/ status'[e] = status[e] /\ token'[e] = token[e]
          \/ token[e] \notin live /\ status'[e] # "processing" /\ token'[e] = NoToken
    BY <1>2 DEF Requeue, Retriable, Expired
  <2> QED
    BY <1>2, <2>1, TableLease DEF Requeue, state
<1>3. CASE ClearExpired(p)
  <2>1. /\ status' = status /\ token' = token /\ live' = live
        /\ nextToken' = nextToken /\ loop' = loop /\ job' = job
    BY <1>3 DEF ClearExpired, rows
  <2>2. \A d \in Conv : /\ held'[d] = IF held[d] \in live THEN held[d] ELSE NoToken
                        /\ held[d] \in live => active'[d] = active[d]
    BY <1>3 DEF ClearExpired
  <2>3. JobsNamed'
    BY <2>1 DEF LeaseInv, JobsNamed, Holding, Driving
  <2>4. TokensIssued'
    <3>1. NoToken < nextToken
      BY DEF TypeOK, NoToken
    <3> QED
      BY <2>1, <2>2, <3>1 DEF LeaseInv, TokensIssued, Holding, Driving
  <2>5. TokensUnshared'
    BY <2>1 DEF LeaseInv, TokensUnshared, Holding, Driving
  <2>6. JobsBacked'
    BY <2>1 DEF LeaseInv, JobsBacked, Driving
  <2>7. OneLiveLease'
    BY <2>1, <2>2, QueueAssumption DEF LeaseInv, OneLiveLease
  <2> QED
    BY <2>3, <2>4, <2>5, <2>6, <2>7 DEF LeaseInv
<1>4. CASE RecoveryFails(p)
  BY <1>4, TableLease DEF RecoveryFails, rows, state
<1> QED
  BY <1>1, <1>2, <1>3, <1>4 DEF RecoveryStep, BeginRecovery

LEMMA ProcessLease ==
  ASSUME TypeOK, LeaseInv,
         \/ \E t \in live : Expire(t)
         \/ \E p \in Proc : Stop(p) \/ Exit(p) \/ Start(p)
  PROVE  LeaseInv'
<1>1. ASSUME NEW t \in live, Expire(t) PROVE LeaseInv'
  <2>1. live' \subseteq live
    BY <1>1 DEF Expire
  <2> QED
    BY <1>1, <2>1, TableLease DEF Expire, rows, workers
<1>2. ASSUME NEW p \in Proc, Stop(p) \/ Start(p) PROVE LeaseInv'
  BY <1>2, TableLease DEF Stop, Start, rows, state, workers
<1>3. ASSUME NEW p \in Proc, Exit(p) PROVE LeaseInv'
  <2>1. \A q \in Proc, d \in Conv :
          Holding(q, d)' => /\ Holding(q, d)
                            /\ job'[q][d] = job[q][d]
                            /\ Driving(q, d)' = Driving(q, d)
    BY <1>3 DEF Exit, TypeOK, Holding, Driving
  <2>2. UNCHANGED <<status, token, active, held, live, nextToken>>
    BY <1>3 DEF Exit, rows, state
  <2>3. JobsNamed'
    BY <2>1 DEF LeaseInv, JobsNamed, Holding, Driving
  <2>4. TokensIssued'
    BY <2>1, <2>2 DEF LeaseInv, TokensIssued, Holding, Driving
  <2>5. TokensUnshared'
    BY <2>1 DEF LeaseInv, TokensUnshared, Holding, Driving
  <2>6. JobsBacked'
    BY <2>1, <2>2 DEF LeaseInv, JobsBacked, Holding, Driving
  <2>7. OneLiveLease'
    BY <2>2 DEF LeaseInv, OneLiveLease
  <2> QED
    BY <2>3, <2>4, <2>5, <2>6, <2>7 DEF LeaseInv
<1> QED
  BY <1>1, <1>2, <1>3

LEMMA NextLease == ASSUME TypeOK, LeaseInv, [Next]_vars
                   PROVE  LeaseInv'
<1>1. CASE UNCHANGED vars
  BY <1>1, TableLease DEF vars, rows, state, workers
<1>2. CASE Next
  BY <1>2, EnqueueLease, LoopLease, ClaimLease, CompleteLease, FailLease,
     RecoveryLease, ProcessLease
  DEF Next, LoopStep, LeaseExpires
<1> QED
  BY <1>1, <1>2

\* Every reachable state of the queue, its state rows and its worker loops is
\* well typed and satisfies the lease invariant.
THEOREM Invariance == Spec => [](TypeOK /\ LeaseInv)
<1>1. Init => TypeOK /\ LeaseInv
  BY InitType, InitLease
<1>2. TypeOK /\ LeaseInv /\ [Next]_vars => (TypeOK /\ LeaseInv)'
  BY NextType, NextLease DEF LeaseInv
<1> QED
  BY <1>1, <1>2, PTL DEF Spec

\* Type correctness of the tables of migration 036 and of the workers' state.
THEOREM TypeCorrect == Spec => []TypeOK
  BY Invariance, PTL

\* At most one unexpired lease per conversation, and the state row records it.
THEOREM LeaseIsUnique == Spec => []OneLiveLease
<1>1. LeaseInv => OneLiveLease
  BY DEF LeaseInv
<1> QED
  BY <1>1, Invariance, PTL

\* Turns of one conversation run by different processes overlap only after a
\* lease has run out, for any number of processes, crashes and database faults.
THEOREM TurnsExclusive == Spec => []ExclusiveTurn
<1>1. TypeOK /\ LeaseInv => ExclusiveTurn
  <2> SUFFICES ASSUME TypeOK, LeaseInv,
                      NEW p \in Proc, NEW q \in Proc, NEW c \in Conv,
                      p # q, Driving(p, c), Driving(q, c),
                      job[p][c].token \in live, job[q][c].token \in live
               PROVE  FALSE
    BY DEF ExclusiveTurn
  <2> DEFINE i == job[p][c].item
             k == job[q][c].item
  <2>1. /\ i \in Event /\ ConvOf[i] = c
        /\ k \in Event /\ ConvOf[k] = c
    BY DEF LeaseInv, JobsNamed, Holding
  <2>2. /\ status[i] = "processing" /\ token[i] = job[p][c].token
        /\ status[k] = "processing" /\ token[k] = job[q][c].token
    BY DEF LeaseInv, JobsBacked
  <2>3. /\ active[c] = i /\ held[c] = job[p][c].token
        /\ active[c] = k /\ held[c] = job[q][c].token
    BY <2>1, <2>2 DEF LeaseInv, OneLiveLease
  <2> QED
    BY <2>3 DEF LeaseInv, TokensUnshared, Holding
<1> QED
  BY <1>1, Invariance, PTL

(***************************************************************************)
(* Who may settle a row.                                                   *)
(***************************************************************************)
Settles(e) ==
    status[e] = "processing" /\ token[e] \in live /\ status'[e] # "processing"

Settler(p, e) ==
    /\ loop[p][ConvOf[e]] \in {"complete", "fail"}
    /\ job[p][ConvOf[e]] = [item |-> e, token |-> token[e]]

\* A loop whose job is e, under e's token, is e's settler.
LEMMA SettlerIsHolder ==
  ASSUME TypeOK, LeaseInv, NEW p \in Proc, NEW c \in Conv, NEW e \in Event,
         loop[p][c] \in {"complete", "fail"},
         job[p][c].item = e, job[p][c].token = token[e]
  PROVE  Settler(p, e)
<1>1. ConvOf[e] = c
  BY DEF LeaseInv, JobsNamed, Holding, Driving
<1>2. job[p][c] \in [item: Event \cup {NoEvent}, token: Nat]
  BY DEF TypeOK
<1>3. job[p][c] = [item |-> e, token |-> token[e]]
  BY <1>2
<1> QED
  BY <1>1, <1>3 DEF Settler

LEMMA OnlySettler ==
  ASSUME TypeOK, LeaseInv, [Next]_vars, NEW e \in Event, Settles(e)
  PROVE  \E p \in Proc : Settler(p, e)
<1> USE DEF Settles
<1>1. status' # status
  OBVIOUS
<1>2. ASSUME NEW p \in Proc, NEW f \in Event, Enqueue(p, f)
      PROVE  FALSE
  BY <1>2 DEF Enqueue, TypeOK
<1>3. ASSUME NEW p \in Proc, NEW c \in Conv, Claim(p, c)
      PROVE  FALSE
  <2>1. PICK f \in Event : Lease(c, f, {})
    BY <1>1, <1>3 DEF Claim, rows
  <2> QED
    BY <2>1 DEF Lease
<1>4. ASSUME NEW p \in Proc, NEW c \in Conv, Complete(p, c)
      PROVE  Settler(p, e)
  <2> DEFINE done == job[p][c].item
  <2>1. /\ loop[p][c] = "complete"
        /\ token[done] = job[p][c].token
        /\ \/ status' = [status EXCEPT ![done] = "completed"]
           \/ \E f \in Event : Lease(c, f, {done})
    BY <1>1, <1>4 DEF Complete, rows
  <2>2. e = done
    BY <2>1 DEF TypeOK, Lease
  <2> QED
    BY <2>1, <2>2, SettlerIsHolder
<1>5. ASSUME NEW p \in Proc, NEW c \in Conv, Fail(p, c)
      PROVE  Settler(p, e)
  <2> DEFINE f == job[p][c].item
  <2>1. /\ loop[p][c] = "fail"
        /\ token[f] \in {job[p][c].token, NoToken}
        /\ status' = [status EXCEPT ![f] = Verdict(f)]
    BY <1>1, <1>5 DEF Fail
  <2>2. e = f
    BY <2>1 DEF TypeOK
  <2>3. token[e] # NoToken
    BY DEF LeaseInv, TokensIssued, NoToken
  <2> QED
    BY <2>1, <2>2, <2>3, SettlerIsHolder
<1>6. ASSUME NEW p \in Proc, RecoveryStep(p)
      PROVE  FALSE
  <2>1. CASE BeginRecovery(p)
    BY <2>1 DEF BeginRecovery, StartRecovery, Expired
  <2>2. CASE Requeue(p)
    BY <2>2 DEF Requeue, Retriable, Expired
  <2>3. CASE ClearExpired(p) \/ RecoveryFails(p)
    BY <1>1, <2>3 DEF ClearExpired, RecoveryFails, rows
  <2> QED
    BY <1>6, <2>1, <2>2, <2>3 DEF RecoveryStep
<1>7. ASSUME NEW p \in Proc, NEW c \in Conv,
             Dispatch(p, c) \/ Continue(p, c) \/ Post(p, c) \/ Leave(p, c)
      PROVE  FALSE
  BY <1>1, <1>7 DEF Dispatch, Continue, Post, Leave, rows
<1>8. CASE LeaseExpires \/ \E p \in Proc : Stop(p) \/ Exit(p) \/ Start(p)
  BY <1>1, <1>8 DEF LeaseExpires, Expire, Stop, Exit, Start, rows
<1>9. CASE UNCHANGED vars
  BY <1>1, <1>9 DEF vars, rows
<1> QED
  BY <1>2, <1>3, <1>4, <1>5, <1>6, <1>7, <1>8, <1>9 DEF Next, LoopStep

\* No recovery, fenced worker or second process takes a row away from the
\* loop whose lease on it is unexpired.
THEOREM HolderSettles == Spec => OnlyHolderSettles
<1>1. TypeOK /\ LeaseInv /\ [Next]_vars
        => [\A e \in Event :
              status[e] = "processing" /\ token[e] \in live /\ status'[e] # "processing"
              => \E p \in Proc :
                    /\ loop[p][ConvOf[e]] \in {"complete", "fail"}
                    /\ job[p][ConvOf[e]] = [item |-> e, token |-> token[e]]]_vars
  BY OnlySettler DEF Settles, Settler
<1> QED
  BY <1>1, Invariance, PTL DEF Spec, OnlyHolderSettles
(***************************************************************************)
(* What a row says of its past: turns, attempts, order and outcome.        *)
(***************************************************************************)

\* The loops that hold an attempt at e the gateway has not been asked for yet.
Unposted(e) ==
    {p \in Proc : loop[p][ConvOf[e]] \in {"claimed", "post"} /\ job[p][ConvOf[e]].item = e}

TurnsCounted ==
    \A e \in Event : /\ IsFiniteSet(Unposted(e))
                     /\ turns[e] + Cardinality(Unposted(e)) =< attempts[e]

Accepted ==
    \A p \in Proc, c \in Conv : loop[p][c] = "complete" => turns[job[p][c].item] > 0

\* What each status says of the attempts made.
Outcomes ==
    \A e \in Event :
        /\ attempts[e] =< MaxAttempts
        /\ status[e] = "absent" => attempts[e] = 0
        /\ status[e] \in {"queued", "failed"} => attempts[e] < MaxAttempts
        /\ status[e] = "dead_letter" => attempts[e] = MaxAttempts
        /\ status[e] = "completed" => turns[e] > 0
        /\ status[e] \notin {"absent", "queued"} => attempts[e] > 0

HeldTried == \A p \in Proc, c \in Conv : Holding(p, c) => attempts[job[p][c].item] > 0

PlacesIssued == \A e \in Stored : seq[e] =< Cardinality(Stored)

RowTokensUnshared ==
    \A e, f \in Event : token[e] = token[f] => e = f \/ token[e] = NoToken

\* A loop that owns the lease finds its row open, or re-queued by a recovery
\* that has not cleared the state row yet.
OwnedOpen ==
    \A p \in Proc, c \in Conv : Holding(p, c) /\ OwnsLease(p, c) =>
        LET e == job[p][c].item
        IN  /\ token[e] = job[p][c].token => status[e] \in {"processing", "dead_letter"}
            /\ token[e] = NoToken => status[e] = "queued"

HistoryInv ==
    /\ TurnsCounted /\ Accepted /\ Outcomes /\ HeldTried
    /\ PlacesIssued /\ FirstTriesInOrder
    /\ RowTokensUnshared /\ OwnedOpen

LEMMA InitHistory == Init => HistoryInv
<1> SUFFICES ASSUME Init PROVE HistoryInv
  OBVIOUS
<1>1. TurnsCounted
  <2> SUFFICES ASSUME NEW e \in Event
               PROVE  IsFiniteSet(Unposted(e)) /\ turns[e] + Cardinality(Unposted(e)) =< attempts[e]
    BY DEF TurnsCounted
  <2>1. Unposted(e) = {}
    BY QueueAssumption DEF Init, Unposted
  <2> QED
    BY <2>1, FS_EmptySet DEF Init
<1>2. Accepted /\ HeldTried /\ OwnedOpen
  BY DEF Init, Accepted, HeldTried, OwnedOpen, Holding, Driving
<1>3. Outcomes
  BY QueueAssumption DEF Init, Outcomes
<1>4. PlacesIssued /\ FirstTriesInOrder
  BY DEF Init, PlacesIssued, FirstTriesInOrder, Stored
<1>5. RowTokensUnshared
  BY DEF Init, RowTokensUnshared, NoToken
<1> QED
  BY <1>1, <1>2, <1>3, <1>4, <1>5 DEF HistoryInv

\* A smaller set of loops still to post, and a count of turns that made up for it.
LEMMA FewerUnposted ==
  ASSUME TypeOK, TypeOK', HistoryInv, NEW e \in Event, attempts'[e] = attempts[e],
         turns'[e] = turns[e], Unposted(e)' \subseteq Unposted(e)
  PROVE  IsFiniteSet(Unposted(e)') /\ turns'[e] + Cardinality(Unposted(e)') =< attempts'[e]
<1>1. IsFiniteSet(Unposted(e)) /\ turns[e] + Cardinality(Unposted(e)) =< attempts[e]
  BY DEF HistoryInv, TurnsCounted
<1>2. /\ IsFiniteSet(Unposted(e)')
      /\ Cardinality(Unposted(e)') =< Cardinality(Unposted(e))
      /\ Cardinality(Unposted(e)') \in Nat /\ Cardinality(Unposted(e)) \in Nat
  BY <1>1, FS_Subset, FS_CardinalityType
<1> QED
  BY <1>1, <1>2 DEF TypeOK

\* Rows the step stores stay stored; nothing else becomes stored.
LEMMA PlacesKept ==
  ASSUME HistoryInv, UNCHANGED <<seq, attempts>>,
         \A e \in Event : status'[e] = "absent" <=> status[e] = "absent"
  PROVE  PlacesIssued' /\ FirstTriesInOrder'
<1>1. Stored' = Stored
  BY DEF Stored
<1> QED
  BY <1>1 DEF HistoryInv, PlacesIssued, FirstTriesInOrder

\* Steps that begin no attempt and no turn: loops only let go of what they
\* hold, and a row moves as its attempts and turns allow.
LEMMA QuietHistory ==
  ASSUME TypeOK, TypeOK', LeaseInv, HistoryInv, UNCHANGED <<attempts, turns, seq>>,
         \A p \in Proc, c \in Conv : Holding(p, c)' =>
            /\ Holding(p, c) /\ job'[p][c] = job[p][c]
            /\ loop'[p][c] \in {"claimed", "post"} => loop[p][c] \in {"claimed", "post"}
            /\ loop'[p][c] = "complete" => loop[p][c] = "complete",
         \A e \in Event :
            \/ status'[e] = status[e] /\ token'[e] = token[e]
            \/ /\ status[e] # "absent"
               /\ \/ status'[e] = "queued" /\ attempts[e] < MaxAttempts /\ token'[e] = NoToken
                  \/ status'[e] = "failed" /\ attempts[e] < MaxAttempts /\ attempts[e] > 0
                  \/ status'[e] = "dead_letter" /\ attempts[e] >= MaxAttempts
                  \/ status'[e] = "completed" /\ turns[e] > 0 /\ attempts[e] > 0
               /\ token'[e] \in {token[e], NoToken},
         \A p \in Proc, c \in Conv : Holding(p, c)' /\ OwnsLease(p, c)' =>
            LET e == job[p][c].item
            IN  /\ OwnsLease(p, c)
                /\ \/ status'[e] = status[e] /\ token'[e] = token[e]
                   \/ status'[e] = "queued" /\ token'[e] = NoToken
                   \/ status'[e] = "dead_letter" /\ token'[e] = token[e] /\ status[e] = "processing"
  PROVE  HistoryInv'
<1>1. TurnsCounted'
  <2> SUFFICES ASSUME NEW e \in Event
               PROVE  IsFiniteSet(Unposted(e)') /\ turns'[e] + Cardinality(Unposted(e)') =< attempts'[e]
    BY DEF TurnsCounted, Unposted
  <2>1. ConvOf[e] \in Conv
    BY QueueAssumption
  <2>2. Unposted(e)' \subseteq Unposted(e)
    BY <2>1 DEF Unposted, Holding, Driving
  <2> QED
    BY <2>2, FewerUnposted
<1>2. Accepted' /\ HeldTried'
  BY DEF HistoryInv, Accepted, HeldTried, Holding, Driving
<1>3. Outcomes'
  <2> SUFFICES ASSUME NEW e \in Event
               PROVE  /\ attempts'[e] =< MaxAttempts
                      /\ status'[e] = "absent" => attempts'[e] = 0
                      /\ status'[e] \in {"queued", "failed"} => attempts'[e] < MaxAttempts
                      /\ status'[e] = "dead_letter" => attempts'[e] = MaxAttempts
                      /\ status'[e] = "completed" => turns'[e] > 0
                      /\ status'[e] \notin {"absent", "queued"} => attempts'[e] > 0
    BY DEF Outcomes
  <2>1. attempts[e] \in Nat /\ MaxAttempts \in Nat \ {0}
    BY QueueAssumption DEF TypeOK
  <2> QED
    BY <2>1 DEF HistoryInv, Outcomes
<1>4. PlacesIssued' /\ FirstTriesInOrder'
  BY PlacesKept
<1>5. RowTokensUnshared'
  BY DEF HistoryInv, RowTokensUnshared
<1>6. OwnedOpen'
  <2> SUFFICES ASSUME NEW p \in Proc, NEW c \in Conv, Holding(p, c)', OwnsLease(p, c)'
               PROVE  LET e == job'[p][c].item
                      IN  /\ token'[e] = job'[p][c].token => status'[e] \in {"processing", "dead_letter"}
                          /\ token'[e] = NoToken => status'[e] = "queued"
    BY DEF OwnedOpen
  <2> DEFINE e == job[p][c].item
  <2>1. /\ Holding(p, c) /\ OwnsLease(p, c) /\ job'[p][c] = job[p][c] /\ e \in Event
        /\ job[p][c].token # NoToken
    BY DEF LeaseInv, JobsNamed, TokensIssued, NoToken
  <2>2. /\ token[e] = job[p][c].token => status[e] \in {"processing", "dead_letter"}
        /\ token[e] = NoToken => status[e] = "queued"
    BY <2>1 DEF HistoryInv, OwnedOpen
  <2> QED
    BY <2>1, <2>2
<1> QED
  BY <1>1, <1>2, <1>3, <1>4, <1>5, <1>6 DEF HistoryInv

LEMMA ReturnLets ==
  ASSUME TypeOK, NEW p \in Proc, NEW c \in Conv, Return(p, c)
  PROVE  \A q \in Proc, d \in Conv : Holding(q, d)' =>
            /\ Holding(q, d) /\ <<q, d>> # <<p, c>>
            /\ job'[q][d] = job[q][d] /\ loop'[q][d] = loop[q][d]
  BY LoopAt, JobAt DEF Return, Holding, Driving

LEMMA FailLets ==
  ASSUME TypeOK, NEW p \in Proc, NEW c \in Conv, Goto(p, c, "fail"), UNCHANGED job, Holding(p, c)
  PROVE  \A q \in Proc, d \in Conv : Holding(q, d)' =>
            /\ Holding(q, d) /\ job'[q][d] = job[q][d]
            /\ loop'[q][d] = loop[q][d] \/ loop'[q][d] = "fail"
  BY LoopAt DEF Holding, Driving

\* After a transaction that clears the state row only loops of other
\* conversations own a lease.
LEMMA ClearedOwners ==
  ASSUME TypeOK, LeaseInv, NEW c \in Conv, NEW done, ClearState(c, done),
         \A q \in Proc, d \in Conv : Holding(q, d)' => Holding(q, d) /\ job'[q][d] = job[q][d]
  PROVE  \A q \in Proc, d \in Conv : Holding(q, d)' /\ OwnsLease(q, d)' =>
            d # c /\ OwnsLease(q, d) /\ ConvOf[job[q][d].item] = d
  BY QueueAssumption DEF TypeOK, ClearState, OwnsLease, LeaseInv, JobsNamed

LEMMA ClaimQuiet ==
  ASSUME TypeOK, TypeOK', LeaseInv, HistoryInv, NEW p \in Proc, NEW c \in Conv, Claim(p, c),
         UNCHANGED rows, Return(p, c), ClearState(c, {}) \/ UNCHANGED state
  PROVE  HistoryInv'
<1>0. UNCHANGED <<attempts, turns, seq, status, token>>
  BY DEF Claim, rows
<1>1. \A q \in Proc, d \in Conv : Holding(q, d)' =>
        /\ Holding(q, d) /\ job'[q][d] = job[q][d] /\ loop'[q][d] = loop[q][d]
  BY ReturnLets
<1>2. \A q \in Proc, d \in Conv : Holding(q, d)' /\ OwnsLease(q, d)' => OwnsLease(q, d)
  <2>1. CASE ClearState(c, {})
    BY <1>1, <2>1, ClearedOwners
  <2>2. CASE UNCHANGED state
    BY <1>1, <2>2 DEF state, OwnsLease
  <2> QED
    BY <2>1, <2>2
<1> QED
  BY <1>0, <1>1, <1>2, QuietHistory

LEMMA CompleteQuiet ==
  ASSUME TypeOK, TypeOK', LeaseInv, HistoryInv, NEW p \in Proc, NEW c \in Conv, Complete(p, c),
         ~\E e \in Event : Lease(c, e, {job[p][c].item})
  PROVE  HistoryInv'
<1> DEFINE done == job[p][c].item
<1>1. /\ loop[p][c] = "complete" /\ Holding(p, c) /\ done \in Event /\ ConvOf[done] = c
      /\ turns[done] > 0 /\ attempts[done] > 0
  BY DEF Complete, Holding, Driving, LeaseInv, JobsNamed, HistoryInv, Accepted, HeldTried
<1>2. CASE /\ Return(p, c) \/ (Goto(p, c, "fail") /\ UNCHANGED job)
           /\ UNCHANGED <<rows, state>>
  <2>1. UNCHANGED <<attempts, turns, seq, status, token, active, held>>
    BY <1>2 DEF Complete, rows, state
  <2>2. \A q \in Proc, d \in Conv : Holding(q, d)' =>
          /\ Holding(q, d) /\ job'[q][d] = job[q][d]
          /\ loop'[q][d] = loop[q][d] \/ loop'[q][d] = "fail"
    BY <1>1, <1>2, ReturnLets, FailLets
  <2>3. \A q \in Proc, d \in Conv : Holding(q, d)' /\ OwnsLease(q, d)' => OwnsLease(q, d)
    BY <2>1, <2>2 DEF OwnsLease
  <2> QED
    BY <2>1, <2>2, <2>3, QuietHistory
<1>3. CASE /\ OwnsLease(p, c) /\ token[done] = job[p][c].token
           /\ status' = [status EXCEPT ![done] = "completed"]
           /\ ClearState(c, {done})
           /\ Return(p, c) \/ (Goto(p, c, "fail") /\ UNCHANGED job)
           /\ UNCHANGED <<token, attempts, seq, turns>>
  <2>1. \A e \in Event : status'[e] = IF e = done THEN "completed" ELSE status[e]
    BY <1>3 DEF TypeOK
  <2>2. status[done] # "absent"
    BY <1>1, <1>3 DEF HistoryInv, OwnedOpen
  <2>3. \A q \in Proc, d \in Conv : Holding(q, d)' =>
          /\ Holding(q, d) /\ job'[q][d] = job[q][d]
          /\ loop'[q][d] = loop[q][d] \/ loop'[q][d] = "fail"
    BY <1>1, <1>3, ReturnLets, FailLets
  <2>4. \A q \in Proc, d \in Conv : Holding(q, d)' /\ OwnsLease(q, d)' =>
          /\ OwnsLease(q, d)
          /\ status'[job[q][d].item] = status[job[q][d].item]
    BY <1>1, <1>3, <2>1, <2>3, ClearedOwners DEF LeaseInv, JobsNamed
  <2> QED
    BY <1>1, <1>3, <2>1, <2>2, <2>3, <2>4, QuietHistory
<1>4. CASE \E e \in Event, reply \in Reply : Lease(c, e, {done})
  BY <1>4
<1>5. UNCHANGED turns
  BY DEF Complete
<1>6. CASE Return(p, c) /\ UNCHANGED <<rows, state>>
  BY <1>2, <1>6
<1>7. CASE Goto(p, c, "fail") /\ UNCHANGED <<rows, state, job>>
  BY <1>2, <1>7
<1> QED
  BY <1>2, <1>3, <1>4, <1>5, <1>6, <1>7 DEF Complete

LEMMA FailHistory ==
  ASSUME TypeOK, TypeOK', LeaseInv, HistoryInv, NEW p \in Proc, NEW c \in Conv, Fail(p, c)
  PROVE  HistoryInv'
<1> DEFINE e == job[p][c].item
           settles == token[e] \in {job[p][c].token, NoToken}
<1>1. /\ Holding(p, c) /\ e \in Event /\ ConvOf[e] = c /\ attempts[e] > 0 /\ attempts[e] \in Nat
      /\ Return(p, c) /\ UNCHANGED <<token, attempts, seq, turns>>
  BY DEF Fail, Holding, Driving, LeaseInv, JobsNamed, HistoryInv, HeldTried, TypeOK
<1>2. \A q \in Proc, d \in Conv : Holding(q, d)' =>
        /\ Holding(q, d) /\ job'[q][d] = job[q][d] /\ loop'[q][d] = loop[q][d]
  BY <1>1, ReturnLets
<1>3. CASE UNCHANGED <<status, state>>
  <2>1. \A q \in Proc, d \in Conv : Holding(q, d)' /\ OwnsLease(q, d)' => OwnsLease(q, d)
    BY <1>2, <1>3 DEF OwnsLease, state
  <2> QED
    BY <1>1, <1>2, <1>3, <2>1, QuietHistory
<1>4. CASE /\ OwnsLease(p, c)
           /\ status' = IF settles THEN [status EXCEPT ![e] = Verdict(e)] ELSE status
           /\ ClearState(c, IF settles THEN {e} ELSE {})
  <2>1. \A f \in Event : status'[f] = IF f = e /\ settles THEN Verdict(e) ELSE status[f]
    BY <1>4 DEF TypeOK
  <2>2. settles => status[e] # "absent"
    BY <1>1, <1>4 DEF HistoryInv, OwnedOpen
  <2>3. \/ Verdict(e) = "failed" /\ attempts[e] < MaxAttempts
        \/ Verdict(e) = "dead_letter" /\ attempts[e] >= MaxAttempts
    BY <1>1, QueueAssumption DEF Verdict
  <2>4. \A q \in Proc, d \in Conv : Holding(q, d)' /\ OwnsLease(q, d)' =>
          /\ OwnsLease(q, d)
          /\ status'[job[q][d].item] = status[job[q][d].item]
    BY <1>1, <1>2, <1>4, <2>1, ClearedOwners DEF LeaseInv, JobsNamed
  <2> QED
    BY <1>1, <1>2, <2>1, <2>2, <2>3, <2>4, QuietHistory
<1> QED
  BY <1>3, <1>4 DEF Fail

\* Steps that touch rows and state rows but no loop.
LEMMA TableHistory ==
  ASSUME TypeOK, TypeOK', LeaseInv, HistoryInv,
         UNCHANGED <<loop, job, attempts, turns, seq>>,
         \A c \in Conv : \/ active'[c] = active[c] /\ held'[c] = held[c]
                         \/ active'[c] = NoEvent,
         \A e \in Event :
            \/ status'[e] = status[e] /\ token'[e] = token[e]
            \/ /\ status[e] = "processing"
               /\ \/ status'[e] = "queued" /\ attempts[e] < MaxAttempts /\ token'[e] = NoToken
                  \/ /\ status'[e] = "dead_letter" /\ attempts[e] >= MaxAttempts
                     /\ token'[e] = token[e]
  PROVE  HistoryInv'
<1>1. \A q \in Proc, d \in Conv : Holding(q, d)' =>
        /\ Holding(q, d) /\ job'[q][d] = job[q][d] /\ loop'[q][d] = loop[q][d]
  BY DEF Holding, Driving
<1>2. \A q \in Proc, d \in Conv : Holding(q, d)' /\ OwnsLease(q, d)' =>
        OwnsLease(q, d) /\ job[q][d].item \in Event
  BY <1>1, QueueAssumption DEF OwnsLease, LeaseInv, JobsNamed
<1> QED
  BY <1>1, <1>2, QuietHistory

LEMMA RecoveryHistory ==
  ASSUME TypeOK, TypeOK', LeaseInv, HistoryInv, NEW p \in Proc, RecoveryStep(p)
  PROVE  HistoryInv'
<1>1. ASSUME NEW by \in Caller, StartRecovery(p, by)
      PROVE  HistoryInv'
  BY <1>1, TableHistory DEF StartRecovery, Expired, state
<1>2. CASE Requeue(p)
  BY <1>2, TableHistory DEF Requeue, Retriable, Expired, state
<1>3. CASE ClearExpired(p)
  BY <1>3, TableHistory DEF ClearExpired, rows
<1>4. CASE RecoveryFails(p)
  BY <1>4, TableHistory DEF RecoveryFails, rows, state
<1> QED
  BY <1>1, <1>2, <1>3, <1>4 DEF RecoveryStep, BeginRecovery

LEMMA ProcessHistory ==
  ASSUME TypeOK, TypeOK', LeaseInv, HistoryInv,
         \/ \E t \in live : Expire(t)
         \/ \E p \in Proc : Stop(p) \/ Exit(p) \/ Start(p)
  PROVE  HistoryInv'
<1>1. CASE \/ \E t \in live : Expire(t)
           \/ \E p \in Proc : Stop(p) \/ Start(p)
  BY <1>1, TableHistory DEF Expire, Stop, Start, rows, state, workers
<1>2. ASSUME NEW p \in Proc, Exit(p) PROVE HistoryInv'
  <2>1. \A q \in Proc, d \in Conv : Holding(q, d)' =>
          /\ Holding(q, d) /\ job'[q][d] = job[q][d] /\ loop'[q][d] = loop[q][d]
    BY <1>2 DEF Exit, TypeOK, Holding, Driving
  <2>2. UNCHANGED <<status, token, attempts, seq, turns, active, held>>
    BY <1>2 DEF Exit, rows, state
  <2> QED
    BY <2>1, <2>2, QuietHistory DEF OwnsLease
<1> QED
  BY <1>1, <1>2

LEMMA MoveHistory ==
  ASSUME TypeOK, TypeOK', LeaseInv, HistoryInv, NEW p \in Proc, NEW c \in Conv,
         Dispatch(p, c) \/ Continue(p, c) \/ Leave(p, c)
  PROVE  HistoryInv'
<1>1. UNCHANGED <<status, token, attempts, seq, turns, active, held>>
  BY DEF Dispatch, Continue, Leave, rows, state
<1>2. \A q \in Proc, d \in Conv : Holding(q, d)' =>
        /\ Holding(q, d) /\ job'[q][d] = job[q][d]
        /\ loop'[q][d] \in {"claimed", "post"} => loop[q][d] \in {"claimed", "post"}
        /\ loop'[q][d] = "complete" => loop[q][d] = "complete"
  <2>1. CASE Dispatch(p, c)
    BY <2>1, LoopAt DEF Dispatch, Holding, Driving
  <2>2. CASE Continue(p, c) /\ Return(p, c)
    BY <2>2, ReturnLets
  <2>3. CASE Continue(p, c) /\ Goto(p, c, "post") /\ UNCHANGED job
    BY <2>3, LoopAt DEF Continue, Holding, Driving
  <2>4. CASE Leave(p, c)
    BY <2>4, LoopAt DEF Leave, Holding, Driving
  <2> QED
    BY <2>1, <2>2, <2>3, <2>4 DEF Continue
<1> QED
  BY <1>1, <1>2, QuietHistory DEF OwnsLease

\* The gateway is asked: the attempt leaves the set of those to post, and may
\* become a turn.
LEMMA PostHistory ==
  ASSUME TypeOK, TypeOK', LeaseInv, HistoryInv, NEW p \in Proc, NEW c \in Conv, Post(p, c)
  PROVE  HistoryInv'
<1> DEFINE e == job[p][c].item
<1>1. /\ loop[p][c] = "post" /\ Holding(p, c) /\ e \in Event /\ ConvOf[e] = c
      /\ UNCHANGED <<status, token, attempts, seq, active, held, job>>
  BY DEF Post, Holding, Driving, LeaseInv, JobsNamed, rows, state
<1>2. PICK accepted, answered \in BOOLEAN :
        /\ turns' = IF accepted THEN [turns EXCEPT ![e] = @ + 1] ELSE turns
        /\ Goto(p, c, IF accepted /\ answered THEN "complete" ELSE "fail")
  BY DEF Post
<1>3. /\ \A f \in Event : turns'[f] = IF f = e /\ accepted THEN turns[f] + 1 ELSE turns[f]
      /\ \A f \in Event : turns[f] \in Nat
  BY <1>1, <1>2 DEF TypeOK
<1>4. \A q \in Proc, d \in Conv :
        loop'[q][d] = IF q = p /\ d = c THEN IF accepted /\ answered THEN "complete" ELSE "fail"
                      ELSE loop[q][d]
  BY <1>2, LoopAt
<1>5. TurnsCounted'
  <2> SUFFICES ASSUME NEW f \in Event
               PROVE  IsFiniteSet(Unposted(f)') /\ turns'[f] + Cardinality(Unposted(f)') =< attempts'[f]
    BY DEF TurnsCounted, Unposted
  <2>1. ConvOf[f] \in Conv
    BY QueueAssumption
  <2>2. CASE f # e
    <3>1. Unposted(f)' \subseteq Unposted(f)
      BY <1>1, <1>4, <2>1 DEF Unposted
    <3> QED
      BY <1>1, <1>3, <2>2, <3>1, FewerUnposted
  <2>3. CASE f = e
    <3>1. IsFiniteSet(Unposted(e)) /\ turns[e] + Cardinality(Unposted(e)) =< attempts[e]
      BY <1>1 DEF HistoryInv, TurnsCounted
    <3>2. p \in Unposted(e) /\ Unposted(e)' = Unposted(e) \ {p}
      BY <1>1, <1>4 DEF Unposted
    <3>3. /\ IsFiniteSet(Unposted(e)')
          /\ Cardinality(Unposted(e)') = Cardinality(Unposted(e)) - 1
          /\ Cardinality(Unposted(e)) \in Nat
      BY <3>1, <3>2, FS_RemoveElement, FS_CardinalityType
    <3> QED
      BY <1>1, <1>3, <2>3, <3>1, <3>3 DEF TypeOK
  <2> QED
    BY <2>2, <2>3
<1>6. Accepted'
  BY <1>1, <1>3, <1>4 DEF HistoryInv, Accepted, LeaseInv, JobsNamed, Holding, Driving
<1>7. Outcomes'
  BY <1>1, <1>3 DEF HistoryInv, Outcomes
<1>8. HeldTried'
  BY <1>1, <1>4 DEF HistoryInv, HeldTried, Holding, Driving
<1>9. PlacesIssued' /\ FirstTriesInOrder'
  BY <1>1, PlacesKept
<1>10. RowTokensUnshared'
  BY <1>1 DEF HistoryInv, RowTokensUnshared
<1>11. OwnedOpen'
  BY <1>1, <1>4 DEF HistoryInv, OwnedOpen, OwnsLease, Holding, Driving
<1> QED
  BY <1>5, <1>6, <1>7, <1>8, <1>9, <1>10, <1>11 DEF HistoryInv

\* A new row gets the next place.
LEMMA EnqueueHistory ==
  ASSUME TypeOK, TypeOK', LeaseInv, HistoryInv, NEW p \in Proc, NEW e \in Event, Enqueue(p, e)
  PROVE  HistoryInv'
<1>1. UNCHANGED <<token, attempts, turns, active, held, loop, job>>
  BY DEF Enqueue, state
<1>2. CASE UNCHANGED <<status, seq>>
  BY <1>1, <1>2, TableHistory
<1>3. CASE status[e] = "absent"
  <2>1. /\ \A f \in Event : status'[f] = IF f = e THEN "queued" ELSE status[f]
        /\ \A f \in Event : seq'[f] = IF f = e THEN Cardinality(Stored) + 1 ELSE seq[f]
        /\ attempts[e] = 0
    BY <1>3 DEF Enqueue, TypeOK, HistoryInv, Outcomes
  <2>2. TurnsCounted'
    BY <1>1 DEF HistoryInv, TurnsCounted, Unposted
  <2>3. Accepted' /\ HeldTried' /\ RowTokensUnshared'
    BY <1>1 DEF HistoryInv, Accepted, HeldTried, RowTokensUnshared, Holding, Driving
  <2>4. Outcomes'
    BY <1>1, <2>1, QueueAssumption DEF HistoryInv, Outcomes
  <2>5. Stored' = Stored \cup {e} /\ e \notin Stored
    BY <1>3, <2>1 DEF Stored
  <2>6. /\ Cardinality(Stored) \in Nat
        /\ Cardinality(Stored') = Cardinality(Stored) + 1
    BY <2>5, QueueAssumption, StoredCount, FS_Subset, FS_AddElement DEF Stored
  <2>7. PlacesIssued'
    <3>1. \A f \in Stored : /\ seq[f] =< Cardinality(Stored) /\ seq[f] \in Nat
                            /\ seq'[f] = seq[f]
      <4>1. Stored \subseteq Event
        BY DEF Stored
      <4> QED
        BY <2>1, <2>5, <4>1 DEF HistoryInv, PlacesIssued, TypeOK
    <3> QED
      BY <2>1, <2>5, <2>6, <3>1 DEF PlacesIssued
  <2>8. FirstTriesInOrder'
    <3> SUFFICES ASSUME NEW f \in Stored', NEW g \in Stored', ConvOf[f] = ConvOf[g],
                        seq'[f] < seq'[g], attempts'[g] > 0
                 PROVE  attempts'[f] > 0
      BY DEF FirstTriesInOrder
    <3>1. g # e /\ g \in Stored
      BY <1>1, <2>1, <2>5
    <3>2. f # e
      <4>1. seq'[g] = seq[g] /\ seq[g] \in Nat
        BY <2>1, <3>1 DEF TypeOK, Stored
      <4> QED
        BY <2>1, <2>6, <3>1, <4>1 DEF HistoryInv, PlacesIssued
    <3> QED
      BY <1>1, <2>1, <2>5, <3>1, <3>2 DEF HistoryInv, FirstTriesInOrder, Stored
  <2>9. OwnedOpen'
    <3>1. \A q \in Proc, d \in Conv : Holding(q, d) => job[q][d].item # e
      BY <2>1 DEF HistoryInv, HeldTried
    <3> QED
      BY <1>1, <2>1, <3>1 DEF HistoryInv, OwnedOpen, OwnsLease, LeaseInv, JobsNamed, Holding, Driving
  <2> QED
    BY <2>2, <2>3, <2>4, <2>7, <2>8, <2>9 DEF HistoryInv
<1> QED
  BY <1>2, <1>3 DEF Enqueue

\* A transaction begins an attempt at the oldest queued row, and may settle
\* the one before.
LEMMA LeaseHistory ==
  ASSUME TypeOK, TypeOK', LeaseInv, HistoryInv, NEW p \in Proc, NEW c \in Conv, NEW e \in Event,
         NEW done \in SUBSET Event,
         Oldest(e, c), Lease(c, e, done), UNCHANGED <<seq, turns>>,
         ~(loop[p][c] \in {"claimed", "post"}),
         \A f \in done : ConvOf[f] = c /\ status[f] # "absent" /\ turns[f] > 0 /\ attempts[f] > 0,
         \/ Receive(p, c, e)
         \/ Return(p, c)
         \/ Goto(p, c, "fail") /\ UNCHANGED job /\ Holding(p, c)
  PROVE  HistoryInv'
<1>1. /\ status[e] = "queued" /\ ConvOf[e] = c /\ attempts[e] < MaxAttempts
      /\ \A f \in Event : ConvOf[f] = c /\ status[f] = "queued" => seq[e] =< seq[f]
  BY DEF Oldest, Queued, HistoryInv, Outcomes
<1>2. /\ \A f \in Event : status'[f] = IF f = e THEN "processing"
                                       ELSE IF f \in done THEN "completed" ELSE status[f]
      /\ \A f \in Event : token'[f] = IF f = e THEN nextToken ELSE token[f]
      /\ \A f \in Event : attempts'[f] = IF f = e THEN attempts[f] + 1 ELSE attempts[f]
      /\ \A d \in Conv : /\ active'[d] = IF d = c THEN e ELSE active[d]
                         /\ held'[d] = IF d = c THEN nextToken ELSE held[d]
      /\ \A f \in Event : attempts[f] \in Nat /\ turns[f] \in Nat /\ token[f] # nextToken
      /\ nextToken > 0 /\ MaxAttempts \in Nat
  BY QueueAssumption DEF TypeOK, Lease, LeaseInv, TokensIssued
<1>3. \A q \in Proc, d \in Conv : Holding(q, d)' =>
        \/ /\ q = p /\ d = c /\ loop'[q][d] = "claimed"
           /\ job'[q][d].item = e /\ job'[q][d].token = nextToken
        \/ /\ Holding(q, d) /\ job'[q][d] = job[q][d]
           /\ \/ loop'[q][d] = loop[q][d] /\ <<q, d>> # <<p, c>>
              \/ loop'[q][d] = "fail"
  <2>1. CASE Receive(p, c, e)
    <3>1. /\ \A q \in Proc, d \in Conv :
               job'[q][d] = IF q = p /\ d = c THEN [item |-> e, token |-> nextToken] ELSE job[q][d]
          /\ \A q \in Proc, d \in Conv :
               loop'[q][d] = IF q = p /\ d = c THEN "claimed" ELSE loop[q][d]
      BY <2>1, LoopAt DEF Receive, TypeOK
    <3> QED
      BY <3>1 DEF Holding, Driving
  <2>2. CASE Return(p, c)
    BY <2>2, ReturnLets
  <2>3. CASE Goto(p, c, "fail") /\ UNCHANGED job /\ Holding(p, c)
    BY <2>3, LoopAt DEF Holding, Driving
  <2> QED
    BY <2>1, <2>2, <2>3
<1>4. TurnsCounted'
  <2> SUFFICES ASSUME NEW f \in Event
               PROVE  IsFiniteSet(Unposted(f)') /\ turns'[f] + Cardinality(Unposted(f)') =< attempts'[f]
    BY DEF TurnsCounted, Unposted
  <2>1. ConvOf[f] \in Conv
    BY QueueAssumption
  <2>2. CASE f # e
    <3>1. Unposted(f)' \subseteq Unposted(f)
      BY <1>3, <2>1, <2>2 DEF Unposted, Holding, Driving
    <3> QED
      BY <1>2, <2>2, <3>1, FewerUnposted
  <2>3. CASE f = e
    <3>1. /\ IsFiniteSet(Unposted(e)) /\ turns[e] + Cardinality(Unposted(e)) =< attempts[e]
          /\ Cardinality(Unposted(e)) \in Nat
      BY FS_CardinalityType DEF HistoryInv, TurnsCounted
    <3>2. Unposted(e)' \subseteq Unposted(e) \cup {p}
      BY <1>3, <2>1, <2>3 DEF Unposted, Holding, Driving
    <3>3. p \notin Unposted(e)
      BY <1>1 DEF Unposted
    <3>4. /\ IsFiniteSet(Unposted(e) \cup {p})
          /\ Cardinality(Unposted(e) \cup {p}) = Cardinality(Unposted(e)) + 1
      BY <3>1, <3>3, FS_AddElement
    <3>5. /\ IsFiniteSet(Unposted(e)')
          /\ Cardinality(Unposted(e)') =< Cardinality(Unposted(e)) + 1
          /\ Cardinality(Unposted(e)') \in Nat
      BY <3>2, <3>4, FS_Subset, FS_CardinalityType
    <3> QED
      BY <1>2, <2>3, <3>1, <3>5
  <2> QED
    BY <2>2, <2>3
<1>5. Accepted'
  BY <1>3 DEF HistoryInv, Accepted, Holding, Driving
<1>6. HeldTried'
  <2> SUFFICES ASSUME NEW q \in Proc, NEW d \in Conv, Holding(q, d)'
               PROVE  attempts'[job'[q][d].item] > 0
    BY DEF HeldTried, Holding, Driving
  <2>1. CASE job'[q][d].item = e
    BY <1>2, <2>1
  <2>2. CASE Holding(q, d) /\ job'[q][d] = job[q][d]
    BY <1>2, <2>2 DEF HistoryInv, HeldTried, LeaseInv, JobsNamed
  <2> QED
    BY <1>3, <2>1, <2>2
<1>7. Outcomes'
  <2> SUFFICES ASSUME NEW f \in Event
               PROVE  /\ attempts'[f] =< MaxAttempts
                      /\ status'[f] = "absent" => attempts'[f] = 0
                      /\ status'[f] \in {"queued", "failed"} => attempts'[f] < MaxAttempts
                      /\ status'[f] = "dead_letter" => attempts'[f] = MaxAttempts
                      /\ status'[f] = "completed" => turns'[f] > 0
                      /\ status'[f] \notin {"absent", "queued"} => attempts'[f] > 0
    BY DEF Outcomes
  <2>1. CASE f = e
    BY <1>1, <1>2, <2>1
  <2>2. CASE f # e
    BY <1>2, <2>2 DEF HistoryInv, Outcomes
  <2> QED
    BY <2>1, <2>2
<1>8. Stored' = Stored
  BY <1>1, <1>2 DEF Stored
<1>9. PlacesIssued'
  BY <1>8 DEF HistoryInv, PlacesIssued
<1>10. FirstTriesInOrder'
  <2> SUFFICES ASSUME NEW f \in Stored, NEW g \in Stored, ConvOf[f] = ConvOf[g],
                      seq[f] < seq[g], attempts'[g] > 0
               PROVE  attempts'[f] > 0
    BY <1>8 DEF FirstTriesInOrder
  <2>0. f \in Event /\ g \in Event /\ status[f] # "absent" /\ seq[f] \in Nat /\ seq[g] \in Nat
    BY DEF Stored, TypeOK
  <2>1. CASE attempts[g] > 0
    BY <1>2, <2>0, <2>1 DEF HistoryInv, FirstTriesInOrder
  <2>2. CASE g = e
    <3>1. status[f] # "queued"
      BY <1>1, <2>0, <2>2
    <3> QED
      BY <1>2, <2>0, <3>1 DEF HistoryInv, Outcomes
  <2> QED
    BY <1>2, <2>0, <2>1, <2>2
<1>11. RowTokensUnshared'
  BY <1>2 DEF HistoryInv, RowTokensUnshared
<1>12. OwnedOpen'
  <2> SUFFICES ASSUME NEW q \in Proc, NEW d \in Conv, Holding(q, d)', OwnsLease(q, d)'
               PROVE  LET f == job'[q][d].item
                      IN  /\ token'[f] = job'[q][d].token => status'[f] \in {"processing", "dead_letter"}
                          /\ token'[f] = NoToken => status'[f] = "queued"
    BY DEF OwnedOpen, Holding, Driving
  <2>1. CASE job'[q][d].item = e /\ job'[q][d].token = nextToken
    BY <1>2, <2>1 DEF NoToken
  <2>2. CASE Holding(q, d) /\ job'[q][d] = job[q][d]
    <3>1. /\ job[q][d].token # nextToken /\ job[q][d].item \in Event
          /\ ConvOf[job[q][d].item] = d
      BY <2>2 DEF LeaseInv, JobsNamed, TokensIssued, TypeOK
    <3>2. d # c
      BY <1>2, <2>2, <3>1 DEF OwnsLease
    <3>3. OwnsLease(q, d)
      BY <1>2, <2>2, <3>2 DEF OwnsLease
    <3> QED
      BY <1>1, <1>2, <2>2, <3>1, <3>2, <3>3 DEF HistoryInv, OwnedOpen
  <2> QED
    BY <1>3, <2>1, <2>2
<1> QED
  BY <1>4, <1>5, <1>6, <1>7, <1>9, <1>10, <1>11, <1>12 DEF HistoryInv

LEMMA ClaimHistory ==
  ASSUME TypeOK, TypeOK', LeaseInv, HistoryInv, NEW p \in Proc, NEW c \in Conv, Claim(p, c)
  PROVE  HistoryInv'
<1>1. CASE Return(p, c) /\ UNCHANGED <<rows, state>>
  BY <1>1, ClaimQuiet
<1>2. CASE ClearState(c, {}) /\ Return(p, c) /\ UNCHANGED rows
  BY <1>2, ClaimQuiet
<1>3. ASSUME NEW e \in Event, Oldest(e, c), Lease(c, e, {}), UNCHANGED seq,
             Receive(p, c, e) \/ Return(p, c)
      PROVE  HistoryInv'
  <2>1. ~(loop[p][c] \in {"claimed", "post"}) /\ UNCHANGED <<seq, turns>>
    BY <1>3 DEF Claim
  <2> QED
    BY <1>3, <2>1, LeaseHistory
<1> QED
  BY <1>1, <1>2, <1>3 DEF Claim

LEMMA CompleteHistory ==
  ASSUME TypeOK, TypeOK', LeaseInv, HistoryInv, NEW p \in Proc, NEW c \in Conv, Complete(p, c)
  PROVE  HistoryInv'
<1> DEFINE done == job[p][c].item
<1>1. /\ loop[p][c] = "complete" /\ Holding(p, c) /\ done \in Event /\ ConvOf[done] = c
      /\ turns[done] > 0 /\ attempts[done] > 0
  BY DEF Complete, Holding, Driving, LeaseInv, JobsNamed, HistoryInv, Accepted, HeldTried
<1>2. CASE ~\E e \in Event : Lease(c, e, {done})
  BY <1>2, CompleteQuiet
<1>3. ASSUME NEW e \in Event, Oldest(e, c), Lease(c, e, {done}), UNCHANGED seq,
             OwnsLease(p, c), token[done] = job[p][c].token,
             Receive(p, c, e) \/ (Goto(p, c, "fail") /\ UNCHANGED job)
      PROVE  HistoryInv'
  <2>1. status[done] # "absent"
    BY <1>1, <1>3 DEF HistoryInv, OwnedOpen
  <2>2. UNCHANGED <<seq, turns>>
    BY <1>3 DEF Complete
  <2> QED
    BY <1>1, <1>3, <2>1, <2>2, LeaseHistory
<1>4. ASSUME NEW e \in Event, Lease(c, e, {done})
      PROVE  HistoryInv'
  <2>1. token'[e] = nextToken /\ token[e] # nextToken
    BY <1>4 DEF Lease, TypeOK, LeaseInv, TokensIssued
  <2>2. ~UNCHANGED token
    BY <2>1
  <2>3. \/ UNCHANGED <<rows, state>>
        \/ UNCHANGED <<token, attempts, seq>>
        \/ UNCHANGED <<rows, state, job>>
        \/ /\ OwnsLease(p, c) /\ token[done] = job[p][c].token
           /\ \E f \in Event, reply \in Reply :
                 /\ Oldest(f, c)
                 /\ Lease(c, f, {done})
                 /\ IF reply = "ok" THEN Receive(p, c, f)
                    ELSE Goto(p, c, "fail") /\ UNCHANGED job
           /\ UNCHANGED seq
    BY ZenonT(30) DEF Complete
  <2>4. /\ OwnsLease(p, c) /\ token[done] = job[p][c].token
        /\ \E f \in Event, reply \in Reply :
              /\ Oldest(f, c)
              /\ Lease(c, f, {done})
              /\ IF reply = "ok" THEN Receive(p, c, f) ELSE Goto(p, c, "fail") /\ UNCHANGED job
        /\ UNCHANGED seq
    BY <2>2, <2>3 DEF rows
  <2> QED
    BY <1>3, <2>4
<1> QED
  BY <1>2, <1>4

LEMMA NextHistory ==
  ASSUME TypeOK, TypeOK', LeaseInv, HistoryInv, [Next]_vars
  PROVE  HistoryInv'
<1>1. CASE UNCHANGED vars
  BY <1>1, TableHistory DEF vars, rows, state, workers
<1>2. CASE Next
  BY <1>2, EnqueueHistory, MoveHistory, PostHistory, ClaimHistory, CompleteHistory, FailHistory,
     RecoveryHistory, ProcessHistory
  DEF Next, LoopStep, LeaseExpires
<1> QED
  BY <1>1, <1>2

\* What rows, loops and state rows say of the past is preserved by every step.
THEOREM History == Spec => [](TypeOK /\ LeaseInv /\ HistoryInv)
<1>1. Init => TypeOK /\ LeaseInv /\ HistoryInv
  BY InitType, InitLease, InitHistory
<1>2. TypeOK /\ LeaseInv /\ HistoryInv /\ [Next]_vars => (TypeOK /\ LeaseInv /\ HistoryInv)'
  BY NextType, NextLease, NextHistory DEF LeaseInv
<1> QED
  BY <1>1, <1>2, PTL DEF Spec

\* A row's status agrees with its attempts and with the turns the gateway
\* accepted, whatever expired, was lost after a COMMIT or was tried twice.
THEOREM OutcomesHonest == Spec => []HonestOutcome
<1>1. TypeOK /\ HistoryInv => HonestOutcome
  <2> SUFFICES ASSUME TypeOK, HistoryInv, NEW e \in Event
               PROVE  /\ turns[e] =< attempts[e]
                      /\ attempts[e] =< MaxAttempts
                      /\ status[e] = "queued" => attempts[e] < MaxAttempts
                      /\ status[e] = "failed" => attempts[e] < MaxAttempts
                      /\ status[e] = "dead_letter" => attempts[e] = MaxAttempts
                      /\ status[e] = "completed" => turns[e] > 0
    BY DEF HonestOutcome
  <2>1. Cardinality(Unposted(e)) \in Nat /\ turns[e] + Cardinality(Unposted(e)) =< attempts[e]
    BY FS_CardinalityType DEF HistoryInv, TurnsCounted
  <2>2. turns[e] =< attempts[e]
    BY <2>1 DEF TypeOK
  <2> QED
    BY <2>2 DEF HistoryInv, Outcomes
<1> QED
  BY <1>1, History, PTL

\* First tries keep the order of the messages, for any crashes and recoveries.
THEOREM OrderKept == Spec => []FirstTriesInOrder
<1>1. HistoryInv => FirstTriesInOrder
  BY DEF HistoryInv
<1> QED
  BY <1>1, History, PTL
(***************************************************************************)
(* The queue implements SessionTurns: every step is a step of SessionTurns *)
(* or leaves Phase and attempts alone.                                     *)
(***************************************************************************)
TurnStep == [Abstract!Next]_(Abstract!vars)

LEMMA PhaseAt ==
  ASSUME NEW e \in Event
  PROVE  /\ Phase[e] = IF status[e] # "processing" THEN status[e]
                       ELSE IF token[e] \in live THEN "running" ELSE "lapsed"
         /\ Phase'[e] = IF status'[e] # "processing" THEN status'[e]
                        ELSE IF token'[e] \in live' THEN "running" ELSE "lapsed"
  BY DEF Phase

LEMMA PhaseExcept ==
  ASSUME NEW e \in Event, NEW x,
         \A f \in Event : Phase'[f] = IF f = e THEN x ELSE Phase[f]
  PROVE  Phase' = [Phase EXCEPT ![e] = x]
<1>1. Phase' = [f \in Event |-> Phase'[f]]
  BY DEF Phase
<1>2. [Phase EXCEPT ![e] = x] = [f \in Event |-> IF f = e THEN x ELSE Phase[f]]
  BY DEF Phase
<1> QED
  BY <1>1, <1>2

LEMMA PhaseStays ==
  ASSUME \A f \in Event : Phase'[f] = Phase[f]
  PROVE  Phase' = Phase
<1>1. Phase' = [f \in Event |-> Phase'[f]] /\ Phase = [f \in Event |-> Phase[f]]
  BY DEF Phase
<1> QED
  BY <1>1

LEMMA QuietTurn ==
  ASSUME UNCHANGED <<status, token, attempts, live>>
  PROVE  TurnStep
  BY DEF TurnStep, Abstract!vars, Phase

\* Dropping the token of one row from live ends no other row's lease.
LEMMA OthersKeepLease ==
  ASSUME TypeOK, LeaseInv, HistoryInv, NEW e \in Event, NEW f \in Event, f # e
  PROVE  token[f] \in live \ {token[e]} <=> token[f] \in live
<1>1. token[f] = token[e] => token[f] = NoToken
  BY DEF HistoryInv, RowTokensUnshared
<1>2. NoToken \notin live
  BY DEF NoToken, LeaseInv, TokensIssued
<1> QED
  BY <1>1, <1>2

\* A running row is the one its conversation's state row names.
LEMMA RunningNamed ==
  ASSUME TypeOK, LeaseInv, NEW c \in Conv, NEW f \in Abstract!Running(c)
  PROVE  f \in Event /\ active[c] = f /\ held[c] \in live
<1>1. f \in Event /\ ConvOf[f] = c /\ Phase[f] = "running"
  BY DEF Abstract!Running
<1>2. status[f] # "running"
  BY <1>1 DEF TypeOK, Status
<1> QED
  BY <1>1, <1>2, PhaseAt DEF LeaseInv, OneLiveLease

LEMMA ArriveTurn ==
  ASSUME TypeOK, NEW p \in Proc, NEW e \in Event, Enqueue(p, e)
  PROVE  TurnStep
<1>1. UNCHANGED <<token, attempts, live>>
  BY DEF Enqueue, state
<1>2. CASE status[e] = "absent"
  <2>1. status' = [status EXCEPT ![e] = "queued"]
    BY <1>2 DEF Enqueue
  <2>2. Phase' = [Phase EXCEPT ![e] = "queued"]
    <3>1. \A f \in Event : Phase'[f] = IF f = e THEN "queued" ELSE Phase[f]
      BY <1>1, <2>1, PhaseAt DEF TypeOK
    <3> QED
      BY <3>1, PhaseExcept
  <2>3. Phase[e] = "absent"
    BY <1>2, PhaseAt
  <2> QED
    BY <1>1, <2>2, <2>3 DEF TurnStep, Abstract!Next, Abstract!Arrive
<1>3. CASE status[e] # "absent"
  BY <1>1, <1>3, QuietTurn DEF Enqueue
<1> QED
  BY <1>2, <1>3

LEMMA BeginTurn ==
  ASSUME TypeOK, LeaseInv, HistoryInv, NEW c \in Conv, NEW e \in Event,
         ~Busy(c), Oldest(e, c), Lease(c, e, {})
  PROVE  TurnStep
<1>1. ConvOf[e] = c /\ status[e] = "queued" /\ attempts[e] < MaxAttempts
  BY DEF Oldest, Queued, HistoryInv, Outcomes
<1>2. Phase[e] = "queued"
  BY <1>1, PhaseAt
<1>3. Abstract!Running(c) = {}
  BY RunningNamed, QueueAssumption DEF Busy
<1>4. attempts' = [attempts EXCEPT ![e] = @ + 1]
  BY DEF Lease
<1>5. Phase' = [Phase EXCEPT ![e] = "running"]
  <2> SUFFICES ASSUME NEW f \in Event
               PROVE  Phase'[f] = IF f = e THEN "running" ELSE Phase[f]
    BY PhaseExcept
  <2>1. CASE f = e
    <3>1. status'[f] = "processing" /\ token'[f] = nextToken /\ nextToken \in live'
      BY <2>1 DEF Lease, TypeOK
    <3> QED
      BY <2>1, <3>1, PhaseAt
  <2>2. CASE f # e
    <3>1. status'[f] = status[f] /\ token'[f] = token[f]
      BY <2>2 DEF Lease, TypeOK
    <3>2. live' = live \cup {nextToken} /\ token[f] # nextToken
      BY DEF Lease, LeaseInv, TokensIssued, TypeOK
    <3> QED
      BY <2>2, <3>1, <3>2, PhaseAt
  <2> QED
    BY <2>1, <2>2
<1>6. Abstract!Begin(e)
  BY <1>1, <1>2, <1>3, <1>4, <1>5 DEF Abstract!Begin
<1> QED
  BY <1>6 DEF TurnStep, Abstract!Next

LEMMA ClaimTurn ==
  ASSUME TypeOK, LeaseInv, HistoryInv, NEW p \in Proc, NEW c \in Conv, Claim(p, c)
  PROVE  TurnStep
<1>1. CASE UNCHANGED <<rows, state>>
  BY <1>1, QuietTurn DEF rows, state
<1>2. CASE ClearState(c, {}) /\ UNCHANGED rows
  BY <1>2, QuietTurn DEF rows, ClearState
<1>3. CASE ~Busy(c) /\ \E e \in Event : Oldest(e, c) /\ Lease(c, e, {})
  BY <1>3, BeginTurn
<1> QED
  BY <1>1, <1>2, <1>3 DEF Claim

\* What a loop finds when the fence lets it complete its item.
LEMMA CompleteFinds ==
  ASSUME TypeOK, LeaseInv, HistoryInv, NEW p \in Proc, NEW c \in Conv,
         loop[p][c] = "complete", OwnsLease(p, c),
         token[job[p][c].item] = job[p][c].token
  PROVE  /\ job[p][c].item \in Event
         /\ ConvOf[job[p][c].item] = c
         /\ status[job[p][c].item] \in {"processing", "dead_letter"}
         /\ Abstract!Answerable(job[p][c].item)
<1>1. Holding(p, c)
  BY DEF Holding, Driving
<1>2. /\ job[p][c].item \in Event
      /\ ConvOf[job[p][c].item] = c
      /\ status[job[p][c].item] \in {"processing", "dead_letter"}
  BY <1>1 DEF LeaseInv, JobsNamed, HistoryInv, OwnedOpen
<1>3. Phase[job[p][c].item] \in {"running", "lapsed", "dead_letter"}
  BY <1>2, PhaseAt
<1> QED
  BY <1>2, <1>3 DEF Abstract!Answerable

LEMMA AnswerTurn ==
  ASSUME TypeOK, LeaseInv, HistoryInv, NEW d \in Event, NEW c \in Conv,
         Abstract!Answerable(d), status' = [status EXCEPT ![d] = "completed"],
         ClearState(c, {d}), UNCHANGED <<token, attempts>>
  PROVE  TurnStep
<1>1. Phase' = [Phase EXCEPT ![d] = "completed"]
  <2> SUFFICES ASSUME NEW f \in Event
               PROVE  Phase'[f] = IF f = d THEN "completed" ELSE Phase[f]
    BY PhaseExcept
  <2>1. CASE f = d
    BY <2>1, PhaseAt DEF TypeOK
  <2>2. CASE f # d
    <3>1. live' = live \ {token[d]}
      BY DEF ClearState
    <3>2. token[f] \in live' <=> token[f] \in live
      BY <2>2, <3>1, OthersKeepLease
    <3> QED
      BY <2>2, <3>2, PhaseAt DEF TypeOK
  <2> QED
    BY <2>1, <2>2
<1> QED
  BY <1>1 DEF TurnStep, Abstract!Next, Abstract!Answer

LEMMA HandOverTurn ==
  ASSUME TypeOK, LeaseInv, HistoryInv, NEW d \in Event, NEW c \in Conv, NEW e \in Event,
         Abstract!Answerable(d), ConvOf[d] = c, active[c] = d,
         status[d] \in {"processing", "dead_letter"}, Oldest(e, c), Lease(c, e, {d})
  PROVE  TurnStep
<1>1. ConvOf[e] = c /\ status[e] = "queued" /\ attempts[e] < MaxAttempts /\ e # d
  BY DEF Oldest, Queued, HistoryInv, Outcomes
<1>2. Phase[e] = "queued"
  BY <1>1, PhaseAt
<1>3. Abstract!Running(c) \subseteq {d}
  BY RunningNamed
<1>4. attempts' = [attempts EXCEPT ![e] = @ + 1]
  BY DEF Lease
<1>5. \A f \in Event : Phase'[f] = IF f = e THEN "running"
                                   ELSE IF f = d THEN "completed" ELSE Phase[f]
  <2> SUFFICES ASSUME NEW f \in Event
               PROVE  Phase'[f] = IF f = e THEN "running"
                                  ELSE IF f = d THEN "completed" ELSE Phase[f]
    OBVIOUS
  <2>1. CASE f = e
    <3>1. status'[f] = "processing" /\ token'[f] = nextToken /\ nextToken \in live'
      BY <2>1 DEF Lease, TypeOK
    <3> QED
      BY <2>1, <3>1, PhaseAt
  <2>2. CASE f = d
    <3>1. status'[f] = "completed"
      BY <1>1, <2>2 DEF Lease
    <3> QED
      BY <1>1, <2>2, <3>1, PhaseAt
  <2>3. CASE f # e /\ f # d
    <3>1. status'[f] = status[f] /\ token'[f] = token[f]
      BY <2>3 DEF Lease, TypeOK
    <3>2. live' = (live \ {token[d]}) \cup {nextToken} /\ token[f] # nextToken
      BY DEF Lease, LeaseInv, TokensIssued, TypeOK
    <3>3. token[f] \in live' <=> token[f] \in live
      BY <2>3, <3>2, OthersKeepLease
    <3> QED
      BY <2>3, <3>1, <3>3, PhaseAt
  <2> QED
    BY <2>1, <2>2, <2>3
<1>6. Phase' = [Phase EXCEPT ![d] = "completed", ![e] = "running"]
  <2>1. Phase' = [f \in Event |-> Phase'[f]]
    BY DEF Phase
  <2>2. Phase' = [f \in Event |-> IF f = e THEN "running"
                                  ELSE IF f = d THEN "completed" ELSE Phase[f]]
    BY <1>5, <2>1
  <2>3. DOMAIN Phase = Event
    BY DEF Phase
  <2> QED
    BY <1>1, <2>2, <2>3
<1>7. Abstract!AnswerAndBegin(d, e)
  BY <1>1, <1>2, <1>3, <1>4, <1>6 DEF Abstract!AnswerAndBegin
<1> QED
  BY <1>7 DEF TurnStep, Abstract!Next

LEMMA CompleteTurn ==
  ASSUME TypeOK, LeaseInv, HistoryInv, NEW p \in Proc, NEW c \in Conv, Complete(p, c)
  PROVE  TurnStep
<1> DEFINE done == job[p][c].item
<1>1. loop[p][c] = "complete"
  BY DEF Complete
<1>2. CASE UNCHANGED <<rows, state>>
  BY <1>2, QuietTurn DEF rows, state
<1>3. CASE /\ OwnsLease(p, c) /\ token[done] = job[p][c].token
           /\ status' = [status EXCEPT ![done] = "completed"]
           /\ ClearState(c, {done})
           /\ UNCHANGED <<token, attempts, seq>>
  BY <1>1, <1>3, CompleteFinds, AnswerTurn
<1>4. ASSUME OwnsLease(p, c), token[done] = job[p][c].token,
             NEW e \in Event, Oldest(e, c), Lease(c, e, {done})
      PROVE  TurnStep
  BY <1>1, <1>4, CompleteFinds, HandOverTurn DEF OwnsLease
<1> QED
  BY <1>2, <1>3, <1>4 DEF Complete

\* A loop that gives its item up finds it running, lapsed, re-queued or
\* already buried; a buried row gets the same verdict again.
LEMMA FailTurn ==
  ASSUME TypeOK, LeaseInv, HistoryInv, NEW p \in Proc, NEW c \in Conv, Fail(p, c)
  PROVE  TurnStep
<1> DEFINE e == job[p][c].item
<1>1. Holding(p, c) /\ e \in Event /\ attempts[e] > 0 /\ UNCHANGED <<token, attempts>>
  BY DEF Fail, Holding, Driving, LeaseInv, JobsNamed, HistoryInv, HeldTried
<1>2. CASE UNCHANGED <<status, state>>
  BY <1>1, <1>2, QuietTurn DEF state
<1>3. CASE /\ OwnsLease(p, c)
           /\ token[e] \notin {job[p][c].token, NoToken}
           /\ status' = status
           /\ ClearState(c, {})
  BY <1>1, <1>3, QuietTurn DEF ClearState
<1>4. CASE /\ OwnsLease(p, c)
           /\ token[e] \in {job[p][c].token, NoToken}
           /\ status' = [status EXCEPT ![e] = Verdict(e)]
           /\ ClearState(c, {e})
  <2>1. status[e] \in {"processing", "dead_letter", "queued"}
    BY <1>1, <1>4 DEF HistoryInv, OwnedOpen
  <2>2. live' = live \ {token[e]}
    BY <1>4 DEF ClearState
  <2>3. \A f \in Event : Phase'[f] = IF f = e THEN Verdict(e) ELSE Phase[f]
    <3> SUFFICES ASSUME NEW f \in Event
                 PROVE  Phase'[f] = IF f = e THEN Verdict(e) ELSE Phase[f]
      OBVIOUS
    <3>1. CASE f = e
      <4>1. status'[f] = Verdict(e)
        BY <1>1, <1>4, <3>1 DEF TypeOK
      <4>2. Verdict(e) # "processing"
        BY DEF Verdict
      <4> QED
        BY <3>1, <4>1, <4>2, PhaseAt
    <3>2. CASE f # e
      <4>1. status'[f] = status[f] /\ token'[f] = token[f]
        BY <1>1, <1>4, <3>2 DEF TypeOK
      <4>2. token[f] \in live' <=> token[f] \in live
        BY <1>1, <2>2, <3>2, OthersKeepLease
      <4> QED
        BY <3>2, <4>1, <4>2, PhaseAt
    <3> QED
      BY <3>1, <3>2
  <2>4. CASE status[e] = "dead_letter"
    <3>1. Verdict(e) = "dead_letter" /\ Phase[e] = "dead_letter"
      BY <1>1, <2>4, PhaseAt, QueueAssumption DEF HistoryInv, Outcomes, Verdict
    <3>2. Phase' = Phase
      BY <2>3, <3>1, PhaseStays
    <3> QED
      BY <1>1, <3>2 DEF TurnStep, Abstract!vars
  <2>5. CASE status[e] \in {"processing", "queued"}
    <3>1. Phase[e] \in {"running", "lapsed", "queued"}
      BY <1>1, <2>5, PhaseAt
    <3>2. Phase' = [Phase EXCEPT ![e] = Verdict(e)]
      <4>1. Phase' = [f \in Event |-> Phase'[f]] /\ Phase = [f \in Event |-> Phase[f]]
        BY DEF Phase
      <4> QED
        BY <2>3, <4>1
    <3>3. Abstract!GiveUp(e)
      BY <1>1, <3>1, <3>2 DEF Abstract!GiveUp, Verdict
    <3> QED
      BY <1>1, <3>3 DEF TurnStep, Abstract!Next
  <2> QED
    BY <2>1, <2>4, <2>5
<1> QED
  BY <1>2, <1>3, <1>4 DEF Fail

\* The lapsed rows of SessionTurns are the expired rows.
LEMMA LapsedExpired ==
  ASSUME TypeOK, NEW e \in Event
  PROVE  /\ e \in Abstract!Lapsed(TRUE) <=> Expired(e) /\ attempts[e] >= MaxAttempts
         /\ e \in Abstract!Lapsed(FALSE) <=> Retriable(e)
<1>1. Phase[e] = "lapsed" <=> Expired(e)
  BY PhaseAt DEF Expired, TypeOK, Status
<1>2. attempts[e] \in Nat /\ MaxAttempts \in Nat
  BY QueueAssumption DEF TypeOK
<1>3. ~(attempts[e] >= MaxAttempts) <=> attempts[e] < MaxAttempts
  BY <1>2
<1>4. (attempts[e] >= MaxAttempts) \in BOOLEAN
  BY <1>2
<1> QED
  BY <1>1, <1>3, <1>4 DEF Abstract!Lapsed, Retriable

LEMMA RecoveryTurn ==
  ASSUME TypeOK, NEW p \in Proc, RecoveryStep(p)
  PROVE  TurnStep
<1>1. ASSUME NEW by \in Caller, StartRecovery(p, by)
      PROVE  TurnStep
  <2>1. Phase' = [e \in Event |-> IF e \in Abstract!Lapsed(TRUE) THEN "dead_letter" ELSE Phase[e]]
    <3> SUFFICES ASSUME NEW e \in Event
                 PROVE  Phase'[e] = IF e \in Abstract!Lapsed(TRUE) THEN "dead_letter" ELSE Phase[e]
      BY DEF Phase
    <3>1. /\ status'[e] = IF Expired(e) /\ attempts[e] >= MaxAttempts
                          THEN "dead_letter" ELSE status[e]
          /\ UNCHANGED <<token, live>>
      BY <1>1 DEF StartRecovery, state
    <3> QED
      BY <3>1, PhaseAt, LapsedExpired
  <2> QED
    BY <1>1, <2>1 DEF StartRecovery, TurnStep, Abstract!Next, Abstract!Sweep
<1>2. CASE Requeue(p)
  <2>1. Phase' = [e \in Event |-> IF e \in Abstract!Lapsed(FALSE) THEN "queued" ELSE Phase[e]]
    <3> SUFFICES ASSUME NEW e \in Event
                 PROVE  Phase'[e] = IF e \in Abstract!Lapsed(FALSE) THEN "queued" ELSE Phase[e]
      BY DEF Phase
    <3>1. /\ status'[e] = IF Retriable(e) THEN "queued" ELSE status[e]
          /\ token'[e] = IF Retriable(e) THEN NoToken ELSE token[e]
          /\ UNCHANGED live
      BY <1>2 DEF Requeue, state
    <3> QED
      BY <3>1, PhaseAt, LapsedExpired
  <2> QED
    BY <1>2, <2>1 DEF Requeue, TurnStep, Abstract!Next, Abstract!Sweep
<1>3. CASE ClearExpired(p)
  BY <1>3, QuietTurn DEF ClearExpired, rows
<1>4. CASE RecoveryFails(p)
  BY <1>4, QuietTurn DEF RecoveryFails, rows, state
<1> QED
  BY <1>1, <1>2, <1>3, <1>4 DEF RecoveryStep, BeginRecovery

\* At most one row loses its lease when a token runs out.
LEMMA LapseTurn ==
  ASSUME TypeOK, LeaseInv, HistoryInv, NEW t \in live, Expire(t)
  PROVE  TurnStep
<1>1. UNCHANGED <<status, token, attempts>> /\ live' = live \ {t}
  BY DEF Expire, rows
<1>2. ASSUME NEW e \in Event, status[e] = "processing", token[e] = t
      PROVE  TurnStep
  <2>1. \A f \in Event : Phase'[f] = IF f = e THEN "lapsed" ELSE Phase[f]
    <3> SUFFICES ASSUME NEW f \in Event
                 PROVE  Phase'[f] = IF f = e THEN "lapsed" ELSE Phase[f]
      OBVIOUS
    <3>1. CASE f = e
      BY <1>1, <1>2, <3>1, PhaseAt
    <3>2. CASE f # e
      BY <1>1, <1>2, <3>2, PhaseAt, OthersKeepLease
    <3> QED
      BY <3>1, <3>2
  <2>2. Phase' = [Phase EXCEPT ![e] = "lapsed"]
    BY <2>1, PhaseExcept
  <2>3. Phase[e] = "running"
    BY <1>2, PhaseAt
  <2> QED
    BY <1>1, <2>2, <2>3 DEF TurnStep, Abstract!Next, Abstract!Lapse
<1>3. CASE \A e \in Event : ~(status[e] = "processing" /\ token[e] = t)
  <2>1. \A f \in Event : Phase'[f] = Phase[f]
    BY <1>1, <1>3, PhaseAt
  <2> QED
    BY <1>1, <2>1, PhaseStays DEF TurnStep, Abstract!vars
<1> QED
  BY <1>2, <1>3

LEMMA NextTurn ==
  ASSUME TypeOK, LeaseInv, HistoryInv, [Next]_vars
  PROVE  TurnStep
<1>1. CASE UNCHANGED vars
  BY <1>1, QuietTurn DEF vars, rows, state
<1>2. ASSUME NEW p \in Proc, NEW e \in Event, Enqueue(p, e)
      PROVE  TurnStep
  BY <1>2, ArriveTurn
<1>3. ASSUME NEW p \in Proc, NEW c \in Conv,
             Dispatch(p, c) \/ Continue(p, c) \/ Post(p, c) \/ Leave(p, c)
      PROVE  TurnStep
  BY <1>3, QuietTurn DEF Dispatch, Continue, Post, Leave, rows, state
<1>4. ASSUME NEW p \in Proc, Stop(p) \/ Exit(p) \/ Start(p)
      PROVE  TurnStep
  BY <1>4, QuietTurn DEF Stop, Exit, Start, rows, state
<1> QED
  BY <1>1, <1>2, <1>3, <1>4, ClaimTurn, CompleteTurn, FailTurn, RecoveryTurn, LapseTurn
  DEF Next, LoopStep, LeaseExpires

\* The queue implements the promise it makes to a conversation: whatever
\* processes, leases, fences and recoveries do, one message at a time is
\* running, begun at most MaxAttempts times, and ended by at most one step.
THEOREM TurnsImplemented == Spec => ImplementsTurns
<1>1. Init => Abstract!Init
  BY DEF Init, Abstract!Init, Phase
<1>2. TypeOK /\ LeaseInv /\ HistoryInv /\ [Next]_vars => [Abstract!Next]_(Abstract!vars)
  BY NextTurn DEF TurnStep
<1> QED
  BY <1>1, <1>2, History, PTL DEF Spec, ImplementsTurns, Abstract!Spec
=============================================================================
