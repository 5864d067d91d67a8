------------------------------ MODULE MCDelivery ------------------------------
(* OutboxDelivery, GuardedJobs, WorkItemEvidence, HumanTakeover and         *)
(* AgentTurns side by side: a behaviour is one of a single module, chosen   *)
(* by part, while the variables of the others rest in their initial states. *)
EXTENDS OutboxDelivery, GuardedJobs, WorkItemEvidence, HumanTakeover, AgentTurns

CONSTANTS p1, p2, w1, w2, j1, r1, r2, a1, a2, i1, i2, e1, o1, o2, m1, m2, z1

VARIABLE part

vars == <<part, outboxVars, jobVars, evidenceVars, takeoverVars, turnVars>>

DeliveryInit ==
    /\ part \in {"one processor", "two processors", "jobs", "evidence", "takeover",
                "memory", "turns"}
    /\ OutboxInit /\ JobsInit /\ EvidenceInit /\ TakeoverInit /\ TurnsInit

\* One process with two rows, or two processes with one.  One message, a
\* release and the file's other writers with a failure, or two messages at once.
WithinPart ==
    CASE part = "one processor" -> at'[p2] = "idle"
      [] part = "two processors" -> row'[2] = NoRow
      [] part = "memory" -> turns'[m2] = Arrived
      [] part = "turns" -> turns'[z1] = Arrived /\ elsewhere' = NoMemory /\ lapses' = 0

OutboxStep(A) ==
    /\ part \in {"one processor", "two processors"}
    /\ A
    /\ WithinPart
    /\ UNCHANGED <<part, jobVars, evidenceVars, takeoverVars, turnVars>>

JobsStep(A) ==
    part = "jobs" /\ A /\ UNCHANGED <<part, outboxVars, evidenceVars, takeoverVars, turnVars>>
EvidenceStep ==
    /\ part = "evidence" /\ EvidenceNext
    /\ UNCHANGED <<part, outboxVars, jobVars, takeoverVars, turnVars>>
TakeoverStep(A) ==
    part = "takeover" /\ A /\ UNCHANGED <<part, outboxVars, jobVars, evidenceVars, turnVars>>

TurnStep(A) ==
    /\ part \in {"memory", "turns"}
    /\ A
    /\ WithinPart
    /\ UNCHANGED <<part, outboxVars, jobVars, evidenceVars, takeoverVars>>

DeliveryNext ==
    \/ OutboxStep(OutboxNext) \/ JobsStep(JobsNext) \/ EvidenceStep
    \/ TakeoverStep(TakeoverNext) \/ TurnStep(TurnsNext)

\* The fairness of the modules, each in its part; time passes, operations go
\* on, and the inactivity monitor looks once a minute.
DeliveryFairness ==
    /\ \A p \in Proc : WF_vars(OutboxStep(Work(p))) /\ WF_vars(OutboxStep(Restart(p)))
    /\ \A e \in Id : WF_vars(OutboxStep(FallDue(e)))
    /\ \A w \in Runner, j \in Job : WF_vars(JobsStep(RunnerStep(w, j)))
    /\ WF_vars(TakeoverStep(Passes))
    /\ WF_vars(TakeoverStep(\E o \in Op : MonitorFinds(o)))
    /\ \A o \in Op : WF_vars(TakeoverStep(OpStep(o)))
    /\ \A t \in Turn : WF_vars(TurnStep(Proceeds(t)))

DeliverySpec == DeliveryInit /\ [][DeliveryNext]_vars /\ DeliveryFairness

\* Every variable of the modules keeps its type.
DeliveryTypeOK ==
    OutboxTypeOK /\ JobsTypeOK /\ EvidenceTypeOK /\ TakeoverTypeOK /\ TurnsTypeOK

\* What was begun comes to its end: rows are processed or dead-lettered, jobs
\* complete or fail, messages are answered or given up, and a conversation
\* operators leave goes back to the AI.
WorkEnds ==
    RowsSettle /\ JobsEnd /\ TurnsEnd /\ TakeoversEnd
=============================================================================
