----------------------------- MODULE HumanTakeover -----------------------------
(***************************************************************************)
(* Who answers a conversation: the takeover lease in Redis and the mark    *)
(* conversations.handled_by, written by separate steps of operators'       *)
(* requests, of escalations by the AI, of customers' messages, of the      *)
(* console's listing and of the inactivity monitor.                        *)
(*                                                                         *)
(* Times are relative: how long the lease has left, how long the session   *)
(* may still be prolonged, how long the conversation has not been touched. *)
(* An operation is the sequence of the steps it has yet to make; it may    *)
(* die, or be refused by LINE, between any two of them.  What else touches *)
(* the conversation's row (onboarding, when it links a project) is left    *)
(* out: it only postpones the monitor.                                     *)
(***************************************************************************)
EXTENDS Integers, Sequences

CONSTANTS
    Op,             \* requests handled at the same time
    PendingFor,     \* HUMAN_PENDING_TIMEOUT_MINUTES
    ActiveFor,      \* HUMAN_ACTIVE_TIMEOUT_MINUTES
    ImageFor,       \* HUMAN_SESSION_TIMEOUT_MINUTES, after an image
    MaxSession,     \* HUMAN_MAX_SESSION_MINUTES
    IdleLimit,      \* INACTIVITY_THRESHOLD_MINUTES
    MaxOps,         \* bound: operations begun by people
    MaxCuts         \* bound: operations that die

ASSUME TakeoverAssumption ==
    /\ {PendingFor, ActiveFor, ImageFor, MaxSession, IdleLimit} \subseteq Nat \ {0}
    /\ {MaxOps, MaxCuts} \subseteq Nat

VARIABLES
    lease,      \* project:<p>:takeover:<conversation> in Redis
    handledBy,  \* conversations.handled_by
    idleFor,    \* since conversations.updated_at, at most IdleLimit
    task,       \* the operations in progress
    begun,      \* operations begun
    cuts,       \* operations that died
    activeFor   \* ghost: how long the lease has been ACTIVE_HUMAN without a break

takeoverVars == <<lease, handledBy, idleFor, task, begun, cuts, activeFor>>

Least(a, b) == IF a < b THEN a ELSE b
NoLease == [status |-> "ACTIVE_AI", left |-> 0, cap |-> 0]
Lease == [status: {"PENDING_HUMAN", "ACTIVE_HUMAN"}, left: 0..MaxSession, cap: 0..MaxSession]

Active(l) == l.status = "ACTIVE_HUMAN"

TakeoverTypeOK ==
    /\ lease \in {NoLease} \cup Lease
    /\ lease.left <= lease.cap
    /\ handledBy \in {"ai", "human"}
    /\ idleFor \in 0..IdleLimit
    /\ \A o \in Op :
         /\ task[o].saw \in {"ai", "human"}
         /\ task[o].new \in {NoLease} \cup Lease
         /\ Len(task[o].todo) <= 8
    /\ begun \in 0..MaxOps
    /\ cuts \in 0..MaxCuts
    /\ activeFor \in 0..MaxSession

NoOp == [kind |-> "none", todo |-> <<>>, new |-> NoLease, saw |-> "ai"]

TakeoverInit ==
    /\ lease = NoLease
    /\ handledBy = "ai"
    /\ idleFor = 0
    /\ task = [o \in Op |-> NoOp]
    /\ begun = 0
    /\ cuts = 0
    /\ activeFor = 0

-----------------------------------------------------------------------------
(* The operations, step by step.                                           *)

Claim == <<"mark", "get", "set">>

\* POST /conversations/:id/takeover: the mark first, then the lease.
TakeoverSteps == Claim
\* POST /conversations/:id/reply: claims a conversation nobody holds.
ReplySteps == <<"claim if free", "mark", "push", "save", "get", "set">>
\* The internal reply refuses one that is not held.
InternalReplySteps == <<"only if held", "mark", "push", "save", "get", "set">>
ImageSteps == <<"mark", "push", "save", "get", "set">>
\* An escalation: the lease first, then the mark.
EscalateSteps == <<"get", "set", "mark">>
\* POST /conversations/:id/release
ReleaseSteps == <<"delete", "look", "unless ai", "return">>
\* A customer's message, at the orchestrator or /sessions/resolve.
MessageSteps == <<"look", "gate", "answer">>
\* The console lists the conversations.
ListSteps == <<"look", "gate">>
\* The inactivity monitor found the conversation idle.
MonitorSteps == <<"return">>

Steps ==
    [takeover |-> TakeoverSteps, reply |-> ReplySteps, internal |-> InternalReplySteps,
     image |-> ImageSteps, escalate |-> EscalateSteps, release |-> ReleaseSteps,
     message |-> MessageSteps, list |-> ListSteps, monitor |-> MonitorSteps]

ByPeople == DOMAIN Steps \ {"monitor"}

Free(o) == task[o] = NoOp
Doing(o, step) == ~Free(o) /\ Head(task[o].todo) = step
Then(o, todo, change) ==
    task' = [task EXCEPT ![o] = IF todo = <<>> THEN NoOp
                            ELSE [change EXCEPT !.todo = todo]]
Next1(o) == Then(o, Tail(task[o].todo), task[o])

Begin(o, kind) ==
    /\ Free(o) /\ begun < MaxOps
    /\ begun' = begun + 1
    /\ task' = [task EXCEPT ![o] = [NoOp EXCEPT !.kind = kind, !.todo = Steps[kind]]]
    /\ UNCHANGED <<lease, activeFor, handledBy, idleFor, cuts>>

\* Mutant: only conversations with a lease are selected.
MonitorFindsHeld(o) ==
    /\ Free(o)
    /\ handledBy = "human" /\ idleFor = IdleLimit /\ lease # NoLease
    /\ task' = [task EXCEPT ![o] = [NoOp EXCEPT !.kind = "monitor", !.todo = MonitorSteps]]
    /\ UNCHANGED <<lease, activeFor, handledBy, idleFor, begun, cuts>>

\* checkAndReturnToAI selects what a human handles and nobody touched.
MonitorFinds(o) ==
    /\ Free(o)
    /\ handledBy = "human" /\ idleFor = IdleLimit
    /\ task' = [task EXCEPT ![o] = [NoOp EXCEPT !.kind = "monitor", !.todo = MonitorSteps]]
    /\ UNCHANGED <<lease, activeFor, handledBy, idleFor, begun, cuts>>

\* updateHandoffState(human), and (ai).
Mark(o) ==
    /\ Doing(o, "mark")
    /\ handledBy' = "human" /\ idleFor' = 0
    /\ Next1(o)
    /\ UNCHANGED <<lease, activeFor, begun, cuts>>

Return(o) ==
    /\ Doing(o, "return")
    /\ handledBy' = "ai" /\ idleFor' = 0
    /\ Next1(o)
    /\ UNCHANGED <<lease, activeFor, begun, cuts>>

\* Mutant: a prolonged lease may run for another whole session.
NewLeaseAnew(kind) ==
    LET status == IF kind = "escalate" THEN "PENDING_HUMAN" ELSE "ACTIVE_HUMAN"
        for == CASE kind = "escalate" -> PendingFor
                 [] kind = "image" -> ImageFor
                 [] OTHER -> ActiveFor
    IN  [status |-> status, left |-> Least(for, MaxSession), cap |-> MaxSession]

\* acquireLease reads the lease and computes the next: a running session of a
\* human keeps its end, anything else begins a new one.
NewLease(kind) ==
    LET status == IF kind = "escalate" THEN "PENDING_HUMAN" ELSE "ACTIVE_HUMAN"
        for == CASE kind = "escalate" -> PendingFor
                 [] kind = "image" -> ImageFor
                 [] OTHER -> ActiveFor
        cap == IF status = "ACTIVE_HUMAN" /\ Active(lease)
               THEN lease.cap ELSE MaxSession
    IN  [status |-> status, left |-> Least(for, cap), cap |-> cap]

GetLease(o) ==
    /\ Doing(o, "get")
    /\ Then(o, Tail(task[o].todo), [task[o] EXCEPT !.new = NewLease(task[o].kind)])
    /\ UNCHANGED <<lease, activeFor, handledBy, idleFor, begun, cuts>>

SetLease(o) ==
    /\ Doing(o, "set")
    /\ lease' = task[o].new
    /\ activeFor' = IF Active(lease) /\ Active(task[o].new) THEN activeFor ELSE 0
    /\ Next1(o)
    /\ UNCHANGED <<handledBy, idleFor, begun, cuts>>

DeleteLease(o) ==
    /\ Doing(o, "delete")
    /\ lease' = NoLease /\ activeFor' = 0
    /\ Next1(o)
    /\ UNCHANGED <<handledBy, idleFor, begun, cuts>>

\* getTakeoverState before a reply.
ClaimIfFree(o) ==
    /\ Doing(o, "claim if free")
    /\ Then(o, (IF Active(lease) THEN <<>> ELSE Claim) \o Tail(task[o].todo),
            task[o])
    /\ UNCHANGED <<lease, activeFor, handledBy, idleFor, begun, cuts>>

OnlyIfHeld(o) ==
    /\ Doing(o, "only if held")
    /\ Then(o, IF Active(lease) THEN Tail(task[o].todo) ELSE <<>>, task[o])
    /\ UNCHANGED <<lease, activeFor, handledBy, idleFor, begun, cuts>>

\* The reply is pushed and stored.  (One that is refused ends the operation;
\* a text that cannot be stored does not.)
PushReply(o) ==
    /\ Doing(o, "push") \/ Doing(o, "save")
    /\ Next1(o)
    /\ UNCHANGED <<lease, activeFor, handledBy, idleFor, begun, cuts>>

\* The conversation is loaded.
Look(o) ==
    /\ Doing(o, "look")
    /\ Then(o, Tail(task[o].todo), [task[o] EXCEPT !.saw = handledBy])
    /\ UNCHANGED <<lease, activeFor, handledBy, idleFor, begun, cuts>>

UnlessAI(o) ==
    /\ Doing(o, "unless ai")
    /\ Then(o, IF task[o].saw = "human" THEN Tail(task[o].todo) ELSE <<>>, task[o])
    /\ UNCHANGED <<lease, activeFor, handledBy, idleFor, begun, cuts>>

\* The lease decides: while it is held, the message is only stored.  A mark
\* that outlived its lease, as it was loaded, is taken back.
Gate(o) ==
    /\ Doing(o, "gate")
    /\ Then(o, IF lease # NoLease THEN <<>>
               ELSE (IF task[o].saw = "human" THEN <<"return">> ELSE <<>>) \o Tail(task[o].todo),
            task[o])
    /\ UNCHANGED <<lease, activeFor, handledBy, idleFor, begun, cuts>>

\* The AI answers, or asks for a human.
Answer(o) ==
    /\ Doing(o, "answer")
    /\ \/ Next1(o)
       \/ Then(o, EscalateSteps, [task[o] EXCEPT !.kind = "escalate"])
    /\ UNCHANGED <<lease, activeFor, handledBy, idleFor, begun, cuts>>

\* The process dies, LINE refuses, or a statement fails.
BreaksOff(o) ==
    /\ ~Free(o)
    /\ cuts < MaxCuts
    /\ cuts' = cuts + 1
    /\ task' = [task EXCEPT ![o] = NoOp]
    /\ UNCHANGED <<lease, activeFor, handledBy, idleFor, begun>>

Aged(l) == IF l.left = 0 THEN NoLease ELSE [l EXCEPT !.left = @ - 1, !.cap = @ - 1]

\* Time passes, also for a lease that has been computed and not yet written.
Passes ==
    /\ lease' = Aged(lease)
    /\ activeFor' = IF Active(Aged(lease)) THEN activeFor + 1 ELSE 0
    /\ task' = [o \in Op |-> [task[o] EXCEPT !.new = Aged(@)]]
    /\ idleFor' = Least(idleFor + 1, IdleLimit)
    /\ UNCHANGED <<handledBy, begun, cuts>>

OpStep(o) ==
    \/ Mark(o) \/ Return(o) \/ GetLease(o) \/ SetLease(o) \/ DeleteLease(o)
    \/ ClaimIfFree(o) \/ OnlyIfHeld(o) \/ PushReply(o)
    \/ Look(o) \/ UnlessAI(o) \/ Gate(o) \/ Answer(o)

TakeoverNext ==
    \/ \E o \in Op :
         \/ \E kind \in ByPeople : Begin(o, kind)
         \/ MonitorFinds(o) \/ OpStep(o) \/ BreaksOff(o)
    \/ Passes

TakeoverSpec == TakeoverInit /\ [][TakeoverNext]_takeoverVars

-----------------------------------------------------------------------------
\* However operators take over, reply, send images and release at the same
\* time, and although the next lease is computed from one that may meanwhile
\* have been prolonged, deleted or replaced: a human's session is never
\* prolonged beyond HUMAN_MAX_SESSION_MINUTES after it began.
SessionsBounded == Active(lease) => activeFor + lease.left <= MaxSession

\* A conversation is never left to nobody: whatever operators, escalations
\* and listings did to lease and mark at the same time, and wherever one of
\* them broke off, once people stop the conversation goes back to the AI.
TakeoversEnd == <>[](lease = NoLease /\ handledBy = "ai")
=============================================================================
