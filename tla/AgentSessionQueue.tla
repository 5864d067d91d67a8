-------------------------- MODULE AgentSessionQueue --------------------------
(***************************************************************************)
(* The per-conversation agent message queue: the two PostgreSQL tables of  *)
(* migration 036 (agent_session_queue and agent_session_state), the        *)
(* transactions of AgentSessionQueueService on them, and, in every server  *)
(* process, the worker loops and the lease watchdog of                     *)
(* AgentSessionQueueWorker.                                                *)
(*                                                                         *)
(* A transaction of the service locks the conversation's state row first   *)
(* (FOR UPDATE), so it is one step.  Everything around it is not: the      *)
(* JavaScript continuation that reads its result, the call to the gateway, *)
(* the three separate statements of recoverExpiredLeases, and the gap      *)
(* between storing a message and dispatching its conversation.             *)
(***************************************************************************)
EXTENDS Naturals, FiniteSets

CONSTANTS
    Event,        \* source events; a row of agent_session_queue is made for one
    Conv,         \* conversations
    ConvOf,       \* the conversation an event belongs to
    Proc,         \* server processes (two during a rolling restart)
    MaxAttempts,  \* WorkerConfig.maxAttempts
    MaxExits,     \* bound: how many times processes crash or are shut down
    DbFaults,     \* TRUE: a database call may fail, before or after its COMMIT
    Caller,       \* who runs recoveries: "watchdog", "admin" or both
    NoEvent       \* SQL NULL in active_queue_item_id

ASSUME QueueAssumption ==
    /\ IsFiniteSet(Event)
    /\ ConvOf \in [Event -> Conv]
    /\ MaxAttempts \in Nat \ {0}
    /\ MaxExits \in Nat
    /\ DbFaults \in BOOLEAN
    /\ Caller \subseteq {"watchdog", "admin"}
    /\ NoEvent \notin Event

NoToken == 0      \* SQL NULL in lease_token

VARIABLES
    status,     \* agent_session_queue.status, "absent" before the INSERT
    token,      \* agent_session_queue.lease_token
    attempts,   \* agent_session_queue.attempt_count
    seq,        \* place in ORDER BY sequence_at, id
    active,     \* agent_session_state.active_queue_item_id
    held,       \* agent_session_state.lease_token
    live,       \* the tokens of unsettled rows whose lease_expires_at is in
                \* the future
    nextToken,  \* source of fresh tokens (randomUUID)
    up,         \* a process: "up", "stopping" (isStopping) or "down"
    kick,       \* conversations a process is about to dispatch
    loop,       \* where a process's loop for a conversation is; "idle" iff the
                \* conversation is not in activeDispatches
    job,        \* currentItem and leaseToken of that loop
    recovery,   \* where a process is in recoverExpiredLeases, for whom, and
                \* the conversations it has re-queued
    turns,      \* ghost: how many times the gateway accepted the event
    exits       \* number of process exits so far

rows    == <<status, token, attempts, seq>>
state   == <<active, held, live, nextToken>>
workers == <<kick, loop, job, recovery>>
vars    == <<rows, state, workers, up, turns, exits>>

Status    == {"absent", "queued", "processing", "completed", "failed",
              "dead_letter"}
LoopPoint == {"idle", "claim", "claimed", "post", "complete", "fail", "leave"}
NoJob     == [item |-> NoEvent, token |-> NoToken]
Resting   == [at |-> "rest", found |-> {}]

TypeOK ==
    /\ status \in [Event -> Status]
    /\ token \in [Event -> Nat]
    /\ attempts \in [Event -> Nat]
    /\ seq \in [Event -> Nat]
    /\ active \in [Conv -> Event \cup {NoEvent}]
    /\ held \in [Conv -> Nat]
    /\ live \subseteq Nat
    /\ nextToken \in Nat \ {0}
    /\ up \in [Proc -> {"up", "stopping", "down"}]
    /\ kick \in [Proc -> SUBSET Conv]
    /\ loop \in [Proc -> [Conv -> LoopPoint]]
    /\ job \in [Proc -> [Conv -> [item: Event \cup {NoEvent}, token: Nat]]]
    /\ recovery \in [Proc -> [at: {"requeue", "clear"}, found: SUBSET Conv,
                              by: Caller] \cup {Resting}]
    /\ turns \in [Event -> Nat]
    /\ exits \in Nat

Init ==
    /\ status = [e \in Event |-> "absent"]
    /\ token = [e \in Event |-> NoToken]
    /\ attempts = [e \in Event |-> 0]
    /\ seq = [e \in Event |-> 0]
    /\ active = [c \in Conv |-> NoEvent]
    /\ held = [c \in Conv |-> NoToken]
    /\ live = {}
    /\ nextToken = 1
    /\ up = [p \in Proc |-> "up"]
    /\ kick = [p \in Proc |-> {}]
    /\ loop = [p \in Proc |-> [c \in Conv |-> "idle"]]
    /\ job = [p \in Proc |-> [c \in Conv |-> NoJob]]
    /\ recovery = [p \in Proc |-> Resting]
    /\ turns = [e \in Event |-> 0]
    /\ exits = 0

-----------------------------------------------------------------------------
(* What the transactions read.                                             *)

Stored == {e \in Event : status[e] # "absent"}
Queued(c) == {e \in Event : ConvOf[e] = c /\ status[e] = "queued"}

\* Mutant: the SELECT has lost its ORDER BY.
AnyQueued(e, c) == e \in Queued(c)

\* ORDER BY sequence_at ASC, id ASC LIMIT 1
Oldest(e, c) == e \in Queued(c) /\ \A f \in Queued(c) : seq[e] =< seq[f]

\* Mutant: the lease of the state row is not looked at.
NeverBusy(c) == FALSE

\* An active, unexpired lease runs for the conversation.
Busy(c) == active[c] # NoEvent /\ held[c] \in live

\* Mutant: the fence is gone.
OwnsAnything(p, c) == TRUE

\* The state row still names this loop's item and token.
OwnsLease(p, c) == active[c] = job[p][c].item /\ held[c] = job[p][c].token

\* A call's reply reaches the process, or is lost after the COMMIT.
Reply == IF DbFaults THEN {"ok", "lost"} ELSE {"ok"}

-----------------------------------------------------------------------------
(* What the transactions write.                                            *)

\* Give e a fresh lease; done is the set of rows completed by the same
\* transaction.
Lease(c, e, done) ==
    /\ status' = [f \in Event |-> IF f = e THEN "processing"
                                  ELSE IF f \in done THEN "completed"
                                  ELSE status[f]]
    /\ token' = [token EXCEPT ![e] = nextToken]
    /\ attempts' = [attempts EXCEPT ![e] = @ + 1]
    /\ active' = [active EXCEPT ![c] = e]
    /\ held' = [held EXCEPT ![c] = nextToken]
    /\ live' = (live \ {token[f] : f \in done}) \cup {nextToken}
    /\ nextToken' = nextToken + 1

\* Clear the state row; done is as above.
ClearState(c, done) ==
    /\ active' = [active EXCEPT ![c] = NoEvent]
    /\ held' = [held EXCEPT ![c] = NoToken]
    /\ live' = live \ {token[f] : f \in done}
    /\ UNCHANGED nextToken

Goto(p, c, point) == loop' = [loop EXCEPT ![p][c] = point]

\* The loop function returns; currentItem is gone.
Return(p, c) ==
    /\ Goto(p, c, "leave")
    /\ job' = [job EXCEPT ![p][c] = NoJob]

\* The loop receives item e, leased under the token just issued.
Receive(p, c, e) ==
    /\ Goto(p, c, "claimed")
    /\ job' = [job EXCEPT ![p][c] = [item |-> e, token |-> nextToken]]

-----------------------------------------------------------------------------
(* Storing a message and dispatching its conversation.                     *)

\* enqueue: INSERT ... ON CONFLICT DO NOTHING.  A duplicate leaves the row
\* alone; the caller dispatches the conversation in both cases.
Enqueue(p, e) ==
    /\ up[p] # "down"
    /\ IF status[e] = "absent"
       THEN /\ status' = [status EXCEPT ![e] = "queued"]
            /\ seq' = [seq EXCEPT ![e] = Cardinality(Stored) + 1]
       ELSE UNCHANGED <<status, seq>>
    /\ kick' = [kick EXCEPT ![p] = @ \cup {ConvOf[e]}]
    /\ UNCHANGED <<token, attempts, state, loop, job, recovery, up, turns, exits>>

\* dispatchConversation, up to its first await.
Dispatch(p, c) ==
    /\ c \in kick[p]
    /\ kick' = [kick EXCEPT ![p] = @ \ {c}]
    /\ IF up[p] = "up" /\ loop[p][c] = "idle" THEN Goto(p, c, "claim") ELSE UNCHANGED loop
    /\ UNCHANGED <<rows, state, job, recovery, up, turns, exits>>

-----------------------------------------------------------------------------
(* processConversationLoop.                                                *)

\* claimNext
Claim(p, c) ==
    /\ loop[p][c] = "claim"
    /\ \/ /\ Busy(c) \/ DbFaults     \* a fault: dispatchConversation rejects
          /\ Return(p, c)
          /\ UNCHANGED <<rows, state>>
       \/ /\ ~Busy(c)
          /\ Queued(c) = {}
          /\ ClearState(c, {})
          /\ Return(p, c)
          /\ UNCHANGED rows
       \/ /\ ~Busy(c)
          /\ \E e \in Event, reply \in Reply :
                /\ Oldest(e, c)
                /\ Lease(c, e, {})
                /\ IF reply = "ok" THEN Receive(p, c, e) ELSE Return(p, c)
          /\ UNCHANGED seq
    /\ UNCHANGED <<kick, recovery, up, turns, exits>>

\* while (currentItem && !isStopping)
Continue(p, c) ==
    /\ loop[p][c] = "claimed"
    /\ IF up[p] = "stopping" THEN Return(p, c)
       ELSE Goto(p, c, "post") /\ UNCHANGED job
    /\ UNCHANGED <<rows, state, kick, recovery, up, turns, exits>>

\* axios.post to the gateway: accepted; refused; or accepted, but the answer
\* is a timeout or a broken connection.  An accepted turn then waits for its
\* reply row; waitForReply gives up at a deadline and never throws, so that
\* wait is only time that passes before completeAndClaimNext.
Post(p, c) ==
    /\ loop[p][c] = "post"
    /\ \E accepted, answered \in BOOLEAN :
          /\ turns' = IF accepted
                      THEN [turns EXCEPT ![job[p][c].item] = @ + 1] ELSE turns
          /\ Goto(p, c, IF accepted /\ answered THEN "complete" ELSE "fail")
    /\ UNCHANGED <<rows, state, kick, job, recovery, up, exits>>

\* completeAndClaimNext.  If it throws, the catch block fails the item.
Complete(p, c) ==
    LET done == job[p][c].item
        mine == OwnsLease(p, c) /\ token[done] = job[p][c].token
    IN
    /\ loop[p][c] = "complete"
    /\ \/ /\ ~mine
          /\ Return(p, c)
          /\ UNCHANGED <<rows, state>>
       \/ /\ mine
          /\ Queued(c) = {}
          /\ status' = [status EXCEPT ![done] = "completed"]
          /\ ClearState(c, {done})
          /\ \E reply \in Reply :
                IF reply = "ok" THEN Return(p, c)
                ELSE Goto(p, c, "fail") /\ UNCHANGED job
          /\ UNCHANGED <<token, attempts, seq>>
       \/ /\ mine
          /\ \E e \in Event, reply \in Reply :
                /\ Oldest(e, c)
                /\ Lease(c, e, {done})
                /\ IF reply = "ok" THEN Receive(p, c, e)
                   ELSE Goto(p, c, "fail") /\ UNCHANGED job
          /\ UNCHANGED seq
       \/ /\ DbFaults     \* rolled back
          /\ Goto(p, c, "fail")
          /\ UNCHANGED <<rows, state, job>>
    /\ UNCHANGED <<kick, recovery, up, turns, exits>>

\* Mutant: a status no other code knows.
VerdictTypo(e) == IF attempts[e] >= MaxAttempts THEN "dead" ELSE "failed"

\* failAndRelease, then break.
Verdict(e) == IF attempts[e] >= MaxAttempts THEN "dead_letter" ELSE "failed"

\* Mutant: the loop tries again instead of ending.
FailRetries(p, c) ==
    /\ loop[p][c] = "fail"
    /\ Goto(p, c, "post")
    /\ UNCHANGED <<rows, state, kick, job, recovery, up, turns, exits>>

Fail(p, c) ==
    LET e == job[p][c].item
        settles == token[e] \in {job[p][c].token, NoToken}
    IN
    /\ loop[p][c] = "fail"
    /\ Return(p, c)
    /\ \/ /\ OwnsLease(p, c)
          /\ status' = IF settles THEN [status EXCEPT ![e] = Verdict(e)] ELSE status
          /\ ClearState(c, IF settles THEN {e} ELSE {})
       \/ /\ ~OwnsLease(p, c) \/ DbFaults
          /\ UNCHANGED <<status, state>>
    /\ UNCHANGED <<token, attempts, seq, kick, recovery, up, turns, exits>>

\* finally { activeDispatches.delete(conversationId) }
Leave(p, c) ==
    /\ loop[p][c] = "leave"
    /\ Goto(p, c, "idle")
    /\ UNCHANGED <<rows, state, kick, job, recovery, up, turns, exits>>

-----------------------------------------------------------------------------
(* recoverExpiredLeases: three statements, each its own transaction.       *)

\* Mutant: lease_expires_at is not compared with the clock.
ExpiredAlways(e) == status[e] = "processing"

Expired(e) == status[e] = "processing" /\ token[e] \notin live

\* Mutant: without the first statement.
StartRecoveryUnburied(p, by) ==
    /\ recovery[p] = Resting
    /\ IF by = "watchdog" THEN up[p] = "up" ELSE up[p] # "down"
    /\ recovery' = [recovery EXCEPT
                      ![p] = [at |-> "requeue", found |-> {}, by |-> by]]
    /\ UNCHANGED <<rows, state, kick, loop, job, up, turns, exits>>

\* The watchdog's timer fires, or an administrator asks for a recovery: the
\* first statement buries the expired rows that used up their attempts.
StartRecovery(p, by) ==
    /\ recovery[p] = Resting
    /\ IF by = "watchdog" THEN up[p] = "up" ELSE up[p] # "down"
    /\ status' = [e \in Event |->
                    IF Expired(e) /\ attempts[e] >= MaxAttempts
                    THEN "dead_letter" ELSE status[e]]
    /\ recovery' = [recovery EXCEPT
                      ![p] = [at |-> "requeue", found |-> {}, by |-> by]]
    /\ UNCHANGED <<token, attempts, seq, state, kick, loop, job, up, turns, exits>>

\* Mutant: attempt_count <= maxAttempts.
RetriableOnceMore(e) == Expired(e) /\ attempts[e] =< MaxAttempts

\* The second statement re-queues the expired rows that have attempts left.
Retriable(e) == Expired(e) /\ attempts[e] < MaxAttempts

Requeue(p) ==
    /\ recovery[p].at = "requeue"
    /\ status' = [e \in Event |-> IF Retriable(e) THEN "queued" ELSE status[e]]
    /\ token' = [e \in Event |-> IF Retriable(e) THEN NoToken ELSE token[e]]
    /\ recovery' = [recovery EXCEPT
                      ![p].at = "clear",
                      ![p].found = {ConvOf[e] : e \in {f \in Event : Retriable(f)}}]
    /\ UNCHANGED <<attempts, seq, state, kick, loop, job, up, turns, exits>>

\* Mutant: the UPDATE has no WHERE.
ClearAll(p) ==
    /\ recovery[p].at = "clear"
    /\ active' = [c \in Conv |-> NoEvent]
    /\ held' = [c \in Conv |-> NoToken]
    /\ kick' = IF recovery[p].by = "watchdog"
               THEN [kick EXCEPT ![p] = @ \cup recovery[p].found] ELSE kick
    /\ recovery' = [recovery EXCEPT ![p] = Resting]
    /\ UNCHANGED <<rows, live, nextToken, loop, job, up, turns, exits>>

\* The third statement clears the expired state rows.  The watchdog then
\* dispatches every conversation it re-queued an item of; the administrator's
\* route does not.
ClearExpired(p) ==
    /\ recovery[p].at = "clear"
    /\ active' = [c \in Conv |-> IF held[c] \in live THEN active[c] ELSE NoEvent]
    /\ held' = [c \in Conv |-> IF held[c] \in live THEN held[c] ELSE NoToken]
    /\ kick' = IF recovery[p].by = "watchdog"
               THEN [kick EXCEPT ![p] = @ \cup recovery[p].found] ELSE kick
    /\ recovery' = [recovery EXCEPT ![p] = Resting]
    /\ UNCHANGED <<rows, live, nextToken, loop, job, up, turns, exits>>

\* A statement fails: the catch block reports that nothing was recovered.
RecoveryFails(p) ==
    /\ DbFaults
    /\ recovery[p] # Resting
    /\ recovery' = [recovery EXCEPT ![p] = Resting]
    /\ UNCHANGED <<rows, state, kick, loop, job, up, turns, exits>>

-----------------------------------------------------------------------------
(* Time and processes.                                                     *)

\* A lease some row still carries runs out.
InUse(t) == \/ \E e \in Event : status[e] = "processing" /\ token[e] = t
            \/ \E c \in Conv : held[c] = t

Expire(t) ==
    /\ t \in live
    /\ InUse(t)
    /\ live' = live \ {t}
    /\ UNCHANGED <<rows, active, held, nextToken, workers, up, turns, exits>>

\* stop(): the shutdown hook; loops that are running go on.
Stop(p) ==
    /\ up[p] = "up"
    /\ exits < MaxExits
    /\ up' = [up EXCEPT ![p] = "stopping"]
    /\ UNCHANGED <<rows, state, workers, turns, exits>>

\* The process ends, after a shutdown or in a crash.  What it kept in memory
\* is gone; what it had posted to the gateway is not.
Exit(p) ==
    /\ up[p] # "down"
    /\ exits < MaxExits
    /\ exits' = exits + 1
    /\ up' = [up EXCEPT ![p] = "down"]
    /\ kick' = [kick EXCEPT ![p] = {}]
    /\ loop' = [loop EXCEPT ![p] = [c \in Conv |-> "idle"]]
    /\ job' = [job EXCEPT ![p] = [c \in Conv |-> NoJob]]
    /\ recovery' = [recovery EXCEPT ![p] = Resting]
    /\ UNCHANGED <<rows, state, turns>>

\* restart: unless-stopped
Start(p) ==
    /\ up[p] = "down"
    /\ up' = [up EXCEPT ![p] = "up"]
    /\ UNCHANGED <<rows, state, workers, turns, exits>>

-----------------------------------------------------------------------------
LoopStep(p, c) ==
    \/ Claim(p, c) \/ Continue(p, c) \/ Post(p, c)
    \/ Complete(p, c) \/ Fail(p, c) \/ Leave(p, c)

BeginRecovery(p) == \E by \in Caller : StartRecovery(p, by)

RecoveryStep(p) ==
    BeginRecovery(p) \/ Requeue(p) \/ ClearExpired(p) \/ RecoveryFails(p)

LeaseExpires == \E t \in live : Expire(t)

Next ==
    \/ \E p \in Proc, e \in Event : Enqueue(p, e)
    \/ \E p \in Proc, c \in Conv : Dispatch(p, c) \/ LoopStep(p, c)
    \/ \E p \in Proc : RecoveryStep(p)
    \/ LeaseExpires
    \/ \E p \in Proc : Stop(p) \/ Exit(p) \/ Start(p)

Spec == Init /\ [][Next]_vars

\* Every call that was started returns, leases run out, the watchdog's timer
\* fires, a process told to stop ends and its supervisor restarts it; a
\* recovery statement that is tried for ever does not fail for ever.  Nothing
\* makes messages arrive or processes stop.
Fairness ==
    /\ \A p \in Proc, c \in Conv :
          WF_vars(Dispatch(p, c)) /\ WF_vars(LoopStep(p, c))
    /\ \A p \in Proc :
          /\ WF_vars(BeginRecovery(p))
          /\ SF_vars(Requeue(p))
          /\ SF_vars(ClearExpired(p))
          /\ WF_vars(up[p] = "stopping" /\ Exit(p))
          /\ WF_vars(Start(p))
    /\ WF_vars(LeaseExpires)

FairSpec == Spec /\ Fairness

-----------------------------------------------------------------------------
(* Properties.                                                             *)

\* A conversation has at most one unexpired lease, and its state row is the
\* one that records it: whoever reads the state row (claimNext) sees the
\* lease of every row still being processed.
OneLiveLease ==
    \A e \in Event : status[e] = "processing" /\ token[e] \in live
        => active[ConvOf[e]] = e /\ held[ConvOf[e]] = token[e]

\* Two loops, in one process or in two, are never both running a turn of one
\* conversation unless one of their leases has run out.  This is what the
\* queue is for: turns of a conversation do not interleave.
Driving(p, c) == loop[p][c] \in {"claimed", "post", "complete"}

ExclusiveTurn ==
    \A p, q \in Proc, c \in Conv :
        p # q /\ Driving(p, c) /\ Driving(q, c)
            => job[p][c].token \notin live \/ job[q][c].token \notin live

\* The inductive strengthening of these two: a loop that holds a job holds a
\* token nobody else holds, and as long as that lease is unexpired its row is
\* still the loop's.
Holding(p, c) == Driving(p, c) \/ loop[p][c] = "fail"

JobsNamed ==
    \A p \in Proc, c \in Conv : Holding(p, c) =>
        job[p][c].item \in Event /\ ConvOf[job[p][c].item] = c

TokensIssued ==
    /\ \A e \in Event : token[e] < nextToken
    /\ \A c \in Conv : held[c] < nextToken
    /\ \A t \in live : 0 < t /\ t < nextToken
    /\ \A p \in Proc, c \in Conv :
          Holding(p, c) => 0 < job[p][c].token /\ job[p][c].token < nextToken

TokensUnshared ==
    \A p, q \in Proc, c, d \in Conv :
        Holding(p, c) /\ Holding(q, d) /\ job[p][c].token = job[q][d].token
            => p = q /\ c = d

JobsBacked ==
    \A p \in Proc, c \in Conv :
        Driving(p, c) /\ job[p][c].token \in live
            => /\ status[job[p][c].item] = "processing"
               /\ token[job[p][c].item] = job[p][c].token

LeaseInv == JobsNamed /\ TokensIssued /\ TokensUnshared /\ JobsBacked /\ OneLiveLease

\* A row's status agrees with its history across crashes, retries and late
\* answers: no more turns than attempts, no attempt beyond the limit, buried
\* only when attempts are used up, completed only if the gateway accepted it.
HonestOutcome ==
    \A e \in Event :
        /\ turns[e] =< attempts[e]
        /\ attempts[e] =< MaxAttempts
        /\ status[e] = "queued" => attempts[e] < MaxAttempts
        /\ status[e] = "failed" => attempts[e] < MaxAttempts
        /\ status[e] = "dead_letter" => attempts[e] = MaxAttempts
        /\ status[e] = "completed" => turns[e] > 0

\* A message that was never tried is not overtaken by a later message of its
\* conversation, however leases expire and loops come and go.
FirstTriesInOrder ==
    \A e, f \in Stored :
        ConvOf[e] = ConvOf[f] /\ seq[e] < seq[f] /\ attempts[f] > 0
            => attempts[e] > 0

\* A row whose lease is unexpired is taken out of "processing" only by the
\* loop that holds that lease, never by recovery or by a loop that was fenced.
OnlyHolderSettles ==
    [][\A e \in Event :
        status[e] = "processing" /\ token[e] \in live /\ status'[e] # "processing"
        => \E p \in Proc : /\ loop[p][ConvOf[e]] \in {"complete", "fail"}
                           /\ job[p][ConvOf[e]] = [item |-> e, token |-> token[e]]
      ]_vars

\* The queue implements SessionTurns: whatever processes, leases, fences and
\* recoveries do, a conversation sees one running message at a time, begun at
\* most MaxAttempts times, and ended by at most one step.
Phase == [e \in Event |->
            IF status[e] # "processing" THEN status[e]
            ELSE IF token[e] \in live THEN "running" ELSE "lapsed"]

Abstract == INSTANCE SessionTurns WITH phase <- Phase, tries <- attempts

ImplementsTurns == Abstract!Spec

\* No row stays in "processing": its loop settles it or recovery does, even
\* if every process that held it is gone.
LeasesResolve ==
    \A e \in Event : status[e] = "processing" ~> status[e] # "processing"

\* A loop always ends, so the conversation's entry in activeDispatches, which
\* makes later dispatches return at once, does not stay for ever.
LoopsEnd ==
    \A p \in Proc, c \in Conv : loop[p][c] # "idle" ~> loop[p][c] = "idle"

\* dispatchConversation's comment: when a loop is already active the call
\* returns, because "the active loop will drain the queue".
ActiveLoopDrains ==
    \A e \in Event : status[e] = "queued" ~> status[e] # "queued"
=============================================================================
