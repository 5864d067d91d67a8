---------------------------- MODULE TurnDeadlines ----------------------------
(***************************************************************************)
(* The clocks of one agent turn: the lease claimNext takes for it, the     *)
(* timeout of the call to the gateway, the deadline of waitForReply and    *)
(* the watchdog.  AgentSessionQueue lets a lease run out at any moment;    *)
(* this module asks whether, with the deadlines the code computes, it can  *)
(* run out under a worker that is doing nothing wrong.                     *)
(*                                                                         *)
(* Time advances in ticks; the constants are the settings in ticks.        *)
(***************************************************************************)
EXTENDS Naturals

CONSTANTS
    LeaseDuration,   \* leaseDurationMs
    Configured,      \* turnCompletionTimeoutMs
    Margin,          \* the 5 s both deadlines stay below the lease
    AtLeast          \* their 10 s floor

VARIABLES
    point,     \* the worker: "post", "wait" or "over"
    since,     \* ticks since it got there
    age,       \* ticks since the lease was taken
    row        \* the queue row: "processing", "queued", "completed", "failed"

vars == <<point, since, age, row>>

Larger(a, b) == IF a >= b THEN a ELSE b
Smaller(a, b) == IF a =< b THEN a ELSE b

RequestTimeout == Larger(LeaseDuration - Margin, AtLeast)
ReplyTimeout   == Smaller(Configured, Larger(AtLeast, LeaseDuration - Margin))

Init ==
    /\ point = "post"
    /\ since = 0
    /\ age = 0
    /\ row = "processing"

\* Time passes unless a deadline of the worker is due.
Tick ==
    /\ \/ point = "post" /\ since < RequestTimeout
       \/ point = "wait" /\ since < ReplyTimeout
    /\ since' = since + 1
    /\ age' = age + 1
    /\ UNCHANGED <<point, row>>

\* The gateway answers the POST.
Accept ==
    /\ point = "post"
    /\ point' = "wait"
    /\ since' = 0
    /\ UNCHANGED <<age, row>>

\* The POST fails or times out; failAndRelease is fenced by the row.
PostFails ==
    /\ point = "post"
    /\ point' = "over"
    /\ row' = IF row = "processing" THEN "failed" ELSE row
    /\ UNCHANGED <<since, age>>

\* The reply row is seen or the deadline passes; completeAndClaimNext is
\* fenced by the row.
WaitEnds ==
    /\ point = "wait"
    /\ point' = "over"
    /\ row' = IF row = "processing" THEN "completed" ELSE row
    /\ UNCHANGED <<since, age>>

\* The watchdog finds lease_expires_at in the past.
Recover ==
    /\ row = "processing"
    /\ age >= LeaseDuration
    /\ row' = "queued"
    /\ UNCHANGED <<point, since, age>>

Next == Tick \/ Accept \/ PostFails \/ WaitEnds \/ Recover

Spec == Init /\ [][Next]_vars

-----------------------------------------------------------------------------
\* The worker's constructor: "The wait must finish before the lease does, or
\* the watchdog would recover an item whose turn is still legitimately in
\* flight."
NotRecoveredInFlight == point \in {"post", "wait"} => row = "processing"
=============================================================================
