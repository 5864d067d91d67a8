----------------------------- MODULE SessionTurns -----------------------------
(***************************************************************************)
(* What the agent session queue promises a conversation, without leases,   *)
(* tokens, state rows, processes or worker loops: every stored message is  *)
(* tried a bounded number of times, at most one message of a conversation  *)
(* is running at any moment, and the step that ends a turn may hand the    *)
(* conversation to the next message but never to two.                      *)
(***************************************************************************)
EXTENDS Naturals

CONSTANTS Event, Conv, ConvOf, MaxAttempts

VARIABLES
    phase,   \* where a message is in its life
    tries    \* how many times it was begun

vars == <<phase, tries>>

Init ==
    /\ phase = [e \in Event |-> "absent"]
    /\ tries = [e \in Event |-> 0]

Running(c) == {e \in Event : ConvOf[e] = c /\ phase[e] = "running"}

Arrive(e) ==
    /\ phase[e] = "absent"
    /\ phase' = [phase EXCEPT ![e] = "queued"]
    /\ UNCHANGED tries

\* A queued message of a conversation with nothing running is begun.
Begin(e) ==
    /\ phase[e] = "queued"
    /\ tries[e] < MaxAttempts
    /\ Running(ConvOf[e]) = {}
    /\ phase' = [phase EXCEPT ![e] = "running"]
    /\ tries' = [tries EXCEPT ![e] = @ + 1]

\* A turn is answered, perhaps after its time was up.
Answerable(e) == phase[e] \in {"running", "lapsed", "dead_letter"}

Answer(e) ==
    /\ Answerable(e)
    /\ phase' = [phase EXCEPT ![e] = "completed"]
    /\ UNCHANGED tries

\* A turn is answered and the next message begins in the same step.
AnswerAndBegin(e, f) ==
    /\ Answerable(e)
    /\ phase[f] = "queued"
    /\ ConvOf[f] = ConvOf[e]
    /\ tries[f] < MaxAttempts
    /\ Running(ConvOf[e]) \subseteq {e}
    /\ phase' = [phase EXCEPT ![e] = "completed", ![f] = "running"]
    /\ tries' = [tries EXCEPT ![f] = @ + 1]

\* A turn fails; it is buried when it was the last one allowed.
GiveUp(e) ==
    /\ phase[e] \in {"running", "lapsed", "queued"}
    /\ tries[e] > 0
    /\ phase' = [phase EXCEPT ![e] = IF tries[e] >= MaxAttempts
                                     THEN "dead_letter" ELSE "failed"]
    /\ UNCHANGED tries

\* The time of a turn is up.
Lapse(e) ==
    /\ phase[e] = "running"
    /\ phase' = [phase EXCEPT ![e] = "lapsed"]
    /\ UNCHANGED tries

\* Lapsed messages are buried or queued again, all at once.
Lapsed(last) ==
    {e \in Event : phase[e] = "lapsed" /\ ((tries[e] >= MaxAttempts) = last)}

Sweep(last, outcome) ==
    /\ phase' = [e \in Event |-> IF e \in Lapsed(last) THEN outcome ELSE phase[e]]
    /\ UNCHANGED tries

Next ==
    \/ \E e \in Event : \/ Arrive(e) \/ Begin(e) \/ Answer(e)
                        \/ GiveUp(e) \/ Lapse(e)
    \/ \E e, f \in Event : AnswerAndBegin(e, f)
    \/ Sweep(TRUE, "dead_letter")
    \/ Sweep(FALSE, "queued")

Spec == Init /\ [][Next]_vars
=============================================================================
