------------------------- MODULE MCAgentSessionQueue -------------------------
(* Small instances of AgentSessionQueue for TLC: one conversation, two     *)
(* messages, one or two server processes.                                  *)
EXTENDS AgentSessionQueue, TLC

CONSTANTS e1, e2, c1, p1, p2

\* All events are messages of one conversation.
MCOneConv == [e \in Event |-> c1]

\* The processes are interchangeable: no definition names one of them.
MCSymmetry == Permutations(Proc)
=============================================================================
