------------------------------ MODULE MCTickets ------------------------------
(* TicketSync and TicketTools side by side: a behaviour is one of a single  *)
(* module, chosen by part, while the variables of the other rest in their   *)
(* initial states.                                                          *)
EXTENDS TicketSync, TicketTools, TLC

CONSTANTS m1, m2, f1, f2, c1, c2, c3, u1, u2, z1, nt

VARIABLE part

syncVars == <<status, outbox, remote, fresh, call, poll, copy, count, ours, buried, refused>>

\* Two customers with the same words for their problems.
MCTopic == [r \in Report |-> r]
MCTitle == [r \in Report |-> "title"]
MCMatter == [r \in Report |-> "matter"]

MCSymmetry == Permutations(Message)

TicketsInit ==
    /\ part \in {"sync", "tools"}
    /\ Init
    /\ ToolsInit
    /\ part # "tools" => tickets = [t \in TicketId |-> Absent]

SyncStep == part = "sync" /\ Next /\ UNCHANGED <<part, toolVars>>
ToolsStep == part = "tools" /\ ToolsNext /\ UNCHANGED <<part, syncVars>>

TicketsNext == SyncStep \/ ToolsStep

TicketsSpec == TicketsInit /\ [][TicketsNext]_<<part, syncVars, toolVars>>

\* Every variable of both modules keeps its type.
TicketsTypeOK == TypeOK /\ ToolsTypeOK
=============================================================================
