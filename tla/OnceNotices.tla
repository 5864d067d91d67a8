------------------------------ MODULE OnceNotices ------------------------------
(***************************************************************************)
(* What CustomerNotificationService promises its callers: a notice reaches *)
(* the customer once at most, whatever they do.  It does not promise that  *)
(* it reaches them.                                                        *)
(***************************************************************************)
EXTENDS Naturals

CONSTANT Notice
VARIABLE told       \* how often each notice reached the customer

OnceInit == told = [k \in Notice |-> 0]

Tell(k) == told[k] = 0 /\ told' = [told EXCEPT ![k] = 1]

OnceSpec == OnceInit /\ [][\E k \in Notice : Tell(k)]_told
=============================================================================
