---------------------------- MODULE ContactProofs ----------------------------
(***************************************************************************)
(* Theorems of what a customer is sent, and what the answers close: of     *)
(* CustomerNotices, for any number of calls, notices and losses; of        *)
(* SlaReminders, for any interval, grace and number of engines and faults; *)
(* of SlaFollowUps, for any number of days, waits and upsets; both rest on *)
(* lemmas about SlaCalendar; of CloseDialogue, for any cases, handlers and *)
(* texts; and of MCContact: what is proved of its seven modules holds of   *)
(* them side by side, for all values of their constants.                   *)
(***************************************************************************)
EXTENDS MCContact, IngressProofs, FiniteSetTheorems, SequenceTheorems, WellFoundedInduction, TLAPS

(***************************************************************************)
(* The inductive invariant.                                                *)
(***************************************************************************)

\* The call that claimed its notice's row and has not died before the push.
Owner(c) == call[c].at \in {"push", "settle", "append"} \/ call[c].outcome # "none"

\* A call under way knows its notice, and an outcome comes from a push.
CallsInv ==
  \A c \in Sender :
    /\ call[c].at \notin {"new", "over"} \/ call[c].outcome # "none"
         => call[c].notice \in Notice
    /\ call[c].at \in {"new", "look", "claim", "push"} => call[c].outcome = "none"
    /\ call[c].at \in {"settle", "append"} => call[c].outcome # "none"
    /\ call[c].at = "look" => call[c].notice \in Acks

\* A row has one owner, and waits for it until it is settled.
OwnersInv ==
  /\ \A c, d \in Sender :
       Owner(c) /\ Owner(d) /\ call[c].notice = call[d].notice => c = d
  /\ \A c \in Sender : Owner(c) => ledger[call[c].notice] # "none"
  /\ \A c \in Sender : call[c].at = "push" => pushed[call[c].notice] = 0
  /\ \A k \in Notice : ledger[k] = "none" => pushed[k] = 0

\* Without losses the owner's turn is the only one, and the row is as it
\* left it.
ThreadInv ==
  losses = 0 =>
    /\ \A k \in Notice : ledger[k] = "none" => thread[k] = 0
    /\ \A c \in Sender :
         /\ call[c].at \in {"push", "settle", "append"} => thread[call[c].notice] = 0
         /\ call[c].at = "append" => ledger[call[c].notice] = call[c].outcome
         /\ call[c].at = "over" /\ call[c].outcome # "none"
              => /\ thread[call[c].notice] = 1
                 /\ ledger[call[c].notice] = call[c].outcome

\* Unless two acknowledgements were under way at once, the one that found no
\* other claims its row while there is none.
BurstInv ==
  ~crossed =>
    /\ \A c, d \in Sender : Acking(c) /\ Acking(d) => c = d
    /\ \A c \in Sender : Acking(c) /\ call[c].at = "claim" => recent = {}
    /\ \A j, k \in recent : j = k

NoticesInv == NoticesTypeOK /\ CallsInv /\ OwnersInv /\ ThreadInv /\ BurstInv

Stage == {"new", "look", "claim", "push", "settle", "append", "over"}
Call == [at: Stage, notice: {"none"} \cup Notice, outcome: {"none", "sent", "failed"}]

LEMMA CallType == NoticesTypeOK => call \in [Sender -> Call]
  BY DEF NoticesTypeOK, Call, Stage

\* What a change of a call's place does to the calls.
LEMMA GoesTo ==
  ASSUME NoticesTypeOK, NEW c \in Sender, NEW where \in Stage, Goes(c, where)
  PROVE  /\ call' \in [Sender -> Call]
         /\ call'[c].at = where
         /\ call'[c].notice = call[c].notice /\ call'[c].outcome = call[c].outcome
         /\ \A d \in Sender \ {c} : call'[d] = call[d]
<1>1. call \in [Sender -> Call]
  BY CallType
<1> QED
  BY <1>1 DEF Goes, Call

LEMMA TypeOfCalls ==
  ASSUME call' \in [Sender -> Call],
         ledger' \in [Notice -> {"none", "pending", "sent", "failed"}],
         recent' \subseteq Acks, pushed' \in [Notice -> Nat], thread' \in [Notice -> Nat],
         losses' \in Nat, crossed' \in BOOLEAN
  PROVE  NoticesTypeOK'
  BY DEF NoticesTypeOK, Call, Stage

(***************************************************************************)
(* Every step keeps it.                                                    *)
(***************************************************************************)

LEMMA NoticesInitInv == NoticesInit => NoticesInv
<1> SUFFICES ASSUME NoticesInit PROVE NoticesInv
  OBVIOUS
<1>1. \A c \in Sender : call[c] = NoCall
  BY DEF NoticesInit
<1>2. \A c \in Sender :
        call[c].at = "new" /\ call[c].notice = "none" /\ call[c].outcome = "none"
  <2>1. NoCall.at = "new" /\ NoCall.notice = "none" /\ NoCall.outcome = "none"
    BY DEF NoCall
  <2> QED
    BY <1>1, <2>1
<1>3. NoticesTypeOK
  <2>1. NoCall \in [at: {"new", "look", "claim", "push", "settle", "append", "over"},
                    notice: {"none"} \cup Notice, outcome: {"none", "sent", "failed"}]
    BY DEF NoCall
  <2> QED
    BY <2>1 DEF NoticesInit, NoticesTypeOK
<1>4. CallsInv /\ OwnersInv /\ ThreadInv /\ BurstInv
  BY <1>2 DEF NoticesInit, CallsInv, OwnersInv, ThreadInv, BurstInv, Owner, Acking
<1> QED
  BY <1>3, <1>4 DEF NoticesInv

LEMMA NoRecipientInv ==
  ASSUME NoticesInv, NEW c \in Sender, NoRecipient(c)
  PROVE  NoticesInv'
<1>1. /\ call' \in [Sender -> Call] /\ call'[c].at = "over"
      /\ call'[c].notice = call[c].notice /\ call'[c].outcome = call[c].outcome
      /\ \A d \in Sender \ {c} : call'[d] = call[d]
  BY GoesTo DEF NoticesInv, NoRecipient, Stage
<1>2. /\ call[c].at = "new" /\ call[c].outcome = "none"
      /\ UNCHANGED <<ledger, recent, pushed, thread, losses, crossed>>
  BY DEF NoRecipient, NoticesInv, CallsInv
<1>3. NoticesTypeOK'
  BY <1>1, <1>2, TypeOfCalls DEF NoticesInv, NoticesTypeOK
<1>4. CallsInv'
  BY <1>1, <1>2 DEF NoticesInv, CallsInv
<1>5. OwnersInv'
  BY <1>1, <1>2 DEF NoticesInv, OwnersInv, Owner
<1>6. ThreadInv'
  BY <1>1, <1>2 DEF NoticesInv, ThreadInv
<1>7. BurstInv'
  BY <1>1, <1>2 DEF NoticesInv, BurstInv, Acking
<1> QED
  BY <1>3, <1>4, <1>5, <1>6, <1>7 DEF NoticesInv

LEMMA ResolveInv ==
  ASSUME NoticesInv, NEW c \in Sender, Resolve(c)
  PROVE  NoticesInv'
<1>1. PICK k \in Notice :
        /\ call' = [call EXCEPT ![c].notice = k,
                                ![c].at = IF k \in Acks THEN "look" ELSE "claim"]
        /\ crossed' = (crossed \/ (k \in Acks /\ \E d \in Sender : Acking(d)))
  BY DEF Resolve
<1>2. /\ call[c].at = "new" /\ call[c].outcome = "none"
      /\ UNCHANGED <<ledger, recent, pushed, thread, losses>>
      /\ call \in [Sender -> Call]
  BY CallType DEF Resolve, NoticesInv, CallsInv
<1>3. /\ call' \in [Sender -> Call]
      /\ call'[c].at = (IF k \in Acks THEN "look" ELSE "claim")
      /\ call'[c].notice = k /\ call'[c].outcome = "none"
      /\ \A d \in Sender \ {c} : call'[d] = call[d]
  BY <1>1, <1>2 DEF Call, Stage
<1>4. NoticesTypeOK'
  <2>1. crossed' \in BOOLEAN
    BY <1>1
  <2> QED
    BY <1>2, <1>3, <2>1, TypeOfCalls DEF NoticesInv, NoticesTypeOK
<1>5. CallsInv'
  BY <1>2, <1>3 DEF NoticesInv, CallsInv
<1>6. OwnersInv'
  BY <1>2, <1>3 DEF NoticesInv, OwnersInv, Owner
<1>7. ThreadInv'
  BY <1>2, <1>3 DEF NoticesInv, ThreadInv
<1>8. BurstInv'
  <2> SUFFICES ASSUME ~crossed'
               PROVE  /\ \A a, b \in Sender : Acking(a)' /\ Acking(b)' => a = b
                      /\ \A a \in Sender : Acking(a)' /\ call'[a].at = "claim" => recent' = {}
                      /\ \A i, j \in recent' : i = j
    BY DEF BurstInv
  <2>1. ~crossed /\ (k \in Acks => \A d \in Sender : ~Acking(d))
    BY <1>1
  <2>2. \A d \in Sender \ {c} : Acking(d)' <=> Acking(d)
    BY <1>3 DEF Acking
  <2>3. Acking(c)' <=> k \in Acks
    BY <1>3 DEF Acking
  <2>4. BurstInv
    BY DEF NoticesInv
  <2> QED
    BY <1>2, <1>3, <2>1, <2>2, <2>3, <2>4 DEF BurstInv
<1> QED
  BY <1>4, <1>5, <1>6, <1>7, <1>8 DEF NoticesInv

LEMMA LookBackInv ==
  ASSUME NoticesInv, NEW c \in Sender, LookBack(c)
  PROVE  NoticesInv'
<1>1. /\ call' \in [Sender -> Call]
      /\ call'[c].at = (IF recent = {} THEN "claim" ELSE "over")
      /\ call'[c].notice = call[c].notice /\ call'[c].outcome = call[c].outcome
      /\ \A d \in Sender \ {c} : call'[d] = call[d]
  BY GoesTo DEF NoticesInv, LookBack, Stage
<1>2. /\ call[c].at = "look" /\ call[c].outcome = "none"
      /\ UNCHANGED <<ledger, recent, pushed, thread, losses, crossed>>
  BY DEF LookBack, NoticesInv, CallsInv
<1>3. NoticesTypeOK'
  BY <1>1, <1>2, TypeOfCalls DEF NoticesInv, NoticesTypeOK
<1>4. CallsInv'
  BY <1>1, <1>2 DEF NoticesInv, CallsInv
<1>5. OwnersInv'
  BY <1>1, <1>2 DEF NoticesInv, OwnersInv, Owner
<1>6. ThreadInv'
  BY <1>1, <1>2 DEF NoticesInv, ThreadInv
<1>7. BurstInv'
  BY <1>1, <1>2 DEF NoticesInv, BurstInv, Acking
<1> QED
  BY <1>3, <1>4, <1>5, <1>6, <1>7 DEF NoticesInv

LEMMA ClaimNoticeInv ==
  ASSUME NoticesInv, NEW c \in Sender, ClaimNotice(c)
  PROVE  NoticesInv'
<1> DEFINE k == call[c].notice
<1>1. /\ call[c].at = "claim" /\ call[c].outcome = "none" /\ k \in Notice
      /\ UNCHANGED <<pushed, thread, losses, crossed>>
      /\ call \in [Sender -> Call]
  BY CallType DEF ClaimNotice, NoticesInv, CallsInv
<1>2. CASE ledger[k] = "none"
  <2>1. /\ call' \in [Sender -> Call] /\ call'[c].at = "push"
        /\ call'[c].notice = k /\ call'[c].outcome = "none"
        /\ \A d \in Sender \ {c} : call'[d] = call[d]
    BY <1>1, <1>2, GoesTo DEF NoticesInv, ClaimNotice, Stage
  <2>2. /\ ledger' \in [Notice -> {"none", "pending", "sent", "failed"}]
        /\ ledger'[k] = "pending" /\ \A j \in Notice \ {k} : ledger'[j] = ledger[j]
        /\ recent' = recent \cup ({k} \cap Acks)
    BY <1>1, <1>2 DEF NoticesInv, NoticesTypeOK, ClaimNotice
  <2>3. NoticesTypeOK'
    BY <1>1, <2>1, <2>2, TypeOfCalls DEF NoticesInv, NoticesTypeOK
  <2>4. CallsInv'
    BY <1>1, <2>1 DEF NoticesInv, CallsInv
  <2>5. OwnersInv'
    <3>1. \A d \in Sender : Owner(d) => call[d].notice # k
      BY <1>2 DEF NoticesInv, OwnersInv
    <3>2. \A d \in Sender \ {c} : Owner(d)' <=> Owner(d)
      BY <2>1 DEF Owner
    <3>3. pushed[k] = 0
      BY <1>1, <1>2 DEF NoticesInv, OwnersInv
    <3>4. \A d \in Sender : Owner(d) => call[d].notice \in Notice
      BY DEF NoticesInv, CallsInv, Owner
    <3>5. OwnersInv
      BY DEF NoticesInv
    <3>6. \A d, e \in Sender :
            Owner(d)' /\ Owner(e)' /\ call'[d].notice = call'[e].notice => d = e
      BY <2>1, <3>1, <3>2, <3>5 DEF OwnersInv
    <3>7. \A d \in Sender : Owner(d)' => ledger'[call'[d].notice] # "none"
      BY <2>1, <2>2, <3>2, <3>4, <3>5 DEF OwnersInv
    <3>8. \A d \in Sender : call'[d].at = "push" => pushed'[call'[d].notice] = 0
      BY <1>1, <2>1, <3>3, <3>5 DEF OwnersInv
    <3>9. \A j \in Notice : ledger'[j] = "none" => pushed'[j] = 0
      BY <1>1, <2>2, <3>5 DEF OwnersInv
    <3> QED
      BY <3>6, <3>7, <3>8, <3>9 DEF OwnersInv
  <2>6. ThreadInv'
    <3> SUFFICES ASSUME losses' = 0 PROVE ThreadInv'
      BY DEF ThreadInv
    <3>1. ThreadInv /\ losses = 0
      BY <1>1 DEF NoticesInv
    <3>2. thread[k] = 0
      BY <1>1, <1>2, <3>1 DEF ThreadInv
    <3>3. \A d \in Sender : Owner(d) => call[d].notice \in Notice /\ call[d].notice # k
      BY <1>2 DEF NoticesInv, CallsInv, OwnersInv, Owner
    <3> QED
      BY <1>1, <2>1, <2>2, <3>1, <3>2, <3>3 DEF ThreadInv, Owner
  <2>7. BurstInv'
    <3> SUFFICES ASSUME ~crossed'
                 PROVE  /\ \A a, b \in Sender : Acking(a)' /\ Acking(b)' => a = b
                        /\ \A a \in Sender :
                             Acking(a)' /\ call'[a].at = "claim" => recent' = {}
                        /\ \A i, j \in recent' : i = j
      BY DEF BurstInv
    <3>1. BurstInv /\ ~crossed
      BY <1>1 DEF NoticesInv
    <3>2. \A d \in Sender : Acking(d)' <=> Acking(d)
      BY <1>1, <2>1 DEF Acking
    <3>3. k \in Acks => Acking(c) /\ recent = {}
      BY <1>1, <3>1 DEF BurstInv, Acking
    <3>4. k \notin Acks => recent' = recent
      BY <2>2
    <3> QED
      BY <2>1, <2>2, <3>1, <3>2, <3>3, <3>4 DEF BurstInv
  <2> QED
    BY <2>3, <2>4, <2>5, <2>6, <2>7 DEF NoticesInv
<1>3. CASE ledger[k] # "none"
  <2>1. /\ call' \in [Sender -> Call] /\ call'[c].at = "over"
        /\ call'[c].notice = call[c].notice /\ call'[c].outcome = "none"
        /\ \A d \in Sender \ {c} : call'[d] = call[d]
        /\ UNCHANGED <<ledger, recent>>
    BY <1>1, <1>3, GoesTo DEF NoticesInv, ClaimNotice, Stage
  <2>2. NoticesTypeOK'
    BY <1>1, <2>1, TypeOfCalls DEF NoticesInv, NoticesTypeOK
  <2>3. CallsInv'
    BY <1>1, <2>1 DEF NoticesInv, CallsInv
  <2>4. OwnersInv'
    BY <1>1, <2>1 DEF NoticesInv, OwnersInv, Owner
  <2>5. ThreadInv'
    BY <1>1, <2>1 DEF NoticesInv, ThreadInv
  <2>6. BurstInv'
    BY <1>1, <2>1 DEF NoticesInv, BurstInv, Acking
  <2> QED
    BY <2>2, <2>3, <2>4, <2>5, <2>6 DEF NoticesInv
<1> QED
  BY <1>2, <1>3

\* Delivered or not, a push is its owner's only one.
LEMMA PushInv ==
  ASSUME NoticesInv, NEW c \in Sender, PushLine(c) \/ PushFails(c)
  PROVE  NoticesInv'
<1> DEFINE k == call[c].notice
<1>1. /\ call[c].at = "push" /\ call[c].outcome = "none" /\ k \in Notice
      /\ UNCHANGED <<ledger, recent, thread, losses, crossed>>
      /\ call \in [Sender -> Call]
  BY CallType DEF PushLine, PushFails, NoticesInv, CallsInv
<1>2. /\ call' \in [Sender -> Call] /\ call'[c].at = "settle"
      /\ call'[c].notice = k /\ call'[c].outcome \in {"sent", "failed"}
      /\ \A d \in Sender \ {c} : call'[d] = call[d]
  BY <1>1 DEF PushLine, PushFails, Call, Stage
<1>3. /\ pushed' \in [Notice -> Nat]
      /\ \A j \in Notice \ {k} : pushed'[j] = pushed[j]
  BY <1>1 DEF PushLine, PushFails, NoticesInv, NoticesTypeOK
<1>4. NoticesTypeOK'
  BY <1>1, <1>2, <1>3, TypeOfCalls DEF NoticesInv, NoticesTypeOK
<1>5. CallsInv'
  BY <1>1, <1>2 DEF NoticesInv, CallsInv
<1>6. OwnersInv'
  <2>1. OwnersInv /\ Owner(c)
    BY <1>1 DEF NoticesInv, Owner
  <2>2. \A d \in Sender : Owner(d)' <=> Owner(d)
    BY <1>1, <1>2 DEF Owner
  <2>3. \A d \in Sender : Owner(d) => call[d].notice \in Notice
    BY DEF NoticesInv, CallsInv, Owner
  <2>4. \A d \in Sender : call'[d].notice = call[d].notice
    BY <1>2
  <2>5. \A d, e \in Sender :
          Owner(d)' /\ Owner(e)' /\ call'[d].notice = call'[e].notice => d = e
    BY <2>1, <2>2, <2>4 DEF OwnersInv
  <2>6. \A d \in Sender : Owner(d)' => ledger'[call'[d].notice] # "none"
    BY <1>1, <2>1, <2>2, <2>4 DEF OwnersInv
  <2>7. \A d \in Sender : call'[d].at = "push" => pushed'[call'[d].notice] = 0
    <3> SUFFICES ASSUME NEW d \in Sender, call'[d].at = "push"
                 PROVE  pushed'[call'[d].notice] = 0
      OBVIOUS
    <3>1. d # c /\ call[d].at = "push" /\ Owner(d)
      BY <1>2 DEF Owner
    <3>2. call[d].notice \in Notice \ {k} /\ pushed[call[d].notice] = 0
      BY <2>1, <2>3, <3>1 DEF OwnersInv
    <3> QED
      BY <1>3, <2>4, <3>2
  <2>8. \A j \in Notice : ledger'[j] = "none" => pushed'[j] = 0
    BY <1>1, <1>3, <2>1 DEF OwnersInv
  <2> QED
    BY <2>5, <2>6, <2>7, <2>8 DEF OwnersInv
<1>7. ThreadInv'
  BY <1>1, <1>2 DEF NoticesInv, ThreadInv
<1>8. BurstInv'
  BY <1>1, <1>2 DEF NoticesInv, BurstInv, Acking
<1> QED
  BY <1>4, <1>5, <1>6, <1>7, <1>8 DEF NoticesInv

LEMMA SettleInv ==
  ASSUME NoticesInv, NEW c \in Sender, Settle(c)
  PROVE  NoticesInv'
<1> DEFINE k == call[c].notice
<1>1. /\ call' \in [Sender -> Call] /\ call'[c].at = "append"
      /\ call'[c].notice = k /\ call'[c].outcome = call[c].outcome
      /\ \A d \in Sender \ {c} : call'[d] = call[d]
  BY GoesTo DEF NoticesInv, Settle, Stage
<1>2. /\ call[c].at = "settle" /\ call[c].outcome \in {"sent", "failed"} /\ k \in Notice
      /\ UNCHANGED <<recent, pushed, thread, losses, crossed>>
  BY DEF Settle, NoticesInv, NoticesTypeOK, CallsInv
<1>3. /\ ledger' \in [Notice -> {"none", "pending", "sent", "failed"}]
      /\ ledger'[k] = call[c].outcome /\ \A j \in Notice \ {k} : ledger'[j] = ledger[j]
  BY <1>2 DEF Settle, NoticesInv, NoticesTypeOK
<1>4. NoticesTypeOK'
  BY <1>1, <1>2, <1>3, TypeOfCalls DEF NoticesInv, NoticesTypeOK
<1>5. CallsInv'
  BY <1>1, <1>2 DEF NoticesInv, CallsInv
<1>6. \A d \in Sender : Owner(d) /\ d # c => call[d].notice \in Notice \ {k}
  BY <1>2 DEF NoticesInv, CallsInv, OwnersInv, Owner
<1>7. \A d \in Sender : Owner(d)' <=> Owner(d)
  BY <1>1, <1>2 DEF Owner
<1>8. OwnersInv'
  BY <1>1, <1>2, <1>3, <1>6, <1>7 DEF NoticesInv, OwnersInv
<1>9. ThreadInv'
  BY <1>1, <1>2, <1>3, <1>6 DEF NoticesInv, ThreadInv, Owner
<1>10. BurstInv'
  BY <1>1, <1>2 DEF NoticesInv, BurstInv, Acking
<1> QED
  BY <1>4, <1>5, <1>8, <1>9, <1>10 DEF NoticesInv

LEMMA AppendTurnInv ==
  ASSUME NoticesInv, NEW c \in Sender, AppendTurn(c)
  PROVE  NoticesInv'
<1> DEFINE k == call[c].notice
<1>1. /\ call' \in [Sender -> Call] /\ call'[c].at = "over"
      /\ call'[c].notice = k /\ call'[c].outcome = call[c].outcome
      /\ \A d \in Sender \ {c} : call'[d] = call[d]
  BY GoesTo DEF NoticesInv, AppendTurn, Stage
<1>2. /\ call[c].at = "append" /\ call[c].outcome \in {"sent", "failed"} /\ k \in Notice
      /\ UNCHANGED <<ledger, recent, pushed, losses, crossed>>
  BY DEF AppendTurn, NoticesInv, NoticesTypeOK, CallsInv
<1>3. /\ thread' \in [Notice -> Nat] /\ thread'[k] = thread[k] + 1
      /\ \A j \in Notice \ {k} : thread'[j] = thread[j]
  BY <1>2 DEF AppendTurn, NoticesInv, NoticesTypeOK
<1>4. NoticesTypeOK'
  BY <1>1, <1>2, <1>3, TypeOfCalls DEF NoticesInv, NoticesTypeOK
<1>5. CallsInv'
  BY <1>1, <1>2 DEF NoticesInv, CallsInv
<1>6. \A d \in Sender : Owner(d) /\ d # c => call[d].notice \in Notice \ {k}
  BY <1>2 DEF NoticesInv, CallsInv, OwnersInv, Owner
<1>7. \A d \in Sender : Owner(d)' <=> Owner(d)
  BY <1>1, <1>2 DEF Owner
<1>8. OwnersInv'
  BY <1>1, <1>2, <1>7 DEF NoticesInv, OwnersInv
<1>9. ThreadInv'
  <2>1. ledger[k] # "none"
    BY <1>2 DEF NoticesInv, OwnersInv, Owner
  <2> QED
    BY <1>1, <1>2, <1>3, <1>6, <2>1 DEF NoticesInv, ThreadInv, Owner
<1>10. BurstInv'
  BY <1>1, <1>2 DEF NoticesInv, BurstInv, Acking
<1> QED
  BY <1>4, <1>5, <1>8, <1>9, <1>10 DEF NoticesInv

LEMMA SettleFailsInv ==
  ASSUME NoticesInv, NEW c \in Sender, SettleFails(c)
  PROVE  NoticesInv'
<1>1. /\ call' \in [Sender -> Call] /\ call'[c].at = "append"
      /\ call'[c].notice = call[c].notice /\ call'[c].outcome = call[c].outcome
      /\ \A d \in Sender \ {c} : call'[d] = call[d]
  BY GoesTo DEF NoticesInv, SettleFails, Stage
<1>2. /\ call[c].at = "settle" /\ call[c].outcome # "none"
      /\ UNCHANGED <<ledger, recent, pushed, thread, crossed>>
      /\ losses' = losses + 1 /\ losses' \in Nat \ {0}
  BY DEF SettleFails, Lost, NoticesInv, NoticesTypeOK, CallsInv
<1>3. NoticesTypeOK'
  BY <1>1, <1>2, TypeOfCalls DEF NoticesInv, NoticesTypeOK
<1>4. CallsInv'
  BY <1>1, <1>2 DEF NoticesInv, CallsInv
<1>5. OwnersInv'
  BY <1>1, <1>2 DEF NoticesInv, CallsInv, OwnersInv, Owner
<1>6. ThreadInv'
  BY <1>2 DEF ThreadInv
<1>7. BurstInv'
  BY <1>1, <1>2 DEF NoticesInv, BurstInv, Acking
<1> QED
  BY <1>3, <1>4, <1>5, <1>6, <1>7 DEF NoticesInv

LEMMA AppendFailsInv ==
  ASSUME NoticesInv, NEW c \in Sender, AppendFails(c)
  PROVE  NoticesInv'
<1>1. /\ call' \in [Sender -> Call] /\ call'[c].at = "over"
      /\ call'[c].notice = call[c].notice /\ call'[c].outcome = call[c].outcome
      /\ \A d \in Sender \ {c} : call'[d] = call[d]
  BY GoesTo DEF NoticesInv, AppendFails, Stage
<1>2. /\ call[c].at = "append" /\ call[c].outcome # "none"
      /\ UNCHANGED <<ledger, recent, pushed, thread, crossed>>
      /\ losses' = losses + 1 /\ losses' \in Nat \ {0}
  BY DEF AppendFails, Lost, NoticesInv, NoticesTypeOK, CallsInv
<1>3. NoticesTypeOK'
  BY <1>1, <1>2, TypeOfCalls DEF NoticesInv, NoticesTypeOK
<1>4. CallsInv'
  BY <1>1, <1>2 DEF NoticesInv, CallsInv
<1>5. OwnersInv'
  BY <1>1, <1>2 DEF NoticesInv, CallsInv, OwnersInv, Owner
<1>6. ThreadInv'
  BY <1>2 DEF ThreadInv
<1>7. BurstInv'
  BY <1>1, <1>2 DEF NoticesInv, BurstInv, Acking
<1> QED
  BY <1>3, <1>4, <1>5, <1>6, <1>7 DEF NoticesInv

LEMMA SenderDiesInv ==
  ASSUME NoticesInv, NEW c \in Sender, SenderDies(c)
  PROVE  NoticesInv'
<1>1. /\ call' \in [Sender -> Call] /\ call'[c].at = "over"
      /\ call'[c].notice = call[c].notice /\ call'[c].outcome = call[c].outcome
      /\ \A d \in Sender \ {c} : call'[d] = call[d]
  BY GoesTo DEF NoticesInv, SenderDies, Stage
<1>2. /\ call[c].at \notin {"new", "over"}
      /\ UNCHANGED <<ledger, recent, pushed, thread, crossed>>
      /\ losses' = losses + 1 /\ losses' \in Nat \ {0}
  BY DEF SenderDies, Lost, NoticesInv, NoticesTypeOK, CallsInv
<1>3. NoticesTypeOK'
  BY <1>1, <1>2, TypeOfCalls DEF NoticesInv, NoticesTypeOK
<1>4. CallsInv'
  BY <1>1, <1>2 DEF NoticesInv, CallsInv
<1>5. OwnersInv'
  BY <1>1, <1>2 DEF NoticesInv, CallsInv, OwnersInv, Owner
<1>6. ThreadInv'
  BY <1>2 DEF ThreadInv
<1>7. BurstInv'
  BY <1>1, <1>2 DEF NoticesInv, BurstInv, Acking
<1> QED
  BY <1>3, <1>4, <1>5, <1>6, <1>7 DEF NoticesInv

LEMMA BurstEndsInv ==
  ASSUME NoticesInv, BurstEnds
  PROVE  NoticesInv'
<1>1. recent' = {} /\ UNCHANGED <<ledger, call, pushed, thread, losses, crossed>>
  BY DEF BurstEnds
<1>2. NoticesTypeOK'
  BY <1>1 DEF NoticesInv, NoticesTypeOK
<1>3. CallsInv' /\ OwnersInv' /\ ThreadInv'
  BY <1>1 DEF NoticesInv, CallsInv, OwnersInv, ThreadInv, Owner
<1>4. BurstInv'
  BY <1>1 DEF NoticesInv, BurstInv, Acking
<1> QED
  BY <1>2, <1>3, <1>4 DEF NoticesInv

LEMMA NoticesStepInv == NoticesInv /\ [NoticesNext]_noticeVars => NoticesInv'
<1> SUFFICES ASSUME NoticesInv, [NoticesNext]_noticeVars PROVE NoticesInv'
  OBVIOUS
<1>1. CASE UNCHANGED noticeVars
  BY <1>1 DEF noticeVars, NoticesInv, NoticesTypeOK, CallsInv, OwnersInv, ThreadInv, BurstInv,
              Owner, Acking
<1>2. CASE BurstEnds
  BY <1>2, BurstEndsInv
<1>3. ASSUME NEW c \in Sender,
             \/ NoRecipient(c) \/ Resolve(c) \/ LookBack(c) \/ ClaimNotice(c) \/ PushLine(c)
             \/ PushFails(c) \/ Settle(c) \/ SettleFails(c) \/ AppendTurn(c)
             \/ AppendFails(c) \/ SenderDies(c)
      PROVE  NoticesInv'
  BY <1>3, NoRecipientInv, ResolveInv, LookBackInv, ClaimNoticeInv, PushInv, SettleInv,
     SettleFailsInv, AppendTurnInv, AppendFailsInv, SenderDiesInv
<1> QED
  BY <1>1, <1>2, <1>3 DEF NoticesNext

LEMMA NoticesInductive == NoticesSpec => []NoticesInv
  BY NoticesInitInv, NoticesStepInv, PTL DEF NoticesSpec

(***************************************************************************)
(* The properties.                                                         *)
(***************************************************************************)

\* Two acknowledgements of one burst never both have a row, of whichever
\* types and however their calls end, unless their calls overlapped.
THEOREM OneAck == NoticesSpec => []OneAckPerBurst
<1>1. NoticesInv => OneAckPerBurst
  BY DEF NoticesInv, BurstInv, OneAckPerBurst
<1> QED
  BY <1>1, NoticesInductive, PTL

\* While nothing is lost, every notice that was pushed, accepted or not, is
\* one turn of the thread and its row says what became of it.
THEOREM ThreadComplete == NoticesSpec => []ThreadTellsAll
<1>1. NoticesInv => ThreadTellsAll
  BY DEF NoticesInv, ThreadInv, ThreadTellsAll
<1> QED
  BY <1>1, NoticesInductive, PTL

\* send implements OnceNotices: any number of calls, repeats, lost answers
\* and crashes deliver a notice once at most.
THEOREM Once == NoticesSpec => ImplementsOnce
<1>1. NoticesInit => Abstract!OnceInit
  BY DEF NoticesInit, Abstract!OnceInit
<1>2. NoticesInv /\ [NoticesNext]_noticeVars => [\E k \in Notice : Abstract!Tell(k)]_pushed
  <2> SUFFICES ASSUME NoticesInv, NoticesNext, pushed' # pushed
               PROVE  \E k \in Notice : Abstract!Tell(k)
    BY DEF noticeVars
  <2>1. PICK c \in Sender : PushLine(c) \/ PushFails(c)
    BY DEF NoticesNext, NoRecipient, Resolve, LookBack, ClaimNotice, Settle, SettleFails,
           AppendTurn, AppendFails, SenderDies, BurstEnds
  <2>2. /\ call[c].at = "push" /\ call[c].notice \in Notice
        /\ pushed' = [pushed EXCEPT ![call[c].notice] = @ + 1]
    BY <2>1 DEF PushLine, PushFails, NoticesInv, CallsInv
  <2>3. pushed[call[c].notice] = 0
    BY <2>2 DEF NoticesInv, OwnersInv
  <2>4. Abstract!Tell(call[c].notice)
    BY <2>2, <2>3 DEF Abstract!Tell
  <2> QED
    BY <2>2, <2>4
<1> QED
  BY <1>1, <1>2, NoticesInductive, PTL DEF NoticesSpec, ImplementsOnce, Abstract!OnceSpec

-----------------------------------------------------------------------------
(* SlaCalendar: business days.                                             *)

LEMMA CountedFinite ==
  ASSUME NEW from \in Nat, NEW n \in Nat
  PROVE  /\ IsFiniteSet({k \in 1..n : IsBusinessDay(Day(from) + k)})
         /\ Counted(from, n) \in Nat
<1>1. IsFiniteSet(1..n)
  BY FS_Interval
<1>2. {k \in 1..n : IsBusinessDay(Day(from) + k)} \subseteq 1..n
  OBVIOUS
<1> QED
  BY <1>1, <1>2, FS_Subset, FS_CardinalityType DEF Counted

LEMMA CountedType ==
  ASSUME NEW from \in Nat, NEW n \in Nat PROVE Counted(from, n) \in Nat
BY CountedFinite

LEMMA CountedNone == ASSUME NEW from \in Nat PROVE Counted(from, 0) = 0
<1>1. {k \in 1..0 : IsBusinessDay(Day(from) + k)} = {}
  OBVIOUS
<1> QED
  BY <1>1, FS_EmptySet DEF Counted

\* One more day counts one more if it is a business day.
LEMMA CountedNext ==
  ASSUME NEW from \in Nat, NEW n \in Nat
  PROVE  Counted(from, n + 1) = Counted(from, n)
                                  + (IF IsBusinessDay(Day(from) + (n + 1)) THEN 1 ELSE 0)
<1> DEFINE Days(m) == {k \in 1..m : IsBusinessDay(Day(from) + k)}
<1>1. IsFiniteSet(Days(n)) /\ Cardinality(Days(n)) = Counted(from, n) /\ Counted(from, n) \in Nat
  BY CountedFinite DEF Counted
<1>2. CASE IsBusinessDay(Day(from) + (n + 1))
  <2>1. Days(n + 1) = Days(n) \cup {n + 1} /\ n + 1 \notin Days(n)
    BY <1>2
  <2>2. Cardinality(Days(n) \cup {n + 1}) = Cardinality(Days(n)) + 1
    BY <1>1, <2>1, FS_AddElement
  <2> QED
    BY <1>1, <1>2, <2>1, <2>2 DEF Counted
<1>3. CASE ~IsBusinessDay(Day(from) + (n + 1))
  <2>1. Days(n + 1) = Days(n)
    BY <1>3
  <2> QED
    BY <1>1, <1>3, <2>1 DEF Counted
<1> QED
  BY <1>2, <1>3

LEMMA CountedGrows ==
  ASSUME NEW from \in Nat, NEW m \in Nat, NEW n \in Nat, m =< n
  PROVE  Counted(from, m) =< Counted(from, n)
<1> DEFINE Days(j) == {k \in 1..j : IsBusinessDay(Day(from) + k)}
<1>1. IsFiniteSet(Days(n)) /\ Days(m) \subseteq Days(n)
  BY CountedFinite
<1>2. Cardinality(Days(m)) =< Cardinality(Days(n))
  BY <1>1, FS_Subset
<1> QED
  BY <1>2 DEF Counted

\* A set of numbers that is not empty has a least element.
LEMMA LeastNat ==
  ASSUME NEW T, T \subseteq Nat, T # {}
  PROVE  \E n \in T : \A m \in T : n =< m
<1> DEFINE Below == {ss \in Nat \X Nat : ss[1] < ss[2]}
<1>1. IsWellFoundedOn(Below, Nat)
  BY NatLessThanWellFounded DEF OpToRel
<1>2. PICK n \in T : \A y \in T : ~(<<y, n>> \in Below)
  <2> HIDE DEF Below
  <2> QED
    BY <1>1, WFMin
<1>3. ASSUME NEW m \in T
      PROVE  n =< m
  <2>1. <<m, n>> \in Nat \X Nat /\ <<m, n>>[1] = m /\ <<m, n>>[2] = n
    OBVIOUS
  <2>2. ~(m < n)
    BY <1>2, <2>1
  <2> QED
    BY <2>2
<1> QED
  BY <1>3

\* Of any three days in a row one is a business day.
LEMMA CountedThree ==
  ASSUME NEW from \in Nat, NEW n \in Nat
  PROVE  Counted(from, n + 3) >= Counted(from, n) + 1
<1>0. n + 1 \in Nat /\ n + 2 \in Nat /\ n + 3 \in Nat
  OBVIOUS
<1>1. /\ Counted(from, n) \in Nat /\ Counted(from, n + 1) \in Nat
      /\ Counted(from, n + 2) \in Nat /\ Counted(from, n + 3) \in Nat
  BY <1>0, CountedFinite
<1>2. (n + 1) + 1 = n + 2 /\ (n + 2) + 1 = n + 3
  OBVIOUS
<1>3. Day(from) \in Nat
  BY CalendarAssumption DEF Day
<1>4. \/ IsBusinessDay(Day(from) + (n + 1))
      \/ IsBusinessDay(Day(from) + (n + 2))
      \/ IsBusinessDay(Day(from) + (n + 3))
  BY <1>3 DEF IsBusinessDay
<1>5. /\ Counted(from, n + 1) = Counted(from, n)
                                  + (IF IsBusinessDay(Day(from) + (n + 1)) THEN 1 ELSE 0)
      /\ Counted(from, n + 2) = Counted(from, n + 1)
                                  + (IF IsBusinessDay(Day(from) + (n + 2)) THEN 1 ELSE 0)
      /\ Counted(from, n + 3) = Counted(from, n + 2)
                                  + (IF IsBusinessDay(Day(from) + (n + 3)) THEN 1 ELSE 0)
  BY <1>0, <1>2, CountedNext
<1> QED
  BY <1>1, <1>4, <1>5

LEMMA CountedEnough ==
  ASSUME NEW from \in Nat, NEW days \in Nat
  PROVE  Counted(from, 3 * days) >= days
<1> DEFINE T == {d \in Nat : ~(Counted(from, 3 * d) >= d)}
<1> SUFFICES ASSUME T # {} PROVE FALSE
  OBVIOUS
<1>1. PICK d \in T : \A e \in T : d =< e
  BY LeastNat
<1>2. d # 0
  BY <1>1, CountedNone
<1>3. d - 1 \in Nat /\ d - 1 \notin T
  BY <1>1, <1>2
<1>4. Counted(from, 3 * (d - 1)) >= d - 1
  BY <1>3
<1>5. Counted(from, 3 * (d - 1) + 3) >= Counted(from, 3 * (d - 1)) + 1
  BY <1>3, CountedThree
<1>6. 3 * (d - 1) + 3 = 3 * d
  BY <1>1
<1>7. Counted(from, 3 * (d - 1)) \in Nat /\ Counted(from, 3 * d) \in Nat
  <2>1. 3 * (d - 1) \in Nat /\ 3 * d \in Nat
    BY <1>1, <1>3
  <2> QED
    BY <2>1, CountedFinite
<1> QED
  BY <1>1, <1>4, <1>5, <1>6, <1>7

\* The loop of addBusinessDays ends, with the least number of days that counts
\* enough.
LEMMA Completed ==
  ASSUME NEW base \in Nat, NEW days \in Nat
  PROVE  \E n \in 0..(3 * days) :
            /\ AddBusinessDays(base, days) = base + DayLen * n
            /\ Counted(base, n) = days
            /\ \A m \in Nat : Counted(base, m) >= days => n =< m
<1> DEFINE T == {n \in Nat : Counted(base, n) >= days}
<1>1. 3 * days \in T
  BY CountedEnough
<1>2. PICK n \in T : \A m \in T : n =< m
  BY <1>1, LeastNat
<1>3. n \in Nat /\ n \in 0..(3 * days) /\ Counted(base, n) \in Nat
  <2>1. n \in Nat /\ Counted(base, n) >= days /\ n =< 3 * days
    BY <1>1, <1>2
  <2>2. Counted(base, n) \in Nat
    BY <2>1, CountedType
  <2> QED
    BY <2>1, <2>2
<1>4. Completes(base, days, n)
  <2>1. CASE n = 0
    BY <1>2, <2>1, CountedNone DEF Completes
  <2>2. CASE n # 0
    <3>1. n - 1 \in Nat /\ n - 1 \notin T /\ (n - 1) + 1 = n
      BY <1>2, <2>2
    <3>0. Counted(base, n - 1) \in Nat
      BY <3>1, CountedType
    <3>2. Counted(base, n - 1) < days /\ Counted(base, n - 1) \in Nat
      BY <3>0, <3>1
    <3>3. Counted(base, n) = Counted(base, n - 1)
                               + (IF IsBusinessDay(Day(base) + n) THEN 1 ELSE 0)
      BY <3>1, CountedNext
    <3> QED
      BY <1>2, <1>3, <3>2, <3>3 DEF Completes
  <2> QED
    BY <2>1, <2>2
<1>5. ASSUME NEW k \in 0..(3 * days), Completes(base, days, k)
      PROVE  k = n
  <2>1. n =< k
    BY <1>2, <1>5 DEF Completes
  <2>2. CASE k = 0
    BY <1>3, <2>1, <2>2
  <2>3. CASE k # 0
    <3>1. k - 1 \in Nat /\ (k - 1) + 1 = k /\ IsBusinessDay(Day(base) + k)
      BY <1>5, <2>3 DEF Completes
    <3>2. Counted(base, k) = Counted(base, k - 1) + 1 /\ Counted(base, k - 1) \in Nat
      BY <3>1, CountedNext, CountedFinite
    <3>3. Counted(base, k - 1) < days
      BY <1>5, <3>2 DEF Completes
    <3>4. ~(n =< k - 1)
      BY <1>3, <1>4, <3>1, <3>2, <3>3, CountedGrows DEF Completes
    <3> QED
      BY <1>3, <2>1, <3>1, <3>4
  <2> QED
    BY <2>2, <2>3
<1>6. (CHOOSE k \in 0..(3 * days) : Completes(base, days, k)) = n
  BY <1>3, <1>4, <1>5
<1> QED
  BY <1>2, <1>3, <1>4, <1>6 DEF AddBusinessDays, Completes

LEMMA WholeDays ==
  ASSUME NEW n \in Nat, NEW len \in Nat
  PROVE  DayLen * n =< len <=> n =< len \div DayLen
  BY CalendarAssumption

\* The two functions of the calendar agree: so many business days have passed
\* when the date that many business days away has come.
LEMMA CalendarAgrees ==
  ASSUME NEW base \in Nat, NEW days \in Nat, NEW t \in Nat, base =< t
  PROVE  AddBusinessDays(base, days) =< t <=> days =< BusinessDaysBetween(base, t)
<1> DEFINE whole == (t - base) \div DayLen
<1>1. PICK n \in 0..(3 * days) :
            /\ AddBusinessDays(base, days) = base + DayLen * n
            /\ Counted(base, n) = days
            /\ \A m \in Nat : Counted(base, m) >= days => n =< m
  BY Completed
<1>2. whole \in Nat
  BY CalendarAssumption
<1>3. BusinessDaysBetween(base, t) = Counted(base, whole)
  <2>1. t = base => whole = 0
    BY CalendarAssumption
  <2> QED
    BY <2>1, CountedNone DEF BusinessDaysBetween
<1>4. base + DayLen * n =< t <=> n =< whole
  <2>1. DayLen * n \in Nat
    BY CalendarAssumption
  <2>2. DayLen * n =< t - base <=> n =< whole
    BY WholeDays
  <2> QED
    BY <2>1, <2>2
<1>5. n =< whole <=> days =< Counted(base, whole)
  BY <1>1, <1>2, CountedGrows, CountedFinite
<1> QED
  BY <1>1, <1>3, <1>4, <1>5

LEMMA AddedType ==
  ASSUME NEW base \in Nat, NEW days \in Nat
  PROVE  AddBusinessDays(base, days) \in Nat /\ AddBusinessDays(base, days) >= base
<1>1. PICK n \in Nat : AddBusinessDays(base, days) = base + DayLen * n
  BY Completed
<1>2. DayLen * n \in Nat
  BY CalendarAssumption
<1> QED
  BY <1>1, <1>2

LEMMA AddedLater ==
  ASSUME NEW base \in Nat, NEW days \in Nat \ {0}
  PROVE  AddBusinessDays(base, days) > base
<1>1. BusinessDaysBetween(base, base) = 0
  BY DEF BusinessDaysBetween
<1>2. ~(AddBusinessDays(base, days) =< base)
  BY <1>1, CalendarAgrees
<1> QED
  BY <1>2, AddedType

\* On that date the count is exact.
LEMMA AddedExact ==
  ASSUME NEW base \in Nat, NEW days \in Nat
  PROVE  BusinessDaysBetween(base, AddBusinessDays(base, days)) = days
<1>1. PICK n \in 0..(3 * days) : /\ AddBusinessDays(base, days) = base + DayLen * n
                                 /\ Counted(base, n) = days
  BY Completed
<1>2. (DayLen * n) \div DayLen = n /\ DayLen * n \in Nat
  BY CalendarAssumption
<1>3. CASE n = 0
  <2>1. AddBusinessDays(base, days) = base
    BY <1>1, <1>3, CalendarAssumption
  <2> QED
    BY <1>1, <1>3, <2>1, CountedNone DEF BusinessDaysBetween
<1>4. CASE n # 0
  <2>1. ~(base + DayLen * n =< base) /\ (base + DayLen * n) - base = DayLen * n
    BY <1>2, <1>4, CalendarAssumption
  <2> QED
    BY <1>1, <1>2, <2>1 DEF BusinessDaysBetween
<1> QED
  BY <1>3, <1>4

-----------------------------------------------------------------------------
(* The slots of a cadence.                                                 *)

Rule == [every: Nat \ {0}, unit: {"hours", "businessDays"}]

LEMMA CountedAtMost ==
  ASSUME NEW from \in Nat, NEW n \in Nat
  PROVE  Counted(from, n) =< n
<1>1. IsFiniteSet(1..n) /\ Cardinality(1..n) = n
  BY FS_Interval
<1>2. {k \in 1..n : IsBusinessDay(Day(from) + k)} \subseteq 1..n
  OBVIOUS
<1> QED
  BY <1>1, <1>2, FS_Subset DEF Counted

\* Integer division, as the slots use it.
LEMMA Shares ==
  ASSUME NEW k \in Nat, NEW n \in Nat, NEW each \in Nat \ {0}
  PROVE  /\ n \div each \in Nat /\ n \div each =< n
         /\ k * each \in Nat
         /\ k * each =< n <=> k =< n \div each
         /\ (k * each) \div each = k
<1>1. n \div each \in Nat /\ k * each \in Nat
  OBVIOUS
<1>2. n \div each =< n
  OBVIOUS
<1>3. k * each =< n <=> k =< n \div each
  OBVIOUS
<1>4. (k * each) \div each = k
  OBVIOUS
<1> QED
  BY <1>1, <1>2, <1>3, <1>4

LEMMA BetweenType ==
  ASSUME NEW from \in Nat, NEW to \in Nat, from =< to
  PROVE  BusinessDaysBetween(from, to) \in Nat /\ BusinessDaysBetween(from, to) =< to - from
<1>1. CASE to =< from
  BY <1>1 DEF BusinessDaysBetween
<1>2. CASE ~(to =< from)
  <2>1. to - from \in Nat
    OBVIOUS
  <2>2. (to - from) \div DayLen \in Nat /\ (to - from) \div DayLen =< to - from
    BY <2>1, Shares, CalendarAssumption
  <2>3. /\ Counted(from, (to - from) \div DayLen) \in Nat
        /\ Counted(from, (to - from) \div DayLen) =< (to - from) \div DayLen
    BY <2>2, CountedType, CountedAtMost
  <2> QED
    BY <1>2, <2>1, <2>2, <2>3 DEF BusinessDaysBetween
<1> QED
  BY <1>1, <1>2

LEMMA SlotType ==
  ASSUME NEW created \in Nat, NEW t \in Nat, created =< t, NEW interval \in Rule
  PROVE  /\ CadenceSlot(created, t, interval) \in Nat
         /\ CadenceSlot(created, t, interval) =< t - created
<1>1. interval.every \in Nat \ {0} /\ interval.unit \in {"hours", "businessDays"}
  BY DEF Rule
<1>2. t - created \in Nat
  OBVIOUS
<1>3. CASE interval.unit = "businessDays"
  <2> DEFINE n == BusinessDaysBetween(created, t)
  <2>1. n \in Nat /\ n =< t - created
    BY BetweenType
  <2>2. CadenceSlot(created, t, interval) = n \div interval.every
    BY <1>3 DEF CadenceSlot
  <2> HIDE DEF n
  <2>3. n \div interval.every \in Nat /\ n \div interval.every =< n
    BY <1>1, <2>1, Shares
  <2> QED
    BY <1>2, <2>1, <2>2, <2>3
<1>4. CASE interval.unit = "hours"
  <2>1. CadenceSlot(created, t, interval) = (t - created) \div interval.every
    BY <1>4 DEF CadenceSlot
  <2> QED
    BY <1>1, <1>2, <2>1, Shares
<1> QED
  BY <1>1, <1>3, <1>4

LEMMA StartType ==
  ASSUME NEW created \in Nat, NEW s \in Nat, NEW interval \in Rule
  PROVE  /\ SlotStartedAt(created, s, interval) \in Nat
         /\ SlotStartedAt(created, s, interval) >= created
<1>1. interval.every \in Nat \ {0}
  BY DEF Rule
<1>2. s * interval.every \in Nat
  BY <1>1, Shares
<1>3. CASE interval.unit = "businessDays"
  BY <1>2, <1>3, AddedType DEF SlotStartedAt
<1>4. CASE interval.unit # "businessDays"
  <2>1. SlotStartedAt(created, s, interval) = created + s * interval.every
    BY <1>4 DEF SlotStartedAt
  <2> QED
    BY <1>2, <2>1
<1> QED
  BY <1>3, <1>4

\* A slot has begun when the cadence counts it.
LEMMA Begun ==
  ASSUME NEW created \in Nat, NEW t \in Nat, created =< t, NEW interval \in Rule, NEW s \in Nat
  PROVE  SlotStartedAt(created, s, interval) =< t <=> s =< CadenceSlot(created, t, interval)
<1>1. interval.every \in Nat \ {0} /\ interval.unit \in {"hours", "businessDays"}
  BY DEF Rule
<1>2. s * interval.every \in Nat /\ t - created \in Nat
  BY <1>1, Shares
<1>3. CASE interval.unit = "businessDays"
  <2> DEFINE n == BusinessDaysBetween(created, t)
             m == s * interval.every
  <2>1. n \in Nat
    BY BetweenType
  <2>2. CadenceSlot(created, t, interval) = n \div interval.every
    BY <1>3 DEF CadenceSlot
  <2>3. SlotStartedAt(created, s, interval) = AddBusinessDays(created, m)
    BY <1>3 DEF SlotStartedAt
  <2>4. AddBusinessDays(created, m) =< t <=> m =< n
    BY <1>2, CalendarAgrees
  <2> HIDE DEF n
  <2>5. m =< n <=> s =< n \div interval.every
    BY <1>1, <2>1, Shares
  <2> QED
    BY <2>2, <2>3, <2>4, <2>5
<1>4. CASE interval.unit = "hours"
  <2>1. CadenceSlot(created, t, interval) = (t - created) \div interval.every
    BY <1>4 DEF CadenceSlot
  <2>2. SlotStartedAt(created, s, interval) = created + s * interval.every
    BY <1>4 DEF SlotStartedAt
  <2>3. s * interval.every =< t - created <=> s =< (t - created) \div interval.every
    BY <1>1, <1>2, Shares
  <2> QED
    BY <1>2, <2>1, <2>2, <2>3
<1> QED
  BY <1>1, <1>3, <1>4

\* At its boundary a slot is the current one.
LEMMA Exact ==
  ASSUME NEW created \in Nat, NEW interval \in Rule, NEW s \in Nat
  PROVE  CadenceSlot(created, SlotStartedAt(created, s, interval), interval) = s
<1>1. interval.every \in Nat \ {0} /\ interval.unit \in {"hours", "businessDays"}
  BY DEF Rule
<1>2. s * interval.every \in Nat /\ (s * interval.every) \div interval.every = s
  BY <1>1, Shares
<1>3. CASE interval.unit = "businessDays"
  BY <1>2, <1>3, AddedExact DEF CadenceSlot, SlotStartedAt
<1>4. CASE interval.unit = "hours"
  <2>1. (created + s * interval.every) - created = s * interval.every
    BY <1>2
  <2> QED
    BY <1>2, <1>4, <2>1 DEF CadenceSlot, SlotStartedAt
<1> QED
  BY <1>1, <1>3, <1>4

-----------------------------------------------------------------------------
(* The reminders.                                                          *)

\* A pass at work holds the lock and is about the current slot; one that may
\* send has found that the slot has begun.
PassesInv ==
    \A e \in Engine : pass[e].at \notin {"idle", "down"} =>
        /\ lock = e /\ pass[e].slot = CurrentSlot
        /\ pass[e].at \in {"claim", "send"} => CurrentSlot >= 1

\* What was told was told once, is still claimed and had begun; what a pass is
\* about to tell is claimed and was not told.
SlotsInv ==
    /\ \A s \in Slot : received[s] # 0 => received[s] = 1 /\ s \in slots
                                          /\ s >= 1 /\ Boundary(s) =< now
    /\ \A e \in Engine : pass[e].at = "send" =>
           pass[e].slot \in slots /\ received[pass[e].slot] = 0

RemindersInv == RemindersTypeOK /\ ticket.created =< now /\ PassesInv /\ SlotsInv

\* As long as nothing failed and nobody stepped in: nothing holds a pass back,
\* and what is claimed or noted was told or is about to be.
SmoothInv ==
    /\ ticket.open /\ ~human
    /\ \A e \in Engine : pass[e].at # "down" /\ ~pass[e].human
    /\ \A s \in slots : received[s] = 1 \/ \E e \in Engine : pass[e].at = "send" /\ pass[e].slot = s
    /\ \A s \in noticed : received[s] = 1

\* A pass that is over has told the slot that has just begun; every slot that
\* began earlier, or in a unit of time whose pass is over, was told.
ToldInv ==
    /\ \A e \in Engine : (pass[e].at = "end" /\ CurrentSlot >= 1 /\ Boundary(CurrentSlot) = now)
           => received[CurrentSlot] = 1
    /\ \A s \in Slot \ {0} : Boundary(s) < now \/ (Boundary(s) = now /\ ran) => received[s] = 1

PromptInv == ~gaps => SmoothInv /\ ToldInv
Place == {"idle", "claim", "send", "end", "down"}
PassRecord == [at: Place, slot: Slot, human: BOOLEAN]

LEMMA TicketFacts ==
  ASSUME RemindersTypeOK, ticket.created =< now
  PROVE  /\ ticket.created \in Nat /\ now \in Nat /\ ticket.interval \in Rule
         /\ CurrentSlot \in Slot
         /\ \A s \in Nat : /\ Boundary(s) \in Nat /\ Boundary(s) >= ticket.created
                           /\ Boundary(s) =< now <=> s =< CurrentSlot
<1>1. ticket.created \in Nat /\ now \in Nat /\ now =< Horizon /\ ticket.interval \in Rule
  <2>1. now \in 0..Horizon /\ ticket.created \in CreatedAt /\ ticket.interval \in Interval
    BY DEF RemindersTypeOK, Time
  <2>2. ticket.created \in 0..Horizon /\ ticket.interval \in Rule
    BY <2>1, RemindersAssumption DEF Time, Rule
  <2> QED
    BY <2>1, <2>2, CalendarAssumption
<1>2. CurrentSlot \in Nat /\ CurrentSlot =< now - ticket.created
  BY <1>1, SlotType DEF CurrentSlot
<1>3. CurrentSlot \in Slot
  BY <1>1, <1>2, CalendarAssumption DEF Slot
<1>4. ASSUME NEW s \in Nat
      PROVE  /\ Boundary(s) \in Nat /\ Boundary(s) >= ticket.created
             /\ Boundary(s) =< now <=> s =< CurrentSlot
  <2>1. Boundary(s) \in Nat /\ Boundary(s) >= ticket.created
    BY <1>1, StartType DEF Boundary
  <2>2. Boundary(s) =< now <=> s =< CurrentSlot
    BY <1>1, Begun DEF Boundary, CurrentSlot
  <2> QED
    BY <2>1, <2>2
<1> QED
  BY <1>1, <1>3, <1>4

\* While the clock and the ticket's cadence stand still, so do its slots.
LEMMA SlotsStand ==
  ASSUME now' = now, ticket'.created = ticket.created, ticket'.interval = ticket.interval
  PROVE  /\ CurrentSlot' = CurrentSlot
         /\ \A s \in Slot : Boundary(s)' = Boundary(s)
BY DEF CurrentSlot, Boundary

LEMMA Counts == Cardinality(Slot) \in Nat /\ Cardinality(Slot) >= 1
<1>1. Cardinality(0..Horizon) = Horizon + 1
  BY FS_Interval, CalendarAssumption
<1> QED
  BY <1>1, CalendarAssumption DEF Slot

LEMMA RemindersInitInv == RemindersInit => RemindersInv /\ PromptInv
<1> SUFFICES ASSUME RemindersInit PROVE RemindersInv /\ PromptInv
  OBVIOUS
<1> USE DEF RemindersInit
<1>1. ticket.created \in Time /\ now = ticket.created
  BY RemindersAssumption
<1>2. RemindersTypeOK
  <2>1. pass \in [Engine -> PassRecord]
    BY CalendarAssumption DEF Idle, PassRecord, Place, Slot
  <2>2. received \in [Slot -> 0..Cardinality(Slot)]
    BY Counts
  <2>3. faults \in 0..MaxFaults
    BY RemindersAssumption
  <2> QED
    BY <1>1, <2>1, <2>2, <2>3 DEF RemindersTypeOK, PassRecord, Place
<1>3. ticket.created =< now
  BY <1>1, CalendarAssumption DEF Time
<1>4. \A e \in Engine : pass[e] = Idle /\ Idle.at = "idle" /\ ~Idle.human
  BY DEF Idle
<1>5. PassesInv /\ SlotsInv
  BY <1>4 DEF PassesInv, SlotsInv
<1>6. SmoothInv
  BY <1>4 DEF SmoothInv
<1>7. ToldInv
  <2>1. \A s \in Nat : Boundary(s) \in Nat /\ Boundary(s) >= now
    BY <1>1, <1>2, <1>3, TicketFacts
  <2>2. \A s \in Slot \ {0} : ~(Boundary(s) < now) /\ ~ran
    BY <2>1, <1>1, CalendarAssumption DEF Slot, Time
  <2> QED
    BY <1>4, <2>2 DEF ToldInv
<1> QED
  BY <1>2, <1>3, <1>5, <1>6, <1>7 DEF RemindersInv, PromptInv

\* A step that moves one pass and leaves the clock and the ticket alone.
PassStep(e) == UNCHANGED <<now, ticket>> /\ pass' = [pass EXCEPT ![e] = pass'[e]]

LEMMA BeginPassInv ==
  ASSUME RemindersInv, NEW e \in Engine, BeginPass(e)
  PROVE  RemindersInv'
<1> USE DEF RemindersInv
<1>1. RemindersTypeOK'
  <2>1. pass'[e] \in PassRecord /\ pass' = [pass EXCEPT ![e] = pass'[e]]
    BY TicketFacts DEF BeginPass, RemindersTypeOK, PassRecord, Place
  <2>2. pass' \in [Engine -> PassRecord]
    BY <2>1 DEF RemindersTypeOK, PassRecord, Place
  <2> QED
    BY <2>2 DEF BeginPass, RemindersTypeOK, PassRecord, Place
<1>2. CurrentSlot' = CurrentSlot /\ \A s \in Slot : Boundary(s)' = Boundary(s)
  BY SlotsStand DEF BeginPass
<1>3. PassesInv'
  <2>1. \A d \in Engine : pass[d].at \in {"idle", "down"}
    BY RemindersAssumption DEF BeginPass, PassesInv
  <2>2. \A d \in Engine \ {e} : pass'[d] = pass[d]
    BY DEF BeginPass, RemindersTypeOK
  <2>3. /\ pass'[e].slot = CurrentSlot
        /\ pass'[e].at = "claim" => CurrentSlot >= 1
        /\ pass'[e].at \in {"claim", "end"}
    BY DEF BeginPass, RemindersTypeOK
  <2> QED
    BY <1>2, <2>1, <2>2, <2>3 DEF BeginPass, PassesInv
<1>4. SlotsInv'
  <2>1. \A d \in Engine : pass'[d].at = "send" => d # e /\ pass'[d] = pass[d]
    BY DEF BeginPass, RemindersTypeOK
  <2> QED
    BY <1>2, <2>1 DEF BeginPass, SlotsInv
<1>5. (ticket.created =< now)'
  BY DEF BeginPass
<1> QED
  BY <1>1, <1>3, <1>4, <1>5

LEMMA ClaimSlotInv ==
  ASSUME RemindersInv, NEW e \in Engine, ClaimSlot(e)
  PROVE  RemindersInv'
<1> USE DEF RemindersInv
<1>0. /\ pass[e].at = "claim" /\ pass[e] \in PassRecord /\ pass[e].slot \in Slot
      /\ UNCHANGED <<now, ticket, human, lock, noticed, received, faults, ran, gaps>>
  BY DEF ClaimSlot, RemindersTypeOK, PassRecord, Place
<1>1. /\ pass' = [pass EXCEPT ![e] = pass'[e]] /\ pass'[e].at \in {"end", "send"}
      /\ pass'[e].slot = pass[e].slot /\ pass'[e] \in PassRecord
      /\ \A d \in Engine \ {e} : pass'[d] = pass[d]
      /\ slots \subseteq slots' /\ slots' \subseteq slots \cup {pass[e].slot}
      /\ pass'[e].at = "send" => pass[e].slot \in slots' /\ pass[e].slot \notin slots
  BY <1>0 DEF ClaimSlot, Goto, RemindersTypeOK, PassRecord, Place
<1>2. CurrentSlot' = CurrentSlot /\ \A s \in Slot : Boundary(s)' = Boundary(s)
  BY <1>0, SlotsStand
<1>3. RemindersTypeOK'
  <2>1. pass' \in [Engine -> PassRecord]
    BY <1>1 DEF RemindersTypeOK, PassRecord, Place
  <2> QED
    BY <1>0, <1>1, <2>1 DEF RemindersTypeOK, PassRecord, Place
<1>4. PassesInv'
  BY <1>0, <1>1, <1>2 DEF PassesInv
<1>5. SlotsInv'
  BY <1>0, <1>1, <1>2 DEF SlotsInv
<1> QED
  BY <1>0, <1>3, <1>4, <1>5

\* A pass leaves "send": the slot is told or not, and released only if not.
LEMMA LeavesSend ==
  ASSUME RemindersInv, NEW e \in Engine, pass[e].at = "send", Goto(e, "end"),
         UNCHANGED <<now, ticket, human, lock, ran>>,
         noticed' \subseteq Slot, faults' \in 0..MaxFaults, gaps' \in BOOLEAN,
         \/ slots' = slots /\ received' = [received EXCEPT ![pass[e].slot] = @ + 1]
         \/ slots' \in {slots, slots \ {pass[e].slot}} /\ received' = received
  PROVE  RemindersInv'
<1> USE DEF RemindersInv
<1> DEFINE s == pass[e].slot
<1>0. /\ s \in Slot /\ s = CurrentSlot /\ lock = e /\ s >= 1 /\ Boundary(s) =< now
      /\ received[s] = 0 /\ s \in slots /\ pass \in [Engine -> PassRecord]
  <2>1. s \in Slot /\ pass \in [Engine -> PassRecord]
    BY DEF RemindersTypeOK, PassRecord, Place
  <2>2. s = CurrentSlot /\ lock = e /\ s >= 1
    BY DEF PassesInv
  <2>3. Boundary(s) =< now
    BY <2>1, <2>2, TicketFacts, CalendarAssumption DEF Slot
  <2> QED
    BY <2>1, <2>2, <2>3 DEF SlotsInv
<1>1. /\ pass' \in [Engine -> PassRecord] /\ pass'[e].at = "end" /\ pass'[e].slot = s
      /\ \A d \in Engine \ {e} : pass'[d] = pass[d]
  BY <1>0 DEF Goto, PassRecord, Place
<1>2. CurrentSlot' = CurrentSlot /\ \A k \in Slot : Boundary(k)' = Boundary(k)
  BY SlotsStand
<1>3. ASSUME NEW d \in Engine, d # e
      PROVE  pass[d].at \in {"idle", "down"}
  BY <1>0, <1>3 DEF PassesInv
<1>4. received' \in [Slot -> 0..Cardinality(Slot)]
  <2>1. received \in [Slot -> 0..Cardinality(Slot)]
    BY DEF RemindersTypeOK
  <2>2. received[s] + 1 \in 0..Cardinality(Slot)
    BY <1>0, Counts
  <2> HIDE DEF s
  <2> QED
    BY <2>1, <2>2 DEF s
<1>5. RemindersTypeOK'
  BY <1>1, <1>4 DEF RemindersTypeOK, PassRecord, Place
<1>6. PassesInv'
  BY <1>0, <1>1, <1>2 DEF PassesInv
<1>7. SlotsInv'
  <2>1. received \in [Slot -> 0..Cardinality(Slot)]
    BY DEF RemindersTypeOK
  <2>2. ASSUME NEW k \in Slot, received'[k] # 0
        PROVE  received'[k] = 1 /\ k \in slots' /\ k >= 1 /\ Boundary(k) =< now
    <3>1. CASE k = s
      BY <1>0, <2>1, <2>2, <3>1
    <3>2. CASE k # s
      BY <2>1, <2>2, <3>2 DEF SlotsInv
    <3> QED
      BY <3>1, <3>2
  <2>3. \A d \in Engine : pass'[d].at # "send"
    BY <1>1, <1>3
  <2> QED
    BY <1>2, <2>2, <2>3 DEF SlotsInv
<1> QED
  BY <1>5, <1>6, <1>7

LEMMA SendInv ==
  ASSUME RemindersInv, NEW e \in Engine, Send(e)
  PROVE  RemindersInv'
<1>1. pass[e].slot \in Slot /\ noticed \subseteq Slot /\ faults \in 0..MaxFaults /\ gaps \in BOOLEAN
  BY DEF RemindersInv, RemindersTypeOK
<1> QED
  BY <1>1, LeavesSend DEF Send

LEMMA FaultType ==
  ASSUME RemindersTypeOK, Fault PROVE faults' \in 0..MaxFaults /\ gaps' = TRUE
BY RemindersAssumption DEF RemindersTypeOK, Fault

LEMMA SendRefusedInv ==
  ASSUME RemindersInv, NEW e \in Engine, SendRefused(e)
  PROVE  RemindersInv'
<1>1. noticed \subseteq Slot /\ faults' \in 0..MaxFaults /\ gaps' \in BOOLEAN
  BY FaultType DEF RemindersInv, RemindersTypeOK, SendRefused
<1> QED
  BY <1>1, LeavesSend DEF SendRefused

LEMMA SendUncertainInv ==
  ASSUME RemindersInv, NEW e \in Engine, SendUncertain(e)
  PROVE  RemindersInv'
<1>1. pass[e].slot \in Slot /\ noticed \subseteq Slot
  BY DEF RemindersInv, RemindersTypeOK
<1>2. faults' \in 0..MaxFaults /\ gaps' \in BOOLEAN
  BY FaultType DEF RemindersInv, SendUncertain
<1> QED
  BY <1>1, <1>2, LeavesSend DEF SendUncertain

\* A pass ends, an engine dies or starts.
LEMMA RestsInv ==
  ASSUME RemindersInv, NEW e \in Engine, NEW r \in PassRecord, r.at \in {"idle", "down"},
         pass' = [pass EXCEPT ![e] = r],
         lock' = "none" \/ lock' = lock,
         \A d \in Engine : d # e => (pass[d].at \in {"idle", "down"} \/ lock' = lock),
         UNCHANGED <<now, ticket, human, slots, noticed, received>>,
         faults' \in 0..MaxFaults, {ran', gaps'} \subseteq BOOLEAN
  PROVE  RemindersInv'
<1> USE DEF RemindersInv
<1>2. /\ pass' \in [Engine -> PassRecord] /\ pass'[e] = r
      /\ \A d \in Engine \ {e} : pass'[d] = pass[d]
  BY DEF RemindersTypeOK, PassRecord, Place
<1>3. CurrentSlot' = CurrentSlot /\ \A k \in Slot : Boundary(k)' = Boundary(k)
  BY SlotsStand
<1>4. RemindersTypeOK'
  BY <1>2 DEF RemindersTypeOK, PassRecord, Place
<1>5. PassesInv'
  BY <1>2, <1>3 DEF PassesInv
<1>6. SlotsInv'
  BY <1>2, <1>3 DEF SlotsInv
<1> QED
  BY <1>4, <1>5, <1>6

LEMMA IdleType ==
  /\ Idle \in PassRecord /\ Idle.at = "idle"
  /\ [Idle EXCEPT !.at = "down"] \in PassRecord /\ [Idle EXCEPT !.at = "down"].at = "down"
<1>1. 0 \in Slot
  BY CalendarAssumption DEF Slot
<1>2. Idle \in PassRecord /\ Idle.at = "idle"
  BY <1>1 DEF Idle, PassRecord, Place
<1> DEFINE down == [Idle EXCEPT !.at = "down"]
<1>3. down \in PassRecord /\ down.at = "down"
  BY <1>2 DEF PassRecord, Place
<1> QED
  BY <1>2, <1>3

LEMMA EndPassInv ==
  ASSUME RemindersInv, NEW e \in Engine, EndPass(e)
  PROVE  RemindersInv'
<1>1. \A d \in Engine : d # e => pass[d].at \in {"idle", "down"}
  BY DEF RemindersInv, PassesInv, EndPass
<1>2. faults \in 0..MaxFaults /\ gaps \in BOOLEAN
  BY DEF RemindersInv, RemindersTypeOK
<1> QED
  BY <1>1, <1>2, IdleType, RestsInv DEF EndPass

LEMMA EngineDiesInv ==
  ASSUME RemindersInv, NEW e \in Engine, EngineDies(e)
  PROVE  RemindersInv'
<1>1. \A d \in Engine : d # e => pass[d].at \in {"idle", "down"}
  BY DEF RemindersInv, PassesInv, EngineDies
<1>2. faults' \in 0..MaxFaults /\ gaps' \in BOOLEAN /\ ran \in BOOLEAN
  BY FaultType DEF RemindersInv, RemindersTypeOK, EngineDies
<1> QED
  BY <1>1, <1>2, IdleType, RestsInv DEF EngineDies

LEMMA EngineStartsInv ==
  ASSUME RemindersInv, NEW e \in Engine, EngineStarts(e)
  PROVE  RemindersInv'
<1> DEFINE r == [pass[e] EXCEPT !.at = "idle"]
<1>1. pass[e] \in PassRecord
  BY DEF RemindersInv, RemindersTypeOK, PassRecord, Place
<1>2. r \in PassRecord /\ r.at = "idle"
  BY <1>1 DEF PassRecord, Place
<1>3. pass' = [pass EXCEPT ![e] = r]
  BY DEF EngineStarts, Goto
<1>4. faults \in 0..MaxFaults /\ {ran, gaps} \subseteq BOOLEAN
  BY DEF RemindersInv, RemindersTypeOK
<1> HIDE DEF r
<1> QED
  BY <1>2, <1>3, <1>4, RestsInv DEF EngineStarts

LEMMA ClockTicksInv ==
  ASSUME RemindersInv, ClockTicks
  PROVE  RemindersInv'
<1> USE DEF RemindersInv
<1>1. /\ now \in Nat /\ now' = now + 1 /\ now' \in Time /\ ticket' = ticket
      /\ ticket.created \in Nat
  BY TicketFacts, CalendarAssumption DEF ClockTicks, Time
<1>2. RemindersTypeOK'
  BY <1>1 DEF ClockTicks, RemindersTypeOK
<1>3. PassesInv'
  BY DEF ClockTicks, PassesInv
<1>4. \A s \in Slot : Boundary(s)' = Boundary(s) /\ Boundary(s) \in Nat
  BY <1>1, TicketFacts, CalendarAssumption DEF Boundary, Slot
<1>5. SlotsInv'
  BY <1>1, <1>4 DEF ClockTicks, SlotsInv
<1>6. (ticket.created =< now)'
  BY <1>1
<1> QED
  BY <1>2, <1>3, <1>5, <1>6

LEMMA HumanComesOrGoesInv ==
  ASSUME RemindersInv, HumanComesOrGoes
  PROVE  RemindersInv'
<1> USE DEF RemindersInv
<1>1. RemindersTypeOK'
  BY DEF HumanComesOrGoes, RemindersTypeOK
<1>2. CurrentSlot' = CurrentSlot /\ \A s \in Slot : Boundary(s)' = Boundary(s)
  BY SlotsStand DEF HumanComesOrGoes
<1> QED
  BY <1>1, <1>2 DEF HumanComesOrGoes, PassesInv, SlotsInv

LEMMA TicketDeliveredInv ==
  ASSUME RemindersInv, TicketDelivered
  PROVE  RemindersInv'
<1> USE DEF RemindersInv
<1>1. /\ RemindersTypeOK' /\ now' = now /\ ticket'.created = ticket.created
      /\ ticket'.interval = ticket.interval
  BY DEF TicketDelivered, RemindersTypeOK
<1>2. CurrentSlot' = CurrentSlot /\ \A s \in Slot : Boundary(s)' = Boundary(s)
  BY <1>1, SlotsStand
<1> QED
  BY <1>1, <1>2 DEF TicketDelivered, PassesInv, SlotsInv

LEMMA RemindersStepInv == RemindersInv /\ [RemindersNext]_reminderVars => RemindersInv'
<1> SUFFICES ASSUME RemindersInv, [RemindersNext]_reminderVars PROVE RemindersInv'
  OBVIOUS
<1>1. ASSUME NEW e \in Engine,
             \/ BeginPass(e) \/ ClaimSlot(e) \/ Send(e) \/ SendRefused(e)
             \/ SendUncertain(e) \/ EndPass(e) \/ EngineDies(e) \/ EngineStarts(e)
      PROVE  RemindersInv'
  BY <1>1, BeginPassInv, ClaimSlotInv, SendInv, SendRefusedInv, SendUncertainInv,
     EndPassInv, EngineDiesInv, EngineStartsInv
<1>2. CASE UNCHANGED reminderVars
  BY <1>2 DEF reminderVars, RemindersInv, RemindersTypeOK, PassesInv, SlotsInv, CurrentSlot,
              Boundary
<1> QED
  BY <1>1, <1>2, ClockTicksInv, HumanComesOrGoesInv, TicketDeliveredInv DEF RemindersNext

\* The reminders keep their types, a pass at work holds the lock and is about
\* the current slot, and what is claimed, told and due agree.
THEOREM RemindersInductive == RemindersSpec => []RemindersInv
BY RemindersInitInv, RemindersStepInv, PTL DEF RemindersSpec

\* "A retry, a second instance, or an evaluation that fires a little late all
\* claim the same row": for any engines, faults, intervals and tickets no slot
\* is told twice, and none before it has begun.
THEOREM OneReminder == RemindersSpec => []OnePerSlot
<1>1. RemindersInv => OnePerSlot
  BY DEF RemindersInv, RemindersTypeOK, SlotsInv, OnePerSlot
<1> QED
  BY <1>1, RemindersInductive, PTL

-----------------------------------------------------------------------------
(* No slot is missed.                                                      *)

LEMMA BeginPassPrompt ==
  ASSUME RemindersInv, PromptInv, NEW e \in Engine, BeginPass(e)
  PROVE  PromptInv'
<1> SUFFICES ASSUME ~gaps' PROVE SmoothInv' /\ ToldInv'
  BY DEF PromptInv
<1>1. SmoothInv /\ ToldInv /\ RemindersTypeOK /\ ticket.created =< now
  BY DEF PromptInv, BeginPass, RemindersInv
<1>2. CurrentSlot' = CurrentSlot /\ \A s \in Slot : Boundary(s)' = Boundary(s)
  BY SlotsStand DEF BeginPass
<1>3. /\ \A d \in Engine \ {e} : pass'[d] = pass[d]
      /\ pass[e].at = "idle" /\ pass'[e].at \in {"claim", "end"} /\ pass'[e].human = human
      /\ pass'[e].at = "end" =>
             ~(ticket.open /\ CurrentSlot >= 1 /\ IsSlotFresh(CurrentSlot))
  BY <1>1 DEF BeginPass, RemindersTypeOK
<1>4. SmoothInv'
  BY <1>1, <1>3 DEF SmoothInv, BeginPass
<1>5. ToldInv'
  <2>1. CurrentSlot \in Slot
    BY <1>1, TicketFacts
  <2>2. Boundary(CurrentSlot) = now => IsSlotFresh(CurrentSlot)
    BY <1>1, TicketFacts, RemindersAssumption DEF IsSlotFresh
  <2>3. pass'[e].at = "end" => ~(CurrentSlot >= 1 /\ Boundary(CurrentSlot) = now)
    BY <1>1, <1>3, <2>2 DEF SmoothInv
  <2>4. Boundary(CurrentSlot)' = Boundary(CurrentSlot)
    BY <1>2, SlotsStand DEF BeginPass, Boundary, CurrentSlot
  <2>5. /\ now' = now /\ ran' = ran /\ received' = received
    BY DEF BeginPass
  <2>6. ASSUME NEW d \in Engine, pass'[d].at = "end", CurrentSlot >= 1,
               Boundary(CurrentSlot) = now
        PROVE  received[CurrentSlot] = 1
    BY <1>1, <1>3, <2>3, <2>6 DEF ToldInv
  <2> QED
    BY <1>1, <1>2, <2>4, <2>5, <2>6 DEF ToldInv
<1> QED
  BY <1>4, <1>5

LEMMA ClaimSlotPrompt ==
  ASSUME RemindersInv, PromptInv, NEW e \in Engine, ClaimSlot(e)
  PROVE  PromptInv'
<1> SUFFICES ASSUME ~gaps' PROVE SmoothInv' /\ ToldInv'
  BY DEF PromptInv
<1>1. SmoothInv /\ ToldInv /\ RemindersTypeOK /\ ticket.created =< now /\ PassesInv
  BY DEF PromptInv, ClaimSlot, RemindersInv
<1>2. /\ CurrentSlot' = CurrentSlot /\ \A s \in Slot : Boundary(s)' = Boundary(s)
      /\ Boundary(CurrentSlot)' = Boundary(CurrentSlot)
  BY SlotsStand DEF ClaimSlot, Boundary, CurrentSlot
<1>3. /\ pass[e].at = "claim" /\ pass[e].slot = CurrentSlot /\ lock = e
      /\ pass[e].slot \in Slot
      /\ \A d \in Engine \ {e} : pass[d].at \in {"idle", "down"}
  BY <1>1 DEF ClaimSlot, PassesInv, RemindersTypeOK
<1>4. /\ \A d \in Engine \ {e} : pass'[d] = pass[d]
      /\ pass'[e].at \in {"end", "send"} /\ pass'[e].slot = pass[e].slot
      /\ pass'[e].human = pass[e].human
      /\ pass'[e].at = "end" => slots' = slots /\ pass[e].slot \in slots
      /\ pass'[e].at = "send" => slots' = slots \cup {pass[e].slot}
      /\ UNCHANGED <<now, ticket, human, noticed, received, ran>>
  BY <1>1 DEF ClaimSlot, Goto, RemindersTypeOK, SmoothInv
<1>5. \A s \in slots : received[s] = 1
  BY <1>1, <1>3 DEF SmoothInv
<1>6. SmoothInv'
  BY <1>1, <1>4, <1>5 DEF SmoothInv
<1>7. ToldInv'
  BY <1>1, <1>2, <1>3, <1>4, <1>5 DEF ToldInv
<1> QED
  BY <1>6, <1>7

LEMMA SendPrompt ==
  ASSUME RemindersInv, PromptInv, NEW e \in Engine, Send(e)
  PROVE  PromptInv'
<1> SUFFICES ASSUME ~gaps' PROVE SmoothInv' /\ ToldInv'
  BY DEF PromptInv
<1> DEFINE s == pass[e].slot
<1>1. SmoothInv /\ ToldInv /\ RemindersTypeOK /\ ticket.created =< now /\ PassesInv /\ SlotsInv
  BY DEF PromptInv, Send, RemindersInv
<1>2. /\ CurrentSlot' = CurrentSlot /\ \A k \in Slot : Boundary(k)' = Boundary(k)
      /\ Boundary(CurrentSlot)' = Boundary(CurrentSlot)
  BY SlotsStand DEF Send, Boundary, CurrentSlot
<1>3. /\ pass[e].at = "send" /\ s = CurrentSlot /\ s \in Slot /\ received[s] = 0
      /\ \A d \in Engine \ {e} : pass[d].at \in {"idle", "down"}
  BY <1>1 DEF Send, PassesInv, SlotsInv, RemindersTypeOK
<1>4. /\ \A d \in Engine \ {e} : pass'[d] = pass[d]
      /\ pass'[e].at = "end" /\ pass'[e].human = pass[e].human
      /\ UNCHANGED <<now, ticket, human, slots, ran>>
  BY <1>1 DEF Send, Goto, RemindersTypeOK
<1>5. /\ s \notin noticed /\ noticed' \subseteq noticed \cup {s}
      /\ received'[s] = 1 /\ \A k \in Slot \ {s} : received'[k] = received[k]
  <2>1. s \notin noticed
    BY <1>1, <1>3 DEF SmoothInv
  <2>2. received' = [received EXCEPT ![s] = @ + 1] /\ noticed' \subseteq noticed \cup {s}
    BY <2>1 DEF Send
  <2>3. received \in [Slot -> 0..Cardinality(Slot)]
    BY <1>1 DEF RemindersTypeOK
  <2> HIDE DEF s
  <2> QED
    BY <1>3, <2>1, <2>2, <2>3
<1>6. slots \subseteq Slot /\ noticed \subseteq Slot
  BY <1>1 DEF RemindersTypeOK
<1>7. SmoothInv'
  BY <1>1, <1>3, <1>4, <1>5, <1>6 DEF SmoothInv
<1>8. ToldInv'
  BY <1>1, <1>2, <1>3, <1>4, <1>5 DEF ToldInv
<1> QED
  BY <1>7, <1>8

LEMMA EndPassPrompt ==
  ASSUME RemindersInv, PromptInv, NEW e \in Engine, EndPass(e)
  PROVE  PromptInv'
<1> SUFFICES ASSUME ~gaps' PROVE SmoothInv' /\ ToldInv'
  BY DEF PromptInv
<1>1. SmoothInv /\ ToldInv /\ RemindersTypeOK /\ ticket.created =< now
  BY DEF PromptInv, EndPass, RemindersInv
<1>2. /\ CurrentSlot' = CurrentSlot /\ \A k \in Slot : Boundary(k)' = Boundary(k)
      /\ Boundary(CurrentSlot)' = Boundary(CurrentSlot)
  BY SlotsStand DEF EndPass, Boundary, CurrentSlot
<1>3. /\ pass[e].at = "end" /\ \A d \in Engine \ {e} : pass'[d] = pass[d]
      /\ pass'[e] = Idle /\ UNCHANGED <<now, ticket, human, slots, noticed, received>>
      /\ ran'
  BY <1>1 DEF EndPass, RemindersTypeOK
<1>4. Idle.at = "idle" /\ ~Idle.human
  BY DEF Idle
<1>5. SmoothInv'
  BY <1>1, <1>3, <1>4 DEF SmoothInv
<1>6. ASSUME NEW s \in Slot \ {0}, Boundary(s) = now
      PROVE  received[s] = 1
  <2>1. CurrentSlot = s
    BY <1>1, <1>6, TicketFacts, Exact, CalendarAssumption DEF CurrentSlot, Boundary, Slot
  <2>2. s >= 1
    BY CalendarAssumption DEF Slot
  <2> QED
    BY <1>1, <1>3, <1>6, <2>1, <2>2 DEF ToldInv
<1>7. ToldInv'
  BY <1>1, <1>2, <1>3, <1>4, <1>6 DEF ToldInv
<1> QED
  BY <1>5, <1>7

LEMMA ClockTicksPrompt ==
  ASSUME RemindersInv, PromptInv, ClockTicks
  PROVE  PromptInv'
<1> SUFFICES ASSUME ~gaps' PROVE SmoothInv' /\ ToldInv'
  BY DEF PromptInv
<1>1. SmoothInv /\ ToldInv /\ RemindersTypeOK /\ ticket.created =< now /\ ran
  BY DEF PromptInv, ClockTicks, RemindersInv
<1>2. \A k \in Slot : Boundary(k)' = Boundary(k) /\ Boundary(k) \in Nat
  BY <1>1, TicketFacts, CalendarAssumption DEF ClockTicks, Boundary, Slot
<1>3. now' = now + 1 /\ now \in Nat
  BY <1>1, TicketFacts DEF ClockTicks
<1>4. SmoothInv'
  BY <1>1 DEF SmoothInv, ClockTicks
<1>5. ToldInv'
  BY <1>1, <1>2, <1>3 DEF ToldInv, ClockTicks
<1> QED
  BY <1>4, <1>5

LEMMA PromptStep ==
  RemindersInv /\ PromptInv /\ [RemindersNext]_reminderVars => PromptInv'
<1> SUFFICES ASSUME RemindersInv, PromptInv, [RemindersNext]_reminderVars PROVE PromptInv'
  OBVIOUS
<1>1. ASSUME NEW e \in Engine, BeginPass(e) \/ ClaimSlot(e) \/ Send(e) \/ EndPass(e)
      PROVE  PromptInv'
  BY <1>1, BeginPassPrompt, ClaimSlotPrompt, SendPrompt, EndPassPrompt
<1>2. ASSUME NEW e \in Engine, SendRefused(e) \/ SendUncertain(e) \/ EngineDies(e)
      PROVE  PromptInv'
  BY <1>2 DEF SendRefused, SendUncertain, EngineDies, Fault, PromptInv
<1>3. ASSUME NEW e \in Engine, EngineStarts(e)
      PROVE  PromptInv'
  BY <1>3 DEF EngineStarts, PromptInv, SmoothInv
<1>4. CASE ClockTicks
  BY <1>4, ClockTicksPrompt
<1>5. CASE HumanComesOrGoes \/ TicketDelivered
  BY <1>5 DEF HumanComesOrGoes, TicketDelivered, PromptInv
<1>6. CASE UNCHANGED reminderVars
  BY <1>6 DEF reminderVars, PromptInv, SmoothInv, ToldInv, CurrentSlot, Boundary
<1> QED
  BY <1>1, <1>2, <1>3, <1>4, <1>5, <1>6 DEF RemindersNext

\* "A slot is never missed": for any interval, length of the day and grace,
\* when a pass ends in every unit of time, nothing fails and no human steps
\* in, every slot is told while it is fresh.
THEOREM SlotsKept == RemindersSpec => []NoSlotMissed
<1>1. ASSUME RemindersInv, PromptInv
      PROVE  NoSlotMissed
  <2> SUFFICES ASSUME ~gaps, NEW s \in 1..CurrentSlot, Boundary(s) + Grace < now
               PROVE  received[s] = 1
    BY DEF NoSlotMissed
  <2>1. CurrentSlot \in 0..Horizon /\ now \in Nat /\ \A k \in Nat : Boundary(k) \in Nat
    BY <1>1, TicketFacts DEF RemindersInv, Slot
  <2>2. s \in Slot \ {0} /\ Boundary(s) \in Nat
    BY <2>1, CalendarAssumption DEF Slot
  <2>3. Boundary(s) < now
    BY <2>1, <2>2, RemindersAssumption
  <2> QED
    BY <1>1, <2>2, <2>3 DEF PromptInv, ToldInv
<1>2. RemindersSpec => []PromptInv
  BY RemindersInitInv, PromptStep, RemindersInductive, PTL DEF RemindersSpec
<1> QED
  BY <1>1, <1>2, RemindersInductive, PTL

-----------------------------------------------------------------------------
(* The follow-ups.                                                         *)

\* What was received has its row and was received once.
ToldOnce == \A k \in FollowUp : told[k] # 0 => told[k] = 1 /\ k \in notices

\* A pass acts within the unit of time it loaded its row in, on a wait that
\* was; it nudges only short of CloseDays and closes only after, and never
\* over a human it saw.
RoundInv ==
    /\ round.at \in {"decide", "nudge", "hop", "tell"} => round.wait.n \in 1..MaxWaits
    /\ round.at \in {"decide", "nudge", "hop"} =>
           round.now = clock /\ (~stirred => owner = round.owner)
    /\ round.at = "nudge" => ~Waited(round.wait, CloseDays, clock)
    /\ round.at = "hop" => Waited(round.wait, CloseDays, clock) /\ ~round.owner

FollowUpsInv ==
    FollowUpsTypeOK /\ wait.since =< clock /\ ToldOnce /\ RoundInv /\ ClosesOnlySilence

\* As long as every unit of time had its pass and nothing was upset: a wait
\* that has begun since the row was read began just now, a claimed close is
\* over or under way, and a pass that is over leaves no wait that is due.
RowInv ==
    round.at \in {"decide", "nudge", "hop"} =>
        /\ ~round.owner
        /\ \/ wait = round.wait /\ status = round.status
           \/ wait.since = clock /\ round.wait.n < wait.n

ClaimsInv ==
    \A n \in 1..MaxWaits : <<"autoclose", n>> \in claimed =>
        \/ n < wait.n
        \/ n = wait.n /\ (status \notin Awaiting \/ (round.at = "hop" /\ round.wait = wait))

DueInv ==
    status \in Awaiting =>
        /\ AddBusinessDays(wait.since, CloseDays) >= clock
        /\ round.at \in {"tell", "done"} => AddBusinessDays(wait.since, CloseDays) > clock

CalmInv == calm => ~owner /\ RowInv /\ ClaimsInv /\ DueInv

Where == {"idle", "decide", "nudge", "hop", "tell", "done"}
WaitRecord == [n: 1..MaxWaits, since: Time]
RoundRecord == [at: Where, status: Awaiting, wait: {NoWait} \cup WaitRecord,
                owner: BOOLEAN, now: Time]

LEMMA TypeOfRound == FollowUpsTypeOK =>
  /\ round \in RoundRecord /\ wait \in WaitRecord /\ clock \in Time
  /\ clock \in Nat /\ wait.since \in Nat /\ wait.n \in Nat /\ wait.n \in 1..MaxWaits
BY CalendarAssumption, FollowUpsAssumption
   DEF FollowUpsTypeOK, RoundRecord, WaitRecord, Where, Time

LEMMA RoundTyped ==
  ASSUME round' \in RoundRecord
  PROVE  round' \in [at: {"idle", "decide", "nudge", "hop", "tell", "done"}, status: Awaiting,
                     wait: {NoWait} \cup [n: 1..MaxWaits, since: Time],
                     owner: BOOLEAN, now: Time]
BY DEF RoundRecord, WaitRecord, Where

LEMMA RoundGoes ==
  ASSUME round \in RoundRecord, NEW w \in Where, NextStep(w)
  PROVE  /\ round' \in RoundRecord /\ round'.at = w
         /\ round'.status = round.status /\ round'.wait = round.wait
         /\ round'.owner = round.owner /\ round'.now = round.now
BY DEF RoundRecord, NextStep

LEMMA NoRounds ==
  /\ NoRound \in RoundRecord /\ NoRound.at = "idle"
  /\ [NoRound EXCEPT !.at = "done"] \in RoundRecord
  /\ [NoRound EXCEPT !.at = "done"].at = "done"
<1>1. NoRound \in RoundRecord /\ NoRound.at = "idle"
  BY CalendarAssumption DEF NoRound, RoundRecord, Where, Awaiting, Time
<1> DEFINE done == [NoRound EXCEPT !.at = "done"]
<1>2. done \in RoundRecord /\ done.at = "done"
  BY <1>1 DEF RoundRecord, Where
<1> QED
  BY <1>1, <1>2

LEMMA UpsetType ==
  ASSUME FollowUpsTypeOK, Upset PROVE upsets' \in 0..MaxUpsets /\ calm' = FALSE
BY FollowUpsAssumption DEF FollowUpsTypeOK, Upset

LEMMA NextWaitType ==
  ASSUME FollowUpsTypeOK, wait.n < MaxWaits
  PROVE  NextWait \in WaitRecord /\ NextWait.n = wait.n + 1 /\ NextWait.since = clock
BY TypeOfRound, FollowUpsAssumption DEF NextWait, WaitRecord

LEMMA FollowUpsInitInv == FollowUpsInit => FollowUpsInv /\ CalmInv
<1> SUFFICES ASSUME FollowUpsInit PROVE FollowUpsInv /\ CalmInv
  OBVIOUS
<1> USE DEF FollowUpsInit
<1>1. clock \in Time /\ clock \in Nat
  BY FollowUpsAssumption, CalendarAssumption DEF Time
<1>2. wait \in WaitRecord /\ wait.since = clock /\ wait.n = 1
  BY <1>1, FollowUpsAssumption DEF WaitRecord
<1>3. round \in RoundRecord /\ round.at = "idle"
  BY NoRounds
<1>4. FollowUpsTypeOK
  <2>1. closing \in [due: BOOLEAN, owned: BOOLEAN, stirred: BOOLEAN]
    BY DEF NoClosing
  <2>2. status \in Status /\ upsets \in 0..MaxUpsets /\ told \in [FollowUp -> Nat]
    BY FollowUpsAssumption DEF Status
  <2> HIDE DEF FollowUpsInit
  <2>3. {owner, stirred, calm} \subseteq BOOLEAN /\ claimed = {} /\ notices = {}
    BY DEF FollowUpsInit
  <2>4. /\ wait \in [n: 1..MaxWaits, since: Time]
        /\ round \in [at: {"idle", "decide", "nudge", "hop", "tell", "done"}, status: Awaiting,
                      wait: {NoWait} \cup [n: 1..MaxWaits, since: Time],
                      owner: BOOLEAN, now: Time]
    BY <1>2, <1>3 DEF RoundRecord, WaitRecord, Where
  <2> QED
    BY <1>1, <2>1, <2>2, <2>3, <2>4 DEF FollowUpsTypeOK
<1>5. FollowUpsInv
  BY <1>1, <1>2, <1>3, <1>4 DEF FollowUpsInv, ToldOnce, RoundInv, ClosesOnlySilence, NoClosing
<1>6. AddBusinessDays(wait.since, CloseDays) > clock
  BY <1>1, <1>2, AddedLater, FollowUpsAssumption
<1>7. AddBusinessDays(wait.since, CloseDays) \in Nat
  BY <1>1, <1>2, AddedType, FollowUpsAssumption
<1>8. RowInv /\ ClaimsInv /\ ~owner
  BY <1>3 DEF RowInv, ClaimsInv
<1>9. DueInv
  BY <1>1, <1>6, <1>7 DEF DueInv
<1>10. CalmInv
  BY <1>8, <1>9 DEF CalmInv
<1> QED
  BY <1>5, <1>10

LEMMA LoadAwaitingInv == FollowUpsInv /\ LoadAwaiting => FollowUpsInv'
<1> SUFFICES ASSUME FollowUpsInv, LoadAwaiting PROVE FollowUpsInv'
  OBVIOUS
<1> USE DEF FollowUpsInv
<1>0. UNCHANGED <<clock, status, wait, owner, claimed, notices, told, closing, upsets, calm>>
  BY DEF LoadAwaiting
<1>1. /\ round' \in RoundRecord /\ round'.at \in {"decide", "done"}
      /\ round'.at = "decide" => /\ round'.wait = wait /\ round'.now = clock
                                 /\ round'.owner = owner
  <2>1. CASE status \in Awaiting
    <3>1. round' = [at |-> "decide", status |-> status, wait |-> wait,
                    owner |-> owner, now |-> clock]
      BY <2>1 DEF LoadAwaiting
    <3> QED
      BY <2>1, <3>1, TypeOfRound DEF FollowUpsTypeOK, RoundRecord, Where
  <2>2. CASE status \notin Awaiting
    BY <2>2, NoRounds DEF LoadAwaiting
  <2> QED
    BY <2>1, <2>2
<1>2. FollowUpsTypeOK'
  BY <1>0, <1>1, RoundTyped DEF FollowUpsTypeOK, LoadAwaiting
<1>3. RoundInv'
  BY <1>0, <1>1, TypeOfRound DEF RoundInv
<1> QED
  BY <1>0, <1>2, <1>3 DEF ToldOnce, ClosesOnlySilence

LEMMA DecideInv == FollowUpsInv /\ Decide => FollowUpsInv'
<1> SUFFICES ASSUME FollowUpsInv, Decide PROVE FollowUpsInv'
  OBVIOUS
<1> USE DEF FollowUpsInv
<1>0. /\ UNCHANGED <<clock, status, wait, owner, notices, told, closing, stirred, upsets, calm>>
      /\ round.at = "decide" /\ round.now = clock /\ round.wait.n \in 1..MaxWaits
  BY DEF Decide, RoundInv
<1>1. \E w \in {"done", "nudge", "hop"} :
        /\ NextStep(w)
        /\ w = "nudge" => ~Waited(round.wait, CloseDays, clock)
        /\ w = "hop" => Waited(round.wait, CloseDays, clock) /\ ~round.owner
  BY <1>0 DEF Decide
<1>2. PICK w \in {"done", "nudge", "hop"} :
        /\ NextStep(w)
        /\ w = "nudge" => ~Waited(round.wait, CloseDays, clock)
        /\ w = "hop" => Waited(round.wait, CloseDays, clock) /\ ~round.owner
  BY <1>1
<1>3. /\ round' \in RoundRecord /\ round'.at = w
      /\ round'.wait = round.wait /\ round'.owner = round.owner /\ round'.now = round.now
  BY <1>2, TypeOfRound, RoundGoes DEF Where
<1>4. claimed' \subseteq {"nudge", "autoclose"} \X (1..MaxWaits)
  BY <1>0 DEF Decide, FollowUpsTypeOK
<1>5. FollowUpsTypeOK'
  BY <1>0, <1>3, <1>4, RoundTyped DEF FollowUpsTypeOK
<1>6. RoundInv'
  BY <1>0, <1>2, <1>3 DEF RoundInv
<1> QED
  BY <1>0, <1>5, <1>6 DEF ToldOnce, ClosesOnlySilence

\* A pass that goes to "done" leaves nothing to promise.
LEMMA DoneInv ==
  ASSUME FollowUpsInv, NextStep("done"),
         UNCHANGED <<clock, status, wait, owner, notices, told, closing, stirred>>,
         claimed' \subseteq claimed, upsets' \in 0..MaxUpsets, calm' \in BOOLEAN
  PROVE  FollowUpsInv'
<1> USE DEF FollowUpsInv
<1>1. round' \in RoundRecord /\ round'.at = "done"
  BY TypeOfRound, RoundGoes DEF Where
<1>2. FollowUpsTypeOK'
  BY <1>1, RoundTyped DEF FollowUpsTypeOK
<1> QED
  BY <1>1, <1>2 DEF RoundInv, ToldOnce, ClosesOnlySilence

LEMMA NudgeThrowsInv == FollowUpsInv /\ NudgeThrows => FollowUpsInv'
BY UpsetType, DoneInv DEF FollowUpsInv, NudgeThrows

LEMMA HopThrowsInv == FollowUpsInv /\ HopThrows => FollowUpsInv'
BY UpsetType, DoneInv DEF FollowUpsInv, HopThrows

LEMMA SendNoticeInv ==
  ASSUME FollowUpsInv, NEW key \in FollowUp, SendNotice(key),
         UNCHANGED <<clock, status, wait, owner, claimed, closing, stirred, upsets, calm>>
  PROVE  FollowUpsInv'
<1> USE DEF FollowUpsInv
<1>1. round' \in RoundRecord /\ round'.at = "done"
  BY TypeOfRound, RoundGoes DEF Where, SendNotice
<1>2. /\ notices' = notices \cup {key}
      /\ told' = told \/ (key \notin notices /\ told' = [told EXCEPT ![key] = @ + 1])
      /\ told \in [FollowUp -> Nat] /\ notices \subseteq FollowUp
  BY DEF SendNotice, FollowUpsTypeOK
<1>3. told' \in [FollowUp -> Nat] /\ ToldOnce'
  <2>1. CASE told' = told
    BY <1>2, <2>1 DEF ToldOnce
  <2>2. CASE key \notin notices /\ told' = [told EXCEPT ![key] = @ + 1]
    <3>1. told[key] = 0
      BY <2>2 DEF ToldOnce
    <3> QED
      BY <1>2, <2>2, <3>1 DEF ToldOnce
  <2> QED
    BY <1>2, <2>1, <2>2
<1>4. FollowUpsTypeOK'
  BY <1>1, <1>2, <1>3, RoundTyped DEF FollowUpsTypeOK
<1> QED
  BY <1>1, <1>3, <1>4 DEF RoundInv, ClosesOnlySilence

LEMMA SendNudgeInv == FollowUpsInv /\ SendNudge => FollowUpsInv'
<1> SUFFICES ASSUME FollowUpsInv, SendNudge PROVE FollowUpsInv'
  OBVIOUS
<1>1. <<"resolution_nudge", round.wait.n>> \in FollowUp
  BY DEF FollowUpsInv, RoundInv, SendNudge, FollowUp
<1> QED
  BY <1>1, SendNoticeInv DEF SendNudge

LEMMA TellClosedInv == FollowUpsInv /\ TellClosed => FollowUpsInv'
<1> SUFFICES ASSUME FollowUpsInv, TellClosed PROVE FollowUpsInv'
  OBVIOUS
<1>1. <<"auto_closed", round.wait.n>> \in FollowUp
  BY DEF FollowUpsInv, RoundInv, TellClosed, FollowUp
<1> QED
  BY <1>1, SendNoticeInv DEF TellClosed

LEMMA HopInv == FollowUpsInv /\ Hop => FollowUpsInv'
<1> SUFFICES ASSUME FollowUpsInv, Hop PROVE FollowUpsInv'
  OBVIOUS
<1> DEFINE to == IF round.status = "RESOLVED" THEN "CUSTOMER_CONFIRMED" ELSE "CLOSED"
<1>0. /\ UNCHANGED <<clock, owner, claimed, notices, told, stirred, upsets, calm>>
      /\ round.at = "hop" /\ round \in RoundRecord /\ FollowUpsTypeOK
  BY TypeOfRound DEF Hop, FollowUpsInv
<1>1. CASE ~CanTransition(status, to, "system")
  <2>1. NextStep("done") /\ UNCHANGED <<status, wait, closing>>
    BY <1>1 DEF Hop
  <2> QED
    BY <1>0, <2>1, DoneInv DEF FollowUpsTypeOK
<1>2. CASE CanTransition(status, to, "system")
  <2> DEFINE next == [round EXCEPT !.at = IF to = "CLOSED" THEN "tell" ELSE "hop",
                                   !.status = "CUSTOMER_CONFIRMED",
                                   !.wait = IF to = "CLOSED" THEN NextWait ELSE @]
  <2>1. status' = to /\ wait.n < MaxWaits /\ wait' = NextWait /\ round' = next
    BY <1>2 DEF Hop
  <2>2. closing' = IF to # "CLOSED" THEN closing
                   ELSE [due |-> Waited(round.wait, CloseDays, clock),
                         owned |-> owner, stirred |-> stirred]
    BY <1>2 DEF Hop
  <2>3. to \in {"CUSTOMER_CONFIRMED", "CLOSED"}
    OBVIOUS
  <2> HIDE DEF to
  <2>4. NextWait \in WaitRecord /\ NextWait.since = clock
    BY <1>0, <2>1, NextWaitType
  <2>5. /\ next \in RoundRecord /\ next.owner = round.owner /\ next.now = round.now
        /\ next.at = IF to = "CLOSED" THEN "tell" ELSE "hop"
        /\ next.wait = IF to = "CLOSED" THEN NextWait ELSE round.wait
    BY <1>0, <2>4 DEF RoundRecord, Where, Awaiting
  <2> HIDE DEF next
  <2>6. /\ round.now = clock /\ (~stirred => owner = round.owner) /\ ~round.owner
        /\ Waited(round.wait, CloseDays, clock) /\ round.wait.n \in 1..MaxWaits
    BY <1>0 DEF FollowUpsInv, RoundInv
  <2>7. closing' \in [due: BOOLEAN, owned: BOOLEAN, stirred: BOOLEAN] /\ ClosesOnlySilence'
    <3>1. CASE to # "CLOSED"
      BY <2>2, <3>1 DEF FollowUpsInv, FollowUpsTypeOK, ClosesOnlySilence
    <3>2. CASE to = "CLOSED"
      <4>1. closing' = [due |-> TRUE, owned |-> owner, stirred |-> stirred]
        <5>1. Waited(round.wait, CloseDays, clock) = TRUE
          BY <2>6 DEF Waited
        <5> QED
          BY <2>2, <3>2, <5>1
      <4> QED
        BY <1>0, <2>6, <4>1 DEF FollowUpsTypeOK, ClosesOnlySilence
    <3> QED
      BY <3>1, <3>2
  <2>8. FollowUpsTypeOK'
    <3>1. round' \in RoundRecord /\ wait' \in WaitRecord /\ status' \in Status
      BY <2>1, <2>3, <2>4, <2>5 DEF Status
    <3> QED
      BY <1>0, <2>7, <3>1, RoundTyped DEF FollowUpsTypeOK, WaitRecord
  <2>9. RoundInv'
    BY <1>0, <2>1, <2>4, <2>5, <2>6 DEF RoundInv, WaitRecord
  <2>10. (wait.since =< clock)' /\ ToldOnce'
    <3>1. wait'.since = clock' /\ clock' \in Nat
      BY <1>0, <2>1, <2>4, TypeOfRound
    <3> QED
      BY <1>0, <3>1 DEF FollowUpsInv, ToldOnce
  <2> QED
    BY <2>7, <2>8, <2>9, <2>10 DEF FollowUpsInv
<1> QED
  BY <1>1, <1>2

LEMMA PassDiesInv == FollowUpsInv /\ PassDies => FollowUpsInv'
<1> SUFFICES ASSUME FollowUpsInv, PassDies PROVE FollowUpsInv'
  OBVIOUS
<1> USE DEF FollowUpsInv
<1>1. round' \in RoundRecord /\ round'.at = "idle"
  BY NoRounds DEF PassDies
<1>2. FollowUpsTypeOK'
  BY <1>1, UpsetType, RoundTyped DEF FollowUpsTypeOK, PassDies
<1> QED
  BY <1>1, <1>2 DEF PassDies, RoundInv, ToldOnce, ClosesOnlySilence

LEMMA HourPassesInv == FollowUpsInv /\ HourPasses => FollowUpsInv'
<1> SUFFICES ASSUME FollowUpsInv, HourPasses PROVE FollowUpsInv'
  OBVIOUS
<1> USE DEF FollowUpsInv
<1>1. round' \in RoundRecord /\ round'.at = "idle"
  BY NoRounds DEF HourPasses
<1>2. clock' = clock + 1 /\ clock \in Nat /\ wait' = wait /\ wait.since \in Nat /\ clock' \in Time
  BY TypeOfRound, CalendarAssumption DEF HourPasses, Time
<1>3. FollowUpsTypeOK'
  BY <1>1, <1>2, RoundTyped DEF FollowUpsTypeOK, HourPasses
<1> QED
  BY <1>1, <1>2, <1>3 DEF HourPasses, RoundInv, ToldOnce, ClosesOnlySilence

\* Somebody else moves the ticket: a new wait.
LEMMA MovedInv ==
  ASSUME FollowUpsInv, wait.n < MaxWaits, status' \in Status, wait' = NextWait, stirred' = TRUE,
         UNCHANGED <<clock, owner, round, claimed, notices, told, closing, upsets, calm>>
  PROVE  FollowUpsInv'
<1> USE DEF FollowUpsInv
<1>1. wait' \in WaitRecord /\ wait'.since = clock
  BY NextWaitType
<1>2. FollowUpsTypeOK'
  BY <1>1 DEF FollowUpsTypeOK, WaitRecord
<1>3. (wait.since =< clock)'
  BY <1>1, TypeOfRound
<1> QED
  BY <1>2, <1>3 DEF RoundInv, ToldOnce, ClosesOnlySilence

LEMMA OthersMoveInv ==
  ASSUME FollowUpsInv, CustomerAnswers \/ PlaneDelivers \/ ConsoleCloses
  PROVE  FollowUpsInv'
<1>1. ASSUME NEW actor, NEW to \in Status, Moves(actor, to)
      PROVE  FollowUpsInv'
  BY <1>1, MovedInv DEF Moves
<1>2. {"CUSTOMER_CONFIRMED", "REOPENED", "RESOLVED", "CLOSED"} \subseteq Status
  BY DEF Status
<1>3. CASE ConsoleCloses
  BY <1>2, <1>3, MovedInv DEF ConsoleCloses
<1> QED
  BY <1>1, <1>2, <1>3 DEF CustomerAnswers, PlaneDelivers

LEMMA TakenOverInv == FollowUpsInv /\ TakenOver => FollowUpsInv'
BY DEF FollowUpsInv, TakenOver, FollowUpsTypeOK, RoundInv, ToldOnce, ClosesOnlySilence

LEMMA ConsoleResetsInv == FollowUpsInv /\ ConsoleResets => FollowUpsInv'
<1> SUFFICES ASSUME FollowUpsInv, ConsoleResets PROVE FollowUpsInv'
  OBVIOUS
<1> USE DEF FollowUpsInv
<1>1. upsets' \in 0..MaxUpsets /\ calm' = FALSE
  BY UpsetType DEF ConsoleResets
<1>2. FollowUpsTypeOK'
  BY <1>1 DEF ConsoleResets, FollowUpsTypeOK
<1> QED
  BY <1>2 DEF ConsoleResets, RoundInv, ToldOnce, ClosesOnlySilence

LEMMA FollowUpsStepInv == FollowUpsInv /\ [FollowUpsNext]_followUpVars => FollowUpsInv'
<1>1. FollowUpsInv /\ UNCHANGED followUpVars => FollowUpsInv'
  BY DEF followUpVars, FollowUpsInv, FollowUpsTypeOK, RoundInv, ToldOnce, ClosesOnlySilence
<1> QED
  BY <1>1, LoadAwaitingInv, DecideInv, SendNudgeInv, NudgeThrowsInv, HopInv, HopThrowsInv,
     TellClosedInv, PassDiesInv, HourPassesInv, OthersMoveInv, TakenOverInv, ConsoleResetsInv
     DEF FollowUpsNext

\* The follow-ups keep their types; a pass acts in the unit of time it read
\* its row in, and what was received has its row.
THEOREM FollowUpsInductive == FollowUpsSpec => []FollowUpsInv
BY FollowUpsInitInv, FollowUpsStepInv, PTL DEF FollowUpsSpec

\* "One LINE nudge": for any number of waits, days and upsets, a wait is nudged
\* once at most and a close is told once, also when the slot was released, the
\* pass died or the console deleted the ticket's claims.
THEOREM OneNudge == FollowUpsSpec => []OneNudgePerWait
<1>1. FollowUpsInv => OneNudgePerWait
  BY DEF FollowUpsInv, FollowUpsTypeOK, ToldOnce, OneNudgePerWait
<1> QED
  BY <1>1, FollowUpsInductive, PTL

\* A ticket nobody touched since the pass read it is closed only after
\* CloseDays business days of waiting, and never over a human.
THEOREM SilenceOnly == FollowUpsSpec => []ClosesOnlySilence
<1>1. FollowUpsInv => ClosesOnlySilence
  BY DEF FollowUpsInv
<1> QED
  BY <1>1, FollowUpsInductive, PTL

-----------------------------------------------------------------------------
(* The promise of the nudge.                                               *)

LEMMA WaitIsLong ==
  ASSUME NEW since \in Nat
  PROVE  AddBusinessDays(since, CloseDays) \in Nat /\ AddBusinessDays(since, CloseDays) > since
BY AddedType, AddedLater, FollowUpsAssumption

\* A wait that began in this unit of time is not due.
LEMMA JustBegun ==
  ASSUME clock \in Nat, wait.since = clock
  PROVE  DueInv
BY WaitIsLong DEF DueInv

LEMMA LoadAwaitingCalm == FollowUpsInv /\ CalmInv /\ LoadAwaiting => CalmInv'
<1> SUFFICES ASSUME FollowUpsInv, CalmInv, LoadAwaiting, calm PROVE CalmInv'
  BY DEF CalmInv, LoadAwaiting
<1>0. /\ UNCHANGED <<clock, status, wait, owner, claimed, calm>> /\ round.at = "idle"
      /\ ~owner /\ RowInv /\ ClaimsInv /\ DueInv
  BY DEF LoadAwaiting, CalmInv
<1>1. CASE status \in Awaiting
  <2>1. round' = [at |-> "decide", status |-> status, wait |-> wait,
                  owner |-> owner, now |-> clock]
    BY <1>1 DEF LoadAwaiting
  <2> QED
    BY <1>0, <2>1 DEF CalmInv, RowInv, ClaimsInv, DueInv
<1>2. CASE status \notin Awaiting
  <2>1. round'.at = "done"
    BY <1>2, NoRounds DEF LoadAwaiting
  <2> QED
    BY <1>0, <1>2, <2>1 DEF CalmInv, RowInv, ClaimsInv, DueInv
<1> QED
  BY <1>1, <1>2

LEMMA DecideCalm == FollowUpsInv /\ CalmInv /\ Decide => CalmInv'
<1> SUFFICES ASSUME FollowUpsInv, CalmInv, Decide, calm PROVE CalmInv'
  BY DEF CalmInv, Decide
<1> DEFINE deed == IF Waited(round.wait, CloseDays, round.now) THEN "autoclose" ELSE "nudge"
           key == <<deed, round.wait.n>>
           due == /\ Waited(round.wait, NudgeDays, round.now) \/ deed = "autoclose"
                  /\ ~round.owner /\ key \notin claimed
           w == CASE ~due -> "done" [] deed = "nudge" -> "nudge" [] OTHER -> "hop"
<1>0. /\ UNCHANGED <<clock, status, wait, owner, calm>> /\ round.at = "decide"
      /\ ~owner /\ RowInv /\ ClaimsInv /\ DueInv /\ ~round.owner /\ round.now = clock
      /\ round.wait.n \in 1..MaxWaits /\ round \in RoundRecord
      /\ clock \in Nat /\ wait.since \in Nat /\ wait.n \in 1..MaxWaits
      /\ round.status \in Awaiting
  BY TypeOfRound DEF Decide, CalmInv, RowInv, FollowUpsInv, RoundInv, RoundRecord
<1>1. NextStep(w) /\ claimed' = IF due THEN claimed \cup {key} ELSE claimed
  BY DEF Decide
<1>2. /\ deed = "autoclose" <=> Waited(round.wait, CloseDays, clock)
      /\ deed \in {"autoclose", "nudge"}
  BY <1>0
<1>3. /\ w = "hop" <=> due /\ deed = "autoclose"
      /\ w \in {"done", "nudge", "hop"}
  BY <1>2
<1>4. /\ round'.at = w /\ round'.status = round.status /\ round'.wait = round.wait
      /\ round'.owner = round.owner
  <2> HIDE DEF w
  <2> QED
    BY <1>0, <1>1, <1>3, RoundGoes DEF Where
<1>5. RowInv'
  BY <1>0, <1>4 DEF RowInv
<1>6. ClaimsInv'
  <2> SUFFICES ASSUME NEW n \in 1..MaxWaits, <<"autoclose", n>> \in claimed'
               PROVE  \/ n < wait.n
                      \/ /\ n = wait.n
                         /\ status \notin Awaiting \/ (round'.at = "hop" /\ round'.wait = wait)
    BY <1>0 DEF ClaimsInv
  <2>1. CASE <<"autoclose", n>> \in claimed
    BY <1>0, <2>1 DEF ClaimsInv
  <2>2. CASE <<"autoclose", n>> \notin claimed
    <3>1. due /\ key = <<"autoclose", n>>
      <4> HIDE DEF due, key
      <4> QED
        BY <1>1, <2>2
    <3>2. deed = "autoclose" /\ n = round.wait.n
      <4> HIDE DEF deed
      <4> QED
        BY <3>1
    <3>3. round'.at = "hop"
      BY <1>3, <1>4, <3>1, <3>2
    <3> QED
      BY <1>0, <1>4, <3>2, <3>3 DEF RowInv
  <2> QED
    BY <2>1, <2>2
<1>7. DueInv'
  <2> SUFFICES ASSUME status \in Awaiting, w = "done"
               PROVE  AddBusinessDays(wait.since, CloseDays) > clock
    <3> HIDE DEF w
    <3> QED
      BY <1>0, <1>3, <1>4 DEF DueInv
  <2>1. CASE wait.since = clock
    BY <1>0, <2>1, WaitIsLong
  <2>2. CASE wait.since # clock
    <3>1. wait = round.wait
      BY <1>0, <2>2 DEF RowInv
    <3>2. <<"autoclose", wait.n>> \notin claimed
      BY <1>0 DEF ClaimsInv
    <3>3. deed # "autoclose"
      BY <1>0, <1>3, <3>1, <3>2
    <3>4. ~(AddBusinessDays(wait.since, CloseDays) =< clock)
      BY <1>2, <3>1, <3>3 DEF Waited
    <3> QED
      BY <1>0, <3>4, WaitIsLong
  <2> QED
    BY <2>1, <2>2
<1> QED
  BY <1>0, <1>5, <1>6, <1>7 DEF CalmInv

\* The nudge was sent: the wait is short of CloseDays.
LEMMA SendNudgeCalm == FollowUpsInv /\ CalmInv /\ SendNudge => CalmInv'
<1> SUFFICES ASSUME FollowUpsInv, CalmInv, SendNudge, calm PROVE CalmInv'
  BY DEF CalmInv, SendNudge
<1>0. /\ UNCHANGED <<clock, status, wait, owner, claimed, calm>> /\ round.at = "nudge"
      /\ ~owner /\ RowInv /\ ClaimsInv /\ DueInv
      /\ ~Waited(round.wait, CloseDays, clock)
      /\ clock \in Nat /\ wait.since \in Nat
  BY TypeOfRound DEF SendNudge, CalmInv, FollowUpsInv, RoundInv
<1>1. round'.at = "done"
  BY TypeOfRound, RoundGoes DEF SendNudge, SendNotice, FollowUpsInv, Where
<1>2. AddBusinessDays(wait.since, CloseDays) > clock
  <2>1. CASE wait.since = clock
    BY <1>0, <2>1, WaitIsLong
  <2>2. CASE wait.since # clock
    <3>1. ~(AddBusinessDays(wait.since, CloseDays) =< clock)
      BY <1>0, <2>2 DEF RowInv, Waited
    <3> QED
      BY <1>0, <3>1, WaitIsLong
  <2> QED
    BY <2>1, <2>2
<1>3. DueInv'
  BY <1>0, <1>1, <1>2 DEF DueInv
<1> QED
  BY <1>0, <1>1, <1>3 DEF CalmInv, RowInv, ClaimsInv

LEMMA SystemCloses ==
  /\ CanTransition("RESOLVED", "CUSTOMER_CONFIRMED", "system")
  /\ CanTransition("CUSTOMER_CONFIRMED", "CLOSED", "system")
BY DEF CanTransition, Allowed, Status, Finished

LEMMA HopCalm == FollowUpsInv /\ CalmInv /\ Hop => CalmInv'
<1> SUFFICES ASSUME FollowUpsInv, CalmInv, Hop, calm PROVE CalmInv'
  BY DEF CalmInv, Hop
<1> DEFINE to == IF round.status = "RESOLVED" THEN "CUSTOMER_CONFIRMED" ELSE "CLOSED"
<1>0. /\ UNCHANGED <<clock, owner, claimed, calm>> /\ round.at = "hop"
      /\ ~owner /\ RowInv /\ ClaimsInv /\ DueInv /\ ~round.owner
      /\ round \in RoundRecord /\ FollowUpsTypeOK
      /\ clock \in Nat /\ wait.since \in Nat /\ wait.n \in Nat
      /\ round.wait.n \in 1..MaxWaits /\ round.status \in Awaiting
  BY TypeOfRound DEF Hop, CalmInv, RowInv, FollowUpsInv, RoundInv, RoundRecord
<1>1. CASE ~CanTransition(status, to, "system")
  <2>1. NextStep("done") /\ UNCHANGED <<status, wait>>
    BY <1>1 DEF Hop
  <2>2. round'.at = "done"
    BY <1>0, <2>1, RoundGoes DEF Where
  <2>3. ~(status = round.status)
    BY <1>0, <1>1, SystemCloses DEF Awaiting
  <2>4. wait.since = clock /\ round.wait.n < wait.n
    BY <1>0, <2>3 DEF RowInv
  <2>5. DueInv'
    BY <1>0, <2>1, <2>4, WaitIsLong DEF DueInv
  <2>6. ClaimsInv'
    BY <1>0, <2>1, <2>4 DEF ClaimsInv
  <2> QED
    BY <1>0, <2>2, <2>5, <2>6 DEF CalmInv, RowInv
<1>2. CASE CanTransition(status, to, "system")
  <2> DEFINE next == [round EXCEPT !.at = IF to = "CLOSED" THEN "tell" ELSE "hop",
                                   !.status = "CUSTOMER_CONFIRMED",
                                   !.wait = IF to = "CLOSED" THEN NextWait ELSE @]
  <2>1. status' = to /\ wait.n < MaxWaits /\ wait' = NextWait /\ round' = next
    BY <1>2 DEF Hop
  <2> HIDE DEF to
  <2>2. NextWait \in WaitRecord /\ NextWait.since = clock /\ NextWait.n = wait.n + 1
    BY <1>0, <2>1, NextWaitType
  <2>3. /\ next.owner = round.owner
        /\ next.at = IF to = "CLOSED" THEN "tell" ELSE "hop"
        /\ next.wait = IF to = "CLOSED" THEN NextWait ELSE round.wait
    BY <1>0, <2>2 DEF RoundRecord, Where, Awaiting
  <2> HIDE DEF next
  <2>4. wait'.since = clock /\ wait'.n = wait.n + 1
    BY <2>1, <2>2
  <2>5. DueInv'
    BY <1>0, <2>4, WaitIsLong DEF DueInv
  <2>6. ClaimsInv'
    BY <1>0, <2>4 DEF ClaimsInv
  <2>7. round.wait.n =< wait.n
    BY <1>0 DEF RowInv
  <2>8. RowInv'
    BY <1>0, <2>1, <2>3, <2>4, <2>7 DEF RowInv
  <2> QED
    BY <1>0, <2>5, <2>6, <2>8 DEF CalmInv
<1> QED
  BY <1>1, <1>2

LEMMA TellClosedCalm == FollowUpsInv /\ CalmInv /\ TellClosed => CalmInv'
<1> SUFFICES ASSUME FollowUpsInv, CalmInv, TellClosed, calm PROVE CalmInv'
  BY DEF CalmInv, TellClosed
<1>1. round'.at = "done"
  BY TypeOfRound, RoundGoes DEF TellClosed, SendNotice, FollowUpsInv, Where
<1> QED
  BY <1>1 DEF TellClosed, CalmInv, RowInv, ClaimsInv, DueInv

LEMMA HourPassesCalm == FollowUpsInv /\ CalmInv /\ HourPasses => CalmInv'
<1> SUFFICES ASSUME FollowUpsInv, CalmInv, HourPasses, calm' PROVE CalmInv'
  BY DEF CalmInv
<1>0. /\ UNCHANGED <<status, wait, owner, claimed>> /\ round.at = "done" /\ calm
      /\ ~owner /\ ClaimsInv /\ DueInv
  BY DEF HourPasses, CalmInv
<1>1. round'.at = "idle"
  BY NoRounds DEF HourPasses
<1>2. clock' = clock + 1 /\ clock \in Nat /\ wait.since \in Nat
  BY TypeOfRound DEF FollowUpsInv, HourPasses
<1>3. DueInv'
  <2>1. AddBusinessDays(wait.since, CloseDays) \in Nat
    BY <1>2, WaitIsLong
  <2> QED
    BY <1>0, <1>1, <1>2, <2>1 DEF DueInv
<1> QED
  BY <1>0, <1>1, <1>3 DEF CalmInv, RowInv, ClaimsInv

\* Somebody else moves the ticket.
LEMMA MovedCalm ==
  ASSUME FollowUpsInv, CalmInv, wait.n < MaxWaits, wait' = NextWait,
         UNCHANGED <<clock, owner, round, claimed, calm>>
  PROVE  CalmInv'
<1> SUFFICES ASSUME calm PROVE CalmInv'
  BY DEF CalmInv
<1>0. ~owner /\ RowInv /\ ClaimsInv /\ clock \in Nat /\ wait.n \in Nat
  BY TypeOfRound DEF CalmInv, FollowUpsInv
<1>1. wait'.since = clock /\ wait'.n = wait.n + 1
  BY NextWaitType DEF FollowUpsInv
<1>2. DueInv'
  BY <1>0, <1>1, WaitIsLong DEF DueInv
<1>3. round.at \in {"decide", "nudge", "hop"} => round.wait.n \in Nat /\ round.wait.n =< wait.n
  BY <1>0 DEF RowInv, FollowUpsInv, RoundInv
<1>4. RowInv'
  BY <1>0, <1>1, <1>3 DEF RowInv
<1>5. ClaimsInv'
  BY <1>0, <1>1 DEF ClaimsInv
<1> QED
  BY <1>0, <1>2, <1>4, <1>5 DEF CalmInv

LEMMA CalmStep ==
  FollowUpsInv /\ CalmInv /\ [FollowUpsNext]_followUpVars => CalmInv'
<1> SUFFICES ASSUME FollowUpsInv, CalmInv, [FollowUpsNext]_followUpVars PROVE CalmInv'
  OBVIOUS
<1>1. CASE CustomerAnswers \/ PlaneDelivers \/ ConsoleCloses
  BY <1>1, MovedCalm DEF CustomerAnswers, PlaneDelivers, ConsoleCloses, Moves
<1>2. CASE NudgeThrows \/ HopThrows \/ PassDies \/ ConsoleResets
  BY <1>2 DEF NudgeThrows, HopThrows, PassDies, ConsoleResets, Upset, CalmInv
<1>3. CASE TakenOver
  BY <1>3 DEF TakenOver, CalmInv
<1>4. CASE UNCHANGED followUpVars
  BY <1>4 DEF followUpVars, CalmInv, RowInv, ClaimsInv, DueInv
<1> QED
  BY <1>1, <1>2, <1>3, <1>4, LoadAwaitingCalm, DecideCalm, SendNudgeCalm, HopCalm,
     TellClosedCalm, HourPassesCalm DEF FollowUpsNext

\* The promise made in the nudge: with a pass in every unit of time and
\* nothing upset, no ticket waits longer than CloseDays, for any number of
\* days and any length of the day.
THEOREM SilenceEnds == FollowUpsSpec => []SilentTicketsEnd
<1>1. ASSUME FollowUpsInv, CalmInv
      PROVE  SilentTicketsEnd
  <2> SUFFICES ASSUME calm, status \in Awaiting
               PROVE  ~(AddBusinessDays(wait.since, CloseDays) =< clock - 1)
    BY DEF SilentTicketsEnd, Waited
  <2>1. clock \in Nat /\ AddBusinessDays(wait.since, CloseDays) \in Nat
    BY <1>1, TypeOfRound, WaitIsLong DEF FollowUpsInv
  <2> QED
    BY <1>1, <2>1 DEF CalmInv, DueInv
<1>2. FollowUpsSpec => []CalmInv
  BY FollowUpsInitInv, CalmStep, FollowUpsInductive, PTL DEF FollowUpsSpec
<1> QED
  BY <1>1, <1>2, FollowUpsInductive, PTL

-----------------------------------------------------------------------------
(* CloseDialogue.                                                          *)

TalkFields == {"at", "text", "open", "seen", "asked", "on", "goal", "route"}
QuietHop == [to: Status \ {"CLOSED"}, actor: Actor]

\* The customer asked for the case, was asked about it, or it is marked.
AgreedOn(t) ==
    \/ t.on \in spoken \cup listed
    \/ t.seen[t.on] = "CUSTOMER_CONFIRMED"
    \/ t.asked = NoCase /\ DOMAIN t.seen = {t.on}

\* A handler reads of a case only what the customer said or was asked of it,
\* and only a close of such a case, or of the only one open, hops to CLOSED.
Fit(t) ==
    /\ DOMAIN t = TalkFields /\ t.text \in Text /\ DOMAIN t.seen \subseteq Case
    /\ t.at # "idle" /\ t.text[1] \in {"confirm", "request", "number"}
         => {t.text[2]} \cap Case \subseteq spoken
    /\ t.asked \in Case => t.asked \in spoken
    /\ t.at = "idle" => t.asked = Unasked
    /\ t.at = "hop" =>
         IF t.goal = "close" THEN AgreedOn(t) \/ DOMAIN t.seen = {t.on}
         ELSE t.route \in Seq(QuietHop) /\ t.route # <<>>

QuestionsInv == {ledgerQ, aiQ} \cap Case \subseteq spoken
DialogueInv ==
    /\ DOMAIN talk = Reader /\ \A h \in Reader : Fit(talk[h])
    /\ QuestionsInv
    /\ AmbiguityAsks

LEMMA IdleFits == Fit(IdleTalk)
<1> DEFINE t == IdleTalk
<1>1. /\ DOMAIN t = TalkFields /\ t.at = "idle" /\ t.text = <<"chat", NoCase>>
      /\ t.asked = Unasked /\ DOMAIN t.seen = {}
  BY DEF IdleTalk, TalkFields
<1>2. <<"chat", NoCase>> \in Text
  BY DEF Text
<1> QED
  BY <1>1, <1>2, CloseAssumption DEF Fit, Unasked

\* What the customer said and was shown is forgotten only between talks.
LEMMA FitKept ==
  ASSUME NEW t, Fit(t), spoken \subseteq spoken', listed \subseteq listed'
  PROVE  Fit(t)'
BY DEF Fit, AgreedOn

\* One handler takes a step.
LEMMA TalkStep ==
  ASSUME DialogueInv, NEW h \in Reader, NEW k, talk' = [talk EXCEPT ![h] = k],
         Fit(k)', spoken \subseteq spoken', listed \subseteq listed',
         QuestionsInv', AmbiguityAsks'
  PROVE  DialogueInv'
<1>1. DOMAIN talk' = Reader /\ \A g \in Reader : talk'[g] = IF g = h THEN k ELSE talk[g]
  BY DEF DialogueInv
<1>2. ASSUME NEW g \in Reader, g # h PROVE Fit(talk[g])'
  <2>1. PICK t : t = talk[g]
    OBVIOUS
  <2>2. Fit(t)'
    BY <2>1, FitKept DEF DialogueInv
  <2> QED
    BY <1>1, <1>2, <2>1, <2>2 DEF Fit, AgreedOn
<1>3. Fit(talk[h])'
  BY <1>1 DEF Fit, AgreedOn
<1> QED
  BY <1>1, <1>2, <1>3 DEF DialogueInv

LEMMA ReceiveStep ==
  ASSUME DialogueInv, NEW h \in Reader, NEW text \in Text, Receive(h, text)
  PROVE  DialogueInv'
<1> DEFINE k == [talk[h] EXCEPT !.at = "load", !.text = text]
<1>1. /\ talk' = [talk EXCEPT ![h] = k] /\ Talks(h, "idle") /\ spoken \subseteq spoken'
      /\ text[1] \in {"confirm", "request", "number"} => {text[2]} \cap Case \subseteq spoken'
      /\ UNCHANGED <<ledgerQ, aiQ, listed, ending>>
  BY DEF Receive
<1>2. Fit(talk[h])
  BY DEF DialogueInv
<1>3. /\ DOMAIN k = TalkFields /\ k.at = "load" /\ k.text = text
      /\ k.seen = talk[h].seen /\ k.asked = talk[h].asked
  BY <1>2 DEF Fit, TalkFields
<1>4. talk[h].asked = Unasked
  BY <1>1, <1>2 DEF Fit, Talks
<1> HIDE DEF k
<1>5. PICK m : m = k
  OBVIOUS
<1>6. Fit(m)'
  BY <1>1, <1>2, <1>3, <1>4, <1>5, CloseAssumption DEF Fit, Unasked
<1> QED
  BY <1>1, <1>5, <1>6, TalkStep DEF DialogueInv, QuestionsInv, AmbiguityAsks

LEMMA LoadStep ==
  ASSUME DialogueInv, NEW h \in Reader, LoadOpenTickets(h)
  PROVE  DialogueInv'
<1> DEFINE unfinished == {c \in Case : state[c] \notin Finished}
           k == [talk[h] EXCEPT !.at = IF unfinished = {} THEN "decide" ELSE "ask",
                                !.open = [c \in unfinished |-> place[c]],
                                !.seen = [c \in unfinished |-> state[c]]]
<1>1. /\ talk' = [talk EXCEPT ![h] = k] /\ Talks(h, "load")
      /\ UNCHANGED <<ledgerQ, aiQ, listed, spoken, ending>>
  BY DEF LoadOpenTickets
<1>2. Fit(talk[h])
  BY DEF DialogueInv
<1>3. /\ DOMAIN k = TalkFields /\ k.at \in {"decide", "ask"} /\ k.text = talk[h].text
      /\ DOMAIN k.seen \subseteq Case /\ k.asked = talk[h].asked
  <2>1. DOMAIN [c \in unfinished |-> state[c]] \subseteq Case
    OBVIOUS
  <2> QED
    BY <1>2, <2>1 DEF Fit, TalkFields
<1> HIDE DEF k
<1>4. PICK m : m = k
  OBVIOUS
<1>5. Fit(m)'
  BY <1>1, <1>2, <1>3, <1>4 DEF Fit, Talks
<1> QED
  BY <1>1, <1>4, <1>5, TalkStep DEF DialogueInv, QuestionsInv, AmbiguityAsks

LEMMA AskStep ==
  ASSUME DialogueInv, NEW h \in Reader, PendingCloseQuestion(h)
  PROVE  DialogueInv'
<1>1. PICK pending \in {ledgerQ, aiQ} :
        talk' = [talk EXCEPT ![h] = [@ EXCEPT !.at = "decide", !.asked = pending]]
  BY DEF PendingCloseQuestion
<1> DEFINE k == [talk[h] EXCEPT !.at = "decide", !.asked = pending]
<1>2. /\ talk' = [talk EXCEPT ![h] = k] /\ Talks(h, "ask")
      /\ UNCHANGED <<ledgerQ, aiQ, listed, spoken, ending>>
  BY <1>1 DEF PendingCloseQuestion
<1>3. Fit(talk[h])
  BY DEF DialogueInv
<1>4. /\ DOMAIN k = TalkFields /\ k.at = "decide" /\ k.text = talk[h].text
      /\ k.seen = talk[h].seen /\ k.asked = pending
  BY <1>3 DEF Fit, TalkFields
<1> HIDE DEF k
<1>5. PICK m : m = k
  OBVIOUS
<1>6. pending \in Case => pending \in spoken
  BY DEF DialogueInv, QuestionsInv
<1>7. Fit(m)'
  BY <1>2, <1>3, <1>4, <1>5, <1>6 DEF Fit, Talks
<1> QED
  BY <1>2, <1>5, <1>7, TalkStep DEF DialogueInv, QuestionsInv, AmbiguityAsks

LEMMA LeaveStep ==
  ASSUME DialogueInv, NEW h \in Reader, NEW out, Leave(h, out), talk[h].at # "idle",
         UNCHANGED <<ledgerQ, aiQ, listed, spoken, ending>>,
         out.at = "hop" =>
           IF out.goal = "close"
           THEN out.on \in spoken \/ talk[h].seen[out.on] = "CUSTOMER_CONFIRMED"
                \/ Opened(h) = {out.on}
           ELSE out.route \in Seq(QuietHop) /\ out.route # <<>>
  PROVE  DialogueInv'
<1>1. Fit(talk[h])
  BY DEF DialogueInv
<1>2. CASE out.at = "idle"
  <2>1. talk' = [talk EXCEPT ![h] = IdleTalk]
    BY <1>2 DEF Leave
  <2>2. PICK m : m = IdleTalk
    OBVIOUS
  <2>3. Fit(m)'
    BY <2>2, IdleFits DEF Fit, AgreedOn
  <2> QED
    BY <2>1, <2>2, <2>3, TalkStep DEF DialogueInv, QuestionsInv, AmbiguityAsks
<1>3. CASE out.at # "idle"
  <2> DEFINE k == [talk[h] EXCEPT !.at = out.at, !.goal = out.goal, !.on = out.on,
                                  !.route = out.route]
  <2>1. talk' = [talk EXCEPT ![h] = k]
    BY <1>3 DEF Leave
  <2>2. /\ DOMAIN k = TalkFields /\ k.at = out.at /\ k.text = talk[h].text
        /\ k.seen = talk[h].seen /\ k.asked = talk[h].asked
        /\ k.goal = out.goal /\ k.on = out.on /\ k.route = out.route
    BY <1>1 DEF Fit, TalkFields
  <2> HIDE DEF k
  <2>3. PICK m : m = k
    OBVIOUS
  <2>4. Fit(m)'
    BY <1>1, <1>3, <2>2, <2>3 DEF Fit, AgreedOn, Opened
  <2> QED
    BY <2>1, <2>3, <2>4, TalkStep DEF DialogueInv, QuestionsInv, AmbiguityAsks
<1> QED
  BY <1>2, <1>3

LEMMA OnlyOne ==
  ASSUME NEW cases, Only(cases) # NoCase
  PROVE  cases = {Only(cases)}
BY DEF Only

\* "Ambiguity resolves to NONE": the case a confirmation means was named,
\* asked about, marked, or is the only one.
LEMMA MeantAgreed ==
  ASSUME NEW h \in Reader, Fit(talk[h]), talk[h].at # "idle", Meant(h) # NoCase,
         talk[h].text[1] \in {"confirm", "yes", "closeable"}
  PROVE  \/ Meant(h) \in spoken \/ talk[h].seen[Meant(h)] = "CUSTOMER_CONFIRMED"
         \/ Opened(h) = {Meant(h)}
<1> DEFINE n == talk[h].text[2]
           asked == talk[h].asked
<1>1. talk[h].text \in Text /\ Opened(h) \subseteq Case
  BY DEF Fit, Opened
<1>2. CASE n # NoCase
  <2>1. Meant(h) = n /\ n \in Case
    BY <1>1, <1>2 DEF Meant, ByNumber
  <2>2. talk[h].text[1] = "confirm"
    BY <1>1, <1>2 DEF Text
  <2> QED
    BY <2>1, <2>2 DEF Fit
<1>3. CASE n = NoCase /\ ByNumber(h, asked) # NoCase
  <2>1. Meant(h) = asked /\ asked \in Case
    BY <1>1, <1>3 DEF Meant, Found, ByNumber
  <2> QED
    BY <2>1 DEF Fit
<1>4. CASE n = NoCase /\ ByNumber(h, asked) = NoCase /\ Only(Confirmed(h)) # NoCase
  <2>1. Meant(h) = Only(Confirmed(h))
    BY <1>4 DEF Meant, Found
  <2>2. Meant(h) \in Confirmed(h)
    BY <1>4, <2>1, OnlyOne
  <2> QED
    BY <2>2 DEF Confirmed
<1>5. CASE n = NoCase /\ ByNumber(h, asked) = NoCase /\ Only(Confirmed(h)) = NoCase
  <2>1. Meant(h) = Only(Opened(h))
    BY <1>5 DEF Meant, Found
  <2> QED
    BY <2>1, OnlyOne
<1> QED
  BY <1>2, <1>3, <1>4, <1>5

\* The routes that are not a close.
LEMMA WalkQuiet ==
  ASSUME NEW path \in Seq(Status \ {"CLOSED"}), NEW mine
  PROVE  Walk(path, mine) \in Seq(QuietHop)
<1>1. Walk(path, mine) \in [1..Len(path) -> QuietHop]
  BY LenProperties, ElementOfSeq DEF Walk, QuietHop, Actor
<1> QED
  BY <1>1, LenProperties

LEMMA QuietRoutes ==
  /\ \A s : Confirming(s) \in Seq(QuietHop)
  /\ \A h, c : Declining(h, c) \in Seq(QuietHop)
  /\ Walk(<<"REOPENED", "IN_PROGRESS">>, {"REOPENED"}) \in Seq(QuietHop)
<1>1. /\ <<"CUSTOMER_CONFIRMED">> \in Seq(Status \ {"CLOSED"})
      /\ <<"RESOLVED">> \in Seq(Status \ {"CLOSED"})
      /\ <<"REOPENED", "IN_PROGRESS">> \in Seq(Status \ {"CLOSED"})
  BY DEF Status
<1>2. <<>> \in Seq(QuietHop)
  OBVIOUS
<1>3. /\ Walk(<<"CUSTOMER_CONFIRMED">>, {"CUSTOMER_CONFIRMED"}) \in Seq(QuietHop)
      /\ Walk(<<"RESOLVED">>, {"RESOLVED"}) \in Seq(QuietHop)
      /\ Walk(<<"REOPENED", "IN_PROGRESS">>, {"REOPENED"}) \in Seq(QuietHop)
  BY <1>1, WalkQuiet
<1> QED
  BY <1>2, <1>3 DEF Confirming, Declining

LEMMA PlanType ==
  ASSUME NEW goal, NEW c, NEW route
  PROVE  /\ Plan(goal, c, route).at = IF route = <<>> THEN "tell" ELSE "hop"
         /\ Plan(goal, c, route).goal = goal /\ Plan(goal, c, route).on = c
         /\ Plan(goal, c, route).route = route
BY DEF Plan

\* What Outcome may hop to.
LEMMA OutcomeFits ==
  ASSUME NEW h \in Reader, Fit(talk[h]), talk[h].at # "idle", Outcome(h).at = "hop"
  PROVE  IF Outcome(h).goal = "close"
         THEN \/ Outcome(h).on \in spoken \/ talk[h].seen[Outcome(h).on] = "CUSTOMER_CONFIRMED"
              \/ Opened(h) = {Outcome(h).on}
         ELSE Outcome(h).route \in Seq(QuietHop) /\ Outcome(h).route # <<>>
<1> DEFINE t == talk[h]
           intent == CloseIntent(t.text[1], t.asked # Unasked)
           out == Outcome(h)
           Quiet == out.goal # "close" /\ out.route \in Seq(QuietHop) /\ out.route # <<>>
<1>1. ASSUME NEW goal, goal # "close", NEW c, NEW route \in Seq(QuietHop), out = Plan(goal, c, route)
      PROVE  Quiet
  BY <1>1, PlanType
<1>2. CASE intent = "CONFIRM_CLOSE"
  <2>1. t.text[1] \in {"confirm", "yes", "closeable"}
    BY <1>2 DEF CloseIntent
  <2>2. out = Pick(h, Meant(h), Plan("close", Meant(h), CloseRoute(t.seen[Meant(h)])))
    BY <1>2 DEF Outcome
  <2>3. CASE Meant(h) # NoCase
    <3>1. out.goal = "close" /\ out.on = Meant(h)
      BY <2>2, <2>3, PlanType DEF Pick
    <3> QED
      BY <2>1, <2>3, <3>1, MeantAgreed
  <2>4. CASE Meant(h) = NoCase
    <3>1. out.at = "tell"
      BY <2>2, <2>4, PlanType DEF Pick
    <3> QED
      BY <3>1
  <2> QED
    BY <2>3, <2>4
<1>3. CASE intent = "DECLINE_CLOSE"
  <2>1. out = Plan("decline", Declined(h), Declining(h, Declined(h)))
    BY <1>3 DEF Outcome
  <2> QED
    BY <1>1, <2>1, QuietRoutes
<1>4. CASE intent = "CLOSE_REQUEST"
  <2> DEFINE c == Requested(h)
  <2>1. out = Pick(h, c, Plan("confirm", c, Confirming(t.seen[c])))
    BY <1>4 DEF Outcome
  <2>2. CASE c # NoCase
    <3>1. out = Plan("confirm", c, Confirming(t.seen[c]))
      BY <2>1, <2>2 DEF Pick
    <3> QED
      BY <1>1, <3>1, QuietRoutes
  <2>3. CASE c = NoCase
    <3>1. out.at = "tell"
      BY <2>1, <2>3, PlanType DEF Pick
    <3> QED
      BY <3>1
  <2> QED
    BY <2>2, <2>3
<1>5. CASE intent \notin {"CONFIRM_CLOSE", "DECLINE_CLOSE", "CLOSE_REQUEST"}
  <2> DEFINE c == Answered(h)
             said == ConfirmationIntent(t.text[1])
  <2>1. \/ out = ToTheAI \/ out = Plan("confirm", c, Confirming(t.seen[c]))
        \/ out = Plan("reopen", c, Walk(<<"REOPENED", "IN_PROGRESS">>, {"REOPENED"}))
    BY <1>5 DEF Outcome
  <2>2. out # ToTheAI
    BY DEF ToTheAI
  <2> QED
    BY <1>1, <2>1, <2>2, QuietRoutes
<1> QED
  BY <1>2, <1>3, <1>4, <1>5

LEMMA InterpretStep ==
  ASSUME DialogueInv, NEW h \in Reader, Interpret(h)
  PROVE  DialogueInv'
<1>1. /\ Fit(talk[h]) /\ talk[h].at # "idle" /\ Leave(h, Outcome(h))
      /\ UNCHANGED <<ledgerQ, aiQ, listed, spoken, ending>>
  BY DEF DialogueInv, Interpret, Talks
<1> QED
  BY <1>1, OutcomeFits, LeaveStep

\* A hop closes only a case that was agreed on, or the only one.
LEMMA CloseHopStep ==
  ASSUME DialogueInv, NEW h \in Reader, CloseHop(h)
  PROVE  DialogueInv'
<1> DEFINE t == talk[h]
           hop == Head(t.route)
           rest == Tail(t.route)
           k == [talk[h] EXCEPT !.route = rest, !.at = IF rest = <<>> THEN "tell" ELSE "hop"]
<1>1. /\ talk' = [talk EXCEPT ![h] = k] /\ t.at = "hop"
      /\ UNCHANGED <<ledgerQ, aiQ, listed, spoken>>
      /\ ending' = IF hop.to = "CLOSED"
                   THEN [agreed |-> Agreed(h, t.on), alone |-> Opened(h) = {t.on}]
                   ELSE ending
  BY DEF CloseHop, Talks
<1>2. Fit(t)
  BY DEF DialogueInv
<1>3. IF t.goal = "close" THEN AgreedOn(t) \/ DOMAIN t.seen = {t.on}
      ELSE hop \in QuietHop /\ rest \in Seq(QuietHop)
  <2>1. CASE t.goal = "close"
    BY <1>1, <1>2, <2>1 DEF Fit
  <2>2. CASE t.goal # "close"
    <3>1. t.route \in Seq(QuietHop) /\ t.route # <<>>
      BY <1>1, <1>2, <2>2 DEF Fit
    <3>2. hop \in QuietHop /\ rest \in Seq(QuietHop)
      BY <3>1, HeadTailProperties
    <3> QED
      BY <2>2, <3>2
  <2> QED
    BY <2>1, <2>2
<1>4. AmbiguityAsks'
  <2>1. CASE hop.to = "CLOSED"
    <3>1. t.goal = "close"
      BY <1>3, <2>1 DEF QuietHop
    <3>2. AgreedOn(t) \/ DOMAIN t.seen = {t.on}
      BY <1>3, <3>1
    <3>3. Agreed(h, t.on) \/ Opened(h) = {t.on}
      BY <3>2 DEF AgreedOn, Agreed, Opened
    <3>4. ending' = [agreed |-> Agreed(h, t.on), alone |-> Opened(h) = {t.on}]
      BY <1>1, <2>1
    <3> QED
      BY <3>3, <3>4 DEF AmbiguityAsks
  <2>2. CASE hop.to # "CLOSED"
    BY <1>1, <2>2 DEF AmbiguityAsks, DialogueInv
  <2> QED
    BY <2>1, <2>2
<1>5. /\ DOMAIN k = TalkFields /\ k.at = (IF rest = <<>> THEN "tell" ELSE "hop")
      /\ k.text = t.text /\ k.seen = t.seen /\ k.asked = t.asked /\ k.goal = t.goal
      /\ k.on = t.on /\ k.route = rest
  BY <1>2 DEF Fit, TalkFields
<1> HIDE DEF k
<1>6. PICK m : m = k
  OBVIOUS
<1>7. Fit(m)'
  <2>1. m.at = "hop" => m.route # <<>>
    BY <1>5, <1>6
  <2>2. m.goal = "close" => (AgreedOn(m) \/ DOMAIN m.seen = {m.on})
    BY <1>3, <1>5, <1>6 DEF AgreedOn
  <2>3. m.goal # "close" => m.route \in Seq(QuietHop)
    BY <1>3, <1>5, <1>6
  <2> HIDE DEF rest
  <2> QED
    BY <1>1, <1>2, <1>5, <1>6, <2>1, <2>2, <2>3 DEF Fit, AgreedOn
<1> QED
  BY <1>1, <1>4, <1>6, <1>7, TalkStep DEF DialogueInv, QuestionsInv

LEMMA HopRejectedStep ==
  ASSUME DialogueInv, NEW h \in Reader, HopRejected(h)
  PROVE  DialogueInv'
<1>1. /\ talk[h].at # "idle" /\ UNCHANGED <<ledgerQ, aiQ, listed, spoken, ending>>
      /\ Leave(h, ToTheAI) \/ Leave(h, Plan(talk[h].goal, talk[h].on, <<>>))
  BY DEF HopRejected, Talks
<1>2. ToTheAI.at # "hop" /\ Plan(talk[h].goal, talk[h].on, <<>>).at # "hop"
  BY PlanType DEF ToTheAI
<1>3. ASSUME NEW out, Leave(h, out), out.at # "hop" PROVE DialogueInv'
  BY <1>1, <1>3, LeaveStep
<1> QED
  BY <1>1, <1>2, <1>3

\* The question the notice asks is of a case that is spoken of.
LEMMA NotifyStep ==
  ASSUME DialogueInv, NEW h \in Reader, Notify(h)
  PROVE  DialogueInv'
<1>1. /\ talk' = [talk EXCEPT ![h] = IdleTalk] /\ UNCHANGED <<aiQ, ending>>
      /\ spoken \subseteq spoken' /\ listed \subseteq listed'
      /\ ledgerQ' \in Case => ledgerQ' \in spoken'
  <2>1. /\ talk' = [talk EXCEPT ![h] = IdleTalk] /\ UNCHANGED <<aiQ, ending>>
    BY DEF Notify
  <2>2. CASE talk[h].goal = "confirm"
    BY <2>2 DEF Notify
  <2>3. CASE talk[h].goal = "which"
    BY <2>3, CloseAssumption DEF Notify
  <2>4. CASE talk[h].goal \notin {"confirm", "which"}
    BY <2>4 DEF Notify, DialogueInv, QuestionsInv
  <2> HIDE DEF IdleTalk
  <2> QED
    BY <2>1, <2>2, <2>3, <2>4
<1>2. PICK m : m = IdleTalk
  OBVIOUS
<1>3. Fit(m)'
  BY <1>1, <1>2, IdleFits, FitKept
<1>4. QuestionsInv' /\ AmbiguityAsks'
  BY <1>1 DEF DialogueInv, QuestionsInv, AmbiguityAsks
<1> QED
  BY <1>1, <1>2, <1>3, <1>4, TalkStep

LEMMA DiesStep ==
  ASSUME DialogueInv, NEW h \in Reader, HandlerDies(h)
  PROVE  DialogueInv'
<1>1. talk' = [talk EXCEPT ![h] = IdleTalk] /\ UNCHANGED <<ledgerQ, aiQ, listed, spoken, ending>>
  BY DEF HandlerDies
<1>2. PICK m : m = IdleTalk
  OBVIOUS
<1>3. Fit(m)'
  BY <1>1, <1>2, IdleFits, FitKept
<1> QED
  BY <1>1, <1>2, <1>3, TalkStep DEF DialogueInv, QuestionsInv, AmbiguityAsks

\* Steps that leave every talk where it is.
LEMMA TalksStay ==
  ASSUME DialogueInv, UNCHANGED <<talk, ending>>, spoken \subseteq spoken',
         listed \subseteq listed', QuestionsInv'
  PROVE  DialogueInv'
<1>1. ASSUME NEW g \in Reader PROVE Fit(talk[g])'
  <2>1. PICK t : t = talk[g]
    OBVIOUS
  <2>2. Fit(t)'
    BY <2>1, FitKept DEF DialogueInv
  <2> QED
    BY <2>1, <2>2 DEF Fit, AgreedOn
<1> QED
  BY <1>1 DEF DialogueInv, AmbiguityAsks

LEMMA AITurnStep ==
  ASSUME DialogueInv, NEW q \in Question, AITurn(q)
  PROVE  DialogueInv'
<1>1. /\ UNCHANGED <<talk, ending, ledgerQ, listed>> /\ aiQ' = q
      /\ spoken' = spoken \cup ({q} \cap Case)
  BY DEF AITurn
<1> QED
  BY <1>1, TalksStay DEF DialogueInv, QuestionsInv

\* When the half hour ends nobody reads.
LEMMA AgeStep ==
  ASSUME DialogueInv, QuestionsAge
  PROVE  DialogueInv'
<1>1. /\ UNCHANGED <<talk, ending>> /\ ledgerQ' = Unasked /\ aiQ' = Unasked
      /\ \A h \in Reader : talk[h].at = "idle"
  BY DEF QuestionsAge, Talks
<1>2. ASSUME NEW h \in Reader PROVE Fit(talk[h])'
  <2>1. Fit(talk[h]) /\ talk[h].at = "idle"
    BY <1>1 DEF DialogueInv
  <2> QED
    BY <1>1, <2>1, CloseAssumption DEF Fit, Unasked
<1> QED
  BY <1>1, <1>2, CloseAssumption DEF DialogueInv, QuestionsInv, AmbiguityAsks, Unasked

\* DialogueInv is inductive.
THEOREM DialogueInductive == DialogueSpec => []DialogueInv
<1>1. DialogueInit => DialogueInv
  <2> SUFFICES ASSUME DialogueInit PROVE DialogueInv
    OBVIOUS
  <2>1. /\ talk = [h \in Reader |-> IdleTalk] /\ ledgerQ = Unasked /\ aiQ = Unasked
        /\ ending = [agreed |-> TRUE, alone |-> FALSE]
    BY DEF DialogueInit
  <2> QED
    BY <2>1, IdleFits, CloseAssumption DEF DialogueInv, QuestionsInv, AmbiguityAsks, Unasked
<1>2. DialogueInv /\ [DialogueNext]_dialogueVars => DialogueInv'
  <2> SUFFICES ASSUME DialogueInv, [DialogueNext]_dialogueVars PROVE DialogueInv'
    OBVIOUS
  <2>1. ASSUME NEW h \in Reader, NEW text \in Text, Receive(h, text) PROVE DialogueInv'
    BY <2>1, ReceiveStep
  <2>2. ASSUME NEW h \in Reader, Handle(h) PROVE DialogueInv'
    BY <2>2, LoadStep, AskStep, InterpretStep, CloseHopStep, HopRejectedStep, NotifyStep
       DEF Handle
  <2>3. ASSUME NEW h \in Reader, HandlerDies(h) PROVE DialogueInv'
    BY <2>3, DiesStep
  <2>4. ASSUME NEW q \in Question, AITurn(q) PROVE DialogueInv'
    BY <2>4, AITurnStep
  <2>5. ASSUME QuestionsAge PROVE DialogueInv'
    BY <2>5, AgeStep
  <2>6. ASSUME NEW c \in Case, NEW actor, NEW to, OthersMove(c, actor, to) PROVE DialogueInv'
    <3>1. UNCHANGED <<talk, ending, ledgerQ, aiQ, listed, spoken>>
      BY <2>6 DEF OthersMove
    <3> QED
      BY <3>1, TalksStay DEF DialogueInv, QuestionsInv
  <2>7. ASSUME UNCHANGED dialogueVars PROVE DialogueInv'
    <3>1. UNCHANGED <<talk, ending, ledgerQ, aiQ, listed, spoken>>
      BY <2>7 DEF dialogueVars
    <3> QED
      BY <3>1, TalksStay DEF DialogueInv, QuestionsInv
  <2> QED
    BY <2>1, <2>2, <2>3, <2>4, <2>5, <2>6, <2>7 DEF DialogueNext
<1> QED
  BY <1>1, <1>2, PTL DEF DialogueSpec

\* "Ambiguity resolves to NONE": however questions, answers, engineers and
\* handlers interleave, a handler that has read several open cases closes only
\* one the customer named, was asked about or shown, or one that is marked.
THEOREM Asks == DialogueSpec => []AmbiguityAsks
<1>1. DialogueInv => AmbiguityAsks
  BY DEF DialogueInv
<1> QED
  BY <1>1, DialogueInductive, PTL

-----------------------------------------------------------------------------
(* CloseDialogue: types.                                                   *)

\* A handler with a text in hand.
Reading == {h \in Reader : talk[h].at # "idle"}

Goals == {"none", "close", "confirm", "decline", "reopen", "which", "nothing"}

\* A plan names a case where its goal needs one, and its hops are of a case.
Aimed(p) ==
    /\ p.at \in {"hop", "tell"} /\ p.on \in Number /\ p.goal \in Goals
    /\ p.goal \in {"close", "confirm", "reopen"} => p.on # NoCase
    /\ p.at = "hop" => p.on \in Case

\* What a handler has read is of the open cases, each in its place.
Informed(t) ==
    /\ DOMAIN t.open \subseteq Case /\ DOMAIN t.seen = DOMAIN t.open
    /\ \A c \in DOMAIN t.open : t.open[c] \in Nat

Shaped(t) ==
    /\ DOMAIN t = TalkFields /\ t.text \in Text /\ t.asked \in Question
    /\ Informed(t)
    /\ \/ t.at \in {"idle", "load", "ask", "decide"} /\ t.goal = "none" /\ t.on = NoCase
       \/ Aimed(t)

CasesTyped == state \in [Case -> Status] /\ place \in Places
AskedTyped ==
    /\ {ledgerQ, aiQ} \subseteq Question /\ latest \in {"ledger", "ai"}
    /\ spoken \subseteq Case /\ listed \subseteq Case
    /\ ending \in [agreed: BOOLEAN, alone: BOOLEAN]
TalksTyped == DOMAIN talk = Reader /\ \A h \in Reader : Shaped(talk[h])

\* A text is being read, left to the AI, or done with.
CountsTyped ==
    /\ texts \in 0..MaxTexts /\ unread \in Nat /\ stirs \in 0..MaxStirs
    /\ IsFiniteSet(Reading) /\ Cardinality(Reading) + unread <= texts

DialogueTyped == CasesTyped /\ AskedTyped /\ TalksTyped /\ CountsTyped

LEMMA IdleShaped == Shaped(IdleTalk) /\ IdleTalk.at = "idle"
<1>1. /\ DOMAIN IdleTalk = TalkFields /\ IdleTalk.at = "idle"
      /\ IdleTalk.text = <<"chat", NoCase>> /\ IdleTalk.asked = Unasked
      /\ DOMAIN IdleTalk.seen = {} /\ DOMAIN IdleTalk.open = {}
      /\ IdleTalk.goal = "none" /\ IdleTalk.on = NoCase
  BY DEF IdleTalk, TalkFields
<1>2. <<"chat", NoCase>> \in Text
  BY DEF Text
<1> QED
  BY <1>1, <1>2 DEF Shaped, Informed, Question

LEMMA OneTalk ==
  ASSUME TalksTyped, NEW h \in Reader, NEW k, Shaped(k), talk' = [talk EXCEPT ![h] = k]
  PROVE  /\ TalksTyped'
         /\ Reading' = IF k.at = "idle" THEN Reading \ {h} ELSE Reading \cup {h}
<1>1. DOMAIN talk' = Reader /\ \A g \in Reader : talk'[g] = IF g = h THEN k ELSE talk[g]
  BY DEF TalksTyped
<1>2. TalksTyped'
  BY <1>1 DEF TalksTyped
<1>3. Reading' = {g \in Reader : talk'[g].at # "idle"}
  BY DEF Reading
<1> HIDE DEF Reading
<1>4. Reading' = IF k.at = "idle" THEN Reading \ {h} ELSE Reading \cup {h}
  BY <1>1, <1>3 DEF Reading
<1> QED
  BY <1>2, <1>4

\* A handler that goes on, and one that is done and leaves a text or not.
LEMMA TextsStay ==
  ASSUME CountsTyped, UNCHANGED <<texts, unread, stirs>>, Reading' = Reading
  PROVE  CountsTyped'
BY DEF CountsTyped

LEMMA TextsFall ==
  ASSUME CountsTyped, UNCHANGED texts, stirs' \in 0..MaxStirs, NEW h \in Reading,
         Reading' = Reading \ {h}, unread' \in {unread, unread + 1}
  PROVE  CountsTyped'
<1>1. IsFiniteSet(Reading) /\ Cardinality(Reading) \in Nat
  BY FS_CardinalityType DEF CountsTyped
<1>2. IsFiniteSet(Reading') /\ Cardinality(Reading') = Cardinality(Reading) - 1
  BY <1>1, FS_RemoveElement
<1>3. texts' = texts /\ texts \in 0..MaxTexts /\ unread \in Nat
      /\ Cardinality(Reading) + unread <= texts
  BY DEF CountsTyped
<1>4. MaxTexts \in Nat
  BY CloseAssumption
<1>5. unread' \in Nat /\ Cardinality(Reading') + unread' <= texts'
  BY <1>1, <1>2, <1>3, <1>4
<1> QED
  BY <1>2, <1>3, <1>5 DEF CountsTyped

LEMMA StirTyped == CountsTyped /\ Stir => stirs' \in 0..MaxStirs
BY CloseAssumption DEF CountsTyped, Stir

LEMMA ReceiveTyped ==
  ASSUME DialogueTyped, NEW h \in Reader, NEW text \in Text, Receive(h, text)
  PROVE  DialogueTyped'
<1> DEFINE k == [talk[h] EXCEPT !.at = "load", !.text = text]
<1>1. /\ talk' = [talk EXCEPT ![h] = k] /\ talk[h].at = "idle" /\ spoken' \subseteq spoken \cup Case
      /\ UNCHANGED <<state, place, ledgerQ, aiQ, latest, unread, stirs, listed, ending>>
      /\ texts < MaxTexts /\ texts' = texts + 1
  BY DEF Receive, Talks
<1>2. Shaped(talk[h])
  BY DEF DialogueTyped, TalksTyped
<1>3. /\ DOMAIN k = TalkFields /\ k.at = "load" /\ k.text = text /\ k.open = talk[h].open
      /\ k.seen = talk[h].seen /\ k.asked = talk[h].asked /\ k.goal = talk[h].goal
      /\ k.on = talk[h].on
  BY <1>2 DEF Shaped, TalkFields
<1> HIDE DEF k
<1>4. Shaped(k)
  BY <1>1, <1>2, <1>3 DEF Shaped, Informed, Aimed
<1>5. TalksTyped' /\ Reading' = Reading \cup {h}
  BY <1>1, <1>3, <1>4, OneTalk DEF DialogueTyped
<1>6. h \notin Reading /\ IsFiniteSet(Reading) /\ Cardinality(Reading) \in Nat
  BY <1>1, FS_CardinalityType DEF Reading, DialogueTyped, CountsTyped
<1>7. IsFiniteSet(Reading') /\ Cardinality(Reading') = Cardinality(Reading) + 1
  BY <1>5, <1>6, FS_AddElement
<1>8. /\ texts \in 0..MaxTexts /\ unread \in Nat /\ Cardinality(Reading) + unread <= texts
      /\ MaxTexts \in Nat /\ texts < MaxTexts /\ texts' = texts + 1 /\ unread' = unread
      /\ stirs' \in 0..MaxStirs
  BY <1>1, CloseAssumption DEF DialogueTyped, CountsTyped
<1>9. texts' \in 0..MaxTexts /\ unread' \in Nat /\ Cardinality(Reading') + unread' <= texts'
  BY <1>6, <1>7, <1>8
<1>10. CountsTyped'
  BY <1>7, <1>8, <1>9 DEF CountsTyped
<1> QED
  BY <1>1, <1>5, <1>10 DEF DialogueTyped, CasesTyped, AskedTyped

\* A handler that reads or plans on.
LEMMA GoesOnTyped ==
  ASSUME DialogueTyped, NEW h \in Reader, talk[h].at # "idle", NEW k, Shaped(k), k.at # "idle",
         talk' = [talk EXCEPT ![h] = k], UNCHANGED <<texts, unread, stirs>>,
         CasesTyped', AskedTyped'
  PROVE  DialogueTyped'
<1>1. TalksTyped' /\ Reading' = Reading \cup {h}
  BY OneTalk DEF DialogueTyped
<1>2. Reading' = Reading
  BY <1>1 DEF Reading
<1> QED
  BY <1>1, <1>2, TextsStay DEF DialogueTyped

LEMMA LoadTyped ==
  ASSUME DialogueTyped, NEW h \in Reader, LoadOpenTickets(h)
  PROVE  DialogueTyped'
<1> DEFINE unfinished == {c \in Case : state[c] \notin Finished}
           k == [talk[h] EXCEPT !.at = IF unfinished = {} THEN "decide" ELSE "ask",
                                !.open = [c \in unfinished |-> place[c]],
                                !.seen = [c \in unfinished |-> state[c]]]
<1>1. /\ talk' = [talk EXCEPT ![h] = k] /\ talk[h].at = "load"
      /\ UNCHANGED <<state, place, ledgerQ, aiQ, latest, unread, texts, stirs, spoken, listed,
                     ending>>
  BY DEF LoadOpenTickets, Talks
<1>2. Shaped(talk[h])
  BY DEF DialogueTyped, TalksTyped
<1>3. /\ DOMAIN k = TalkFields /\ k.at \in {"decide", "ask"} /\ k.text = talk[h].text
      /\ k.open = [c \in unfinished |-> place[c]] /\ k.seen = [c \in unfinished |-> state[c]]
      /\ k.asked = talk[h].asked /\ k.goal = talk[h].goal /\ k.on = talk[h].on
  BY <1>2 DEF Shaped, TalkFields
<1> HIDE DEF k
<1>4. \A c \in Case : place[c] \in Nat
  <2>1. place \in [Case -> 1..Cardinality(Case)]
    BY DEF DialogueTyped, CasesTyped, Places, Injection
  <2> QED
    BY <2>1
<1>5. Informed(k)
  BY <1>3, <1>4 DEF Informed
<1>6. Shaped(k)
  BY <1>1, <1>2, <1>3, <1>5 DEF Shaped, Aimed
<1> QED
  BY <1>1, <1>3, <1>6, GoesOnTyped DEF DialogueTyped, CasesTyped, AskedTyped

LEMMA AskTyped ==
  ASSUME DialogueTyped, NEW h \in Reader, PendingCloseQuestion(h)
  PROVE  DialogueTyped'
<1>1. PICK pending \in {ledgerQ, aiQ} :
        talk' = [talk EXCEPT ![h] = [@ EXCEPT !.at = "decide", !.asked = pending]]
  BY DEF PendingCloseQuestion
<1> DEFINE k == [talk[h] EXCEPT !.at = "decide", !.asked = pending]
<1>2. /\ talk' = [talk EXCEPT ![h] = k] /\ talk[h].at = "ask"
      /\ UNCHANGED <<state, place, ledgerQ, aiQ, latest, unread, texts, stirs, spoken, listed,
                     ending>>
  BY <1>1 DEF PendingCloseQuestion, Talks
<1>3. Shaped(talk[h]) /\ pending \in Question
  BY DEF DialogueTyped, TalksTyped, AskedTyped
<1>4. /\ DOMAIN k = TalkFields /\ k.at = "decide" /\ k.text = talk[h].text
      /\ k.open = talk[h].open /\ k.seen = talk[h].seen /\ k.asked = pending
      /\ k.goal = talk[h].goal /\ k.on = talk[h].on
  BY <1>3 DEF Shaped, TalkFields
<1> HIDE DEF k
<1>5. Shaped(k)
  BY <1>2, <1>3, <1>4 DEF Shaped, Informed, Aimed
<1> QED
  BY <1>2, <1>4, <1>5, GoesOnTyped DEF DialogueTyped, CasesTyped, AskedTyped

\* A handler that is done.
LEMMA DoneTyped ==
  ASSUME DialogueTyped, NEW h \in Reader, talk[h].at # "idle",
         talk' = [talk EXCEPT ![h] = IdleTalk], unread' \in {unread, unread + 1},
         UNCHANGED <<texts, state, place>>, stirs' \in 0..MaxStirs, AskedTyped'
  PROVE  DialogueTyped'
<1>1. TalksTyped' /\ Reading' = Reading \ {h}
  BY IdleShaped, OneTalk DEF DialogueTyped
<1>2. h \in Reading
  BY DEF Reading
<1>3. CountsTyped'
  BY <1>1, <1>2, TextsFall DEF DialogueTyped
<1> QED
  BY <1>1, <1>3 DEF DialogueTyped, CasesTyped

LEMMA OnlyType ==
  ASSUME NEW cases, cases \subseteq Case
  PROVE  Only(cases) \in cases \cup {NoCase}
<1>1. CASE Only(cases) = NoCase
  BY <1>1
<1>2. CASE Only(cases) # NoCase
  BY <1>2, OnlyOne
<1> QED
  BY <1>1, <1>2

\* There is a newest of any cases that are open.
LEMMA NewestType ==
  ASSUME NEW h \in Reader, Informed(talk[h]), NEW cases, cases \subseteq DOMAIN talk[h].open
  PROVE  Newest(h, cases) \in cases \cup {NoCase}
<1>1. CASE cases = {}
  BY <1>1 DEF Newest
<1>2. CASE cases # {}
  <2> DEFINE places == {talk[h].open[c] : c \in cases}
  <2>1. places \subseteq Nat /\ places # {}
    BY <1>2 DEF Informed
  <2>2. PICK n \in places : \A m \in places : n <= m
    <3> HIDE DEF places
    <3> QED
      BY <2>1, LeastNat
  <2>3. \E c \in cases : \A d \in cases : talk[h].open[c] <= talk[h].open[d]
    BY <2>2
  <2>4. Newest(h, cases) \in cases
    BY <1>2, <2>3 DEF Newest
  <2> QED
    BY <2>4
<1> QED
  BY <1>1, <1>2

\* The case a text is taken to mean is one of the open cases.
LEMMA TargetsOpen ==
  ASSUME NEW h \in Reader, Shaped(talk[h])
  PROVE  /\ {Meant(h), Declined(h), Requested(h), Answered(h)} \subseteq Opened(h) \cup {NoCase}
         /\ Opened(h) \subseteq Case
<1>1. Opened(h) \subseteq Case /\ Opened(h) = DOMAIN talk[h].open
  BY DEF Shaped, Informed, Opened
<1>2. \A n : ByNumber(h, n) \in Opened(h) \cup {NoCase}
  BY DEF ByNumber
<1>3. /\ Confirmed(h) \subseteq Opened(h)
      /\ Only(Confirmed(h)) \in Opened(h) \cup {NoCase}
      /\ Only(Opened(h)) \in Opened(h) \cup {NoCase}
  <2>1. Confirmed(h) \subseteq Opened(h)
    BY DEF Confirmed
  <2>2. Only(Confirmed(h)) \in Confirmed(h) \cup {NoCase}
    BY <1>1, <2>1, OnlyType
  <2>3. Only(Opened(h)) \in Opened(h) \cup {NoCase}
    BY <1>1, OnlyType
  <2> QED
    BY <2>1, <2>2, <2>3
<1>4. \A m, n \in Opened(h) \cup {NoCase} : Found(m, n) \in Opened(h) \cup {NoCase}
  BY DEF Found
<1>5. Meant(h) \in Opened(h) \cup {NoCase}
  <2> DEFINE asked == talk[h].asked
             only == IF asked # Unasked THEN Only(Opened(h)) ELSE NoCase
  <2>1. only \in Opened(h) \cup {NoCase}
    BY <1>3
  <2>2. Meant(h) = IF talk[h].text[2] # NoCase THEN ByNumber(h, talk[h].text[2])
                   ELSE Found(ByNumber(h, asked), Found(Only(Confirmed(h)), only))
    BY DEF Meant
  <2> HIDE DEF only
  <2> QED
    BY <1>2, <1>3, <1>4, <2>1, <2>2
<1>6. Declined(h) \in Opened(h) \cup {NoCase}
  BY <1>2, <1>3, <1>4 DEF Declined
<1>7. Requested(h) \in Opened(h) \cup {NoCase}
  BY <1>2, <1>3 DEF Requested
<1>8. Answered(h) \in Opened(h) \cup {NoCase}
  <2> DEFINE awaiting == {c \in Opened(h) : talk[h].seen[c] \in Awaiting}
  <2>1. awaiting \subseteq Opened(h)
    OBVIOUS
  <2>2. Answered(h) = IF talk[h].text[2] \in awaiting THEN talk[h].text[2]
                      ELSE Newest(h, awaiting)
    BY DEF Answered
  <2> HIDE DEF awaiting
  <2>3. Newest(h, awaiting) \in awaiting \cup {NoCase}
    BY <1>1, <2>1, NewestType DEF Shaped
  <2> QED
    BY <2>1, <2>2, <2>3
<1> QED
  BY <1>1, <1>5, <1>6, <1>7, <1>8

LEMMA PlanAimed ==
  ASSUME NEW goal \in Goals, NEW c \in Number, NEW route,
         goal \in {"close", "confirm", "reopen"} => c # NoCase,
         c = NoCase => route = <<>>
  PROVE  Aimed(Plan(goal, c, route))
<1> DEFINE p == Plan(goal, c, route)
<1>1. /\ p.at = (IF route = <<>> THEN "tell" ELSE "hop")
      /\ p.goal = goal /\ p.on = c
  BY PlanType
<1>2. c # NoCase => c \in Case
  BY DEF Number
<1> QED
  BY <1>1, <1>2 DEF Aimed, Goals

\* With a case the plan is one for it; without, one that names none.
LEMMA PickAimed ==
  ASSUME NEW h \in Reader, NEW c \in Number, NEW goal \in Goals, NEW route
  PROVE  Aimed(Pick(h, c, Plan(goal, c, route)))
<1>1. CASE c # NoCase
  <2>1. Pick(h, c, Plan(goal, c, route)) = Plan(goal, c, route)
    BY <1>1 DEF Pick
  <2> QED
    BY <1>1, <2>1, PlanAimed
<1>2. CASE c = NoCase
  <2>1. \/ Pick(h, c, Plan(goal, c, route)) = Plan("nothing", NoCase, <<>>)
        \/ Pick(h, c, Plan(goal, c, route)) = Plan("which", NoCase, <<>>)
    BY <1>2 DEF Pick
  <2>2. {"nothing", "which"} \subseteq Goals /\ NoCase \in Number
    BY DEF Goals, Number
  <2> QED
    BY <2>1, <2>2, PlanAimed
<1> QED
  BY <1>1, <1>2

LEMMA OutcomeAimed ==
  ASSUME NEW h \in Reader, Shaped(talk[h])
  PROVE  Outcome(h) = ToTheAI \/ Aimed(Outcome(h))
<1> DEFINE t == talk[h]
           intent == CloseIntent(t.text[1], t.asked # Unasked)
<1>1. {Meant(h), Declined(h), Requested(h), Answered(h)} \subseteq Number
  BY TargetsOpen DEF Number
<1>2. {"close", "confirm", "decline", "reopen"} \subseteq Goals
  BY DEF Goals
<1>3. CASE intent = "CONFIRM_CLOSE"
  <2>1. Outcome(h) = Pick(h, Meant(h), Plan("close", Meant(h), CloseRoute(t.seen[Meant(h)])))
    BY <1>3 DEF Outcome
  <2> QED
    BY <1>1, <1>2, <2>1, PickAimed
<1>4. CASE intent = "DECLINE_CLOSE"
  <2>1. Outcome(h) = Plan("decline", Declined(h), Declining(h, Declined(h)))
    BY <1>4 DEF Outcome
  <2>2. Declined(h) = NoCase => Declining(h, Declined(h)) = <<>>
    BY DEF Declining
  <2> QED
    BY <1>1, <1>2, <2>1, <2>2, PlanAimed
<1>5. CASE intent = "CLOSE_REQUEST"
  <2>1. Outcome(h) = Pick(h, Requested(h),
                          Plan("confirm", Requested(h), Confirming(t.seen[Requested(h)])))
    BY <1>5 DEF Outcome
  <2> QED
    BY <1>1, <1>2, <2>1, PickAimed
<1>6. CASE intent \notin {"CONFIRM_CLOSE", "DECLINE_CLOSE", "CLOSE_REQUEST"}
  <2>1. \/ Outcome(h) = ToTheAI
        \/ /\ Answered(h) # NoCase
           /\ \/ Outcome(h) = Plan("confirm", Answered(h), Confirming(t.seen[Answered(h)]))
              \/ Outcome(h) = Plan("reopen", Answered(h),
                                   Walk(<<"REOPENED", "IN_PROGRESS">>, {"REOPENED"}))
    BY <1>6 DEF Outcome
  <2> QED
    BY <1>1, <1>2, <2>1, PlanAimed
<1> QED
  BY <1>3, <1>4, <1>5, <1>6

\* A handler that acts on what it decided, or leaves the text to the AI.
LEMMA LeaveTyped ==
  ASSUME DialogueTyped, NEW h \in Reader, talk[h].at # "idle", NEW out,
         out = ToTheAI \/ Aimed(out), Leave(h, out),
         UNCHANGED <<state, place, texts>>, stirs' \in 0..MaxStirs, AskedTyped'
  PROVE  DialogueTyped'
<1>1. CASE out = ToTheAI
  <2>1. ToTheAI.at = "idle"
    BY DEF ToTheAI
  <2>2. talk' = [talk EXCEPT ![h] = IdleTalk] /\ unread' = unread + 1
    BY <1>1, <2>1 DEF Leave
  <2> QED
    BY <2>2, DoneTyped
<1>2. CASE Aimed(out)
  <2> DEFINE k == [talk[h] EXCEPT !.at = out.at, !.goal = out.goal, !.on = out.on,
                                  !.route = out.route]
  <2>1. out.at \in {"hop", "tell"}
    BY <1>2 DEF Aimed
  <2>2. talk' = [talk EXCEPT ![h] = k] /\ unread' = unread + 0
    BY <2>1 DEF Leave
  <2>3. Shaped(talk[h])
    BY DEF DialogueTyped, TalksTyped
  <2>4. /\ DOMAIN k = TalkFields /\ k.at = out.at /\ k.text = talk[h].text
        /\ k.open = talk[h].open /\ k.seen = talk[h].seen /\ k.asked = talk[h].asked
        /\ k.goal = out.goal /\ k.on = out.on
    BY <2>3 DEF Shaped, TalkFields
  <2> HIDE DEF k
  <2>5. Aimed(k) /\ k.at # "idle"
    BY <1>2, <2>1, <2>4 DEF Aimed
  <2>6. Shaped(k)
    BY <2>3, <2>4, <2>5 DEF Shaped, Informed
  <2>7. TalksTyped' /\ Reading' = Reading \cup {h}
    BY <2>2, <2>5, <2>6, OneTalk DEF DialogueTyped
  <2>8. Reading' = Reading /\ unread \in Nat
    BY <2>7 DEF Reading, DialogueTyped, CountsTyped
  <2>9. CountsTyped'
    BY <2>2, <2>8 DEF DialogueTyped, CountsTyped
  <2> QED
    BY <2>7, <2>9 DEF DialogueTyped, CasesTyped
<1> QED
  BY <1>1, <1>2

LEMMA InterpretTyped ==
  ASSUME DialogueTyped, NEW h \in Reader, Interpret(h)
  PROVE  DialogueTyped'
<1>1. /\ Shaped(talk[h]) /\ talk[h].at # "idle" /\ Leave(h, Outcome(h))
      /\ UNCHANGED <<state, place, ledgerQ, aiQ, latest, texts, stirs, spoken, listed, ending>>
      /\ stirs \in 0..MaxStirs
  BY DEF DialogueTyped, TalksTyped, CountsTyped, Interpret, Talks
<1>2. AskedTyped'
  BY <1>1 DEF DialogueTyped, AskedTyped
<1> QED
  BY <1>1, <1>2, OutcomeAimed, LeaveTyped

\* Those before a place go back by one, and leave the first free.
Shifted(i, p) == IF i < p THEN i + 1 ELSE i

LEMMA ShiftApart ==
  ASSUME NEW p \in Nat, NEW i \in Nat, NEW j \in Nat, 1 <= p, 1 <= i, 1 <= j, i # p, j # p
  PROVE  Shifted(i, p) # 1 /\ (Shifted(i, p) = Shifted(j, p) => i = j)
BY DEF Shifted

\* What the state machine allows is a status.
LEMMA MoveTyped ==
  ASSUME CasesTyped, NEW c \in Case, NEW to, NEW actor, CanTransition(state[c], to, actor),
         MoveTo(c, to)
  PROVE  CasesTyped'
<1>1. state[c] \in Status /\ to \in Allowed[state[c]]
  BY DEF CasesTyped, CanTransition
<1>2. to \in Status
  BY <1>1 DEF Allowed, Status, Finished
<1>3. state' \in [Case -> Status]
  BY <1>2 DEF CasesTyped, MoveTo
<1> DEFINE n == Cardinality(Case)
<1>4. n \in Nat
  BY FS_CardinalityType, CloseAssumption
<1> HIDE DEF n
<1>5. /\ place \in [Case -> 1..n]
      /\ \A d, e \in Case : place[d] = place[e] => d = e
  BY DEF CasesTyped, Places, Injection, IsInjective, n
<1>6. place' = [d \in Case |-> IF d = c THEN 1
                               ELSE IF place[d] < place[c] THEN place[d] + 1 ELSE place[d]]
  BY DEF MoveTo
<1>7. ASSUME NEW d \in Case PROVE place'[d] \in 1..n
  <2>1. place[d] \in 1..n /\ place[c] \in 1..n
    BY <1>5
  <2>2. place'[d] = IF d = c THEN 1
                    ELSE IF place[d] < place[c] THEN place[d] + 1 ELSE place[d]
    BY <1>6
  <2> QED
    BY <1>4, <2>1, <2>2
<1>8. ASSUME NEW d \in Case, NEW e \in Case, place'[d] = place'[e] PROVE d = e
  <2>1. /\ place[d] \in 1..n /\ place[e] \in 1..n /\ place[c] \in 1..n
        /\ (d # c => place[d] # place[c]) /\ (e # c => place[e] # place[c])
    BY <1>5
  <2>2. /\ place[d] \in Nat /\ place[e] \in Nat /\ place[c] \in Nat
        /\ 1 <= place[d] /\ 1 <= place[e] /\ 1 <= place[c]
    BY <1>4, <2>1
  <2>3. /\ place'[d] = IF d = c THEN 1 ELSE Shifted(place[d], place[c])
        /\ place'[e] = IF e = c THEN 1 ELSE Shifted(place[e], place[c])
    BY <1>6 DEF Shifted
  <2>4. (d # c => place'[d] # 1) /\ (e # c => place'[e] # 1)
    BY <2>1, <2>2, <2>3, ShiftApart
  <2>5. CASE d # c /\ e # c
    <3>1. place[d] = place[e]
      BY <1>8, <2>1, <2>2, <2>3, <2>5, ShiftApart
    <3> QED
      BY <1>5, <3>1
  <2> QED
    BY <1>8, <2>3, <2>4, <2>5
<1>9. place' \in [Case -> 1..n] /\ DOMAIN place' = Case
  BY <1>6, <1>7
<1>10. place' \in Places
  BY <1>8, <1>9 DEF Places, Injection, IsInjective, n
<1> QED
  BY <1>3, <1>10 DEF CasesTyped

LEMMA CloseHopTyped ==
  ASSUME DialogueTyped, NEW h \in Reader, CloseHop(h)
  PROVE  DialogueTyped'
<1> DEFINE t == talk[h]
           hop == Head(t.route)
           rest == Tail(t.route)
           k == [talk[h] EXCEPT !.route = rest, !.at = IF rest = <<>> THEN "tell" ELSE "hop"]
<1>1. /\ talk' = [talk EXCEPT ![h] = k] /\ t.at = "hop"
      /\ CanTransition(state[t.on], hop.to, hop.actor) /\ MoveTo(t.on, hop.to)
      /\ UNCHANGED <<ledgerQ, aiQ, latest, unread, texts, stirs, spoken, listed>>
      /\ ending' = IF hop.to = "CLOSED"
                   THEN [agreed |-> Agreed(h, t.on), alone |-> Opened(h) = {t.on}]
                   ELSE ending
  BY DEF CloseHop, Talks
<1>2. Shaped(t) /\ Aimed(t) /\ t.on \in Case
  BY <1>1 DEF DialogueTyped, TalksTyped, Shaped, Aimed
<1>3. /\ DOMAIN k = TalkFields /\ k.at \in {"tell", "hop"} /\ k.text = t.text /\ k.open = t.open
      /\ k.seen = t.seen /\ k.asked = t.asked /\ k.goal = t.goal /\ k.on = t.on
  BY <1>2 DEF Shaped, TalkFields
<1> HIDE DEF k
<1>4. Shaped(k)
  BY <1>2, <1>3 DEF Shaped, Informed, Aimed
<1>5. CasesTyped'
  <2> HIDE DEF hop
  <2> QED
    BY <1>1, <1>2, MoveTyped DEF DialogueTyped
<1>6. ending' \in [agreed: BOOLEAN, alone: BOOLEAN]
  <2>1. Agreed(h, t.on) \in BOOLEAN
    BY DEF Agreed
  <2>2. (Opened(h) = {t.on}) \in BOOLEAN
    OBVIOUS
  <2>3. ending \in [agreed: BOOLEAN, alone: BOOLEAN]
    BY DEF DialogueTyped, AskedTyped
  <2> QED
    BY <1>1, <2>1, <2>2, <2>3
<1>7. AskedTyped'
  BY <1>1, <1>6 DEF DialogueTyped, AskedTyped
<1> QED
  BY <1>1, <1>3, <1>4, <1>5, <1>7, GoesOnTyped

LEMMA HopRejectedTyped ==
  ASSUME DialogueTyped, NEW h \in Reader, HopRejected(h)
  PROVE  DialogueTyped'
<1> DEFINE t == talk[h]
<1>1. /\ t.at = "hop" /\ (UNCHANGED stirs \/ Stir)
      /\ (Leave(h, ToTheAI) \/ Leave(h, Plan(t.goal, t.on, <<>>)))
      /\ UNCHANGED <<state, place, ledgerQ, aiQ, latest, texts, spoken, listed, ending>>
  BY DEF HopRejected, Talks
<1>2. Aimed(t)
  BY <1>1 DEF DialogueTyped, TalksTyped, Shaped
<1>3. Aimed(Plan(t.goal, t.on, <<>>))
  BY <1>2, PlanAimed DEF Aimed
<1>4. stirs' \in 0..MaxStirs
  BY <1>1, StirTyped DEF DialogueTyped, CountsTyped
<1>5. AskedTyped'
  BY <1>1 DEF DialogueTyped, AskedTyped
<1> QED
  BY <1>1, <1>3, <1>4, <1>5, LeaveTyped

LEMMA NotifyTyped ==
  ASSUME DialogueTyped, NEW h \in Reader, Notify(h)
  PROVE  DialogueTyped'
<1> DEFINE t == talk[h]
<1>1. /\ t.at = "tell" /\ talk' = [talk EXCEPT ![h] = IdleTalk]
      /\ UNCHANGED <<state, place, aiQ, unread, texts, stirs, ending>>
  BY DEF Notify, Talks
<1>2. Aimed(t) /\ Opened(h) \subseteq Case
  BY <1>1 DEF DialogueTyped, TalksTyped, Shaped, Informed, Opened
<1>3. /\ ledgerQ' \in Question /\ latest' \in {"ledger", "ai"}
      /\ spoken' \subseteq Case /\ listed' \subseteq Case
  <2>1. /\ ledgerQ \in Question /\ latest \in {"ledger", "ai"}
        /\ spoken \subseteq Case /\ listed \subseteq Case /\ Number \subseteq Question
    BY DEF DialogueTyped, AskedTyped, Question
  <2>2. CASE t.goal = "confirm"
    <3>1. t.on \in Case /\ t.on \in Number
      BY <1>2, <2>2 DEF Aimed, Number
    <3>2. ledgerQ' = t.on /\ latest' = "ledger" /\ spoken' = spoken \cup {t.on} /\ listed' = listed
      BY <2>2 DEF Notify
    <3> QED
      BY <2>1, <3>1, <3>2
  <2>3. CASE t.goal = "which"
    <3>1. /\ ledgerQ' = NoCase /\ latest' = "ledger" /\ listed' = listed \cup Opened(h)
          /\ spoken' = spoken
      BY <2>3 DEF Notify
    <3> QED
      BY <1>2, <2>1, <3>1 DEF Number
  <2>4. CASE t.goal \notin {"confirm", "which"}
    <3>1. UNCHANGED <<ledgerQ, latest, spoken, listed>>
      BY <2>4 DEF Notify
    <3> QED
      BY <2>1, <3>1
  <2> QED
    BY <2>2, <2>3, <2>4
<1>4. AskedTyped'
  BY <1>1, <1>3 DEF DialogueTyped, AskedTyped
<1>5. stirs' \in 0..MaxStirs
  BY <1>1 DEF DialogueTyped, CountsTyped
<1> QED
  BY <1>1, <1>4, <1>5, DoneTyped

LEMMA DiesTyped ==
  ASSUME DialogueTyped, NEW h \in Reader, HandlerDies(h)
  PROVE  DialogueTyped'
<1>1. /\ talk[h].at # "idle" /\ Stir /\ talk' = [talk EXCEPT ![h] = IdleTalk]
      /\ UNCHANGED <<state, place, ledgerQ, aiQ, latest, unread, texts, spoken, listed, ending>>
  BY DEF HandlerDies, Talks
<1>2. AskedTyped' /\ stirs' \in 0..MaxStirs
  BY <1>1, StirTyped DEF DialogueTyped, AskedTyped
<1> QED
  BY <1>1, <1>2, DoneTyped

\* Steps of the others.
LEMMA AITurnTyped ==
  ASSUME DialogueTyped, NEW q \in Question, AITurn(q)
  PROVE  DialogueTyped'
<1>1. /\ unread > 0 /\ unread' = unread - 1 /\ aiQ' = q /\ latest' \in {latest, "ai"}
      /\ spoken' = spoken \cup ({q} \cap Case)
      /\ UNCHANGED <<state, place, ledgerQ, talk, texts, stirs, listed, ending>>
  BY DEF AITurn
<1>2. AskedTyped'
  BY <1>1 DEF DialogueTyped, AskedTyped
<1>3. TalksTyped' /\ Reading' = Reading
  BY <1>1 DEF DialogueTyped, TalksTyped, Reading
<1>4. /\ texts \in 0..MaxTexts /\ unread \in Nat /\ Cardinality(Reading) \in Nat
      /\ Cardinality(Reading) + unread <= texts /\ MaxTexts \in Nat
  BY CloseAssumption, FS_CardinalityType DEF DialogueTyped, CountsTyped
<1>5. unread' \in Nat /\ Cardinality(Reading') + unread' <= texts'
  <2>1. unread' = unread - 1 /\ unread > 0 /\ Reading' = Reading /\ texts' = texts
    BY <1>1, <1>3
  <2> QED
    BY <1>4, <2>1
<1>6. CountsTyped'
  BY <1>1, <1>3, <1>5 DEF DialogueTyped, CountsTyped
<1> QED
  BY <1>1, <1>2, <1>3, <1>6 DEF DialogueTyped, CasesTyped

LEMMA OthersMoveTyped ==
  ASSUME DialogueTyped, NEW c \in Case, NEW actor, NEW to, OthersMove(c, actor, to)
  PROVE  DialogueTyped'
<1>1. /\ Stir /\ CanTransition(state[c], to, actor) /\ MoveTo(c, to)
      /\ UNCHANGED <<ledgerQ, aiQ, latest, talk, unread, texts, spoken, listed, ending>>
  BY DEF OthersMove
<1>2. CasesTyped'
  BY <1>1, MoveTyped DEF DialogueTyped
<1>3. TalksTyped' /\ Reading' = Reading /\ AskedTyped'
  BY <1>1 DEF DialogueTyped, TalksTyped, Reading, AskedTyped
<1>4. stirs' \in 0..MaxStirs
  BY <1>1, StirTyped DEF DialogueTyped
<1>5. CountsTyped'
  BY <1>1, <1>3, <1>4 DEF DialogueTyped, CountsTyped
<1> QED
  BY <1>2, <1>3, <1>5 DEF DialogueTyped

\* Texts, questions, plans and cases keep their types, and no text is lost
\* sight of: each is being read, left to the AI, or done with.
THEOREM DialogueTypes == DialogueSpec => []DialogueTypeOK
<1>1. DialogueInit => DialogueTyped
  <2> SUFFICES ASSUME DialogueInit PROVE DialogueTyped
    OBVIOUS
  <2>1. CasesTyped
    BY CloseAssumption DEF DialogueInit, CasesTyped
  <2>2. AskedTyped
    BY DEF DialogueInit, AskedTyped, Question
  <2>3. TalksTyped
    <3>1. talk = [h \in Reader |-> IdleTalk]
      BY DEF DialogueInit
    <3> QED
      BY <3>1, IdleShaped DEF TalksTyped
  <2>4. Reading = {}
    <3>1. talk = [h \in Reader |-> IdleTalk]
      BY DEF DialogueInit
    <3> QED
      BY <3>1, IdleShaped DEF Reading
  <2>5. CountsTyped
    <3>1. unread = 0 /\ texts = 0 /\ stirs = 0
      BY DEF DialogueInit
    <3> QED
      BY <2>4, <3>1, FS_EmptySet, CloseAssumption DEF CountsTyped
  <2> QED
    BY <2>1, <2>2, <2>3, <2>5 DEF DialogueTyped
<1>2. DialogueTyped /\ [DialogueNext]_dialogueVars => DialogueTyped'
  <2> SUFFICES ASSUME DialogueTyped, [DialogueNext]_dialogueVars PROVE DialogueTyped'
    OBVIOUS
  <2>1. ASSUME NEW h \in Reader, NEW text \in Text, Receive(h, text) PROVE DialogueTyped'
    BY <2>1, ReceiveTyped
  <2>2. ASSUME NEW h \in Reader, Handle(h) PROVE DialogueTyped'
    BY <2>2, LoadTyped, AskTyped, InterpretTyped, CloseHopTyped, HopRejectedTyped, NotifyTyped
       DEF Handle
  <2>3. ASSUME NEW h \in Reader, HandlerDies(h) PROVE DialogueTyped'
    BY <2>3, DiesTyped
  <2>4. ASSUME NEW q \in Question, AITurn(q) PROVE DialogueTyped'
    BY <2>4, AITurnTyped
  <2>5. ASSUME QuestionsAge PROVE DialogueTyped'
    <3>1. /\ ledgerQ' = Unasked /\ aiQ' = Unasked /\ spoken' = {} /\ listed' = {}
          /\ UNCHANGED <<state, place, latest, talk, unread, texts, stirs, ending>>
      BY <2>5 DEF QuestionsAge
    <3>2. AskedTyped'
      BY <3>1 DEF DialogueTyped, AskedTyped, Question
    <3> QED
      BY <3>1, <3>2 DEF DialogueTyped, CasesTyped, TalksTyped, CountsTyped, Reading
  <2>6. ASSUME NEW c \in Case, NEW actor, NEW to, OthersMove(c, actor, to) PROVE DialogueTyped'
    BY <2>6, OthersMoveTyped
  <2>7. ASSUME UNCHANGED dialogueVars PROVE DialogueTyped'
    BY <2>7 DEF dialogueVars, DialogueTyped, CasesTyped, AskedTyped, TalksTyped, CountsTyped,
                Reading
  <2> QED
    BY <2>1, <2>2, <2>3, <2>4, <2>5, <2>6, <2>7 DEF DialogueNext
<1>3. DialogueTyped => DialogueTypeOK
  <2> SUFFICES ASSUME DialogueTyped PROVE DialogueTypeOK
    OBVIOUS
  <2>1. /\ texts \in 0..MaxTexts /\ unread \in Nat /\ Cardinality(Reading) \in Nat
        /\ Cardinality(Reading) + unread <= texts /\ MaxTexts \in Nat
    BY CloseAssumption, FS_CardinalityType DEF DialogueTyped, CountsTyped
  <2>2. unread \in 0..texts
    BY <2>1
  <2>3. ASSUME NEW h \in Reader
        PROVE  LET t == talk[h] IN
               /\ t.at \in {"idle", "load", "ask", "decide", "hop", "tell"}
               /\ t.text \in Text /\ t.asked \in Question /\ t.on \in Number
               /\ DOMAIN t.open \subseteq Case /\ DOMAIN t.seen = DOMAIN t.open
               /\ t.goal \in {"none", "close", "confirm", "decline", "reopen",
                              "which", "nothing"}
               /\ t.goal \in {"close", "confirm", "reopen"} => t.on # NoCase
    <3>1. Shaped(talk[h])
      BY DEF DialogueTyped, TalksTyped
    <3> QED
      BY <3>1 DEF Shaped, Informed, Aimed, Goals, Number
  <2> QED
    BY <2>2, <2>3 DEF DialogueTypeOK, DialogueTyped, CasesTyped, AskedTyped, CountsTyped
<1> QED
  BY <1>1, <1>2, <1>3, PTL DEF DialogueSpec

-----------------------------------------------------------------------------
(* MCContact: the modules side by side.                                    *)

\* A behaviour of the composition is one of each module, with the others at
\* rest: what holds of a module holds in the composition.
THEOREM ContactSideBySide ==
  ContactSpec => /\ IngressSpec /\ OnboardingSpec /\ WebSpec
                 /\ NoticesSpec /\ RemindersSpec /\ FollowUpsSpec /\ DialogueSpec
<1>1. ContactInit => /\ IngressInit /\ OnboardingInit /\ WebInit
                     /\ NoticesInit /\ RemindersInit /\ FollowUpsInit /\ DialogueInit
  BY DEF ContactInit
<1>2. [ContactNext]_vars => [IngressNext]_ingressVars
  BY DEF ContactNext, IngressStep, OnboardingStep, WebStep, NoticesStep, RemindersStep,
         FollowUpsStep, DialogueStep, Rest, vars
<1>3. [ContactNext]_vars => [OnboardingNext]_onboardingVars
  BY DEF ContactNext, IngressStep, OnboardingStep, WebStep, NoticesStep, RemindersStep,
         FollowUpsStep, DialogueStep, Rest, vars
<1>4. [ContactNext]_vars => [WebNext]_webVars
  BY DEF ContactNext, IngressStep, OnboardingStep, WebStep, NoticesStep, RemindersStep,
         FollowUpsStep, DialogueStep, Rest, vars
<1>5. [ContactNext]_vars => [NoticesNext]_noticeVars
  BY DEF ContactNext, IngressStep, OnboardingStep, WebStep, NoticesStep, RemindersStep,
         FollowUpsStep, DialogueStep, Rest, vars
<1>6. [ContactNext]_vars => [RemindersNext]_reminderVars
  BY DEF ContactNext, IngressStep, OnboardingStep, WebStep, NoticesStep, RemindersStep,
         FollowUpsStep, DialogueStep, Rest, vars
<1>7. [ContactNext]_vars => [FollowUpsNext]_followUpVars
  BY DEF ContactNext, IngressStep, OnboardingStep, WebStep, NoticesStep, RemindersStep,
         FollowUpsStep, DialogueStep, Rest, vars
<1>8. [ContactNext]_vars => [DialogueNext]_dialogueVars
  BY DEF ContactNext, IngressStep, OnboardingStep, WebStep, NoticesStep, RemindersStep,
         FollowUpsStep, DialogueStep, Rest, vars
<1> QED
  BY <1>1, <1>2, <1>3, <1>4, <1>5, <1>6, <1>7, <1>8, PTL
  DEF ContactSpec, IngressSpec, OnboardingSpec, WebSpec, NoticesSpec, RemindersSpec,
      FollowUpsSpec, DialogueSpec

\* Every variable of the module at work keeps its type.
THEOREM ContactTyped == ContactSpec => []ContactTypeOK
<1> DEFINE PartKnown == part \in {"ingress", "onboarding", "web", "notices", "reminders",
                                  "follow-ups", "dialogue"}
<1>1. ContactInit => PartKnown
  BY DEF ContactInit
<1>2. PartKnown /\ [ContactNext]_vars => PartKnown'
  BY DEF ContactNext, IngressStep, OnboardingStep, WebStep, NoticesStep, RemindersStep,
         FollowUpsStep, DialogueStep, Rest, vars
<1>3. /\ NoticesInv => NoticesTypeOK
      /\ RemindersInv => RemindersTypeOK
      /\ FollowUpsInv => FollowUpsTypeOK
  BY DEF NoticesInv, RemindersInv, FollowUpsInv
<1>4. /\ PartKnown /\ IngressTypeOK /\ OnboardingTypeOK /\ WebTypeOK
      /\ NoticesTypeOK /\ RemindersTypeOK /\ FollowUpsTypeOK /\ DialogueTypeOK
      => ContactTypeOK
  BY DEF ContactTypeOK
<1>5. /\ NoticesSpec => []NoticesInv
      /\ RemindersSpec => []RemindersInv
      /\ FollowUpsSpec => []FollowUpsInv
  BY NoticesInductive, RemindersInductive, FollowUpsInductive
<1> QED
  BY <1>1, <1>2, <1>3, <1>4, <1>5, ContactSideBySide, IngressTypes, OnboardingTypes, WebTypes,
     DialogueTypes, PTL DEF ContactSpec

\* Side by side the modules keep all they promise: accepted events are kept and
\* heard once; a customer has one conversation and one request; every tab shows
\* a reply once; acknowledgements, threads, reminders, nudges and closes come
\* when they are due and once; and an ambiguous answer closes nothing.
THEOREM ContactKeeps ==
  ContactSpec => [](/\ AcceptedIsKept /\ InOneTurn
                    /\ OnboardedOnce
                    /\ EveryTabOnce
                    /\ OneAckPerBurst /\ ThreadTellsAll
                    /\ OnePerSlot /\ NoSlotMissed
                    /\ OneNudgePerWait /\ ClosesOnlySilence /\ SilentTicketsEnd
                    /\ AmbiguityAsks)
BY ContactSideBySide, KeepsAccepted, OneTurnEach, Onboards, EveryTab,
   OneAck, ThreadComplete, OneReminder, SlotsKept, OneNudge, SilenceOnly, SilenceEnds, Asks, PTL
=============================================================================
