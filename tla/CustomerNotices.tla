---------------------------- MODULE CustomerNotices ----------------------------
(***************************************************************************)
(* CustomerNotificationService.send: one ledger row per notification type  *)
(* and idempotency key, claimed before the message is pushed to LINE, and  *)
(* a turn in the conversation whatever became of the push.  Webhooks, the  *)
(* confirmation handler, Plane's webhooks and the SLA engine call it at    *)
(* the same time, and repeat calls whose answer they did not see.          *)
(***************************************************************************)
EXTENDS Naturals

CONSTANTS
    Sender,         \* calls of send
    Notice,         \* notification types with their idempotency keys
    Acks,           \* those of the two acknowledgement types
    MaxLosses       \* bound: statements and processes that fail

ASSUME NoticesAssumption == Acks \subseteq Notice /\ MaxLosses \in Nat

VARIABLES
    ledger,     \* customer_notifications: the status of each row
    recent,     \* the acknowledgements of the last ACK_BURST_WINDOW_SECONDS
    call,       \* each call: where it is, and what it sends
    pushed,     \* how often LINE delivered each notice
    thread,     \* how often each was recorded in the conversation
    losses,     \* losses so far
    crossed     \* ghost: two acknowledgements were on their way at once

noticeVars == <<ledger, recent, call, pushed, thread, losses, crossed>>

NoCall == [at |-> "new", notice |-> "none", outcome |-> "none"]

NoticesTypeOK ==
    /\ ledger \in [Notice -> {"none", "pending", "sent", "failed"}]
    /\ recent \subseteq Acks
    /\ call \in [Sender -> [at: {"new", "look", "claim", "push", "settle", "append", "over"},
                            notice: {"none"} \cup Notice, outcome: {"none", "sent", "failed"}]]
    /\ pushed \in [Notice -> Nat]
    /\ thread \in [Notice -> Nat]
    /\ losses \in Nat
    /\ crossed \in BOOLEAN

NoticesInit ==
    /\ ledger = [k \in Notice |-> "none"]
    /\ recent = {}
    /\ call = [c \in Sender |-> NoCall]
    /\ pushed = [k \in Notice |-> 0]
    /\ thread = [k \in Notice |-> 0]
    /\ losses = 0
    /\ crossed = FALSE

Goes(c, where) == call' = [call EXCEPT ![c].at = where]
Lost == losses < MaxLosses /\ losses' = losses + 1
Acking(c) == call[c].notice \in Acks /\ call[c].at \notin {"new", "over"}

\* A conversation without a recipient gets nothing.
NoRecipient(c) ==
    /\ call[c].at = "new"
    /\ Goes(c, "over")
    /\ UNCHANGED <<ledger, recent, pushed, thread, losses, crossed>>

Resolve(c) ==
    /\ call[c].at = "new"
    /\ \E k \in Notice :
          /\ call' = [call EXCEPT ![c].notice = k,
                                  ![c].at = IF k \in Acks THEN "look" ELSE "claim"]
          /\ crossed' = (crossed \/ (k \in Acks /\ \E d \in Sender : Acking(d)))
    /\ UNCHANGED <<ledger, recent, pushed, thread, losses>>

\* Mutant: a stage that does not exist.
LookBackTypo(c) ==
    /\ call[c].at = "look"
    /\ Goes(c, IF recent = {} THEN "claimed" ELSE "over")
    /\ UNCHANGED <<ledger, recent, pushed, thread, losses, crossed>>

\* Mutant: every message is acknowledged.
LookBackNever(c) ==
    /\ call[c].at = "look"
    /\ Goes(c, "claim")
    /\ UNCHANGED <<ledger, recent, pushed, thread, losses, crossed>>

\* An acknowledgement first looks for one of the last ninety seconds, of
\* either type and any status.
LookBack(c) ==
    /\ call[c].at = "look"
    /\ Goes(c, IF recent = {} THEN "claim" ELSE "over")
    /\ UNCHANGED <<ledger, recent, pushed, thread, losses, crossed>>

\* Mutant: a row that failed may be claimed again.
ClaimUnlessSent(c) ==
    LET k == call[c].notice IN
    /\ call[c].at = "claim"
    /\ IF ledger[k] \in {"none", "failed"}
       THEN /\ ledger' = [ledger EXCEPT ![k] = "pending"]
            /\ recent' = recent \cup ({k} \cap Acks)
            /\ Goes(c, "push")
       ELSE /\ Goes(c, "over")
            /\ UNCHANGED <<ledger, recent>>
    /\ UNCHANGED <<pushed, thread, losses, crossed>>

\* INSERT ... ON CONFLICT DO NOTHING.
ClaimNotice(c) ==
    LET k == call[c].notice IN
    /\ call[c].at = "claim"
    /\ IF ledger[k] = "none"
       THEN /\ ledger' = [ledger EXCEPT ![k] = "pending"]
            /\ recent' = recent \cup ({k} \cap Acks)
            /\ Goes(c, "push")
       ELSE /\ Goes(c, "over")
            /\ UNCHANGED <<ledger, recent>>
    /\ UNCHANGED <<pushed, thread, losses, crossed>>

PushLine(c) ==
    /\ call[c].at = "push"
    /\ pushed' = [pushed EXCEPT ![call[c].notice] = @ + 1]
    /\ call' = [call EXCEPT ![c].at = "settle", ![c].outcome = "sent"]
    /\ UNCHANGED <<ledger, recent, thread, losses, crossed>>

\* LINE refuses it, or delivers it and its answer is lost: nothing retries.
PushFails(c) ==
    /\ call[c].at = "push"
    /\ \/ pushed' = [pushed EXCEPT ![call[c].notice] = @ + 1]
       \/ UNCHANGED pushed
    /\ call' = [call EXCEPT ![c].at = "settle", ![c].outcome = "failed"]
    /\ UNCHANGED <<ledger, recent, thread, losses, crossed>>

\* Mutant: a failed push is not recorded in the thread.
SettleAndStop(c) ==
    /\ call[c].at = "settle"
    /\ ledger' = [ledger EXCEPT ![call[c].notice] = call[c].outcome]
    /\ Goes(c, IF call[c].outcome = "sent" THEN "append" ELSE "over")
    /\ UNCHANGED <<recent, pushed, thread, losses, crossed>>

\* markSent or markFailed.
Settle(c) ==
    /\ call[c].at = "settle"
    /\ ledger' = [ledger EXCEPT ![call[c].notice] = call[c].outcome]
    /\ Goes(c, "append")
    /\ UNCHANGED <<recent, pushed, thread, losses, crossed>>

AppendTurn(c) ==
    /\ call[c].at = "append"
    /\ thread' = [thread EXCEPT ![call[c].notice] = @ + 1]
    /\ Goes(c, "over")
    /\ UNCHANGED <<ledger, recent, pushed, losses, crossed>>

\* The errors of these statements are swallowed.
SettleFails(c) ==
    /\ call[c].at = "settle"
    /\ Lost
    /\ Goes(c, "append")
    /\ UNCHANGED <<ledger, recent, pushed, thread, crossed>>

AppendFails(c) ==
    /\ call[c].at = "append"
    /\ Lost
    /\ Goes(c, "over")
    /\ UNCHANGED <<ledger, recent, pushed, thread, crossed>>

\* The process ends, or one of the first statements throws.
SenderDies(c) ==
    /\ call[c].at \notin {"new", "over"}
    /\ Lost
    /\ Goes(c, "over")
    /\ UNCHANGED <<ledger, recent, pushed, thread, crossed>>

BurstEnds ==
    /\ recent # {}
    /\ \A c \in Sender : ~Acking(c)
    /\ recent' = {}
    /\ UNCHANGED <<ledger, call, pushed, thread, losses, crossed>>

NoticesNext ==
    \/ \E c \in Sender :
          \/ NoRecipient(c) \/ Resolve(c) \/ LookBack(c) \/ ClaimNotice(c) \/ PushLine(c)
          \/ PushFails(c) \/ Settle(c) \/ SettleFails(c) \/ AppendTurn(c) \/ AppendFails(c)
          \/ SenderDies(c)
    \/ BurstEnds

NoticesSpec == NoticesInit /\ [][NoticesNext]_noticeVars

-----------------------------------------------------------------------------
\* "Sends a customer notification at most once": what LINE delivered is an
\* OnceNotices, whoever sends, repeats, crashes or loses an answer.
Abstract == INSTANCE OnceNotices WITH told <- pushed
ImplementsOnce == Abstract!OnceSpec

\* "One acknowledgement per burst, not per message", of both types together:
\* true unless two of them were under way at the same time.
OneAckPerBurst ==
    ~crossed => \A j, k \in recent : j = k

\* "The message is recorded in the conversation regardless of delivery": with
\* no statement or process lost, the row ends as what became of the push, and
\* the thread has one turn for it.
ThreadTellsAll ==
    losses = 0 => \A c \in Sender :
        call[c].at = "over" /\ call[c].outcome # "none"
            => /\ thread[call[c].notice] = 1
               /\ ledger[call[c].notice] = call[c].outcome
=============================================================================
