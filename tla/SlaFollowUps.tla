----------------------------- MODULE SlaFollowUps -----------------------------
(***************************************************************************)
(* A ticket delivered to the customer and not answered: one nudge after    *)
(* NudgeDays business days, an automatic close after CloseDays.            *)
(*                                                                         *)
(* A wait starts whenever the state machine moves the ticket (the column   *)
(* lifecycle_changed_at, whose milliseconds are part of every claim's      *)
(* key).  Each pass loads the waiting tickets first and acts on the row it *)
(* loaded.  Meanwhile the customer answers, Plane delivers again, humans   *)
(* take the thread over and the SLA console may close or reset the ticket. *)
(***************************************************************************)
EXTENDS SlaCalendar, TicketLifecycle

CONSTANTS
    NudgeDays,      \* RESOLUTION_NUDGE_BUSINESS_DAYS
    CloseDays,      \* RESOLUTION_AUTO_CLOSE_BUSINESS_DAYS
    DeliveredAt,    \* when the ticket may have been delivered
    MaxWaits,       \* bound: how often the clock starts
    MaxUpsets       \* bound: crashes, failing calls and resets

ASSUME FollowUpsAssumption ==
    /\ NudgeDays \in Nat /\ CloseDays \in Nat \ {0}
    /\ DeliveredAt \subseteq Time
    /\ MaxWaits \in Nat \ {0}
    /\ MaxUpsets \in Nat

VARIABLES
    clock,      \* the time
    status,     \* tickets.status
    wait,       \* number of the current wait, and when it started
    owner,      \* TRUE while a human owns the thread
    round,      \* the pass: where it is, and the row it loaded
    claimed,    \* sla_cadence_claims: kind and wait
    notices,     \* customer_notifications: type, and wait or closing event
    told,       \* ghost: how often each of them was received
    closing,    \* ghost: what the last automatic close found
    stirred,    \* ghost: somebody else touched the ticket since the row was read
    upsets,     \* upsets so far
    calm        \* ghost: every unit of time had a pass and nothing was upset

followUpVars == <<clock, status, wait, owner, round, claimed, notices, told,
                  closing, stirred, upsets, calm>>

FollowUp == {"resolution_nudge", "auto_closed"} \X (1..MaxWaits)
NoWait == [n |-> 0, since |-> 0]
NoClosing == [due |-> TRUE, owned |-> FALSE, stirred |-> FALSE]
NoRound == [at |-> "idle", status |-> "RESOLVED", wait |-> NoWait, owner |-> FALSE, now |-> 0]

FollowUpsTypeOK ==
    /\ clock \in Time
    /\ status \in Status
    /\ wait \in [n: 1..MaxWaits, since: Time]
    /\ {owner, stirred, calm} \subseteq BOOLEAN
    /\ round \in [at: {"idle", "decide", "nudge", "hop", "tell", "done"}, status: Awaiting,
                  wait: {NoWait} \cup [n: 1..MaxWaits, since: Time],
                  owner: BOOLEAN, now: Time]
    /\ claimed \subseteq {"nudge", "autoclose"} \X (1..MaxWaits)
    /\ notices \subseteq FollowUp
    /\ told \in [FollowUp -> Nat]
    /\ closing \in [due: BOOLEAN, owned: BOOLEAN, stirred: BOOLEAN]
    /\ upsets \in 0..MaxUpsets

FollowUpsInit ==
    /\ clock \in DeliveredAt
    /\ status = "RESOLVED"
    /\ wait = [n |-> 1, since |-> clock]
    /\ owner = FALSE
    /\ round = NoRound
    /\ claimed = {}
    /\ notices = {}
    /\ told = [k \in FollowUp |-> 0]
    /\ closing = NoClosing
    /\ stirred = FALSE
    /\ upsets = 0
    /\ calm = TRUE

Upset == upsets < MaxUpsets /\ upsets' = upsets + 1 /\ calm' = FALSE
NextWait == [n |-> wait.n + 1, since |-> clock]
Waited(w, days, t) == AddBusinessDays(w.since, days) <= t
NextStep(where) == round' = [round EXCEPT !.at = where]

-----------------------------------------------------------------------------
(* runResolutionFollowUps.                                                 *)

\* Mutant: a ticket with a pending close question is not loaded.
LoadResolved ==
    /\ round.at = "idle"
    /\ round' = IF status = "RESOLVED"
                THEN [at |-> "decide", status |-> status, wait |-> wait,
                      owner |-> owner, now |-> clock]
                ELSE [NoRound EXCEPT !.at = "done"]
    /\ stirred' = FALSE
    /\ UNCHANGED <<clock, status, wait, owner, claimed, notices, told, closing, upsets, calm>>

LoadAwaiting ==
    /\ round.at = "idle"
    /\ round' = IF status \in Awaiting
                THEN [at |-> "decide", status |-> status, wait |-> wait,
                      owner |-> owner, now |-> clock]
                ELSE [NoRound EXCEPT !.at = "done"]
    /\ stirred' = FALSE
    /\ UNCHANGED <<clock, status, wait, owner, claimed, notices, told, closing, upsets, calm>>

\* Mutant: a thread a human owns is not left alone.
DecideForHumans ==
    LET kind == IF Waited(round.wait, CloseDays, round.now) THEN "autoclose" ELSE "nudge"
        key  == <<kind, round.wait.n>>
        due  == /\ Waited(round.wait, NudgeDays, round.now) \/ kind = "autoclose"
                /\ key \notin claimed
    IN  /\ round.at = "decide"
        /\ claimed' = IF due THEN claimed \cup {key} ELSE claimed
        /\ NextStep(CASE ~due -> "done" [] kind = "nudge" -> "nudge" [] OTHER -> "hop")
        /\ UNCHANGED <<clock, status, wait, owner, notices, told, closing, stirred, upsets, calm>>

\* The close comes before the nudge; neither while a human owned the thread
\* when the row was loaded, and neither when it is claimed.
Decide ==
    LET kind == IF Waited(round.wait, CloseDays, round.now) THEN "autoclose" ELSE "nudge"
        key  == <<kind, round.wait.n>>
        due  == /\ Waited(round.wait, NudgeDays, round.now) \/ kind = "autoclose"
                /\ ~round.owner /\ key \notin claimed
    IN  /\ round.at = "decide"
        /\ claimed' = IF due THEN claimed \cup {key} ELSE claimed
        /\ NextStep(CASE ~due -> "done" [] kind = "nudge" -> "nudge" [] OTHER -> "hop")
        /\ UNCHANGED <<clock, status, wait, owner, notices, told, closing, stirred, upsets, calm>>

\* Mutant: the notices sent are not looked at.
SendNoticeAgain(key) ==
    /\ notices' = notices \cup {key}
    /\ told' = [told EXCEPT ![key] = @ + 1]
    /\ NextStep("done")

\* CustomerNotificationService.send: nothing when the key is in the notices;
\* LINE may refuse the message, which leaves the row in place.
SendNotice(key) ==
    /\ notices' = notices \cup {key}
    /\ \/ key \notin notices /\ told' = [told EXCEPT ![key] = @ + 1]
       \/ UNCHANGED told
    /\ NextStep("done")

SendNudge ==
    /\ round.at = "nudge"
    /\ SendNotice(<<"resolution_nudge", round.wait.n>>)
    /\ UNCHANGED <<clock, status, wait, owner, claimed, closing, stirred, upsets, calm>>

\* The notice cannot be claimed: the slot is released.
NudgeThrows ==
    /\ round.at = "nudge"
    /\ Upset
    /\ claimed' = claimed \ {<<"nudge", round.wait.n>>}
    /\ NextStep("done")
    /\ UNCHANGED <<clock, status, wait, owner, notices, told, closing, stirred>>

\* One hop of the close through the state machine.  The second hop follows
\* at once; a hop the lifecycle rejects ends it with the claim in place.
Hop ==
    LET to == IF round.status = "RESOLVED" THEN "CUSTOMER_CONFIRMED" ELSE "CLOSED" IN
    /\ round.at = "hop"
    /\ IF CanTransition(status, to, "system")
       THEN /\ status' = to
            /\ wait.n < MaxWaits
            /\ wait' = NextWait
            /\ round' = [round EXCEPT !.at = IF to = "CLOSED" THEN "tell" ELSE "hop",
                                      !.status = "CUSTOMER_CONFIRMED",
                                      !.wait = IF to = "CLOSED" THEN NextWait ELSE @]
            /\ closing' = IF to # "CLOSED" THEN closing
                          ELSE [due |-> Waited(round.wait, CloseDays, clock),
                                owned |-> owner, stirred |-> stirred]
       ELSE NextStep("done") /\ UNCHANGED <<status, wait, closing>>
    /\ UNCHANGED <<clock, owner, claimed, notices, told, stirred, upsets, calm>>

\* A hop fails: the claim is finished as failed, not released.
HopThrows ==
    /\ round.at = "hop"
    /\ Upset
    /\ NextStep("done")
    /\ UNCHANGED <<clock, status, wait, owner, claimed, notices, told, closing, stirred>>

\* The notice of the close, under the key of the event that closed it.
TellClosed ==
    /\ round.at = "tell"
    /\ SendNotice(<<"auto_closed", round.wait.n>>)
    /\ UNCHANGED <<clock, status, wait, owner, claimed, closing, stirred, upsets, calm>>

PassDies ==
    /\ round.at \notin {"idle", "done"}
    /\ Upset
    /\ round' = NoRound
    /\ UNCHANGED <<clock, status, wait, owner, claimed, notices, told, closing, stirred>>

\* The next unit of time; a pass takes much less.
HourPasses ==
    /\ clock < Horizon
    /\ round.at \in {"idle", "done"}
    /\ clock' = clock + 1
    /\ calm' = (calm /\ round.at = "done")
    /\ round' = NoRound
    /\ UNCHANGED <<status, wait, owner, claimed, notices, told, closing, stirred, upsets>>

-----------------------------------------------------------------------------
(* Everybody else.                                                         *)

\* The customer answers, or engineering delivers again: a new wait.
Moves(actor, to) ==
    /\ CanTransition(status, to, actor)
    /\ wait.n < MaxWaits
    /\ status' = to
    /\ wait' = NextWait
    /\ stirred' = TRUE
    /\ UNCHANGED <<clock, owner, round, claimed, notices, told, closing, upsets, calm>>

CustomerAnswers == \E to \in {"CUSTOMER_CONFIRMED", "REOPENED", "RESOLVED"} : Moves("customer", to)
PlaneDelivers == Moves("plane", "RESOLVED")

TakenOver ==
    /\ owner' = ~owner
    /\ stirred' = TRUE
    /\ calm' = FALSE
    /\ UNCHANGED <<clock, status, wait, round, claimed, notices, told, closing, upsets>>

\* SLA console: a raw write of the status.
ConsoleCloses ==
    /\ status # "CLOSED"
    /\ wait.n < MaxWaits
    /\ status' = "CLOSED"
    /\ wait' = NextWait
    /\ stirred' = TRUE
    /\ UNCHANGED <<clock, owner, round, claimed, notices, told, closing, upsets, calm>>

\* SLA console: the ticket's claims are deleted, its progress reports too,
\* but not the other notices.
ConsoleResets ==
    /\ claimed # {}
    /\ Upset
    /\ claimed' = {}
    /\ UNCHANGED <<clock, status, wait, owner, round, notices, told, closing, stirred>>

FollowUpsNext ==
    \/ LoadAwaiting \/ Decide \/ SendNudge \/ NudgeThrows
    \/ Hop \/ HopThrows \/ TellClosed \/ PassDies \/ HourPasses
    \/ CustomerAnswers \/ PlaneDelivers \/ TakenOver
    \/ ConsoleCloses \/ ConsoleResets

FollowUpsSpec == FollowUpsInit /\ [][FollowUpsNext]_followUpVars

-----------------------------------------------------------------------------
\* "One LINE nudge": a wait is nudged once at most, and a close is told once,
\* also when the slot is released, the pass dies or the console deletes the
\* ticket's claims.
OneNudgePerWait == \A k \in FollowUp : told[k] <= 1

\* A ticket nobody touched since the pass read it is closed only after
\* CloseDays business days of waiting, and never over a human.  (When
\* somebody did touch it, the pass still acts on the row it read.)
ClosesOnlySilence == ~closing.stirred => closing.due /\ ~closing.owned

\* The promise made in the nudge: with a pass in every unit of time and
\* nothing upset, no ticket waits longer than CloseDays.
SilentTicketsEnd ==
    calm /\ status \in Awaiting => ~Waited(wait, CloseDays, clock - 1)
=============================================================================
