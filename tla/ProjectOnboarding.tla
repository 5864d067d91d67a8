--------------------------- MODULE ProjectOnboarding ---------------------------
(***************************************************************************)
(* LineProjectOnboardingService.ts: how a LINE customer is joined to the   *)
(* projects of one organisation, and which of their messages reach the AI. *)
(*                                                                         *)
(* Each event is one transaction: it finds the conversation the customer   *)
(* is ready to use, locks the onboarding session when there is a row to    *)
(* lock, decides from the snapshots it then takes, and commits.  Several   *)
(* events, and an administrator who resolves the customer's request, may   *)
(* be between those steps at the same time.                                *)
(***************************************************************************)
EXTENDS Integers, FiniteSets

CONSTANTS
    Project,        \* projects of the organisation
    Enabled,        \* those with an enabled LINE channel
    NoProject,
    Code,           \* join codes the customer may type
    ProjectOf,      \* the project a code belongs to
    Smart,          \* whether a new follower is joined to the only project
    Tx,             \* events handled at the same time
    MaxEvents,      \* bound: events of the customer
    MaxChanges      \* bound: administrators' changes and failures

ASSUME OnboardingAssumption ==
    /\ Enabled \subseteq Project /\ NoProject \notin Project
    /\ ProjectOf \in [Code -> Project]
    /\ IsFiniteSet(Tx) /\ "nobody" \notin Tx
    /\ {MaxEvents, MaxChanges} \subseteq Nat

VARIABLES
    session,        \* line_onboarding_sessions
    rowLock,        \* who holds its row
    known,          \* an identity exists
    enrolled,       \* profile_projects
    open,           \* open conversations of each project
    requests,       \* pending line_onboarding_requests
    activeCodes,    \* project_join_codes with status active
    tx,             \* the transactions in progress
    resolving,      \* the administrator's one
    events,         \* events so far
    changes,        \* changes and failures so far
    unlocked        \* ghost: writes decided without the row's lock

onboardingVars == <<session, rowLock, known, enrolled, open, requests, activeCodes, tx,
                    resolving, events, changes, unlocked>>

facts == <<known, enrolled, open, requests, activeCodes>>

Pending == {"AWAITING_CHOICE", "AWAITING_CODE", "AWAITING_PROJECT_DETAILS", "PENDING_HUMAN"}
NoSession == [state |-> "none", selected |-> NoProject, expired |-> FALSE]
Somebody == Tx \cup {"administrator", "nobody"}

\* What the customer sends: the commands and texts of a message, and the
\* buttons.  The menu's report, status, close and start entries do the same
\* here; so do its connect and change entries and the pages.
Input ==
    ({"relink", "text", "follow", "menu", "browse", "connect new", "has code", "no code"}
        \X {NoProject})
    \cup ({"switch"} \X Project) \cup ({"code"} \X Code)
Message == {"relink", "text", "code"}

\* What a transaction has decided to write.
NoPlan == [state |-> "keep", selected |-> NoProject, join |-> NoProject,
           opens |-> FALSE, creates |-> FALSE, asks |-> FALSE]
NoTx == [at |-> "idle", input |-> <<"text", NoProject>>, ready |-> NoProject,
         seen |-> NoSession, locked |-> FALSE, plan |-> NoPlan]

OnboardingTypeOK ==
    /\ session.state \in Pending \cup {"none", "COMPLETED"}
    /\ session.selected \in Project \cup {NoProject} /\ session.expired \in BOOLEAN
    /\ session.state = "COMPLETED" => session.selected # NoProject
    /\ rowLock \in Somebody /\ (rowLock # "nobody" => session # NoSession)
    /\ known \in BOOLEAN /\ enrolled \subseteq Project /\ (enrolled # {} => known)
    /\ open \in [Project -> Nat] /\ \A p \in Project : open[p] > 0 => known
    /\ requests \in Nat /\ activeCodes \subseteq Code
    /\ \A h \in Tx : tx[h].at \in {"idle", "session", "decide", "commit"}
    /\ events \in 0..MaxEvents /\ changes \in 0..MaxChanges

OnboardingInit ==
    /\ session \in {NoSession, [NoSession EXCEPT !.state = "AWAITING_PROJECT_DETAILS"]}
    /\ rowLock = "nobody"
    /\ known \in BOOLEAN
    /\ enrolled \in (IF known THEN SUBSET Project ELSE {{}})
    /\ open = [p \in Project |-> 0]
    /\ requests = 0
    /\ activeCodes \in SUBSET Code
    /\ \A c, d \in activeCodes : ProjectOf[c] = ProjectOf[d] => c = d
    /\ tx = [h \in Tx |-> NoTx] /\ resolving = NoPlan
    /\ events = 0 /\ changes = 0
    /\ unlocked = [p \in Project \cup {NoProject} |-> 0]

-----------------------------------------------------------------------------
(* What a transaction reads.                                               *)

Change == changes < MaxChanges /\ changes' = changes + 1

\* findReadyConversation: in the selected project, or without one in any.
ReadyIn ==
    LET where == IF session.selected # NoProject THEN {session.selected} ELSE Enabled
        found == {p \in where : open[p] > 0}
    IN  IF found = {} THEN {NoProject} ELSE found

BeginTx(h, input) ==
    /\ tx[h].at = "idle" /\ events < MaxEvents
    /\ events' = events + 1
    /\ \E p \in ReadyIn :
         tx' = [tx EXCEPT ![h] = [NoTx EXCEPT !.at = "session", !.input = input, !.ready = p]]
    /\ UNCHANGED <<session, rowLock, facts, resolving, changes, unlocked>>

\* Mutant: the row is read without FOR UPDATE.
GetSessionUnlocked(h) ==
    /\ tx[h].at = "session"
    /\ rowLock = "nobody"
    /\ tx' = [tx EXCEPT ![h] = [@ EXCEPT !.at = "decide", !.seen = session,
                                          !.locked = session # NoSession]]
    /\ UNCHANGED <<session, rowLock, facts, resolving, events, changes, unlocked>>

\* SELECT ... FOR UPDATE; without a row there is nothing to lock.
GetSession(h) ==
    /\ tx[h].at = "session"
    /\ rowLock = "nobody"
    /\ rowLock' = IF session = NoSession THEN "nobody" ELSE h
    /\ tx' = [tx EXCEPT ![h] = [@ EXCEPT !.at = "decide", !.seen = session,
                                          !.locked = session # NoSession]]
    /\ UNCHANGED <<session, facts, resolving, events, changes, unlocked>>

\* findAvailableProjects, and resolveCurrentProjectId.
Available == enrolled \cap Enabled
Current(seen, ready) ==
    CASE seen.selected \in Available -> seen.selected
      [] seen.selected \notin Available /\ ready \in Available -> ready
      [] OTHER -> IF Cardinality(Available) = 1 THEN CHOOSE p \in Available : TRUE ELSE NoProject

-----------------------------------------------------------------------------
(* What it decides.                                                        *)

Set(state) == [NoPlan EXCEPT !.state = state]

\* provisionProject and completeSession.
Complete(joined, selected) ==
    [NoPlan EXCEPT !.state = "COMPLETED", !.selected = selected, !.join = joined,
                   !.opens = open[joined] = 0, !.creates = ~known]

\* Entries that need a project.
OrChoice(plan) == IF Available = {} THEN Set("AWAITING_CHOICE") ELSE plan

\* Mutant: the pending request is not looked for.
PostbackAnew(t, seen) ==
    CASE t.input[1] = "switch" ->
           OrChoice(IF t.input[2] \in Available THEN Complete(t.input[2], t.input[2]) ELSE NoPlan)
      [] t.input[1] = "no code" -> Set("AWAITING_PROJECT_DETAILS")
      [] OTHER -> NoPlan

Postback(t, seen) ==
    CASE t.input[1] = "switch" ->
           OrChoice(IF t.input[2] \in Available THEN Complete(t.input[2], t.input[2]) ELSE NoPlan)
      [] t.input[1] = "menu" ->
           LET p == Current(seen, t.ready)
           IN  OrChoice(IF p # NoProject THEN Complete(p, p) ELSE NoPlan)
      [] t.input[1] = "browse" -> OrChoice(NoPlan)
      [] t.input[1] = "connect new" -> Set("AWAITING_CHOICE")
      [] t.input[1] = "has code" -> Set("AWAITING_CODE")
      [] t.input[1] = "no code" ->
           Set(IF requests > 0 THEN "PENDING_HUMAN" ELSE "AWAITING_PROJECT_DETAILS")

\* A valid code joins its project; a customer who already uses another one
\* keeps it until the change is confirmed.
ValidateCode(t, seen) ==
    IF t.input[1] # "code" \/ t.input[2] \notin {c \in activeCodes : ProjectOf[c] \in Enabled}
    THEN Set("AWAITING_CODE")
    ELSE LET p == ProjectOf[t.input[2]]
             now == Current(seen, t.ready)
         IN  Complete(p, IF now # NoProject THEN now ELSE p)

Answer(t, seen) ==
    CASE seen = NoSession \/ seen.expired -> Set("AWAITING_CHOICE")
      [] ~seen.expired /\ seen.state = "AWAITING_CHOICE" ->
           IF t.input[1] = "code" THEN ValidateCode(t, seen) ELSE NoPlan
      [] ~seen.expired /\ seen.state = "AWAITING_CODE" -> ValidateCode(t, seen)
      [] ~seen.expired /\ seen.state = "AWAITING_PROJECT_DETAILS" ->
           [Set("PENDING_HUMAN") EXCEPT !.asks = TRUE]
      [] OTHER -> NoPlan

\* A message of a customer who is ready goes to the AI; the first one is
\* what makes the session.
Pass(t, seen) ==
    IF seen = NoSession THEN [Set("COMPLETED") EXCEPT !.selected = t.ready] ELSE NoPlan

Follow ==
    IF Smart /\ Cardinality(Enabled) = 1
    THEN LET p == CHOOSE q \in Enabled : TRUE IN Complete(p, p)
    ELSE Set("AWAITING_CHOICE")

Decided(t) ==
    CASE t.input[1] = "relink" -> Set("AWAITING_CHOICE")
      [] t.input[1] = "follow" -> IF t.ready # NoProject THEN NoPlan ELSE Follow
      [] t.input[1] \in {"text", "code"} ->
           IF t.ready # NoProject /\ t.seen.state \notin Pending
           THEN Pass(t, t.seen) ELSE Answer(t, t.seen)
      [] OTHER -> Postback(t, t.seen)

ProcessClaimedEvent(h) ==
    LET plan == Decided(tx[h])
    IN  /\ tx[h].at = "decide"
        /\ tx' = [tx EXCEPT ![h] = [@ EXCEPT !.at = "commit", !.plan = plan]]
        /\ unlocked' = IF tx[h].locked \/ plan.state = "keep" THEN unlocked
                       ELSE [unlocked EXCEPT ![plan.join] = @ + 1]
        /\ UNCHANGED <<session, rowLock, facts, resolving, events, changes>>

-----------------------------------------------------------------------------
(* What it writes.                                                         *)

\* upsertSession keeps the selection.  recordDmActivity inserts and leaves a
\* session that has appeared meanwhile as it is.
Written(h) ==
    LET plan == tx[h].plan IN
    IF plan.state = "keep" THEN session
    ELSE IF plan.state = "COMPLETED" /\ plan.join = NoProject /\ session # NoSession THEN session
    ELSE [state |-> plan.state, expired |-> FALSE,
          selected |-> IF plan.state = "COMPLETED" THEN plan.selected ELSE session.selected]

Provision(plan) ==
    /\ known' = (known \/ plan.join # NoProject)
    /\ enrolled' = enrolled \cup ({plan.join} \ {NoProject})
    /\ open' = [p \in Project |-> open[p] + (IF p = plan.join /\ plan.opens THEN 1 ELSE 0)]

\* Two transactions may not both create the identity: the later one's
\* provisioning returns nothing, and it throws.
Clashes(plan) == plan.join # NoProject /\ plan.creates /\ known

Unlock(h) == rowLock' = IF rowLock = h THEN "nobody" ELSE rowLock

CommitTx(h) ==
    /\ tx[h].at = "commit"
    /\ rowLock \in {h, "nobody"} \/ tx[h].plan.state = "keep"
    /\ ~Clashes(tx[h].plan)
    /\ session' = Written(h)
    /\ Provision(tx[h].plan)
    /\ requests' = requests + (IF tx[h].plan.asks THEN 1 ELSE 0)
    /\ tx' = [tx EXCEPT ![h] = NoTx]
    /\ Unlock(h)
    /\ UNCHANGED <<activeCodes, resolving, events, changes, unlocked>>

RollBack(h) ==
    /\ tx[h].at # "idle"
    /\ \/ tx[h].at = "commit" /\ Clashes(tx[h].plan) /\ UNCHANGED changes
       \/ Change
    /\ tx' = [tx EXCEPT ![h] = NoTx]
    /\ Unlock(h)
    /\ UNCHANGED <<session, facts, resolving, events, unlocked>>

-----------------------------------------------------------------------------
(* Administrators, and time.                                               *)

\* resolveManualRequest locks the request, and provisions without the
\* session's lock.
ResolveRequest(p) ==
    /\ resolving = NoPlan /\ requests > 0 /\ p \in Enabled /\ Change
    /\ resolving' = Complete(p, p)
    /\ unlocked' = [unlocked EXCEPT ![p] = @ + 1]
    /\ UNCHANGED <<session, rowLock, facts, tx, events>>

ResolveEnds ==
    /\ resolving # NoPlan
    /\ rowLock = "nobody"
    /\ resolving' = NoPlan
    /\ IF Clashes(resolving) THEN UNCHANGED <<session, known, enrolled, open, requests>>
       ELSE /\ Provision(resolving)
            /\ requests' = requests - 1
            /\ session' = IF session = NoSession THEN NoSession
                          ELSE [state |-> "COMPLETED", selected |-> resolving.selected,
                                expired |-> FALSE]
    /\ UNCHANGED <<rowLock, activeCodes, tx, events, changes, unlocked>>

\* rejectManualRequest waits for a request that is being resolved, and then
\* finds it no longer pending.
Reject ==
    /\ Change
    /\ requests > IF resolving # NoPlan THEN 1 ELSE 0
    /\ requests' = requests - 1
    /\ UNCHANGED <<session, rowLock, known, enrolled, open, activeCodes, tx, resolving,
                   events, unlocked>>

\* rotateJoinCode and restoreJoinCode, under the project's advisory lock.
GiveCode(c) ==
    /\ Change
    /\ activeCodes' = {d \in activeCodes : ProjectOf[d] # ProjectOf[c]} \cup {c}
    /\ UNCHANGED <<session, rowLock, known, enrolled, open, requests, tx, resolving,
                   events, unlocked>>

RevokeJoinCode(p) ==
    /\ Change
    /\ activeCodes' = {d \in activeCodes : ProjectOf[d] # p}
    /\ UNCHANGED <<session, rowLock, known, enrolled, open, requests, tx, resolving,
                   events, unlocked>>

SessionExpires ==
    /\ Change
    /\ session.state \in Pending /\ rowLock = "nobody"
    /\ session' = [session EXCEPT !.expired = TRUE]
    /\ UNCHANGED <<rowLock, facts, tx, resolving, events, unlocked>>

OnboardingNext ==
    \/ \E h \in Tx :
         \/ \E input \in Input : BeginTx(h, input)
         \/ GetSession(h) \/ ProcessClaimedEvent(h) \/ CommitTx(h) \/ RollBack(h)
    \/ \E p \in Project : ResolveRequest(p) \/ RevokeJoinCode(p)
    \/ ResolveEnds \/ Reject \/ SessionExpires
    \/ \E c \in Code : GiveCode(c)

OnboardingSpec == OnboardingInit /\ [][OnboardingNext]_onboardingVars

-----------------------------------------------------------------------------
\* A customer has one open conversation in a project, however their taps,
\* codes and texts overlap: a further one is owed to a provisioning that had
\* no session row to lock, or to an administrator's, which does not lock it.
OneConversation == \A p \in Project : open[p] <= 1 + unlocked[p]

\* A customer has one request waiting for an administrator, whichever way
\* they leave the queue and come back; a further one is owed to an event
\* that found no session row to lock.
OnePendingRequest == requests <= 1 + unlocked[NoProject]

\* What onboarding makes for a customer it makes once.
OnboardedOnce == OneConversation /\ OnePendingRequest
=============================================================================
