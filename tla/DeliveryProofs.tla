----------------------------- MODULE DeliveryProofs -----------------------------
(***************************************************************************)
(* Theorems of HumanTakeover, for any operators, lifetimes and number of   *)
(* operations; and of MCDelivery: what is proved of its five modules holds *)
(* of them side by side, for all values of their constants.                *)
(***************************************************************************)
EXTENDS MCDelivery, OutboxDeliveryProofs, JobProofs, AgentTurnsProofs, SequenceTheorems

-----------------------------------------------------------------------------
(* HumanTakeover: leases never outlast their session.                      *)

Quiet == {"only if held", "mark", "push", "save", "get", "set", "delete",
          "look", "unless ai", "return", "gate", "answer"}
Step == Quiet \cup {"claim if free"}

\* A lease that is held, or computed and not yet written.
Grant == {l \in {NoLease} \cup Lease : l.left <= l.cap}

\* An operation's way is short, and only a reply that has not begun may grow.
Way(way) ==
    \/ way \in Seq(Quiet) /\ Len(way) <= 8
    \/ way \in Seq(Step) /\ way # <<>> /\ Tail(way) \in Seq(Quiet) /\ Len(way) <= 6

OpRecord == [kind: {"none"} \cup DOMAIN Steps, todo: {w \in Seq(Step) : Way(w)}, new: Grant,
           saw: {"ai", "human"}]
Task == {t \in OpRecord : t.todo = <<>> => t = NoOp}

\* A session that runs, and one about to be prolonged: from its beginning to
\* the end it may reach there are at most MaxSession units.
SessionInv ==
    /\ activeFor \in Nat /\ (~Active(lease) => activeFor = 0)
    /\ Active(lease) =>
         /\ activeFor + lease.cap <= MaxSession
         /\ \A o \in Op : Active(task[o].new) => activeFor + task[o].new.cap <= MaxSession

TakeoverInv ==
    /\ lease \in Grant
    /\ handledBy \in {"ai", "human"} /\ idleFor \in 0..IdleLimit
    /\ task \in [Op -> Task]
    /\ begun \in 0..MaxOps /\ cuts \in 0..MaxCuts
    /\ SessionInv

LEMMA GrantFields ==
  ASSUME NEW l \in Grant
  PROVE  /\ l.left \in 0..MaxSession /\ l.cap \in 0..MaxSession /\ l.left <= l.cap
         /\ l.status \in {"ACTIVE_AI", "PENDING_HUMAN", "ACTIVE_HUMAN"}
<1>1. MaxSession \in Nat /\ 0 \in 0..MaxSession
  BY TakeoverAssumption
<1>2. CASE l = NoLease
  BY <1>1, <1>2 DEF NoLease
<1>3. CASE l \in Lease
  BY <1>3 DEF Grant, Lease
<1> QED
  BY <1>2, <1>3 DEF Grant

LEMMA QuietSteps == \A w \in Seq(Quiet) : w \in Seq(Step)
<1> SUFFICES ASSUME NEW w \in Seq(Quiet)
             PROVE  w \in Seq(Step)
  OBVIOUS
<1>1. Len(w) \in Nat /\ w \in [1..Len(w) -> Quiet]
  BY LenProperties
<1>2. w \in [1..Len(w) -> Step]
  BY <1>1 DEF Step
<1> QED
  BY <1>1, <1>2, SeqDef

LEMMA WayNone == Way(<<>>) /\ <<>> \in Seq(Step)
BY DEF Way

LEMMA Shorter ==
  ASSUME NEW n \in Nat, NEW m, m = n - 1, NEW k \in Nat, n <= k,
         NEW j, k = j + 1, j \in Nat
  PROVE  m <= j
OBVIOUS

LEMMA WayTail ==
  ASSUME NEW way, Way(way), way # <<>>
  PROVE  /\ Tail(way) \in Seq(Quiet) /\ Len(Tail(way)) <= 7
         /\ Head(way) = "claim if free" => Len(Tail(way)) <= 5
<1>1. CASE way \in Seq(Quiet) /\ Len(way) <= 8
  <2>1. /\ Head(way) \in Quiet /\ Tail(way) \in Seq(Quiet)
        /\ Len(Tail(way)) = Len(way) - 1 /\ Len(way) \in Nat
    BY <1>1, HeadTailProperties, LenProperties
  <2>2. Head(way) # "claim if free"
    BY <2>1 DEF Quiet
  <2>3. Len(Tail(way)) <= 7
    BY <1>1, <2>1, Shorter
  <2> QED
    BY <2>1, <2>2, <2>3, Zenon
<1>2. CASE way \in Seq(Step) /\ Tail(way) \in Seq(Quiet) /\ Len(way) <= 6
  <2>1. Len(Tail(way)) = Len(way) - 1 /\ Len(way) \in Nat
    BY <1>2, HeadTailProperties, LenProperties
  <2>2. Len(Tail(way)) <= 5
    BY <1>2, <2>1, Shorter
  <2>3. Len(way) <= 8
    BY <1>2, <2>1
  <2>4. Len(Tail(way)) <= 7
    BY <2>1, <2>3, Shorter
  <2> QED
    BY <1>2, <2>2, <2>4, Zenon
<1> QED
  BY <1>1, <1>2 DEF Way

\* A way with some steps put before its tail.
LEMMA WayLonger ==
  ASSUME NEW more \in Seq(Quiet), NEW rest \in Seq(Quiet), Len(more) + Len(rest) <= 8
  PROVE  Way(more \o rest) /\ more \o rest \in Seq(Step)
<1>1. /\ more \o rest \in Seq(Quiet) /\ Len(more \o rest) = Len(more) + Len(rest)
  BY ConcatProperties
<1> QED
  BY <1>1, QuietSteps DEF Way

LEMMA WaysBegin ==
  /\ \A kind \in DOMAIN Steps : Way(Steps[kind]) /\ Steps[kind] \in Seq(Step)
                             /\ Steps[kind] # <<>>
  /\ Way(EscalateSteps) /\ EscalateSteps \in Seq(Step) /\ "escalate" \in DOMAIN Steps
  /\ Way(MonitorSteps) /\ MonitorSteps \in Seq(Step) /\ "monitor" \in DOMAIN Steps
<1>1. /\ TakeoverSteps \in Seq(Quiet) /\ Len(TakeoverSteps) <= 8 /\ TakeoverSteps # <<>>
      /\ InternalReplySteps \in Seq(Quiet) /\ Len(InternalReplySteps) <= 8 /\ InternalReplySteps # <<>>
      /\ ImageSteps \in Seq(Quiet) /\ Len(ImageSteps) <= 8 /\ ImageSteps # <<>>
  BY DEF Quiet, TakeoverSteps, Claim, InternalReplySteps, ImageSteps
<1>2. /\ EscalateSteps \in Seq(Quiet) /\ Len(EscalateSteps) <= 8 /\ EscalateSteps # <<>>
      /\ ReleaseSteps \in Seq(Quiet) /\ Len(ReleaseSteps) <= 8 /\ ReleaseSteps # <<>>
      /\ MessageSteps \in Seq(Quiet) /\ Len(MessageSteps) <= 8 /\ MessageSteps # <<>>
      /\ ListSteps \in Seq(Quiet) /\ Len(ListSteps) <= 8 /\ ListSteps # <<>>
      /\ MonitorSteps \in Seq(Quiet) /\ Len(MonitorSteps) <= 8 /\ MonitorSteps # <<>>
  BY DEF Quiet, EscalateSteps, ReleaseSteps, MessageSteps, ListSteps, MonitorSteps
<1>3. /\ ReplySteps \in Seq(Step) /\ ReplySteps # <<>> /\ Len(ReplySteps) <= 6
      /\ Tail(ReplySteps) \in Seq(Quiet)
  BY DEF Quiet, Step, ReplySteps
<1>4. /\ DOMAIN Steps = {"takeover", "reply", "internal", "image", "escalate", "release",
                         "message", "list", "monitor"}
      /\ Steps["takeover"] = TakeoverSteps /\ Steps["reply"] = ReplySteps
      /\ Steps["internal"] = InternalReplySteps /\ Steps["image"] = ImageSteps
      /\ Steps["escalate"] = EscalateSteps /\ Steps["release"] = ReleaseSteps
      /\ Steps["message"] = MessageSteps /\ Steps["list"] = ListSteps
      /\ Steps["monitor"] = MonitorSteps
  BY DEF Steps
<1> QED
  BY <1>1, <1>2, <1>3, <1>4, QuietSteps DEF Way

LEMMA GrantNone == NoLease \in Grant
BY DEF Grant, NoLease

LEMMA GrantAged ==
  ASSUME NEW l \in Grant
  PROVE  /\ Aged(l) \in Grant
         /\ Active(Aged(l)) => Active(l) /\ Aged(l).cap = l.cap - 1
<1>1. CASE l.left = 0
  BY <1>1, GrantNone DEF Aged, Active, NoLease
<1>2. CASE l.left # 0
  <2>1. l \in Lease /\ l.left <= l.cap
    BY <1>2 DEF Grant, NoLease
  <2>2. MaxSession \in Nat
    BY TakeoverAssumption
  <2>3. Aged(l) = [l EXCEPT !.left = l.left - 1, !.cap = l.cap - 1]
    BY <1>2 DEF Aged
  <2>4. l.cap \in 1..MaxSession /\ l.left \in 1..MaxSession
    BY <1>2, <2>1, <2>2 DEF Lease
  <2>5. l.left - 1 \in 0..MaxSession /\ l.cap - 1 \in 0..MaxSession
    BY <2>2, <2>4
  <2>6. /\ Aged(l) \in Lease /\ Aged(l).left = l.left - 1 /\ Aged(l).cap = l.cap - 1
        /\ Aged(l).status = l.status
    BY <2>1, <2>3, <2>5 DEF Lease
  <2> QED
    BY <2>1, <2>4, <2>6 DEF Grant, Active
<1> QED
  BY <1>1, <1>2

\* The lease that is computed next continues a human's session to its end, or
\* begins a new one.
LEMMA GrantNew ==
  ASSUME lease \in Grant, NEW kind
  PROVE  /\ NewLease(kind) \in Grant
         /\ Active(NewLease(kind)) /\ Active(lease) => NewLease(kind).cap = lease.cap
<1> DEFINE stat == IF kind = "escalate" THEN "PENDING_HUMAN" ELSE "ACTIVE_HUMAN"
           for == CASE kind = "escalate" -> PendingFor
                    [] kind = "image" -> ImageFor
                    [] OTHER -> ActiveFor
           cap == IF stat = "ACTIVE_HUMAN" /\ Active(lease) THEN lease.cap ELSE MaxSession
<1>1. NewLease(kind) = [status |-> stat, left |-> Least(for, cap), cap |-> cap]
  BY DEF NewLease
<1>2. for \in Nat /\ MaxSession \in Nat
  <2>1. for \in {PendingFor, ImageFor, ActiveFor}
    OBVIOUS
  <2> QED
    BY <2>1, TakeoverAssumption
<1>3. cap \in 0..MaxSession
  BY <1>2, GrantFields
<1>4. /\ stat \in {"PENDING_HUMAN", "ACTIVE_HUMAN"}
      /\ stat = "ACTIVE_HUMAN" /\ Active(lease) => cap = lease.cap
  OBVIOUS
<1> HIDE DEF stat, for, cap
<1>5. Least(for, cap) \in 0..MaxSession /\ Least(for, cap) <= cap
  BY <1>2, <1>3 DEF Least
<1> QED
  BY <1>1, <1>3, <1>4, <1>5 DEF Grant, Lease, Active

LEMMA TaskNone == NoOp \in Task
<1>1. <<>> \in {w \in Seq(Step) : Way(w)}
  BY WayNone
<1> QED
  BY <1>1, GrantNone DEF NoOp, OpRecord, Task

LEMMA TaskWay ==
  ASSUME NEW t \in Task
  PROVE  t.todo \in Seq(Step) /\ Way(t.todo) /\ t.new \in Grant /\ t \in OpRecord
BY DEF Task, OpRecord

\* An operation goes on: with the way that is left, and its record changed.
LEMMA ThenStep ==
  ASSUME task \in [Op -> Task], NEW o \in Op, NEW way \in Seq(Step), Way(way),
         NEW change \in OpRecord, Then(o, way, change)
  PROVE  /\ task' \in [Op -> Task]
         /\ \A p \in Op \ {o} : task'[p] = task[p]
         /\ task'[o].new \in {NoLease, change.new}
<1>1. /\ [change EXCEPT !.todo = way] \in OpRecord
      /\ [change EXCEPT !.todo = way].new = change.new
      /\ [change EXCEPT !.todo = way].todo = way
  BY DEF OpRecord
<1>2. PICK k \in Task : k.new \in {NoLease, change.new} /\ task' = [task EXCEPT ![o] = k]
  BY <1>1, TaskNone DEF Then, NoOp, Task
<1> QED
  BY <1>2

\* A step that leaves the lease alone, and at most forgets what it computed.
LEMMA KeepsSession ==
  ASSUME SessionInv, UNCHANGED <<lease, activeFor>>,
         \A p \in Op : task'[p].new \in {NoLease, task[p].new}
  PROVE  SessionInv'
<1>1. \A p \in Op : Active(task'[p].new) => task'[p].new = task[p].new
  BY DEF Active, NoLease
<1> QED
  BY <1>1 DEF SessionInv, Active

LEMMA ShortWays ==
  /\ <<"return">> \in Seq(Quiet) /\ Len(<<"return">>) = 1
  /\ Claim \in Seq(Quiet) /\ Len(Claim) = 3
<1>1. <<"return">> \in Seq(Quiet)
  BY DEF Quiet
<1>2. Len(<<"return">>) = 1
  OBVIOUS
<1>3. Claim = <<"mark", "get", "set">>
  BY DEF Claim
<1>4. Claim \in Seq(Quiet)
  BY <1>3 DEF Quiet
<1>5. Len(<<"mark", "get", "set">>) = 3
  OBVIOUS
<1> QED
  BY <1>1, <1>2, <1>3, <1>4, <1>5

LEMMA Fits ==
  ASSUME NEW a, NEW b \in Nat, (a = 3 /\ b <= 5) \/ (a = 1 /\ b <= 7)
  PROVE  a + b <= 8
OBVIOUS

LEMMA UpToFive == \A n \in Nat : n <= 5 => 3 + n <= 8
OBVIOUS

LEMMA ClaimFits ==
  ASSUME NEW way, Way(way), way # <<>>, Head(way) = "claim if free"
  PROVE  Len(Claim) + Len(Tail(way)) <= 8
<1>1. Len(Tail(way)) <= 5 /\ Len(Tail(way)) \in Nat
  BY WayTail, LenProperties
<1>2. 3 + Len(Tail(way)) <= 8
  BY <1>1, UpToFive
<1>3. Len(Claim) = 3
  BY ShortWays
<1> QED
  BY <1>2, <1>3, Zenon

\* An operation that takes its next step has one.
LEMMA DoingHasStep ==
  ASSUME TakeoverInv, NEW o \in Op, NEW step, Doing(o, step)
  PROVE  /\ task[o].todo # <<>> /\ task[o] \in Task /\ task[o] \in OpRecord
         /\ Way(Tail(task[o].todo)) /\ Tail(task[o].todo) \in Seq(Quiet)
         /\ Tail(task[o].todo) \in Seq(Step)
<1>1. task[o] \in Task /\ task[o] # NoOp
  BY DEF TakeoverInv, Doing, Free
<1>2. task[o].todo # <<>> /\ task[o] \in OpRecord /\ Way(task[o].todo)
  BY <1>1 DEF Task, OpRecord
<1>3. Tail(task[o].todo) \in Seq(Quiet) /\ Len(Tail(task[o].todo)) <= 7
  BY <1>2, WayTail
<1> QED
  BY <1>1, <1>2, <1>3, LenProperties, QuietSteps DEF Way

\* What a step of an operation does to its record.
LEMMA StepGoes ==
  ASSUME TakeoverInv, NEW o \in Op, NEW step, Doing(o, step),
         \/ Next1(o)
         \/ Then(o, <<>>, task[o])
         \/ \E saw \in {"ai", "human"} :
              Then(o, Tail(task[o].todo), [task[o] EXCEPT !.saw = saw])
         \/ Then(o, EscalateSteps, [task[o] EXCEPT !.kind = "escalate"])
         \/ Then(o, <<"return">> \o Tail(task[o].todo), task[o]) /\ step = "gate"
         \/ Then(o, Claim \o Tail(task[o].todo), task[o]) /\ step = "claim if free"
  PROVE  /\ task' \in [Op -> Task]
         /\ \A p \in Op : task'[p].new \in {NoLease, task[p].new}
<1>1. /\ task \in [Op -> Task] /\ task[o].todo # <<>> /\ task[o] \in OpRecord
      /\ Way(Tail(task[o].todo)) /\ Tail(task[o].todo) \in Seq(Step)
      /\ Tail(task[o].todo) \in Seq(Quiet)
  BY DoingHasStep DEF TakeoverInv
<1>2. ASSUME NEW way \in Seq(Step), Way(way), NEW change \in OpRecord,
             change.new = task[o].new, Then(o, way, change)
      PROVE  /\ task' \in [Op -> Task]
             /\ \A p \in Op : task'[p].new \in {NoLease, task[p].new}
  <2>1. /\ task' \in [Op -> Task]
        /\ \A p \in Op \ {o} : task'[p] = task[p]
        /\ task'[o].new \in {NoLease, change.new}
    BY <1>1, <1>2, ThenStep
  <2> QED
    BY <1>2, <2>1
<1>3. CASE Next1(o)
  BY <1>1, <1>2, <1>3 DEF Next1
<1>4. CASE Then(o, <<>>, task[o])
  BY <1>1, <1>2, <1>4, WayNone
<1>5. ASSUME NEW saw \in {"ai", "human"}, 
             Then(o, Tail(task[o].todo), [task[o] EXCEPT !.saw = saw])
      PROVE  /\ task' \in [Op -> Task]
             /\ \A p \in Op : task'[p].new \in {NoLease, task[p].new}
  <2>1. [task[o] EXCEPT !.saw = saw] \in OpRecord
        /\ [task[o] EXCEPT !.saw = saw].new = task[o].new
    BY <1>1 DEF OpRecord
  <2> QED
    BY <1>1, <1>2, <1>5, <2>1
<1>6. CASE Then(o, EscalateSteps, [task[o] EXCEPT !.kind = "escalate"])
  <2>1. [task[o] EXCEPT !.kind = "escalate"] \in OpRecord
        /\ [task[o] EXCEPT !.kind = "escalate"].new = task[o].new
    BY <1>1, WaysBegin DEF OpRecord
  <2> QED
    BY <1>1, <1>2, <1>6, <2>1, WaysBegin
<1>7. CASE Then(o, <<"return">> \o Tail(task[o].todo), task[o]) /\ step = "gate"
  <2>1. Len(Tail(task[o].todo)) <= 7 /\ Len(Tail(task[o].todo)) \in Nat
    BY <1>1, WayTail, TaskWay, LenProperties DEF OpRecord
  <2>2. Len(<<"return">>) + Len(Tail(task[o].todo)) <= 8
    BY <2>1, ShortWays, Fits
  <2>4. /\ Way(<<"return">> \o Tail(task[o].todo))
        /\ <<"return">> \o Tail(task[o].todo) \in Seq(Step)
    BY <1>1, <2>2, ShortWays, WayLonger
  <2> QED
    BY <1>1, <1>2, <1>7, <2>4
<1>8. CASE Then(o, Claim \o Tail(task[o].todo), task[o]) /\ step = "claim if free"
  <2>2. Len(Claim) + Len(Tail(task[o].todo)) <= 8
    <3>1. Head(task[o].todo) = "claim if free" /\ Way(task[o].todo)
      BY <1>1, <1>8 DEF Doing, OpRecord
    <3> QED
      BY <1>1, <3>1, ClaimFits
  <2>4. /\ Way(Claim \o Tail(task[o].todo)) /\ Claim \o Tail(task[o].todo) \in Seq(Step)
    BY <1>1, <2>2, ShortWays, WayLonger
  <2> QED
    BY <1>1, <1>2, <1>8, <2>4
<1> QED
  BY <1>3, <1>4, <1>5, <1>6, <1>7, <1>8
\* The record of an operation that asked Redis, with what it computed.
LEMMA GetStep ==
  ASSUME TakeoverInv, NEW o \in Op, GetLease(o)
  PROVE  /\ task' \in [Op -> Task] /\ SessionInv'
<1>1. /\ task \in [Op -> Task] /\ task[o] \in OpRecord /\ lease \in Grant
      /\ Way(Tail(task[o].todo)) /\ Tail(task[o].todo) \in Seq(Step)
  BY DoingHasStep DEF GetLease, TakeoverInv
<1> DEFINE new == NewLease(task[o].kind)
<1>2. new \in Grant /\ (Active(new) /\ Active(lease) => new.cap = lease.cap)
  BY <1>1, GrantNew
<1> HIDE DEF new
<1>3. [task[o] EXCEPT !.new = new] \in OpRecord /\ [task[o] EXCEPT !.new = new].new = new
  BY <1>1, <1>2 DEF OpRecord
<1>4. Then(o, Tail(task[o].todo), [task[o] EXCEPT !.new = new]) /\ UNCHANGED <<lease, activeFor>>
  BY DEF GetLease, new
<1>5. /\ task' \in [Op -> Task]
      /\ \A p \in Op \ {o} : task'[p] = task[p]
      /\ task'[o].new \in {NoLease, new}
  BY <1>1, <1>3, <1>4, ThenStep
<1>6. SessionInv
  BY DEF TakeoverInv
<1>7. Active(lease) /\ Active(task'[o].new) => task'[o].new.cap = lease.cap
  BY <1>2, <1>5 DEF Active, NoLease
<1>8. \A p \in Op : Active(lease) /\ Active(task'[p].new)
                      => activeFor + task'[p].new.cap <= MaxSession
  BY <1>5, <1>6, <1>7 DEF SessionInv
<1> QED
  BY <1>4, <1>5, <1>6, <1>8 DEF SessionInv, Active

\* What is written prolongs a session within its end, or begins one.
LEMMA SetStep ==
  ASSUME TakeoverInv, NEW o \in Op, SetLease(o)
  PROVE  /\ task' \in [Op -> Task] /\ lease' \in Grant /\ SessionInv'
<1>1. /\ task' \in [Op -> Task]
      /\ \A p \in Op : task'[p].new \in {NoLease, task[p].new}
  BY StepGoes DEF SetLease
<1>2. /\ lease' = task[o].new
      /\ activeFor' = IF Active(lease) /\ Active(task[o].new) THEN activeFor ELSE 0
  BY DEF SetLease
<1>3. /\ \A p \in Op : task[p].new \in Grant
      /\ SessionInv /\ MaxSession \in Nat
  BY TakeoverAssumption DEF TakeoverInv, Task, OpRecord
<1>4. /\ \A p \in Op : /\ task[p].new.cap \in 0..MaxSession
                       /\ Active(task'[p].new) => task'[p].new = task[p].new
  BY <1>1, <1>3, GrantFields DEF Active, NoLease
<1>5. CASE Active(lease) /\ Active(task[o].new)
  <2>1. activeFor' = activeFor /\ Active(lease')
    BY <1>2, <1>5
  <2>2. /\ activeFor + task[o].new.cap <= MaxSession
        /\ \A p \in Op : Active(task'[p].new) => activeFor + task'[p].new.cap <= MaxSession
    BY <1>3, <1>4, <1>5 DEF SessionInv
  <2> QED
    BY <1>1, <1>2, <1>3, <2>1, <2>2 DEF SessionInv, Active
<1>6. CASE ~(Active(lease) /\ Active(task[o].new))
  <2>1. activeFor' = 0
    BY <1>2, <1>6
  <2>2. /\ 0 + task[o].new.cap <= MaxSession
        /\ \A p \in Op : Active(task'[p].new) => 0 + task'[p].new.cap <= MaxSession
    BY <1>3, <1>4
  <2> QED
    BY <1>1, <1>2, <1>3, <2>1, <2>2 DEF SessionInv, Active
<1> QED
  BY <1>5, <1>6

LEMMA DeleteStep ==
  ASSUME TakeoverInv, NEW o \in Op, DeleteLease(o)
  PROVE  /\ task' \in [Op -> Task] /\ lease' \in Grant /\ SessionInv'
<1>1. task' \in [Op -> Task]
  BY StepGoes DEF DeleteLease
<1>2. lease' = NoLease /\ activeFor' = 0
  BY DEF DeleteLease
<1> QED
  BY <1>1, <1>2, GrantNone DEF SessionInv, Active, NoLease

\* One operation goes on.
LEMMA OpStepInv ==
  ASSUME TakeoverInv, NEW o \in Op, OpStep(o)
  PROVE  TakeoverInv'
<1> DEFINE Follows == task' \in [Op -> Task] /\ \A p \in Op : task'[p].new \in {NoLease, task[p].new}
           Marked == /\ UNCHANGED <<begun, cuts>>
                     /\ \/ UNCHANGED <<handledBy, idleFor>>
                        \/ handledBy' \in {"ai", "human"} /\ idleFor' = 0
<1>1. SessionInv /\ lease \in Grant
  BY DEF TakeoverInv
<1>2. ASSUME task' \in [Op -> Task], lease' \in Grant, SessionInv', Marked
      PROVE  TakeoverInv'
  <2>1. handledBy' \in {"ai", "human"} /\ idleFor' \in 0..IdleLimit
    BY <1>2, TakeoverAssumption DEF TakeoverInv
  <2> QED
    BY <1>2, <2>1 DEF TakeoverInv
<1>3. ASSUME Follows, Marked, UNCHANGED <<lease, activeFor>>
      PROVE  TakeoverInv'
  BY <1>1, <1>2, <1>3, KeepsSession
<1>4. CASE Mark(o) \/ Return(o)
  BY <1>3, <1>4, StepGoes DEF Mark, Return
<1>5. CASE GetLease(o)
  BY <1>1, <1>2, <1>5, GetStep DEF GetLease
<1>6. CASE SetLease(o)
  BY <1>2, <1>6, SetStep DEF SetLease
<1>7. CASE DeleteLease(o)
  BY <1>2, <1>7, DeleteStep DEF DeleteLease
<1>8. CASE ClaimIfFree(o)
  <2>1. Next1(o) \/ Then(o, Claim \o Tail(task[o].todo), task[o])
    <3>1. CASE Active(lease)
      <4>1. <<>> \o Tail(task[o].todo) = Tail(task[o].todo)
        BY <1>8, DoingHasStep, ConcatEmptySeq DEF ClaimIfFree
      <4> QED
        BY <1>8, <3>1, <4>1 DEF ClaimIfFree, Next1
    <3> QED
      BY <1>8, <3>1 DEF ClaimIfFree
  <2>2. Follows
    BY <1>8, <2>1, StepGoes DEF ClaimIfFree
  <2> QED
    BY <1>3, <1>8, <2>2 DEF ClaimIfFree
<1>9. CASE OnlyIfHeld(o)
  <2>1. Next1(o) \/ Then(o, <<>>, task[o])
    BY <1>9 DEF OnlyIfHeld, Next1
  <2>2. Follows
    BY <1>9, <2>1, StepGoes DEF OnlyIfHeld
  <2> QED
    BY <1>3, <1>9, <2>2 DEF OnlyIfHeld
<1>10. CASE PushReply(o)
  BY <1>3, <1>10, StepGoes DEF PushReply
<1>11. CASE Look(o)
  <2>1. Follows
    BY <1>11, StepGoes DEF Look, TakeoverInv
  <2> QED
    BY <1>3, <1>11, <2>1 DEF Look
<1>12. CASE UnlessAI(o)
  <2>1. Next1(o) \/ Then(o, <<>>, task[o])
    BY <1>12 DEF UnlessAI, Next1
  <2>2. Follows
    BY <1>12, <2>1, StepGoes DEF UnlessAI
  <2> QED
    BY <1>3, <1>12, <2>2 DEF UnlessAI
<1>13. CASE Gate(o)
  <2>1. \/ Then(o, <<>>, task[o]) \/ Next1(o)
        \/ Then(o, <<"return">> \o Tail(task[o].todo), task[o])
    <3>1. <<>> \o Tail(task[o].todo) = Tail(task[o].todo)
      BY <1>13, DoingHasStep, ConcatEmptySeq DEF Gate
    <3> QED
      BY <1>13, <3>1 DEF Gate, Next1
  <2>2. Follows
    BY <1>13, <2>1, StepGoes DEF Gate
  <2> QED
    BY <1>3, <1>13, <2>2 DEF Gate
<1>14. CASE Answer(o)
  <2>1. Follows
    BY <1>14, StepGoes DEF Answer
  <2> QED
    BY <1>3, <1>14, <2>1 DEF Answer
<1> QED
  BY <1>4, <1>5, <1>6, <1>7, <1>8, <1>9, <1>10, <1>11, <1>12, <1>13, <1>14 DEF OpStep

\* Leases age, the computed ones as well, and so does the session.
LEMMA PassesInv ==
  ASSUME TakeoverInv, Passes
  PROVE  TakeoverInv'
<1>1. /\ task \in [Op -> Task] /\ lease \in Grant /\ SessionInv /\ MaxSession \in Nat
      /\ \A o \in Op : task[o] \in OpRecord /\ task[o].new \in Grant
  BY TakeoverAssumption, TaskWay DEF TakeoverInv
<1>2. \A o \in Op : /\ [task[o] EXCEPT !.new = Aged(@)] \in Task
                    /\ [task[o] EXCEPT !.new = Aged(@)].new = Aged(task[o].new)
  <2> SUFFICES ASSUME NEW o \in Op
               PROVE  /\ [task[o] EXCEPT !.new = Aged(@)] \in Task
                      /\ [task[o] EXCEPT !.new = Aged(@)].new = Aged(task[o].new)
    OBVIOUS
  <2>1. Aged(task[o].new) \in Grant
    BY <1>1, GrantAged
  <2>2. /\ [task[o] EXCEPT !.new = Aged(@)] \in OpRecord
        /\ [task[o] EXCEPT !.new = Aged(@)].new = Aged(task[o].new)
        /\ [task[o] EXCEPT !.new = Aged(@)].todo = task[o].todo
    BY <1>1, <2>1 DEF OpRecord
  <2>3. ASSUME task[o].todo = <<>>
        PROVE  [task[o] EXCEPT !.new = Aged(@)] = NoOp
    <3>1. task[o] = NoOp
      BY <1>1, <2>3 DEF Task
    <3>2. Aged(NoLease) = NoLease /\ NoOp.new = NoLease
      BY DEF Aged, NoLease, NoOp
    <3>3. [NoOp EXCEPT !.new = NoLease] = NoOp
      BY DEF NoOp
    <3> QED
      BY <3>1, <3>2, <3>3
  <2> QED
    BY <2>2, <2>3 DEF Task
<1>3. /\ task' \in [Op -> Task] /\ \A o \in Op : task'[o].new = Aged(task[o].new)
      /\ lease' = Aged(lease) /\ lease' \in Grant
      /\ activeFor' = IF Active(Aged(lease)) THEN activeFor + 1 ELSE 0
      /\ UNCHANGED <<handledBy, begun, cuts>>
  BY <1>1, <1>2, GrantAged DEF Passes
<1>4. idleFor' \in 0..IdleLimit
  BY TakeoverAssumption DEF Passes, TakeoverInv, Least
<1>5. SessionInv'
  <2>1. CASE ~Active(lease')
    BY <1>3, <2>1 DEF SessionInv, Active
  <2>2. CASE Active(lease')
    <3>1. Active(lease) /\ lease'.cap = lease.cap - 1 /\ activeFor' = activeFor + 1
      BY <1>1, <1>3, <2>2, GrantAged DEF Active
    <3>2. activeFor \in Nat /\ lease.cap \in Nat /\ activeFor + lease.cap <= MaxSession
      BY <1>1, <3>1, GrantFields DEF SessionInv
    <3>3. activeFor' \in Nat /\ activeFor' + lease'.cap <= MaxSession
      BY <1>1, <3>1, <3>2
    <3>4. ASSUME NEW o \in Op, Active(task'[o].new)
          PROVE  activeFor' + task'[o].new.cap <= MaxSession
      <4>1. Active(task[o].new) /\ task'[o].new.cap = task[o].new.cap - 1
        BY <1>1, <1>3, <3>4, GrantAged
      <4>2. task[o].new.cap \in Nat /\ activeFor + task[o].new.cap <= MaxSession
        BY <1>1, <3>1, <4>1, GrantFields DEF SessionInv
      <4> QED
        BY <1>1, <3>1, <3>2, <4>1, <4>2
    <3> QED
      BY <2>2, <3>3, <3>4 DEF SessionInv, Active
  <2> QED
    BY <2>1, <2>2
<1> QED
  BY <1>3, <1>4, <1>5 DEF TakeoverInv, Passes

LEMMA StartsInv ==
  ASSUME TakeoverInv, NEW o \in Op,
         (\E kind \in ByPeople : Begin(o, kind)) \/ MonitorFinds(o) \/ BreaksOff(o)
  PROVE  TakeoverInv'
<1>1. /\ MaxOps \in Nat /\ MaxCuts \in Nat
      /\ task \in [Op -> Task] /\ SessionInv /\ lease \in Grant
      /\ begun \in 0..MaxOps /\ cuts \in 0..MaxCuts
  BY TakeoverAssumption DEF TakeoverInv
<1>2. ASSUME NEW t \in Task, t.new = NoLease, task' = [task EXCEPT ![o] = t],
             UNCHANGED <<lease, activeFor, handledBy, idleFor>>,
             begun' \in 0..MaxOps, cuts' \in 0..MaxCuts
      PROVE  TakeoverInv'
  <2>1. task' \in [Op -> Task] /\ \A p \in Op : task'[p].new \in {NoLease, task[p].new}
    BY <1>1, <1>2
  <2>2. SessionInv'
    BY <1>1, <1>2, <2>1, KeepsSession
  <2> QED
    BY <1>2, <2>1, <2>2 DEF TakeoverInv
<1>3. ASSUME NEW kind \in DOMAIN Steps
      PROVE  /\ [NoOp EXCEPT !.kind = kind, !.todo = Steps[kind]] \in Task
             /\ [NoOp EXCEPT !.kind = kind, !.todo = Steps[kind]].new = NoLease
  <2>1. Way(Steps[kind]) /\ Steps[kind] \in Seq(Step) /\ Steps[kind] # <<>>
    BY <1>3, WaysBegin
  <2>2. NoOp \in OpRecord /\ NoOp.new = NoLease
    BY TaskNone DEF Task, NoOp
  <2> QED
    BY <1>3, <2>1, <2>2 DEF OpRecord, Task
<1>4. CASE \E kind \in ByPeople : Begin(o, kind)
  <2>1. PICK kind \in DOMAIN Steps : Begin(o, kind)
    BY <1>4 DEF ByPeople
  <2> QED
    <3>1. begun' \in 0..MaxOps /\ cuts' \in 0..MaxCuts
      <4>1. begun < MaxOps /\ begun' = begun + 1 /\ cuts' = cuts
        BY <2>1 DEF Begin
      <4>2. MaxOps \in Nat /\ begun \in 0..MaxOps /\ cuts \in 0..MaxCuts
        BY <1>1
      <4> QED
        BY <4>1, <4>2
    <3> QED
      BY <1>2, <1>3, <2>1, <3>1 DEF Begin
<1>5. CASE MonitorFinds(o)
  <2>1. Steps["monitor"] = MonitorSteps /\ "monitor" \in DOMAIN Steps
    BY WaysBegin DEF Steps
  <2> QED
    BY <1>1, <1>2, <1>3, <1>5, <2>1 DEF MonitorFinds
<1>6. CASE BreaksOff(o)
  <2>1. NoOp.new = NoLease /\ NoOp \in Task
    BY TaskNone DEF NoOp
  <2> QED
    <3>1. begun' \in 0..MaxOps /\ cuts' \in 0..MaxCuts
      BY <1>1, <1>6 DEF BreaksOff
    <3>2. UNCHANGED <<lease, activeFor, handledBy, idleFor>> /\ task' = [task EXCEPT ![o] = NoOp]
      BY <1>6 DEF BreaksOff
    <3> QED
      BY <1>2, <2>1, <3>1, <3>2, TaskNone
<1> QED
  BY <1>4, <1>5, <1>6

\* The inductive invariant: leases within their sessions, sessions within
\* their bound, and no operation with more than it has yet to do.
THEOREM TakeoverInductive == TakeoverSpec => []TakeoverInv
<1>1. TakeoverInit => TakeoverInv
  <2> SUFFICES ASSUME TakeoverInit
               PROVE  TakeoverInv
    OBVIOUS
  <2>1. task \in [Op -> Task] /\ \A o \in Op : task[o] = NoOp
    BY TaskNone DEF TakeoverInit
  <2>2. /\ lease \in Grant /\ handledBy \in {"ai", "human"} /\ idleFor \in 0..IdleLimit
        /\ begun \in 0..MaxOps /\ cuts \in 0..MaxCuts
    BY GrantNone, TakeoverAssumption DEF TakeoverInit
  <2>3. SessionInv
    BY DEF TakeoverInit, SessionInv, Active, NoLease
  <2> QED
    BY <2>1, <2>2, <2>3 DEF TakeoverInv
<1>2. TakeoverInv /\ [TakeoverNext]_takeoverVars => TakeoverInv'
  <2> SUFFICES ASSUME TakeoverInv, [TakeoverNext]_takeoverVars
               PROVE  TakeoverInv'
    OBVIOUS
  <2>1. ASSUME NEW o \in Op, OpStep(o)
        PROVE  TakeoverInv'
    BY <2>1, OpStepInv
  <2>2. ASSUME NEW o \in Op,
               (\E kind \in ByPeople : Begin(o, kind)) \/ MonitorFinds(o) \/ BreaksOff(o)
        PROVE  TakeoverInv'
    BY <2>2, StartsInv
  <2>3. CASE Passes
    BY <2>3, PassesInv
  <2>4. CASE UNCHANGED takeoverVars
    BY <2>4 DEF takeoverVars, TakeoverInv, SessionInv, Active
  <2> QED
    BY <2>1, <2>2, <2>3, <2>4 DEF TakeoverNext
<1> QED
  BY <1>1, <1>2, PTL DEF TakeoverSpec

\* A session that is prolonged and prolonged again, by requests that overlap
\* with releases, escalations and each other, ends in time.
THEOREM SessionsEnd == TakeoverSpec => []SessionsBounded
<1>1. TakeoverInv => SessionsBounded
  <2> SUFFICES ASSUME TakeoverInv, Active(lease)
               PROVE  activeFor + lease.left <= MaxSession
    BY DEF SessionsBounded
  <2>1. /\ activeFor \in Nat /\ activeFor + lease.cap <= MaxSession
        /\ lease.left \in 0..MaxSession /\ lease.cap \in 0..MaxSession /\ lease.left <= lease.cap
    BY GrantFields DEF TakeoverInv, SessionInv
  <2> QED
    BY <2>1, TakeoverAssumption
<1> QED
  BY <1>1, TakeoverInductive, PTL

LEMMA TakeoverTyped == TakeoverSpec => []TakeoverTypeOK
<1>1. TakeoverInv => TakeoverTypeOK
  <2> SUFFICES ASSUME TakeoverInv
               PROVE  TakeoverTypeOK
    OBVIOUS
  <2>1. lease \in Grant /\ SessionInv /\ MaxSession \in Nat
    BY TakeoverAssumption DEF TakeoverInv
  <2>2. activeFor \in 0..MaxSession
    BY <2>1, GrantFields DEF SessionInv
  <2>3. ASSUME NEW o \in Op
        PROVE  /\ task[o].saw \in {"ai", "human"}
               /\ task[o].new \in {NoLease} \cup Lease
               /\ Len(task[o].todo) <= 8
    <3>1. /\ task[o].saw \in {"ai", "human"} /\ task[o].new \in Grant
          /\ Way(task[o].todo) /\ task[o].todo \in Seq(Step)
      BY DEF TakeoverInv, Task, OpRecord
    <3>2. Len(task[o].todo) <= 8
      BY <3>1, LenProperties DEF Way
    <3> QED
      BY <3>1, <3>2 DEF Grant
  <2> QED
    BY <2>1, <2>2, <2>3 DEF TakeoverTypeOK, TakeoverInv, Grant
<1> QED
  BY <1>1, TakeoverInductive, PTL

-----------------------------------------------------------------------------
(* MCDelivery: the modules side by side.                                   *)

\* A behaviour of the composition is one of each module, with the others at
\* rest: what holds of a module holds in the composition.
THEOREM DeliverySideBySide ==
  DeliverySpec => OutboxSpec /\ JobsSpec /\ EvidenceSpec /\ TakeoverSpec /\ TurnsSpec
<1>1. DeliveryInit => OutboxInit /\ JobsInit /\ EvidenceInit /\ TakeoverInit /\ TurnsInit
  BY DEF DeliveryInit
<1>2. [DeliveryNext]_vars => [OutboxNext]_outboxVars
  BY DEF DeliveryNext, OutboxStep, JobsStep, EvidenceStep, TakeoverStep, TurnStep, vars
<1>3. [DeliveryNext]_vars => [JobsNext]_jobVars
  BY DEF DeliveryNext, OutboxStep, JobsStep, EvidenceStep, TakeoverStep, TurnStep, vars
<1>4. [DeliveryNext]_vars => [EvidenceNext]_evidenceVars
  BY DEF DeliveryNext, OutboxStep, JobsStep, EvidenceStep, TakeoverStep, TurnStep, vars
<1>5. [DeliveryNext]_vars => [TakeoverNext]_takeoverVars
  BY DEF DeliveryNext, OutboxStep, JobsStep, EvidenceStep, TakeoverStep, TurnStep, vars
<1>6. [DeliveryNext]_vars => [TurnsNext]_turnVars
  BY DEF DeliveryNext, OutboxStep, JobsStep, EvidenceStep, TakeoverStep, TurnStep, vars
<1> QED
  BY <1>1, <1>2, <1>3, <1>4, <1>5, <1>6, PTL
  DEF DeliverySpec, OutboxSpec, JobsSpec, EvidenceSpec, TakeoverSpec, TurnsSpec

\* Every variable of the modules keeps its type.
THEOREM DeliveryTyped == DeliverySpec => []DeliveryTypeOK
<1>1. /\ IInv => OutboxTypeOK
      /\ OnceInv => JobsTypeOK
      /\ EvidenceInv => EvidenceTypeOK
  BY DEF IInv, OnceInv, EvidenceInv
<1>2. OutboxTypeOK /\ JobsTypeOK /\ EvidenceTypeOK /\ TakeoverTypeOK /\ TurnsTypeOK
      => DeliveryTypeOK
  BY DEF DeliveryTypeOK
<1>3. JobsSpec => []OnceInv
  BY OnceInductive
<1> QED
  BY <1>1, <1>2, <1>3, DeliverySideBySide, Inductive, EvidenceInductive, TakeoverTyped,
     TurnsTyped, PTL

\* Side by side the modules keep all they promise: rows take effect, keep
\* their budget and are repeated for a cause; a handler that ended is not run
\* again, and no job is dropped silently; evidence is left whole; cases and
\* turns are accounted for, and the memory is complete; sessions end.
THEOREM DeliveryKeeps ==
  ASSUME DlqAt <= JobAttempts
  PROVE  DeliverySpec => [](/\ ProcessedTookEffect /\ BudgetNotCutShort /\ RepeatsHaveCause
                            /\ HandledOnce /\ NoSilentDrop
                            /\ UndisturbedIsWhole
                            /\ TurnsAccounted /\ MemoryComplete
                            /\ SessionsBounded)
<1>1. JobsSpec => []NoSilentDrop
  BY NothingDropped
<1> QED
  BY <1>1, DeliverySideBySide, AtLeastOnce, FullBudget, RepeatsAccounted, RunOnce, LeftWhole,
     TurnsAccountedAlways, MemoryCompleteAlways, SessionsEnd, PTL
=============================================================================
