---------------------------- MODULE IngressProofs ----------------------------
(***************************************************************************)
(* Theorems of what comes in and what is shown: of LineIngress, for any    *)
(* number of events, requests and troubles; of ProjectOnboarding, for any  *)
(* number of projects, transactions and changes; of WebChat, for any tabs, *)
(* processes, replies and faults.                                          *)
(***************************************************************************)
EXTENDS LineIngress, ProjectOnboarding, WebChat, SequenceTheorems, FiniteSetTheorems, TLAPS

-----------------------------------------------------------------------------
(* LineIngress.                                                            *)

(***************************************************************************)
(* The inductive invariant.                                                *)
(***************************************************************************)
InHandStage == {"reply", "media", "persist", "answer", "hand", "release"}
Progress == [at: {"idle", "next"} \cup InHandStage, all: Seq(Event), todo: Seq(Event)]

BasicInv ==
    /\ batching \in BOOLEAN
    /\ claims \subseteq Event
    /\ web \in [Request -> Progress]
    /\ batch \in Seq(Event) /\ flights \subseteq Seq(Event) /\ turns \subseteq Seq(Event)

\* A request holds the event it has claimed, and nobody else does.
Holds(r) == web[r].at \in InHandStage
HoldInv ==
    /\ \A r \in Request : Holds(r) => web[r].todo # <<>> /\ Present(r) \in claims
    /\ \A q, r \in Request : Holds(q) /\ Holds(r) /\ Present(q) = Present(r) => q = r

\* With batching an event is held, or in one place on its way to a turn; it
\* is claimed all the while.
Queued == ToSet(batch) \cup UNION {ToSet(b) : b \in flights \cup turns}
Apart ==
    /\ \A b, c \in flights : ToSet(b) \cap ToSet(c) # {} => b = c
    /\ \A b, c \in turns : ToSet(b) \cap ToSet(c) # {} => b = c
    /\ \A b \in flights, c \in turns : ToSet(b) \cap ToSet(c) = {}
    /\ \A b \in flights \cup turns : ToSet(b) \cap ToSet(batch) = {}
    /\ \A i, j \in DOMAIN batch : batch[i] = batch[j] => i = j
PlaceInv ==
    batching =>
      /\ Queued \subseteq claims
      /\ \A r \in Request : Holds(r) => Present(r) \notin Queued
      /\ Apart

\* Without, nothing waits in memory, and a turn has the one event of its key.
AloneInv ==
    ~batching => batch = <<>> /\ flights = {} /\ turns \subseteq {<<e>> : e \in Event}

\* What is answered, lost to a named trouble, held, or on its way.
Kept == settled \cup excused \cup InHand \cup Queued
Behind(r) == ToSet(web[r].all) \ ToSet(web[r].todo)
KeptInv ==
    /\ claims \subseteq Kept
    /\ accepted \subseteq Kept
    /\ \A r \in Request : Behind(r) \subseteq Kept

IInv == BasicInv /\ HoldInv /\ PlaceInv /\ AloneInv /\ KeptInv

(***************************************************************************)
(* Sequences, and the requests' places in them.                            *)
(***************************************************************************)

LEMMA HeadAndTail ==
  ASSUME NEW s \in Seq(Event), s # <<>>
  PROVE  /\ Head(s) \in Event /\ Tail(s) \in Seq(Event)
         /\ ToSet(s) = {Head(s)} \cup ToSet(Tail(s))
<1>1. Len(s) \in Nat \ {0} /\ DOMAIN s = 1..Len(s) /\ Head(s) = s[1]
  BY EmptySeq
<1>2. Tail(s) \in Seq(Event) /\ Len(Tail(s)) = Len(s) - 1 /\ DOMAIN Tail(s) = 1..(Len(s) - 1)
      /\ \A i \in 1..(Len(s) - 1) : Tail(s)[i] = s[i + 1]
  BY HeadTailProperties, <1>1
<1>3. \A i \in DOMAIN s : s[i] = Head(s) \/ s[i] \in ToSet(Tail(s))
  <2> SUFFICES ASSUME NEW i \in DOMAIN s, i # 1 PROVE s[i] \in ToSet(Tail(s))
    BY <1>1
  <2>1. i - 1 \in 1..(Len(s) - 1) /\ Tail(s)[i - 1] = s[i]
    BY <1>1, <1>2
  <2> QED
    BY <1>2, <2>1 DEF ToSet
<1>4. ToSet(Tail(s)) \subseteq ToSet(s)
  <2> SUFFICES ASSUME NEW i \in 1..(Len(s) - 1) PROVE Tail(s)[i] \in ToSet(s)
    BY <1>2 DEF ToSet
  <2>1. i + 1 \in DOMAIN s /\ Tail(s)[i] = s[i + 1]
    BY <1>1, <1>2
  <2> QED
    BY <2>1 DEF ToSet
<1>5. Head(s) \in ToSet(s) /\ Head(s) \in Event
  BY <1>1 DEF ToSet
<1> QED
  BY <1>2, <1>3, <1>4, <1>5 DEF ToSet

LEMMA EmptySet == ToSet(<<>>) = {} /\ <<>> \in Seq(Event)
  BY DEF ToSet

LEMMA SetOfSeq ==
  ASSUME NEW s \in Seq(Event)
  PROVE  ToSet(s) \subseteq Event
  BY DEF ToSet

LEMMA Appended ==
  ASSUME NEW s \in Seq(Event), NEW e \in Event
  PROVE  /\ Append(s, e) \in Seq(Event) /\ ToSet(Append(s, e)) = ToSet(s) \cup {e}
         /\ (\A i, j \in DOMAIN s : s[i] = s[j] => i = j) /\ e \notin ToSet(s)
              => \A i, j \in DOMAIN Append(s, e) : Append(s, e)[i] = Append(s, e)[j] => i = j
<1> DEFINE t == Append(s, e)
<1>1. /\ t \in Seq(Event) /\ Len(s) \in Nat /\ DOMAIN s = 1..Len(s)
      /\ DOMAIN t = 1..(Len(s) + 1)
      /\ \A i \in 1..Len(s) : t[i] = s[i] /\ t[Len(s) + 1] = e
  BY AppendProperties
<1>2. t[Len(s) + 1] = e
  BY AppendProperties
<1> HIDE DEF t
<1>3. ToSet(t) = ToSet(s) \cup {e}
  <2>1. ASSUME NEW x \in ToSet(t) PROVE x \in ToSet(s) \cup {e}
    <3>1. PICK i \in DOMAIN t : x = t[i]
      BY <2>1 DEF ToSet
    <3>2. i \in 1..Len(s) \/ i = Len(s) + 1
      BY <1>1, <3>1
    <3> QED
      BY <1>1, <1>2, <3>1, <3>2 DEF ToSet
  <2>2. ASSUME NEW x \in ToSet(s) PROVE x \in ToSet(t)
    <3>1. PICK i \in DOMAIN s : x = s[i]
      BY <2>2 DEF ToSet
    <3>2. i \in DOMAIN t /\ t[i] = x
      BY <1>1, <3>1
    <3> QED
      BY <3>2 DEF ToSet
  <2>3. e \in ToSet(t)
    BY <1>1, <1>2 DEF ToSet
  <2> QED
    BY <2>1, <2>2, <2>3
<1>4. ASSUME \A i, j \in DOMAIN s : s[i] = s[j] => i = j, e \notin ToSet(s),
             NEW i \in DOMAIN t, NEW j \in DOMAIN t, t[i] = t[j]
      PROVE  i = j
  <2>1. \A k \in 1..Len(s) : t[k] = s[k] /\ s[k] # e
    BY <1>1, <1>4 DEF ToSet
  <2> QED
    BY <1>1, <1>2, <1>4, <2>1
<1> QED
  BY <1>1, <1>3, <1>4 DEF t

\* The three ways a request changes.
LEMMA EventMoves ==
  ASSUME BasicInv, NEW r \in Request, NEW stage \in {"idle", "next"} \cup InHandStage,
         Move(r, stage)
  PROVE  /\ web' \in [Request -> Progress]
         /\ web'[r].at = stage /\ web'[r].all = web[r].all /\ web'[r].todo = web[r].todo
         /\ \A q \in Request \ {r} : web'[q] = web[q]
  BY DEF Move, BasicInv, Progress

LEMMA Processes ==
  ASSUME BasicInv, NEW r \in Request, web[r].todo # <<>>, Processed(r)
  PROVE  /\ web' \in [Request -> Progress] /\ web'[r].at = "next"
         /\ Present(r) \in Event
         /\ Behind(r)' \subseteq Behind(r) \cup {Present(r)}
         /\ \A q \in Request \ {r} : web'[q] = web[q]
<1>1. web[r] \in Progress /\ web[r].todo \in Seq(Event)
  BY DEF BasicInv, Progress
<1>2. /\ Head(web[r].todo) \in Event /\ Tail(web[r].todo) \in Seq(Event)
      /\ ToSet(web[r].todo) = {Head(web[r].todo)} \cup ToSet(Tail(web[r].todo))
  BY <1>1, HeadAndTail
<1> DEFINE new == [web[r] EXCEPT !.at = "next", !.todo = Tail(web[r].todo)]
<1>3. web' = [web EXCEPT ![r] = new]
  BY <1>1 DEF Processed, BasicInv, Progress
<1>4. /\ new \in Progress /\ new.at = "next" /\ new.all = web[r].all
      /\ new.todo = Tail(web[r].todo)
  BY <1>1, <1>2 DEF Progress
<1> HIDE DEF new
<1>5. web' \in [Request -> Progress] /\ web'[r] = new /\ \A q \in Request \ {r} : web'[q] = web[q]
  BY <1>3, <1>4 DEF BasicInv
<1> QED
  BY <1>2, <1>4, <1>5 DEF Present, Behind

LEMMA Refuses ==
  ASSUME BasicInv, NEW r \in Request, Refused(r)
  PROVE  /\ web' \in [Request -> Progress] /\ web'[r].at = "idle"
         /\ Behind(r)' = {}
         /\ \A q \in Request \ {r} : web'[q] = web[q]
<1>1. NoRequest \in Progress /\ NoRequest.at = "idle" /\ NoRequest.all = <<>>
  BY EmptySet DEF NoRequest, Progress
<1>2. web'[r] = NoRequest /\ \A q \in Request \ {r} : web'[q] = web[q]
  BY DEF Refused, BasicInv
<1>3. web' \in [Request -> Progress]
  BY <1>1, <1>2 DEF Refused, BasicInv
<1> QED
  BY <1>1, <1>2, <1>3, EmptySet DEF Behind

LEMMA Holding ==
  ASSUME BasicInv
  PROVE  \A e : e \in InHand <=> \E r \in Request : Holds(r) /\ e = Present(r)
<1>1. \A r \in Request : Holds(r) <=> web[r].at \notin {"idle", "next"}
  BY DEF BasicInv, Progress, Holds, InHandStage
<1> QED
  BY <1>1 DEF InHand

LEMMA HoldingNext ==
  ASSUME BasicInv'
  PROVE  \A e : e \in InHand' <=> \E r \in Request : Holds(r)' /\ e = Present(r)'
<1>1. \A r \in Request : Holds(r)' <=> web'[r].at \notin {"idle", "next"}
  BY DEF BasicInv, Progress, Holds, InHandStage
<1> QED
  BY <1>1 DEF InHand

(***************************************************************************)
(* What keeps the parts of the invariant.                                  *)
(***************************************************************************)

\* Requests hold what they held, but for one that has claimed a free event.
LEMMA HoldStep ==
  ASSUME HoldInv, claims \subseteq claims', NEW r \in Request,
         \A q \in Request \ {r} : web'[q] = web[q],
         Holds(r)' => \/ Holds(r) /\ web'[r].todo = web[r].todo
                      \/ Present(r)' \in claims' \ claims /\ web'[r].todo # <<>>
  PROVE  HoldInv'
  BY DEF HoldInv, Holds, Present

LEMMA PlaceStep ==
  ASSUME PlaceInv, AloneInv, UNCHANGED <<batching, batch, flights, turns>>,
         claims \subseteq claims', NEW r \in Request,
         \A q \in Request \ {r} : web'[q] = web[q],
         Holds(r)' => \/ Holds(r) /\ web'[r].todo = web[r].todo
                      \/ Present(r)' \notin claims
  PROVE  PlaceInv' /\ AloneInv' /\ Queued' = Queued
<1>1. Queued' = Queued
  BY DEF Queued
<1>2. \A q \in Request : Holds(q)' /\ batching => Present(q)' \notin Queued
  BY DEF PlaceInv, Holds, Present
<1> QED
  BY <1>1, <1>2 DEF PlaceInv, AloneInv, Apart

LEMMA KeptStep ==
  ASSUME KeptInv, BasicInv, settled \subseteq settled', excused \subseteq excused',
         Queued \subseteq Queued',
         \A q \in Request : Holds(q) => Present(q) \in Kept',
         claims' \subseteq claims \cup Kept', accepted' \subseteq accepted \cup Kept',
         \A q \in Request : Behind(q)' \subseteq Behind(q) \cup Kept'
  PROVE  KeptInv'
<1>1. InHand \subseteq Kept'
  BY Holding
<1>2. Kept \subseteq Kept'
  BY <1>1 DEF Kept
<1> QED
  BY <1>2 DEF KeptInv

LEMMA StillHeld ==
  ASSUME BasicInv', NEW q \in Request, Holds(q), web'[q] = web[q]
  PROVE  Present(q) \in Kept'
  BY HoldingNext DEF Kept, Holds, Present

\* A request that holds an event and goes on to the next step with it.
LEMMA Advances ==
  ASSUME IInv, NEW r \in Request, Holds(r), NEW stage \in InHandStage, Move(r, stage),
         UNCHANGED <<batching, claims, handover, accepted>>,
         settled \subseteq settled', excused \subseteq excused'
  PROVE  IInv'
<1>0. BasicInv /\ HoldInv /\ PlaceInv /\ AloneInv /\ KeptInv
  BY DEF IInv
<1>1. /\ web' \in [Request -> Progress]
      /\ web'[r].at = stage /\ web'[r].all = web[r].all /\ web'[r].todo = web[r].todo
      /\ \A q \in Request \ {r} : web'[q] = web[q]
  BY <1>0, EventMoves
<1>2. UNCHANGED <<batch, flights, turns>>
  BY DEF handover
<1>3. BasicInv'
  BY <1>0, <1>1, <1>2 DEF BasicInv
<1>4. HoldInv'
  BY <1>0, <1>1 DEF HoldInv, Holds, Present
<1>5. PlaceInv' /\ AloneInv' /\ Queued' = Queued
  BY <1>0, <1>1, <1>2, PlaceStep
<1>6. Holds(r)' /\ Present(r)' = Present(r)
  BY <1>1 DEF Holds, Present
<1>7. \A q \in Request : Holds(q) => Present(q) \in Kept'
  BY <1>1, <1>3, <1>6, HoldingNext, StillHeld DEF Kept
<1>8. \A q \in Request : Behind(q)' = Behind(q)
  BY <1>1 DEF Behind
<1>9. KeptInv'
  BY <1>0, <1>5, <1>7, <1>8, KeptStep
<1> QED
  BY <1>3, <1>4, <1>5, <1>9 DEF IInv

\* A request that is done with an event which is kept elsewhere.
LEMMA Finishes ==
  ASSUME IInv, NEW r \in Request, web[r].todo # <<>>, Processed(r),
         claims \subseteq claims', claims' \subseteq claims \cup {Present(r)},
         UNCHANGED <<batching, handover, accepted>>,
         settled \subseteq settled', excused \subseteq excused',
         Present(r) \in claims \cup settled', Holds(r) => Present(r) \in settled'
  PROVE  IInv'
<1>0. BasicInv /\ HoldInv /\ PlaceInv /\ AloneInv /\ KeptInv
  BY DEF IInv
<1>1. /\ web' \in [Request -> Progress] /\ web'[r].at = "next" /\ Present(r) \in Event
      /\ Behind(r)' \subseteq Behind(r) \cup {Present(r)}
      /\ \A q \in Request \ {r} : web'[q] = web[q]
  BY <1>0, Processes
<1>2. UNCHANGED <<batch, flights, turns>>
  BY DEF handover
<1>3. BasicInv'
  BY <1>0, <1>1, <1>2 DEF BasicInv
<1>4. ~Holds(r)'
  BY <1>1 DEF Holds, InHandStage
<1>5. HoldInv'
  BY <1>0, <1>1, <1>4, HoldStep
<1>6. PlaceInv' /\ AloneInv' /\ Queued' = Queued
  BY <1>0, <1>1, <1>2, <1>4, PlaceStep
<1>7. \A q \in Request : Holds(q) => Present(q) \in Kept'
  BY <1>1, <1>3, StillHeld DEF Kept
<1>8. Present(r) \in Kept'
  <2>1. CASE Present(r) \in settled'
    BY <2>1 DEF Kept
  <2>2. CASE Present(r) \in claims
    <3>1. Present(r) \in settled \cup excused \cup InHand \cup Queued
      BY <1>0, <2>2 DEF KeptInv, Kept
    <3>2. Present(r) \in InHand => Present(r) \in Kept'
      BY <1>0, <1>7, Holding
    <3> QED
      BY <1>6, <3>1, <3>2 DEF Kept
  <2> QED
    BY <2>1, <2>2
<1>9. \A q \in Request : Behind(q)' \subseteq Behind(q) \cup Kept'
  BY <1>1, <1>8 DEF Behind
<1>10. KeptInv'
  BY <1>0, <1>6, <1>7, <1>8, <1>9, KeptStep
<1> QED
  BY <1>3, <1>5, <1>6, <1>10 DEF IInv

\* A request that ends between two events.
LEMMA Ended ==
  ASSUME IInv, NEW r \in Request, ~Holds(r), Refused(r),
         UNCHANGED <<batching, claims, handover>>,
         accepted' \subseteq accepted \cup Behind(r),
         settled \subseteq settled', excused \subseteq excused'
  PROVE  IInv'
<1>0. BasicInv /\ HoldInv /\ PlaceInv /\ AloneInv /\ KeptInv
  BY DEF IInv
<1>1. /\ web' \in [Request -> Progress] /\ web'[r].at = "idle" /\ Behind(r)' = {}
      /\ \A q \in Request \ {r} : web'[q] = web[q]
  BY <1>0, Refuses
<1>2. UNCHANGED <<batch, flights, turns>>
  BY DEF handover
<1>3. BasicInv'
  BY <1>0, <1>1, <1>2 DEF BasicInv
<1>4. ~Holds(r)'
  BY <1>1 DEF Holds, InHandStage
<1>5. HoldInv'
  BY <1>0, <1>1, <1>4, HoldStep
<1>6. PlaceInv' /\ AloneInv' /\ Queued' = Queued
  BY <1>0, <1>1, <1>2, <1>4, PlaceStep
<1>7. \A q \in Request : Holds(q) => Present(q) \in Kept'
  BY <1>1, <1>3, StillHeld
<1>8. InHand \subseteq Kept'
  BY <1>0, <1>7, Holding
<1>9. Kept \subseteq Kept'
  BY <1>6, <1>8 DEF Kept
<1>10. \A q \in Request : Behind(q)' \subseteq Behind(q)
  BY <1>1 DEF Behind
<1>11. accepted' \subseteq accepted \cup Kept'
  BY <1>0, <1>9 DEF KeptInv
<1>12. KeptInv'
  BY <1>0, <1>6, <1>7, <1>10, <1>11, KeptStep
<1> QED
  BY <1>3, <1>5, <1>6, <1>12 DEF IInv

(***************************************************************************)
(* Every step keeps the invariant: the loop.                               *)
(***************************************************************************)

LEMMA Aims ==
  ASSUME NEW r \in Request, NEW stage \in InHandStage, On(r, stage)
  PROVE  Holds(r)
  BY DEF On, Holds

LEMMA DeliverInv ==
  ASSUME IInv, NEW r \in Request, NEW seq \in Carried, Deliver(r, seq)
  PROVE  IInv'
<1> DEFINE new == [at |-> "next", all |-> seq, todo |-> seq]
<1>0. BasicInv /\ HoldInv /\ PlaceInv /\ AloneInv /\ KeptInv
  BY DEF IInv
<1>1. seq \in Seq(Event)
  <2>1. CASE \E e \in Event : seq = <<e>>
    BY <2>1
  <2>2. CASE seq \in Event \X Event
    <3>1. PICK e \in Event, f \in Event : seq = <<e, f>>
      BY <2>2
    <3>2. <<e, f>> \in Seq(Event)
      OBVIOUS
    <3> QED
      BY <3>1, <3>2
  <2> QED
    BY <2>1, <2>2 DEF Carried
<1>2. new \in Progress /\ new.at = "next" /\ new.all = seq /\ new.todo = seq
  BY <1>1 DEF Progress
<1>3. /\ web' = [web EXCEPT ![r] = new] /\ web[r].at = "idle"
      /\ UNCHANGED <<batching, claims, batch, flights, turns, settled, accepted, excused>>
  BY DEF Deliver, On, given, handover, ghosts
<1> HIDE DEF new
<1>4. /\ web' \in [Request -> Progress] /\ web'[r] = new
      /\ \A q \in Request \ {r} : web'[q] = web[q]
  BY <1>0, <1>2, <1>3 DEF BasicInv
<1>5. BasicInv'
  BY <1>0, <1>3, <1>4 DEF BasicInv
<1>6. ~Holds(r) /\ ~Holds(r)'
  BY <1>2, <1>3, <1>4 DEF Holds, InHandStage
<1>7. HoldInv'
  BY <1>0, <1>3, <1>4, <1>6, HoldStep
<1>8. PlaceInv' /\ AloneInv' /\ Queued' = Queued
  BY <1>0, <1>3, <1>4, <1>6, PlaceStep
<1>9. \A q \in Request : Holds(q) => Present(q) \in Kept'
  BY <1>4, <1>5, <1>6, StillHeld
<1>10. \A q \in Request : Behind(q)' \subseteq Behind(q)
  BY <1>2, <1>4 DEF Behind
<1>11. KeptInv'
  BY <1>0, <1>3, <1>8, <1>9, <1>10, KeptStep
<1> QED
  BY <1>5, <1>7, <1>8, <1>11 DEF IInv

LEMMA BetweenInv ==
  ASSUME IInv, NEW r \in Request,
         Accept(r) \/ Unsend(r) \/ ForwardGroup(r) \/ Duplicate(r) \/ ProcessEventFails(r)
  PROVE  IInv'
<1>1. CASE Accept(r)
  <2>1. /\ ~Holds(r) /\ Refused(r) /\ web[r].todo = <<>>
        /\ accepted' = accepted \cup ToSet(web[r].all)
        /\ UNCHANGED <<batching, claims, handover, settled, excused>>
    BY <1>1 DEF Accept, On, Holds, InHandStage, Refused, given
  <2>2. accepted' \subseteq accepted \cup Behind(r)
    BY <2>1, EmptySet DEF Behind
  <2> QED
    BY <2>1, <2>2, Ended
<1>2. CASE Unsend(r)
  <2>1. /\ ~Holds(r) /\ Processed(r) /\ web[r].todo # <<>>
        /\ settled' = settled \cup {Present(r)}
        /\ UNCHANGED <<batching, claims, handover, accepted, excused>>
    BY <1>2 DEF Unsend, On, Holds, InHandStage, given
  <2> QED
    BY <2>1, Finishes
<1>3. CASE ForwardGroup(r)
  <2>1. /\ ~Holds(r) /\ web[r].todo # <<>>
        /\ \/ Processed(r) /\ settled' = settled \cup {Present(r)}
           \/ Refused(r) /\ settled' = settled
        /\ UNCHANGED <<batching, claims, handover, accepted, excused>>
    BY <1>3 DEF ForwardGroup, On, Holds, InHandStage, given
  <2>2. CASE Processed(r) /\ settled' = settled \cup {Present(r)}
    BY <2>1, <2>2, Finishes
  <2>3. CASE Refused(r) /\ settled' = settled
    BY <2>1, <2>3, Ended
  <2> QED
    BY <2>1, <2>2, <2>3
<1>4. CASE Duplicate(r)
  <2>1. /\ ~Holds(r) /\ Processed(r) /\ web[r].todo # <<>> /\ Present(r) \in claims
        /\ UNCHANGED <<batching, claims, handover, settled, accepted, excused>>
    BY <1>4 DEF Duplicate, Direct, On, Holds, InHandStage, given, ghosts
  <2> QED
    BY <2>1, Finishes
<1>5. CASE ProcessEventFails(r)
  <2>1. /\ ~Holds(r) /\ Refused(r)
        /\ UNCHANGED <<batching, claims, handover, settled, accepted, excused>>
    BY <1>5 DEF ProcessEventFails, Direct, On, Holds, InHandStage, given, ghosts
  <2> QED
    BY <2>1, Ended
<1> QED
  BY <1>1, <1>2, <1>3, <1>4, <1>5

\* The claim: the event is held by this request alone.
LEMMA ProcessEventInv ==
  ASSUME IInv, NEW r \in Request, ProcessEvent(r)
  PROVE  IInv'
<1>0. BasicInv /\ HoldInv /\ PlaceInv /\ AloneInv /\ KeptInv
  BY DEF IInv
<1>1. /\ web[r].at = "next" /\ web[r].todo # <<>> /\ Present(r) \notin claims
      /\ claims' = claims \cup {Present(r)}
      /\ UNCHANGED <<batching, handover, accepted, excused>>
  BY DEF ProcessEvent, Direct, On, given
<1>2. ~Holds(r)
  BY <1>1 DEF Holds, InHandStage
<1>3. CASE Processed(r) /\ settled' = settled \cup {Present(r)}
  BY <1>1, <1>2, <1>3, Finishes
<1>4. ASSUME NEW stage \in InHandStage, Move(r, stage), settled' = settled PROVE IInv'
  <2>1. /\ web' \in [Request -> Progress]
        /\ web'[r].at = stage /\ web'[r].all = web[r].all /\ web'[r].todo = web[r].todo
        /\ \A q \in Request \ {r} : web'[q] = web[q]
    BY <1>0, <1>4, EventMoves
  <2>2. UNCHANGED <<batch, flights, turns>>
    BY <1>1 DEF handover
  <2>3. Present(r) \in Event
    BY <1>0, <1>1, HeadAndTail DEF BasicInv, Progress, Present
  <2>4. BasicInv'
    BY <1>0, <1>1, <2>1, <2>2, <2>3 DEF BasicInv
  <2>5. Present(r)' = Present(r) /\ Holds(r)'
    BY <1>4, <2>1 DEF Present, Holds
  <2>6. HoldInv'
    BY <1>0, <1>1, <2>1, <2>5, HoldStep
  <2>7. PlaceInv' /\ AloneInv' /\ Queued' = Queued
    BY <1>0, <1>1, <2>1, <2>2, <2>5, PlaceStep
  <2>8. \A q \in Request : Holds(q) => Present(q) \in Kept'
    BY <1>2, <2>1, <2>4, StillHeld
  <2>9. claims' \subseteq claims \cup Kept'
    BY <1>1, <2>4, <2>5, HoldingNext DEF Kept
  <2>10. \A q \in Request : Behind(q)' = Behind(q)
    BY <2>1 DEF Behind
  <2>11. KeptInv'
    BY <1>0, <1>1, <1>4, <2>7, <2>8, <2>9, <2>10, KeptStep
  <2> QED
    BY <2>4, <2>6, <2>7, <2>11 DEF IInv
<1> QED
  BY <1>3, <1>4 DEF ProcessEvent, InHandStage

LEMMA HeldInv ==
  ASSUME IInv, NEW r \in Request,
         Reply(r) \/ Media(r) \/ Persist(r) \/ Consume(r) \/ NotAnAnswer(r)
  PROVE  IInv'
<1>1. /\ Holds(r)
      /\ UNCHANGED <<batching, claims, handover, accepted, excused>>
      /\ \/ Processed(r) /\ settled' = settled \cup {Present(r)}
         \/ settled' = settled /\ \E stage \in {"release", "hand", "answer"} : Move(r, stage)
  <2>1. CASE Reply(r)
    BY <2>1, Aims DEF Reply, given, InHandStage
  <2>2. CASE Media(r)
    BY <2>2, Aims DEF Media, given, InHandStage
  <2>3. CASE Persist(r)
    BY <2>3, Aims DEF Persist, given, ghosts, InHandStage
  <2>4. CASE Consume(r)
    BY <2>4, Aims DEF Consume, given, InHandStage
  <2>5. CASE NotAnAnswer(r)
    BY <2>5, Aims DEF NotAnAnswer, given, ghosts, InHandStage
  <2> QED
    BY <2>1, <2>2, <2>3, <2>4, <2>5
<1>2. CASE Processed(r) /\ settled' = settled \cup {Present(r)}
  <2>1. web[r].todo # <<>>
    BY <1>1 DEF IInv, HoldInv
  <2> QED
    BY <1>1, <1>2, <2>1, Finishes
<1>3. ASSUME settled' = settled, NEW stage \in {"release", "hand", "answer"}, Move(r, stage)
      PROVE  IInv'
  <2>1. stage \in InHandStage
    BY DEF InHandStage
  <2> QED
    BY <1>1, <1>3, <2>1, Advances
<1> QED
  BY <1>1, <1>2, <1>3

(***************************************************************************)
(* The hand-over.                                                          *)
(***************************************************************************)

LEMMA EnqueueInv ==
  ASSUME IInv, NEW r \in Request, Enqueue(r)
  PROVE  IInv'
<1>0. BasicInv /\ HoldInv /\ PlaceInv /\ AloneInv /\ KeptInv
  BY DEF IInv
<1>1. /\ Holds(r) /\ batching /\ batch' = Append(batch, Present(r)) /\ Processed(r)
      /\ UNCHANGED <<batching, claims, flights, turns, settled, accepted, excused>>
  BY DEF Enqueue, On, Holds, InHandStage, given, ghosts
<1>2. web[r].todo # <<>> /\ Present(r) \in claims
  BY <1>0, <1>1 DEF HoldInv
<1>3. /\ web' \in [Request -> Progress] /\ web'[r].at = "next" /\ Present(r) \in Event
      /\ Behind(r)' \subseteq Behind(r) \cup {Present(r)}
      /\ \A q \in Request \ {r} : web'[q] = web[q]
  BY <1>0, <1>1, <1>2, Processes
<1>4. Present(r) \notin Queued
  BY <1>0, <1>1 DEF PlaceInv
<1>5. /\ batch' \in Seq(Event) /\ ToSet(batch') = ToSet(batch) \cup {Present(r)}
      /\ \A i, j \in DOMAIN batch' : batch'[i] = batch'[j] => i = j
  <2>1. batch \in Seq(Event) /\ \A i, j \in DOMAIN batch : batch[i] = batch[j] => i = j
    BY <1>0, <1>1 DEF BasicInv, PlaceInv, Apart
  <2>2. Present(r) \notin ToSet(batch)
    BY <1>4 DEF Queued
  <2> QED
    BY <1>1, <1>3, <2>1, <2>2, Appended
<1>6. BasicInv'
  BY <1>0, <1>1, <1>3, <1>5 DEF BasicInv
<1>7. ~Holds(r)'
  BY <1>3 DEF Holds, InHandStage
<1>8. HoldInv'
  BY <1>0, <1>1, <1>3, <1>7, HoldStep
<1>9. Queued' = Queued \cup {Present(r)}
  BY <1>1, <1>5 DEF Queued
<1>10. PlaceInv'
  <2>1. Queued' \subseteq claims'
    BY <1>0, <1>1, <1>2, <1>9 DEF PlaceInv
  <2>2. ASSUME NEW q \in Request, Holds(q)' PROVE Present(q)' \notin Queued'
    <3>1. q # r /\ web'[q] = web[q]
      BY <1>3, <1>7, <2>2
    <3>2. Holds(q) /\ Present(q)' = Present(q)
      BY <2>2, <3>1 DEF Holds, Present
    <3>3. Present(q) \notin Queued /\ Present(q) # Present(r)
      BY <1>0, <1>1, <3>1, <3>2 DEF PlaceInv, HoldInv
    <3> QED
      BY <1>9, <3>2, <3>3
  <2>3. \A b \in flights \cup turns : ToSet(b) \cap ToSet(batch') = {}
    <3>1. \A b \in flights \cup turns : ToSet(b) \cap ToSet(batch) = {}
      BY <1>0, <1>1 DEF PlaceInv, Apart
    <3>2. \A b \in flights \cup turns : Present(r) \notin ToSet(b)
      BY <1>4 DEF Queued
    <3> QED
      BY <1>5, <3>1, <3>2
  <2> QED
    BY <1>0, <1>1, <1>5, <2>1, <2>2, <2>3 DEF PlaceInv, Apart
<1>11. AloneInv'
  BY <1>1 DEF AloneInv
<1>12. \A q \in Request : Holds(q) => Present(q) \in Kept'
  BY <1>3, <1>6, <1>9, StillHeld DEF Kept
<1>13. \A q \in Request : Behind(q)' \subseteq Behind(q) \cup Kept'
  BY <1>3, <1>9 DEF Behind, Kept
<1>14. KeptInv'
  BY <1>0, <1>1, <1>9, <1>12, <1>13, KeptStep
<1> QED
  BY <1>6, <1>8, <1>10, <1>11, <1>14 DEF IInv

\* The row may be there although its INSERT failed.
LEMMA EnqueueAloneInv ==
  ASSUME IInv, NEW r \in Request, EnqueueAlone(r)
  PROVE  IInv'
<1>0. BasicInv /\ HoldInv /\ PlaceInv /\ AloneInv /\ KeptInv
  BY DEF IInv
<1>1. /\ Holds(r) /\ ~batching
      /\ \/ Processed(r) /\ turns' = turns \cup {<<Present(r)>>}
         \/ Move(r, "release") /\ turns' \in {turns, turns \cup {<<Present(r)>>}}
      /\ UNCHANGED <<batching, claims, batch, flights, settled, accepted, excused>>
  BY DEF EnqueueAlone, On, Holds, InHandStage, given, ghosts
<1>2. web[r].todo # <<>>
  BY <1>0, <1>1 DEF HoldInv
<1>3. Present(r) \in Event
  BY <1>0, <1>2, HeadAndTail DEF BasicInv, Progress, Present
<1>4. /\ turns' \subseteq Seq(Event) /\ turns' \subseteq {<<e>> : e \in Event}
      /\ turns \subseteq turns'
  <2>1. <<Present(r)>> \in Seq(Event) /\ <<Present(r)>> \in {<<e>> : e \in Event}
    BY <1>3
  <2> QED
    BY <1>0, <1>1, <2>1 DEF BasicInv, AloneInv
<1>5. Queued \subseteq Queued'
  BY <1>1, <1>4 DEF Queued
<1>6. PlaceInv' /\ AloneInv'
  BY <1>0, <1>1, <1>4 DEF PlaceInv, AloneInv
<1>7. /\ web' \in [Request -> Progress]
      /\ \A q \in Request \ {r} : web'[q] = web[q]
      /\ \/ Holds(r)' /\ web'[r].todo = web[r].todo /\ Behind(r)' = Behind(r)
         \/ /\ ~Holds(r)' /\ Behind(r)' \subseteq Behind(r) \cup {Present(r)}
            /\ turns' = turns \cup {<<Present(r)>>}
  <2>1. CASE Processed(r) /\ turns' = turns \cup {<<Present(r)>>}
    <3>1. /\ web' \in [Request -> Progress] /\ web'[r].at = "next"
          /\ Behind(r)' \subseteq Behind(r) \cup {Present(r)}
          /\ \A q \in Request \ {r} : web'[q] = web[q]
      BY <1>0, <1>2, <2>1, Processes
    <3> QED
      BY <2>1, <3>1 DEF Holds, InHandStage
  <2>2. CASE Move(r, "release")
    <3>1. /\ web' \in [Request -> Progress] /\ web'[r].at = "release"
          /\ web'[r].all = web[r].all /\ web'[r].todo = web[r].todo
          /\ \A q \in Request \ {r} : web'[q] = web[q]
      BY <1>0, <2>2, EventMoves DEF InHandStage
    <3> QED
      BY <3>1 DEF Holds, InHandStage, Behind
  <2> QED
    BY <1>1, <2>1, <2>2
<1>8. BasicInv'
  BY <1>0, <1>1, <1>4, <1>7 DEF BasicInv
<1>9. HoldInv'
  <2>1. Holds(r)' => Holds(r) /\ web'[r].todo = web[r].todo
    BY <1>1, <1>7
  <2> QED
    BY <1>0, <1>1, <1>7, <2>1, HoldStep
<1>10. turns' = turns \cup {<<Present(r)>>} => Present(r) \in Queued'
  <2>1. ToSet(<<Present(r)>>) = {Present(r)}
    BY DEF ToSet
  <2> QED
    BY <2>1 DEF Queued
<1>11. \A q \in Request : Holds(q) => Present(q) \in Kept'
  <2>1. Holds(r)' /\ web'[r].todo = web[r].todo => Present(r) \in Kept'
    BY <1>8, HoldingNext DEF Kept, Present
  <2> QED
    BY <1>7, <1>8, <1>10, <2>1, StillHeld DEF Kept
<1>12. \A q \in Request : Behind(q)' \subseteq Behind(q) \cup Kept'
  BY <1>7, <1>10 DEF Behind, Kept
<1>13. KeptInv'
  BY <1>0, <1>1, <1>5, <1>11, <1>12, KeptStep
<1> QED
  BY <1>6, <1>8, <1>9, <1>13 DEF IInv

\* The claim goes, and with it what others were told on the strength of it.
LEMMA ReleaseInv ==
  ASSUME IInv, NEW r \in Request, Release(r)
  PROVE  IInv'
<1>0. BasicInv /\ HoldInv /\ PlaceInv /\ AloneInv /\ KeptInv
  BY DEF IInv
<1> DEFINE others == {e \in {Present(r)} : \E q \in Request \ {r} :
                                        e \in ToSet(web[q].all) \ ToSet(web[q].todo)}
<1>1. /\ Holds(r) /\ Refused(r)
      /\ \/ /\ claims' = claims \ {Present(r)}
            /\ excused' = excused \cup (accepted \cap {Present(r)}) \cup others
         \/ claims' = claims /\ excused' = excused \cup {Present(r)}
      /\ UNCHANGED <<batching, batch, flights, turns, settled, accepted>>
  BY DEF Release, On, Holds, InHandStage, given, handover
<1>2. /\ web' \in [Request -> Progress] /\ web'[r].at = "idle" /\ Behind(r)' = {}
      /\ \A q \in Request \ {r} : web'[q] = web[q]
  BY <1>0, <1>1, Refuses
<1>3. /\ claims \ {Present(r)} \subseteq claims' /\ claims' \subseteq claims
      /\ \A q \in Request \ {r} : Behind(q) \cap {Present(r)} \subseteq excused'
      /\ Present(r) \in claims' \cup accepted' => Present(r) \in excused'
      /\ excused \subseteq excused'
  BY <1>1 DEF Behind
<1> HIDE DEF others
<1>4. BasicInv'
  BY <1>0, <1>1, <1>2, <1>3 DEF BasicInv
<1>5. ~Holds(r)'
  BY <1>2 DEF Holds, InHandStage
<1>6. \A q \in Request : Holds(q)' => /\ q # r /\ Holds(q) /\ Present(q)' = Present(q)
                                    /\ web'[q] = web[q]
  BY <1>2, <1>5 DEF Holds, Present
<1>7. HoldInv'
  <2>1. \A q \in Request : Holds(q)' => web'[q].todo # <<>> /\ Present(q)' \in claims'
    BY <1>0, <1>1, <1>3, <1>6 DEF HoldInv
  <2> QED
    BY <1>0, <1>6, <2>1 DEF HoldInv
<1>8. Queued' = Queued
  BY <1>1 DEF Queued
<1>9. PlaceInv' /\ AloneInv'
  <2>1. batching => Present(r) \notin Queued
    BY <1>0, <1>1 DEF PlaceInv
  <2>2. batching => Queued' \subseteq claims'
    BY <1>0, <1>3, <1>8, <2>1 DEF PlaceInv
  <2>3. batching => \A q \in Request : Holds(q)' => Present(q)' \notin Queued'
    BY <1>0, <1>6, <1>8 DEF PlaceInv
  <2> QED
    BY <1>0, <1>1, <2>2, <2>3 DEF PlaceInv, AloneInv, Apart
<1>10. \A e \in Kept : e # Present(r) => e \in Kept'
  <2>1. \A q \in Request : Holds(q) /\ q # r => Present(q) \in Kept'
    BY <1>2, <1>4, StillHeld
  <2> QED
    BY <1>0, <1>1, <1>3, <1>8, <2>1, Holding DEF Kept
<1>11. \A q \in Request : q # r => Behind(q)' = Behind(q)
  BY <1>2 DEF Behind
<1>12. KeptInv'
  <2>1. claims' \subseteq Kept' /\ accepted' \subseteq Kept'
    BY <1>0, <1>1, <1>3, <1>10 DEF KeptInv, Kept
  <2>2. ASSUME NEW q \in Request PROVE Behind(q)' \subseteq Kept'
    BY <1>0, <1>2, <1>3, <1>10, <1>11 DEF KeptInv, Kept
  <2> QED
    BY <2>1, <2>2 DEF KeptInv
<1> QED
  BY <1>4, <1>7, <1>9, <1>12 DEF IInv

LEMMA LoopInv ==
  ASSUME IInv, NEW r \in Request, Loop(r)
  PROVE  IInv'
  BY BetweenInv, ProcessEventInv, HeldInv, EnqueueInv, EnqueueAloneInv, ReleaseInv DEF Loop

(***************************************************************************)
(* The batches.                                                            *)
(***************************************************************************)

\* Nothing is lost from the way to the turns but to a named trouble.
LEMMA Carries ==
  ASSUME IInv, UNCHANGED <<batching, claims, web, settled, accepted>>,
         excused \subseteq excused', Queued' \subseteq Queued,
         Queued \subseteq Queued' \cup excused',
         batch' \in Seq(Event), flights' \subseteq Seq(Event), turns' \subseteq Seq(Event),
         AloneInv', batching => Apart'
  PROVE  IInv'
<1>0. BasicInv /\ HoldInv /\ PlaceInv /\ KeptInv
  BY DEF IInv
<1>1. BasicInv'
  BY <1>0 DEF BasicInv
<1>2. HoldInv' /\ InHand' = InHand
  BY <1>0 DEF HoldInv, Holds, Present, InHand
<1>3. PlaceInv'
  BY <1>0 DEF PlaceInv, Holds, Present
<1>4. Kept \subseteq Kept'
  BY <1>2 DEF Kept
<1>5. KeptInv'
  BY <1>0, <1>4 DEF KeptInv, Behind
<1> QED
  BY <1>1, <1>2, <1>3, <1>5 DEF IInv

LEMMA LeavesTheMap ==
  ASSUME IInv, UNCHANGED <<batching, claims, web, settled, accepted, excused, turns>>,
         batch # <<>> => flights' = flights \cup {batch},
         batch = <<>> => flights' = flights,
         batch' = <<>>
  PROVE  IInv'
<1>0. BasicInv /\ PlaceInv /\ AloneInv
  BY DEF IInv
<1>1. Queued' = Queued
  BY EmptySet DEF Queued
<1>2. AloneInv'
  BY <1>0 DEF AloneInv
<1>3. batching => Apart'
  <2> SUFFICES ASSUME batching PROVE Apart'
    OBVIOUS
  <2>1. Apart
    BY <1>0 DEF PlaceInv
  <2>2. ToSet(batch') = {} /\ DOMAIN batch' = {}
    BY EmptySet
  <2>3. \A b \in flights \cup turns : ToSet(b) \cap ToSet(batch) = {}
    BY <2>1 DEF Apart
  <2>4. flights' \subseteq flights \cup {batch}
    OBVIOUS
  <2> QED
    BY <2>1, <2>2, <2>3, <2>4 DEF Apart
<1>4. batch' \in Seq(Event) /\ flights' \subseteq Seq(Event) /\ turns' \subseteq Seq(Event)
  BY <1>0, EmptySet DEF BasicInv
<1> QED
  BY <1>1, <1>2, <1>3, <1>4, Carries

LEMMA Lands ==
  ASSUME IInv, NEW b \in flights,
         UNCHANGED <<batching, claims, web, settled, accepted, batch>>,
         flights' = flights \ {b}, turns' \in {turns, turns \cup {b}},
         excused \subseteq excused',
         b \in turns' \/ ToSet(b) \subseteq excused'
  PROVE  IInv'
<1>0. BasicInv /\ PlaceInv /\ AloneInv
  BY DEF IInv
<1>1. Queued' \subseteq Queued /\ Queued \subseteq Queued' \cup excused'
  BY DEF Queued
<1>2. AloneInv'
  BY <1>0 DEF AloneInv
<1>3. batching => Apart'
  <2> SUFFICES ASSUME batching PROVE Apart'
    OBVIOUS
  <2>1. Apart
    BY <1>0 DEF PlaceInv
  <2>2. \A c \in flights' : ToSet(b) \cap ToSet(c) = {}
    BY <2>1 DEF Apart
  <2>3. \A c \in turns : ToSet(b) \cap ToSet(c) = {}
    BY <2>1 DEF Apart
  <2> QED
    BY <2>1, <2>2, <2>3 DEF Apart
<1>4. batch' \in Seq(Event) /\ flights' \subseteq Seq(Event) /\ turns' \subseteq Seq(Event)
  BY <1>0 DEF BasicInv
<1> QED
  BY <1>1, <1>2, <1>3, <1>4, Carries

LEMMA BatchInv ==
  ASSUME IInv, Flush \/ ShutDown \/ \E b \in flights : FlushEnds(b) \/ FlushFails(b)
  PROVE  IInv'
<1>1. CASE Flush
  BY <1>1, LeavesTheMap DEF Flush, given, ghosts
<1>2. CASE ShutDown
  BY <1>2, LeavesTheMap DEF ShutDown, given, ghosts
<1>3. ASSUME NEW b \in flights, FlushEnds(b) PROVE IInv'
  <2>1. /\ UNCHANGED <<batching, claims, web, settled, accepted, batch, excused>>
        /\ flights' = flights \ {b} /\ turns' = turns \cup {b}
    BY <1>3 DEF FlushEnds, given, ghosts
  <2> QED
    BY <2>1, Lands
<1>4. ASSUME NEW b \in flights, FlushFails(b) PROVE IInv'
  <2>1. /\ UNCHANGED <<batching, claims, web, settled, accepted, batch>>
        /\ flights' = flights \ {b} /\ turns' \in {turns, turns \cup {b}}
        /\ excused' = excused \cup ToSet(b)
    BY <1>4 DEF FlushFails, given
  <2> QED
    BY <2>1, Lands
<1> QED
  BY <1>1, <1>2, <1>3, <1>4

(***************************************************************************)
(* The process, and the rest.                                              *)
(***************************************************************************)

LEMMA EndsInv ==
  ASSUME IInv, Ends
  PROVE  IInv'
<1> DEFINE held == {claims \cap ToSet(web[r].todo) : r \in Request}
<1>0. BasicInv /\ HoldInv /\ PlaceInv /\ AloneInv /\ KeptInv
  BY DEF IInv
<1>1. /\ web' = [r \in Request |-> NoRequest] /\ batch' = <<>> /\ flights' = {}
      /\ UNCHANGED <<batching, claims, settled, accepted>>
      /\ excused' = excused \cup ToSet(batch) \cup (UNION {ToSet(b) : b \in flights})
                            \cup (UNION held)
  BY DEF Ends, given
<1>2. PICK some \in SUBSET flights : turns' = turns \cup some
  BY DEF Ends
<1>3. /\ NoRequest \in Progress /\ NoRequest.at = "idle" /\ NoRequest.all = <<>>
      /\ ToSet(<<>>) = {} /\ <<>> \in Seq(Event)
  BY EmptySet DEF NoRequest, Progress
<1>4. BasicInv'
  BY <1>0, <1>1, <1>2, <1>3 DEF BasicInv
<1>5. \A r \in Request : ~Holds(r)' /\ Behind(r)' = {}
  BY <1>1, <1>3 DEF Holds, InHandStage, Behind
<1>6. HoldInv'
  BY <1>5 DEF HoldInv
<1>7. Queued' \subseteq Queued /\ Queued \subseteq Queued' \cup excused'
  BY <1>1, <1>2, <1>3 DEF Queued
<1>8. AloneInv'
  BY <1>0, <1>1, <1>2 DEF AloneInv
<1>9. PlaceInv'
  <2> SUFFICES ASSUME batching PROVE PlaceInv'
    BY <1>1 DEF PlaceInv
  <2>1. Apart /\ Queued \subseteq claims
    BY <1>0 DEF PlaceInv
  <2>2. \A b, c \in turns' : ToSet(b) \cap ToSet(c) # {} => b = c
    BY <1>2, <2>1 DEF Apart
  <2>3. DOMAIN batch' = {} /\ ToSet(batch') = {}
    BY <1>1, <1>3
  <2>4. Apart'
    BY <1>1, <2>2, <2>3 DEF Apart
  <2> QED
    BY <1>1, <1>5, <1>7, <2>1, <2>4 DEF PlaceInv
<1>10. InHand \subseteq excused'
  <2> SUFFICES ASSUME NEW r \in Request, Holds(r) PROVE Present(r) \in excused'
    BY <1>0, Holding
  <2>1. Present(r) \in claims /\ Present(r) \in ToSet(web[r].todo)
    <3>1. web[r].todo # <<>> /\ web[r].todo \in Seq(Event)
      BY <1>0 DEF HoldInv, BasicInv, Progress
    <3> QED
      BY <1>0, <3>1, HeadAndTail DEF HoldInv, Present
  <2>2. claims \cap ToSet(web[r].todo) \subseteq excused'
    <3>1. claims \cap ToSet(web[r].todo) \in held
      OBVIOUS
    <3> HIDE DEF held
    <3> QED
      BY <1>1, <3>1
  <2> QED
    BY <2>1, <2>2
<1>11. Kept \subseteq Kept'
  BY <1>1, <1>7, <1>10 DEF Kept
<1>12. KeptInv'
  BY <1>0, <1>1, <1>5, <1>11 DEF KeptInv
<1> QED
  BY <1>4, <1>6, <1>8, <1>9, <1>12 DEF IInv

LEMMA UnseenInv ==
  ASSUME IInv, UNCHANGED <<batching, claims, web, settled, accepted, excused, batch, flights,
                           turns>>
  PROVE  IInv'
<1>0. BasicInv /\ PlaceInv /\ AloneInv
  BY DEF IInv
<1>1. Queued' = Queued /\ AloneInv' /\ (batching => Apart')
  BY <1>0 DEF Queued, AloneInv, PlaceInv, Apart
<1> QED
  BY <1>0, <1>1, Carries DEF BasicInv

LEMMA InitInv == IngressInit => IInv
<1> SUFFICES ASSUME IngressInit PROVE IInv
  OBVIOUS
<1>1. /\ NoRequest \in Progress /\ NoRequest.at = "idle" /\ NoRequest.all = <<>>
      /\ NoRequest.todo = <<>> /\ ToSet(<<>>) = {} /\ <<>> \in Seq(Event)
  BY EmptySet DEF NoRequest, Progress
<1>2. \A r \in Request : web[r] = NoRequest
  BY DEF IngressInit
<1>3. BasicInv
  BY <1>1, <1>2 DEF IngressInit, BasicInv
<1>4. \A r \in Request : ~Holds(r) /\ Behind(r) = {}
  BY <1>1, <1>2 DEF Holds, InHandStage, Behind
<1>5. Queued = {}
  BY <1>1 DEF IngressInit, Queued
<1>6. HoldInv /\ PlaceInv /\ AloneInv /\ KeptInv
  BY <1>1, <1>4, <1>5 DEF IngressInit, HoldInv, PlaceInv, Apart, AloneInv, KeptInv
<1> QED
  BY <1>3, <1>6 DEF IInv

LEMMA NextInv == IInv /\ [IngressNext]_ingressVars => IInv'
<1> SUFFICES ASSUME IInv, [IngressNext]_ingressVars PROVE IInv'
  OBVIOUS
<1>1. ASSUME NEW r \in Request, Loop(r) \/ \E seq \in Carried : Deliver(r, seq) PROVE IInv'
  BY <1>1, LoopInv, DeliverInv
<1>2. ASSUME NEW e \in Event, ImageAlone(e) PROVE IInv'
  BY <1>2, UnseenInv DEF ImageAlone, given, handover, ghosts
<1>3. CASE Flush \/ ShutDown \/ \E b \in flights : FlushEnds(b) \/ FlushFails(b)
  BY <1>3, BatchInv
<1>4. CASE Exit \/ Crash
  BY <1>4, EndsInv DEF Exit, Crash
<1>5. CASE UNCHANGED ingressVars
  BY <1>5, UnseenInv DEF ingressVars
<1> QED
  BY <1>1, <1>2, <1>3, <1>4, <1>5 DEF IngressNext

\* Every reachable state has the invariant: for any requests, redeliveries,
\* batches, crashes and shutdowns.
THEOREM Invariance == IngressSpec => []IInv
  BY InitInv, NextInv, PTL DEF IngressSpec

(***************************************************************************)
(* What follows.                                                           *)
(***************************************************************************)

\* An event LINE was told 200 for was answered or is on its way to a turn,
\* whatever the order in which requests, redeliveries, batches and flushes
\* overlap; only the named troubles lose one.
THEOREM KeepsAccepted == IngressSpec => []AcceptedIsKept
<1>1. IInv => AcceptedIsKept
  BY DEF IInv, KeptInv, Kept, Queued, AcceptedIsKept
<1> QED
  BY <1>1, Invariance, PTL

\* A set whose members are equal has at most one.
LEMMA AtMostOne ==
  ASSUME NEW S, \A x, y \in S : x = y
  PROVE  Cardinality(S) \in {0, 1} /\ (S = {} <=> Cardinality(S) = 0)
<1>1. CASE S = {}
  BY <1>1, FS_EmptySet
<1>2. CASE S # {}
  <2>1. PICK x : S = {x}
    BY <1>2
  <2>2. Cardinality({x}) = 1
    BY FS_Singleton
  <2> QED
    BY <1>2, <2>1, <2>2
<1> QED
  BY <1>1, <1>2

\* No event is put to the agent twice, however often LINE sends it and
\* whatever fails in between.
THEOREM OneTurnEach == IngressSpec => []InOneTurn
<1>1. ASSUME IInv, NEW e \in Event
      PROVE  Cardinality({b \in turns : e \in ToSet(b)})
               + Cardinality({b \in flights : e \in ToSet(b)})
               + Cardinality({i \in DOMAIN batch : batch[i] = e}) <= 1
  <2> DEFINE T == {b \in turns : e \in ToSet(b)}
             F == {b \in flights : e \in ToSet(b)}
             B == {i \in DOMAIN batch : batch[i] = e}
  <2>1. /\ \A x, y \in T : x = y
        /\ \A x, y \in F : x = y
        /\ \A x, y \in B : x = y
        /\ T = {} \/ F = {}
        /\ T = {} \/ B = {}
        /\ F = {} \/ B = {}
    <3>1. CASE batching
      <4>1. Apart
        BY <1>1, <3>1 DEF IInv, PlaceInv
      <4>2. \A i \in B : e \in ToSet(batch)
        BY DEF ToSet
      <4> QED
        BY <4>1, <4>2 DEF Apart
    <3>2. CASE ~batching
      <4>1. batch = <<>> /\ flights = {} /\ turns \subseteq {<<x>> : x \in Event}
        BY <1>1, <3>2 DEF IInv, AloneInv
      <4>2. \A x \in Event : ToSet(<<x>>) = {x}
        BY DEF ToSet
      <4>3. F = {} /\ B = {}
        BY <4>1
      <4>4. \A b \in T : b = <<e>>
        BY <4>1, <4>2
      <4> QED
        BY <4>3, <4>4
    <3> QED
      BY <1>1, <3>1, <3>2 DEF IInv, BasicInv
  <2> HIDE DEF T, F, B
  <2>2. /\ Cardinality(T) \in {0, 1} /\ (T = {} <=> Cardinality(T) = 0)
        /\ Cardinality(F) \in {0, 1} /\ (F = {} <=> Cardinality(F) = 0)
        /\ Cardinality(B) \in {0, 1} /\ (B = {} <=> Cardinality(B) = 0)
    BY <2>1, AtMostOne
  <2>3. Cardinality(T) + Cardinality(F) + Cardinality(B) <= 1
    BY <2>1, <2>2
  <2> QED
    BY <2>3 DEF T, F, B
<1>2. IInv => InOneTurn
  BY <1>1 DEF InOneTurn
<1> QED
  BY <1>2, Invariance, PTL

(***************************************************************************)
(* Types.                                                                  *)
(***************************************************************************)

\* What is left of a request's events are the last of them.
LastOf(todo, all) ==
    /\ Len(todo) <= Len(all)
    /\ \A i \in 1..Len(todo) : todo[i] = all[(Len(all) - Len(todo)) + i]

LEMMA LastIsSuffix ==
  ASSUME NEW todo \in Seq(Event), NEW all \in Seq(Event), LastOf(todo, all)
  PROVE  IsSuffix(todo, all)
<1> DEFINE n == Len(todo)
           back == Reverse(todo)
           whole == Reverse(all)
<1>1. n \in Nat /\ Len(all) \in Nat /\ n <= Len(all)
  BY LenProperties DEF LastOf
<1>2. /\ \A i \in 1..n : todo[(n - i) + 1] \in Event
      /\ \A i \in 1..Len(all) : all[(Len(all) - i) + 1] \in Event
  BY <1>1, ElementOfSeq
<1>3. /\ back \in Seq(Event) /\ Len(back) = n
      /\ whole \in Seq(Event) /\ Len(whole) = Len(all)
  BY <1>1, <1>2 DEF Reverse
<1>4. \A i \in 1..n : back[i] = whole[i]
  <2> SUFFICES ASSUME NEW i \in 1..n PROVE back[i] = whole[i]
    OBVIOUS
  <2>1. back[i] = todo[(n - i) + 1] /\ whole[i] = all[(Len(all) - i) + 1]
    BY <1>1 DEF Reverse
  <2>2. (n - i) + 1 \in 1..n /\ (Len(all) - n) + ((n - i) + 1) = (Len(all) - i) + 1
    BY <1>1
  <2> QED
    BY <2>1, <2>2 DEF LastOf
<1> HIDE DEF back, whole
<1>5. SubSeq(back, 1, n) = SubSeq(whole, 1, n)
  BY <1>1, <1>3, <1>4
<1> QED
  BY <1>1, <1>3, <1>5 DEF IsSuffix, IsPrefix, back, whole

LEMMA LastTail ==
  ASSUME NEW todo \in Seq(Event), NEW all \in Seq(Event), LastOf(todo, all), todo # <<>>
  PROVE  LastOf(Tail(todo), all)
<1>1. /\ Len(todo) \in Nat \ {0} /\ Len(all) \in Nat /\ Len(Tail(todo)) = Len(todo) - 1
      /\ \A i \in 1..(Len(todo) - 1) : Tail(todo)[i] = todo[i + 1]
  BY EmptySeq, LenProperties, HeadTailProperties
<1>2. \A i \in 1..(Len(todo) - 1) :
         /\ i + 1 \in 1..Len(todo)
         /\ (Len(all) - Len(todo)) + (i + 1) = (Len(all) - (Len(todo) - 1)) + i
  BY <1>1
<1> QED
  BY <1>1, <1>2 DEF LastOf

RequestsTyped ==
    \A r \in Request : web[r].all \in Carried \cup {<<>>} /\ LastOf(web[r].todo, web[r].all)
EventsTyped ==
    /\ kind \in [Event -> EventKind]
    /\ stored \subseteq Event /\ waiting \subseteq Event /\ asking \subseteq Event
    /\ settled \subseteq Event /\ accepted \subseteq Event /\ excused \subseteq Event
PlacesTyped ==
    /\ <<>> \notin flights \cup turns /\ awaited \subseteq flights
    /\ up \in {"running", "draining"}
    /\ made \in 0..MaxRequests /\ trouble \in 0..MaxTrouble
IngressTyped == RequestsTyped /\ EventsTyped /\ PlacesTyped

LEMMA Starts ==
  /\ \A seq \in Carried \cup {<<>>} : seq \in Seq(Event) /\ LastOf(seq, seq)
  /\ NoRequest.all = <<>> /\ NoRequest.todo = <<>>
<1>1. ASSUME NEW seq \in Carried \cup {<<>>} PROVE seq \in Seq(Event)
  <2>1. CASE seq = <<>>
    BY <2>1, EmptySet
  <2>2. CASE \E e \in Event : seq = <<e>>
    BY <2>2
  <2>3. CASE \E e, f \in Event : seq = <<e, f>>
    <3>1. PICK e \in Event, f \in Event : seq = <<e, f>>
      BY <2>3
    <3>2. <<e, f>> \in Seq(Event)
      OBVIOUS
    <3> QED
      BY <3>1, <3>2
  <2> QED
    BY <2>1, <2>2, <2>3 DEF Carried
<1>2. ASSUME NEW seq \in Seq(Event) PROVE LastOf(seq, seq)
  BY LenProperties DEF LastOf
<1> QED
  BY <1>1, <1>2 DEF NoRequest

LEMMA RequestsStep ==
  ASSUME BasicInv, RequestsTyped, NEW r \in Request,
         \/ \E stage : Move(r, stage)
         \/ web[r].todo # <<>> /\ Processed(r)
         \/ Refused(r)
  PROVE  RequestsTyped'
<1>1. web[r] \in Progress /\ web[r].todo \in Seq(Event) /\ web[r].all \in Seq(Event)
  BY DEF BasicInv, Progress
<1>2. \A q \in Request \ {r} : web'[q] = web[q]
  BY DEF BasicInv, Move, Processed, Refused
<1>3. CASE \E stage : Move(r, stage)
  <2>1. web'[r].all = web[r].all /\ web'[r].todo = web[r].todo
    BY <1>3 DEF BasicInv, Progress, Move
  <2> QED
    BY <1>2, <2>1 DEF RequestsTyped
<1>4. CASE web[r].todo # <<>> /\ Processed(r)
  <2>1. web'[r].all = web[r].all /\ web'[r].todo = Tail(web[r].todo)
    BY <1>4 DEF BasicInv, Progress, Processed
  <2>2. LastOf(web'[r].todo, web'[r].all)
    BY <1>1, <1>4, <2>1, LastTail DEF RequestsTyped
  <2> QED
    BY <1>2, <2>1, <2>2 DEF RequestsTyped
<1>5. CASE Refused(r)
  <2>1. web'[r] = NoRequest
    BY <1>5 DEF Refused, BasicInv
  <2> QED
    BY <1>2, <2>1, Starts DEF RequestsTyped
<1> QED
  BY <1>3, <1>4, <1>5

LEMMA HeldEvent ==
  ASSUME BasicInv, HoldInv, NEW r \in Request, Holds(r) \/ web[r].todo # <<>>
  PROVE  web[r].todo # <<>> /\ Present(r) \in Event
<1>1. web[r].todo # <<>> /\ web[r].todo \in Seq(Event)
  BY DEF BasicInv, HoldInv, Progress
<1> QED
  BY <1>1, HeadAndTail DEF Present

LEMMA TroubleTyped == PlacesTyped /\ Trouble => trouble' \in 0..MaxTrouble
  BY IngressAssumption DEF PlacesTyped, Trouble

LEMMA LoopRequests ==
  ASSUME IInv, RequestsTyped, NEW r \in Request, Loop(r)
  PROVE  RequestsTyped'
<1>1. web[r].todo # <<>> \/ Accept(r) \/ ProcessEventFails(r)
  BY HeldEvent, Aims DEF IInv, Loop, Unsend, ForwardGroup, Duplicate, Direct, ProcessEvent, Reply,
     Media, Persist, Consume, NotAnAnswer, Enqueue, EnqueueAlone, Release, InHandStage
<1>2. (\E stage : Move(r, stage)) \/ Processed(r) \/ Refused(r)
  BY DEF Loop, Accept, Refused, Unsend, ForwardGroup, Duplicate, ProcessEvent,
     ProcessEventFails, Reply, Media, Persist, Consume, NotAnAnswer, Enqueue, EnqueueAlone,
     Release
<1>3. Accept(r) \/ ProcessEventFails(r) => Refused(r)
  BY DEF Accept, ProcessEventFails, Refused
<1> QED
  BY <1>1, <1>2, <1>3, RequestsStep DEF IInv

LEMMA LoopEvents ==
  ASSUME IInv, EventsTyped, NEW r \in Request, Loop(r)
  PROVE  EventsTyped'
<1>1. Accept(r) \/ ProcessEventFails(r) \/ Present(r) \in Event
  BY HeldEvent, Aims DEF IInv, Loop, Unsend, ForwardGroup, Duplicate, Direct, ProcessEvent, Reply,
     Media, Persist, Consume, NotAnAnswer, Enqueue, EnqueueAlone, Release, InHandStage
<1>2. ToSet(web[r].all) \subseteq Event
  BY SetOfSeq DEF IInv, BasicInv, Progress
<1>3. CASE Accept(r) \/ ProcessEventFails(r)
  BY <1>2, <1>3 DEF EventsTyped, Accept, ProcessEventFails, given, images, ghosts
<1>4. CASE Unsend(r) \/ ForwardGroup(r) \/ Duplicate(r) \/ ProcessEvent(r) \/ Reply(r)
  BY <1>1, <1>4 DEF EventsTyped, Accept, ProcessEventFails, Unsend, ForwardGroup, Duplicate,
     ProcessEvent, Reply, given, images, ghosts
<1>5. CASE Media(r) \/ Persist(r) \/ Consume(r) \/ NotAnAnswer(r)
  BY <1>1, <1>5 DEF EventsTyped, Accept, ProcessEventFails, Media, Persist, Consume, NotAnAnswer,
     given, images, ghosts
<1>6. CASE Enqueue(r) \/ EnqueueAlone(r)
  BY <1>6 DEF EventsTyped, Enqueue, EnqueueAlone, given, images, ghosts
<1>7. CASE Release(r)
  <2>1. excused' \subseteq excused \cup {Present(r)} \cup accepted
    BY <1>7 DEF Release
  <2>2. Present(r) \in Event
    BY <1>7, HeldEvent, Aims DEF IInv, Release, InHandStage
  <2> QED
    BY <1>7, <2>1, <2>2 DEF EventsTyped, Release, given, images
<1> QED
  BY <1>3, <1>4, <1>5, <1>6, <1>7 DEF Loop

LEMMA LoopPlaces ==
  ASSUME IInv, PlacesTyped, NEW r \in Request, Loop(r)
  PROVE  PlacesTyped'
<1>1. trouble' = trouble \/ Trouble
  BY DEF Loop, Accept, Unsend, ForwardGroup, Duplicate, ProcessEvent, ProcessEventFails, Reply,
     Media, Persist, Consume, NotAnAnswer, Enqueue, EnqueueAlone, Release
<1>2. trouble' \in 0..MaxTrouble
  BY <1>1, TroubleTyped DEF PlacesTyped
<1>3. UNCHANGED <<flights, awaited, up, made>>
  BY DEF Loop, Accept, Unsend, ForwardGroup, Duplicate, ProcessEvent, ProcessEventFails, Reply,
     Media, Persist, Consume, NotAnAnswer, Enqueue, EnqueueAlone, Release, handover
<1>4. turns' = turns \/ turns' = turns \cup {<<Present(r)>>}
  BY DEF Loop, Accept, Unsend, ForwardGroup, Duplicate, ProcessEvent, ProcessEventFails, Reply,
     Media, Persist, Consume, NotAnAnswer, Enqueue, EnqueueAlone, Release, handover
<1>5. <<Present(r)>> # <<>>
  OBVIOUS
<1> QED
  BY <1>2, <1>3, <1>4, <1>5 DEF PlacesTyped

LEMMA DeliverTyped ==
  ASSUME IInv, IngressTyped, NEW r \in Request, NEW seq \in Carried, Deliver(r, seq)
  PROVE  IngressTyped'
<1>1. web' = [web EXCEPT ![r] = [at |-> "next", all |-> seq, todo |-> seq]]
  BY DEF Deliver
<1>2. /\ \A q \in Request \ {r} : web'[q] = web[q]
      /\ web'[r].all = seq /\ web'[r].todo = seq
  BY <1>1 DEF IInv, BasicInv
<1>3. RequestsTyped'
  BY <1>2, Starts DEF IngressTyped, RequestsTyped
<1>4. made' \in 0..MaxRequests
  BY IngressAssumption DEF IngressTyped, PlacesTyped, Deliver
<1> QED
  BY <1>3, <1>4 DEF IngressTyped, EventsTyped, PlacesTyped, Deliver, given, images, handover,
     ghosts

LEMMA BatchTyped ==
  ASSUME IInv, IngressTyped,
         Flush \/ ShutDown \/ \E b \in flights : FlushEnds(b) \/ FlushFails(b)
  PROVE  IngressTyped'
<1>1. UNCHANGED <<kind, web, stored, waiting, asking, settled, accepted, made>>
  BY DEF Flush, ShutDown, FlushEnds, FlushFails, given, images, ghosts
<1>2. RequestsTyped'
  BY <1>1 DEF IngressTyped, RequestsTyped
<1>3. excused' \subseteq Event
  <2>1. \A b \in flights : ToSet(b) \subseteq Event
    BY SetOfSeq DEF IInv, BasicInv
  <2> QED
    BY <2>1 DEF IngressTyped, EventsTyped, Flush, ShutDown, FlushEnds, FlushFails, ghosts
<1>4. trouble' \in 0..MaxTrouble
  BY TroubleTyped DEF IngressTyped, PlacesTyped, Flush, ShutDown, FlushEnds, FlushFails
<1>5. /\ <<>> \notin flights' \cup turns' /\ awaited' \subseteq flights'
      /\ up' \in {"running", "draining"}
  BY DEF IngressTyped, PlacesTyped, Flush, ShutDown, FlushEnds, FlushFails
<1> QED
  BY <1>1, <1>2, <1>3, <1>4, <1>5 DEF IngressTyped, EventsTyped, PlacesTyped

LEMMA EndsTyped ==
  ASSUME IInv, IngressTyped, Exit \/ Crash
  PROVE  IngressTyped'
<1>1. Ends
  BY DEF Exit, Crash
<1>2. RequestsTyped'
  BY <1>1, Starts DEF Ends, RequestsTyped
<1>3. excused' \subseteq Event
  <2>1. ToSet(batch) \subseteq Event /\ \A b \in flights : ToSet(b) \subseteq Event
    BY SetOfSeq DEF IInv, BasicInv
  <2>2. claims \subseteq Event
    BY DEF IInv, BasicInv
  <2> QED
    BY <1>1, <2>1, <2>2 DEF IngressTyped, EventsTyped, Ends
<1>4. EventsTyped'
  BY <1>1, <1>3 DEF IngressTyped, EventsTyped, Ends, given
<1>5. trouble' \in 0..MaxTrouble
  BY TroubleTyped DEF IngressTyped, PlacesTyped, Exit, Crash
<1> QED
  BY <1>1, <1>2, <1>4, <1>5 DEF IngressTyped, PlacesTyped, Ends

LEMMA TypedStep ==
  ASSUME IInv, IngressTyped, [IngressNext]_ingressVars
  PROVE  IngressTyped'
<1>1. CASE \E r \in Request : Loop(r)
  BY <1>1, LoopRequests, LoopEvents, LoopPlaces DEF IngressTyped
<1>2. CASE \E r \in Request, seq \in Carried : Deliver(r, seq)
  BY <1>2, DeliverTyped
<1>3. CASE \E e \in Event : ImageAlone(e)
  BY <1>3 DEF IngressTyped, RequestsTyped, EventsTyped, PlacesTyped, ImageAlone, given, handover,
     ghosts
<1>4. CASE UNCHANGED ingressVars
  BY <1>4 DEF IngressTyped, RequestsTyped, EventsTyped, PlacesTyped, ingressVars
<1> QED
  BY <1>1, <1>2, <1>3, <1>4, BatchTyped, EndsTyped DEF IngressNext

\* Types: what a request still has to do are the last of the events it came
\* with, no empty batch is written, and a shutdown waits for flushes alone.
THEOREM IngressTypes == IngressSpec => []IngressTypeOK
<1>1. IngressInit => IngressTyped
  BY Starts, IngressAssumption DEF IngressInit, IngressTyped, RequestsTyped, EventsTyped,
     PlacesTyped
<1>2. IInv /\ IngressTyped => IngressTypeOK
  <2> SUFFICES ASSUME IInv, IngressTyped PROVE IngressTypeOK
    OBVIOUS
  <2>1. BasicInv
    BY DEF IInv
  <2>2. /\ \A b \in flights \cup turns : ToSet(b) \subseteq Event
        /\ ToSet(batch) \subseteq Event
    BY <2>1, SetOfSeq DEF BasicInv
  <2>3. ASSUME NEW r \in Request
        PROVE  /\ web[r].at \in {"idle", "next", "reply", "media", "persist", "answer", "hand",
                                 "release"}
               /\ IsSuffix(web[r].todo, web[r].all)
    BY <2>1, LastIsSuffix DEF BasicInv, Progress, InHandStage, IngressTyped, RequestsTyped
  <2> QED
    BY <2>1, <2>2, <2>3 DEF BasicInv, IngressTyped, RequestsTyped, EventsTyped, PlacesTyped,
       IngressTypeOK
<1> QED
  BY <1>1, <1>2, InitInv, NextInv, TypedStep, PTL DEF IngressSpec

-----------------------------------------------------------------------------
(* WebChat.                                                                *)

Fields == {"at", "room", "looking", "seen"}

\* A tab is shown what it keeps the id of, and an open one is in the room of
\* its recipient.
TabsInv ==
    /\ DOMAIN tabs = Tab /\ \A t \in Tab : DOMAIN tabs[t] = Fields
    /\ shown \in [Tab -> [Ids -> Nat]]
    /\ \A t \in Tab, i \in Ids : shown[t][i] = IF i \in tabs[t].seen THEN 1 ELSE 0
    /\ \A t \in Tab : tabs[t].at = "open" => <<Recipient, t>> \in members

\* An open tab that is owed a reply was shown it, or the reply is on its way
\* to the tab's process.
Coming(n, t) == \E w \in wires : w.n = n /\ w.to = Home[t] /\ w.what = "message"
OwedInv ==
    /\ replies \in 0..MaxReplies
    /\ owed \in [1..MaxReplies -> SUBSET Tab]
    /\ \A n \in 1..replies, t \in Tab :
         t \in owed[n] => /\ tabs[t].at # "off"
                          /\ tabs[t].at = "open" => ReplyId(n) \in tabs[t].seen \/ Coming(n, t)
WebInv == TabsInv /\ OwedInv

\* Sockets that open, close, and change rooms.
LEMMA TabsMove ==
  ASSUME WebInv, UNCHANGED <<replies, shown, owed>>, wires \subseteq wires',
         DOMAIN tabs' = Tab, \A t \in Tab : DOMAIN tabs'[t] = Fields,
         \A t \in Tab : /\ tabs'[t].seen = tabs[t].seen
                        /\ tabs[t].at # "off" => tabs'[t].at # "off"
                        /\ tabs'[t].at = "open" => /\ <<Recipient, t>> \in members'
                                                   /\ tabs[t].at \in {"off", "open"}
  PROVE  WebInv'
<1>1. TabsInv'
  BY DEF WebInv, TabsInv
<1>2. ASSUME NEW n \in 1..replies, NEW t \in Tab, t \in owed[n]
      PROVE  /\ tabs'[t].at # "off"
             /\ tabs'[t].at = "open" => ReplyId(n) \in tabs'[t].seen \/ Coming(n, t)'
  <2>1. /\ tabs[t].at # "off"
        /\ tabs[t].at = "open" => ReplyId(n) \in tabs[t].seen \/ Coming(n, t)
    BY <1>2 DEF WebInv, OwedInv
  <2>2. Coming(n, t) => Coming(n, t)'
    BY DEF Coming
  <2> QED
    BY <2>1, <2>2
<1> QED
  BY <1>1, <1>2 DEF WebInv, OwedInv

LEMMA OneMore ==
  ASSUME NEW S, NEW f \in [S -> Nat], NEW x
  PROVE  /\ [f EXCEPT ![x] = @ + 1] \in [S -> Nat]
         /\ \A i \in S : [f EXCEPT ![x] = @ + 1][i] = IF i = x THEN f[i] + 1 ELSE f[i]
<1> DEFINE g == [f EXCEPT ![x] = @ + 1]
<1>1. g = [i \in S |-> IF i = x THEN f[i] + 1 ELSE f[i]]
  OBVIOUS
<1>2. \A i \in S : (IF i = x THEN f[i] + 1 ELSE f[i]) \in Nat
  OBVIOUS
<1> QED
  BY <1>1, <1>2

\* What a broadcast does to the tabs.
LEMMA BroadcastTabs ==
  ASSUME TabsInv, UNCHANGED members, NEW q, NEW c, NEW id, NEW skip, Broadcast(q, c, id, skip)
  PROVE  /\ TabsInv'
         /\ \A t \in Tab : tabs'[t].at = tabs[t].at /\ tabs[t].seen \subseteq tabs'[t].seen
         /\ \A t \in Tab : Home[t] = q /\ tabs[t].at = "open" /\ t \notin skip
                              => id \in tabs'[t].seen
<1> DEFINE new == {t \in Audience(q, c, skip) : id \notin tabs[t].seen}
<1>1. /\ tabs' = [t \in Tab |-> IF t \in new THEN [tabs[t] EXCEPT !.seen = @ \cup {id}]
                                ELSE tabs[t]]
      /\ shown' = [t \in Tab |-> IF t \in new THEN [shown[t] EXCEPT ![id] = @ + 1] ELSE shown[t]]
  BY DEF Broadcast
<1>2. ASSUME NEW t \in Tab
      PROVE  /\ DOMAIN tabs'[t] = Fields /\ tabs'[t].at = tabs[t].at
             /\ tabs'[t].seen = IF t \in new THEN tabs[t].seen \cup {id} ELSE tabs[t].seen
             /\ shown'[t] = IF t \in new THEN [shown[t] EXCEPT ![id] = @ + 1] ELSE shown[t]
  <2>1. tabs'[t] = IF t \in new THEN [tabs[t] EXCEPT !.seen = @ \cup {id}] ELSE tabs[t]
    BY <1>1
  <2>2. DOMAIN tabs[t] = Fields
    BY DEF TabsInv
  <2> HIDE DEF new
  <2> QED
    BY <1>1, <2>1, <2>2 DEF Fields
<1>3. \A t \in new : t \in Tab /\ id \notin tabs[t].seen
  BY DEF Audience
<1>4. \A t \in Tab : Home[t] = q /\ tabs[t].at = "open" /\ t \notin skip
                        => t \in new \/ id \in tabs[t].seen
  BY DEF Audience, TabsInv
<1> HIDE DEF new
<1>5. ASSUME NEW t \in Tab
      PROVE  /\ shown'[t] \in [Ids -> Nat]
             /\ \A i \in Ids : shown'[t][i] = IF i \in tabs'[t].seen THEN 1 ELSE 0
  <2>1. /\ shown[t] \in [Ids -> Nat]
        /\ \A i \in Ids : shown[t][i] = IF i \in tabs[t].seen THEN 1 ELSE 0
    BY DEF TabsInv
  <2>2. CASE t \in new
    <3>1. shown'[t] = [shown[t] EXCEPT ![id] = @ + 1]
      BY <1>2, <2>2
    <3>2. /\ shown'[t] \in [Ids -> Nat]
          /\ \A i \in Ids : shown'[t][i] = IF i = id THEN shown[t][i] + 1 ELSE shown[t][i]
      BY <2>1, <3>1, OneMore
    <3>3. ASSUME NEW i \in Ids
          PROVE  shown'[t][i] = IF i \in tabs'[t].seen THEN 1 ELSE 0
      <4>1. tabs'[t].seen = tabs[t].seen \cup {id} /\ id \notin tabs[t].seen
        BY <1>2, <1>3, <2>2
      <4>2. /\ shown'[t][i] = IF i = id THEN shown[t][i] + 1 ELSE shown[t][i]
            /\ shown[t][i] = IF i \in tabs[t].seen THEN 1 ELSE 0
        BY <2>1, <3>2
      <4> QED
        BY <4>1, <4>2
    <3> QED
      BY <3>2, <3>3
  <2>3. CASE t \notin new
    BY <1>2, <2>1, <2>3
  <2> QED
    BY <2>2, <2>3
<1>6. shown' \in [Tab -> [Ids -> Nat]] /\ DOMAIN tabs' = Tab
  BY <1>1, <1>5
<1>7. TabsInv'
  BY <1>2, <1>5, <1>6 DEF TabsInv
<1> QED
  BY <1>2, <1>4, <1>7

\* A broadcast that settles nothing: what is on its way stays so.
LEMMA BroadcastKeeps ==
  ASSUME WebInv, UNCHANGED <<members, replies, owed, wires>>,
         NEW q, NEW c, NEW id, NEW skip, Broadcast(q, c, id, skip)
  PROVE  WebInv'
<1>1. /\ TabsInv'
      /\ \A t \in Tab : tabs'[t].at = tabs[t].at /\ tabs[t].seen \subseteq tabs'[t].seen
  BY BroadcastTabs DEF WebInv
<1> QED
  BY <1>1 DEF WebInv, OwedInv, Coming

\* Redis has a message for every process, or the publishing process shows it
\* itself.
LEMMA PublishStep ==
  ASSUME WebInv, UNCHANGED members, NEW q \in Process, NEW c, NEW what,
         \/ /\ NextReply /\ wires' = wires \cup Everywhere(c, what) /\ Owe(what, OpenTabs)
            /\ UNCHANGED <<tabs, shown>>
         \/ PublishOutbound(q, c, what)
  PROVE  WebInv'
<1>0. PICK n : n = replies + 1
  OBVIOUS
<1>1. /\ replies \in 0..MaxReplies /\ replies' = n /\ n \in 1..MaxReplies
      /\ owed \in [1..MaxReplies -> SUBSET Tab]
  BY <1>0, WebChatAssumption DEF WebInv, OwedInv, NextReply, PublishOutbound
<1>2. /\ TabsInv'
      /\ \A t \in Tab : tabs'[t].at = tabs[t].at /\ tabs[t].seen \subseteq tabs'[t].seen
  <2>1. CASE UNCHANGED <<tabs, shown>>
    BY <2>1 DEF WebInv, TabsInv
  <2>2. CASE Broadcast(q, c, ReplyId(n), {})
    BY <2>2, BroadcastTabs DEF WebInv
  <2> QED
    BY <1>0, <2>1, <2>2 DEF PublishOutbound
<1>3. PICK to \in SUBSET OpenTabs :
        /\ owed' = [owed EXCEPT ![n] = IF what = "message" THEN to ELSE {}]
        /\ wires \subseteq wires'
        /\ \/ Everywhere(c, what) \subseteq wires'
           \/ Broadcast(q, c, ReplyId(n), {}) /\ \A t \in to : Home[t] = q
  <2>1. CASE wires' = wires \cup Everywhere(c, what) /\ Owe(what, OpenTabs)
    BY <1>0, <2>1 DEF Owe
  <2>2. CASE /\ wires' \in {wires, wires \cup Everywhere(c, what)}
             /\ Owe(what, IF wires' = wires THEN {t \in OpenTabs : Home[t] = q} ELSE OpenTabs)
             /\ Broadcast(q, c, ReplyId(replies + 1), {})
    <3>1. CASE wires' = wires
      <4> DEFINE to == {t \in OpenTabs : Home[t] = q}
      <4>1. to \subseteq OpenTabs /\ owed' = [owed EXCEPT ![n] = IF what = "message" THEN to ELSE {}]
        BY <1>0, <2>2, <3>1 DEF Owe
      <4>2. \A t \in to : Home[t] = q
        OBVIOUS
      <4> HIDE DEF to
      <4> QED
        BY <1>0, <2>2, <3>1, <4>1, <4>2
    <3>2. CASE wires' # wires
      BY <1>0, <2>2, <3>2 DEF Owe
    <3> QED
      BY <3>1, <3>2
  <2> QED
    BY <2>1, <2>2 DEF PublishOutbound
<1>4. OpenTabs \subseteq Tab
  BY DEF OpenTabs
<1>5. /\ owed' \in [1..MaxReplies -> SUBSET Tab]
      /\ \A m \in 1..MaxReplies : m # n => owed'[m] = owed[m]
      /\ owed'[n] = IF what = "message" THEN to ELSE {}
  BY <1>1, <1>3, <1>4
<1>6. ASSUME NEW t \in Tab, t \in owed'[n]
      PROVE  /\ tabs'[t].at # "off"
             /\ tabs'[t].at = "open" => ReplyId(n) \in tabs'[t].seen \/ Coming(n, t)'
  <2>1. t \in to /\ what = "message" /\ tabs[t].at = "open"
    BY <1>3, <1>5, <1>6 DEF OpenTabs
  <2>2. CASE Everywhere(c, what) \subseteq wires'
    <3>1. Payload(Home[t], c, n, what) \in wires'
      BY <1>0, <2>2, WebChatAssumption DEF Everywhere
    <3> QED
      BY <1>2, <2>1, <3>1 DEF Coming, Payload
  <2>3. CASE Broadcast(q, c, ReplyId(n), {}) /\ \A u \in to : Home[u] = q
    BY <1>2, <2>1, <2>3, BroadcastTabs DEF WebInv
  <2> QED
    BY <1>3, <2>2, <2>3
<1>7. ASSUME NEW m \in 1..replies, NEW t \in Tab, t \in owed'[m]
      PROVE  /\ tabs'[t].at # "off"
             /\ tabs'[t].at = "open" => ReplyId(m) \in tabs'[t].seen \/ Coming(m, t)'
  <2>1. m # n /\ owed'[m] = owed[m]
    BY <1>0, <1>1, <1>5, WebChatAssumption
  <2>2. Coming(m, t) => Coming(m, t)'
    BY <1>3 DEF Coming
  <2> QED
    <3>1. /\ tabs[t].at # "off"
          /\ tabs[t].at = "open" => ReplyId(m) \in tabs[t].seen \/ Coming(m, t)
      BY <1>7, <2>1 DEF WebInv, OwedInv
    <3>2. tabs'[t].at = tabs[t].at /\ tabs[t].seen \subseteq tabs'[t].seen
      BY <1>2
    <3> QED
      BY <2>2, <3>1, <3>2
<1>8. \A m \in 1..replies' : m \in 1..replies \/ m = n
  BY <1>0, <1>1
<1> QED
  BY <1>1, <1>2, <1>5, <1>6, <1>7, <1>8 DEF WebInv, OwedInv

LEMMA DeliveredStep ==
  ASSUME WebInv, NEW w, Delivered(w)
  PROVE  WebInv'
<1>1. /\ w \in wires /\ wires' = wires \ {w}
      /\ UNCHANGED <<members, replies, owed>>
  BY DEF Delivered, tallies
<1>2. /\ TabsInv'
      /\ \A t \in Tab : tabs'[t].at = tabs[t].at /\ tabs[t].seen \subseteq tabs'[t].seen
      /\ \A t \in Tab : w.what = "message" /\ Home[t] = w.to /\ tabs[t].at = "open"
                           => ReplyId(w.n) \in tabs'[t].seen
  <2>1. CASE w.what = "message"
    <3>1. Broadcast(w.to, w.conv, ReplyId(w.n), {})
      BY <2>1 DEF Delivered
    <3> QED
      BY <1>1, <3>1, BroadcastTabs DEF WebInv
  <2>2. CASE w.what # "message"
    BY <1>1, <2>2 DEF Delivered, WebInv, TabsInv
  <2> QED
    BY <2>1, <2>2
<1>3. ASSUME NEW n \in 1..replies, NEW t \in Tab, t \in owed[n]
      PROVE  /\ tabs'[t].at # "off"
             /\ tabs'[t].at = "open" => ReplyId(n) \in tabs'[t].seen \/ Coming(n, t)'
  <2>1. /\ tabs[t].at # "off"
        /\ tabs[t].at = "open" => ReplyId(n) \in tabs[t].seen \/ Coming(n, t)
    BY <1>3 DEF WebInv, OwedInv
  <2>2. ASSUME tabs[t].at = "open", Coming(n, t)
        PROVE  ReplyId(n) \in tabs'[t].seen \/ Coming(n, t)'
    <3>1. PICK v \in wires : v.n = n /\ v.to = Home[t] /\ v.what = "message"
      BY <2>2 DEF Coming
    <3>2. CASE v = w
      BY <1>2, <2>2, <3>1, <3>2
    <3>3. CASE v # w
      BY <1>1, <3>1, <3>3 DEF Coming
    <3> QED
      BY <3>2, <3>3
  <2> QED
    BY <1>2, <2>1, <2>2
<1> QED
  BY <1>1, <1>2, <1>3 DEF WebInv, OwedInv

LEMMA MissesStep ==
  ASSUME WebInv, NEW w, SubscriberMisses(w)
  PROVE  WebInv'
<1>1. /\ w \in wires /\ wires' = wires \ {w} /\ UNCHANGED <<tabs, members, replies, shown>>
      /\ owed' = [owed EXCEPT ![w.n] = {t \in @ : Home[t] # w.to}]
      /\ owed \in [1..MaxReplies -> SUBSET Tab] /\ replies \in 0..MaxReplies
  BY DEF SubscriberMisses, WebInv, OwedInv
<1>2. /\ owed' \in [1..MaxReplies -> SUBSET Tab]
      /\ \A n \in 1..MaxReplies : owed'[n] = IF n = w.n THEN {t \in owed[n] : Home[t] # w.to}
                                             ELSE owed[n]
  BY <1>1
<1>3. ASSUME NEW n \in 1..replies, NEW t \in Tab, t \in owed'[n]
      PROVE  /\ tabs'[t].at # "off"
             /\ tabs'[t].at = "open" => ReplyId(n) \in tabs'[t].seen \/ Coming(n, t)'
  <2>1. t \in owed[n] /\ ~(n = w.n /\ Home[t] = w.to)
    <3>1. n \in 1..MaxReplies
      BY <1>1, WebChatAssumption
    <3> QED
      BY <1>2, <1>3, <3>1
  <2>2. /\ tabs[t].at # "off"
        /\ tabs[t].at = "open" => ReplyId(n) \in tabs[t].seen \/ Coming(n, t)
    BY <2>1 DEF WebInv, OwedInv
  <2>3. Coming(n, t) => Coming(n, t)'
    BY <1>1, <2>1 DEF Coming
  <2> QED
    BY <1>1, <2>2, <2>3
<1>4. TabsInv'
  BY <1>1 DEF WebInv, TabsInv
<1> QED
  BY <1>1, <1>2, <1>3, <1>4 DEF WebInv, OwedInv

LEMMA RestartStep ==
  ASSUME WebInv, NEW q \in Process, Restart(q)
  PROVE  WebInv'
<1>1. /\ tabs' = [t \in Tab |-> IF Home[t] = q /\ tabs[t].at = "open"
                                THEN [tabs[t] EXCEPT !.at = "gone", !.looking = FALSE]
                                ELSE tabs[t]]
      /\ members' = {m \in members : Home[m[2]] # q} /\ wires' = {w \in wires : w.to # q}
      /\ UNCHANGED <<replies, shown, owed>>
  BY DEF Restart
<1>2. ASSUME NEW t \in Tab
      PROVE  /\ DOMAIN tabs'[t] = Fields /\ tabs'[t].seen = tabs[t].seen
             /\ tabs[t].at # "off" => tabs'[t].at # "off"
             /\ tabs'[t].at = "open" => tabs[t].at = "open" /\ Home[t] # q
  <2>1. tabs'[t] = IF Home[t] = q /\ tabs[t].at = "open"
                   THEN [tabs[t] EXCEPT !.at = "gone", !.looking = FALSE] ELSE tabs[t]
    BY <1>1
  <2>2. DOMAIN tabs[t] = Fields
    BY DEF WebInv, TabsInv
  <2> QED
    BY <2>1, <2>2 DEF Fields
<1>3. \A t \in Tab : tabs'[t].at = "open" => <<Recipient, t>> \in members'
  BY <1>1, <1>2 DEF WebInv, TabsInv
<1>4. TabsInv'
  BY <1>1, <1>2, <1>3 DEF WebInv, TabsInv
<1>5. ASSUME NEW n \in 1..replies, NEW t \in Tab, t \in owed[n]
      PROVE  /\ tabs'[t].at # "off"
             /\ tabs'[t].at = "open" => ReplyId(n) \in tabs'[t].seen \/ Coming(n, t)'
  <2>1. /\ tabs[t].at # "off"
        /\ tabs[t].at = "open" => ReplyId(n) \in tabs[t].seen \/ Coming(n, t)
    BY <1>5 DEF WebInv, OwedInv
  <2>2. Home[t] # q /\ Coming(n, t) => Coming(n, t)'
    BY <1>1 DEF Coming
  <2> QED
    BY <1>2, <2>1, <2>2
<1> QED
  BY <1>1, <1>4, <1>5 DEF WebInv, OwedInv

LEMMA SocketStep ==
  ASSUME WebInv, NEW u \in Tab, Connect(u) \/ SetUp(u) \/ Close(u)
  PROVE  WebInv'
<1>1. UNCHANGED <<replies, shown, owed, wires>>
  BY DEF Connect, SetUp, Close, tallies
<1>2. DOMAIN tabs = Tab /\ \A t \in Tab : /\ DOMAIN tabs[t] = Fields
                                          /\ tabs[t].at = "open" => <<Recipient, t>> \in members
  BY DEF WebInv, TabsInv
<1>3. CASE Connect(u)
  <2>1. /\ tabs[u].at = "off" /\ members' = members \cup {<<Recipient, u>>}
        /\ tabs' = [tabs EXCEPT ![u] = [@ EXCEPT !.at = "open", !.looking = TRUE]]
    BY <1>3 DEF Connect
  <2>2. /\ DOMAIN tabs' = Tab /\ \A t \in Tab : t # u => tabs'[t] = tabs[t]
        /\ DOMAIN tabs'[u] = Fields /\ tabs'[u].at = "open" /\ tabs'[u].seen = tabs[u].seen
    BY <1>2, <2>1 DEF Fields
  <2> QED
    BY <1>1, <1>2, <2>1, <2>2, TabsMove
<1>4. CASE SetUp(u)
  <2>1. PICK room : /\ tabs' = [tabs EXCEPT ![u] = [@ EXCEPT !.looking = FALSE, !.room = room]]
                    /\ members \subseteq members'
    BY <1>4 DEF SetUp
  <2>2. /\ DOMAIN tabs' = Tab /\ \A t \in Tab : t # u => tabs'[t] = tabs[t]
        /\ DOMAIN tabs'[u] = Fields /\ tabs'[u].at = tabs[u].at /\ tabs'[u].seen = tabs[u].seen
    BY <1>2, <2>1 DEF Fields
  <2>3. \A t \in Tab : tabs'[t].at = "open" => tabs[t].at = "open"
    BY <2>2
  <2> QED
    BY <1>1, <1>2, <2>1, <2>2, <2>3, TabsMove
<1>5. CASE Close(u)
  <2>1. /\ tabs' = [tabs EXCEPT ![u].at = "gone"]
        /\ members' = members \ {<<Recipient, u>>, <<tabs[u].room, u>>}
    BY <1>5 DEF Close
  <2>2. /\ DOMAIN tabs' = Tab /\ \A t \in Tab : t # u => tabs'[t] = tabs[t]
        /\ DOMAIN tabs'[u] = Fields /\ tabs'[u].at = "gone" /\ tabs'[u].seen = tabs[u].seen
    BY <1>2, <2>1 DEF Fields
  <2> QED
    BY <1>1, <1>2, <2>1, <2>2, TabsMove
<1> QED
  BY <1>3, <1>4, <1>5

\* Steps that show nothing and move no tab.
LEMMA WebRests ==
  ASSUME WebInv, UNCHANGED <<tabs, replies, shown, owed, wires, members>>
  PROVE  WebInv'
BY TabsMove DEF WebInv, TabsInv

LEMMA EnterStep ==
  ASSUME WebInv, NEW k, NEW c, Enter(k, c), UNCHANGED outgoing
  PROVE  WebInv'
<1>1. /\ UNCHANGED <<replies, shown, owed, wires>> /\ members \subseteq members'
      /\ tabs' = [tabs EXCEPT ![tasks[k].tab].room = c]
  BY DEF Enter, outgoing
<1>2. DOMAIN tabs = Tab /\ \A t \in Tab : /\ DOMAIN tabs[t] = Fields
                                          /\ tabs[t].at = "open" => <<Recipient, t>> \in members
  BY DEF WebInv, TabsInv
<1>3. DOMAIN tabs' = Tab
  BY <1>1, <1>2
<1>4. ASSUME NEW t \in Tab
      PROVE  DOMAIN tabs'[t] = Fields /\ tabs'[t].seen = tabs[t].seen /\ tabs'[t].at = tabs[t].at
  <2>1. tabs'[t] = IF t = tasks[k].tab THEN [tabs[t] EXCEPT !.room = c] ELSE tabs[t]
    BY <1>1, <1>2
  <2> QED
    BY <1>2, <2>1 DEF Fields
<1> QED
  BY <1>1, <1>2, <1>3, <1>4, TabsMove

LEMMA MessageStep ==
  ASSUME WebInv, NEW k \in Task, HandleMessage(k)
  PROVE  WebInv'
<1>1. CASE Find(k)
  BY <1>1, EnterStep, WebRests DEF Find, outgoing
<1>2. CASE Create(k)
  BY <1>2, EnterStep DEF Create
<1>3. CASE Gate(k) \/ StoreMessage(k) \/ \E p \in ProjectId \ {Unverified} : JoinCode(k, p)
  BY <1>3, WebRests DEF Gate, StoreMessage, JoinCode, outgoing
<1>4. CASE Hand(k)
  BY <1>4, BroadcastKeeps DEF Hand, tallies
<1> QED
  BY <1>1, <1>2, <1>3, <1>4 DEF HandleMessage

LEMMA WorkerStep ==
  ASSUME WebInv,
         \/ \E q \in Process : (\E j \in queue : TakeJob(q, j)) \/ WorkerReplies(q)
         \/ \E c \in Conv : HumanReply(c)
         \/ NoReply
  PROVE  WebInv'
<1>1. CASE \E q \in Process, j \in queue : TakeJob(q, j)
  <2>1. PICK q \in Process, j \in queue : TakeJob(q, j)
    BY <1>1
  <2>2. CASE convs[j[1]] = Unverified
    <3>1. PublishOutbound(q, j[1], "message") /\ UNCHANGED members
      BY <2>1, <2>2 DEF TakeJob
    <3> QED
      BY <3>1, PublishStep
  <2>3. CASE convs[j[1]] # Unverified
    BY <2>1, <2>3, WebRests DEF TakeJob, outgoing
  <2> QED
    BY <2>2, <2>3
<1>2. CASE \E q \in Process : WorkerReplies(q)
  <2>1. PICK q \in Process : WorkerReplies(q)
    BY <1>2
  <2>2. PICK what : PublishOutbound(q, turn.conv, what) /\ UNCHANGED members
    BY <2>1 DEF WorkerReplies
  <2> QED
    BY <2>2, PublishStep
<1>3. CASE \E c \in Conv : HumanReply(c)
  <2>1. PICK c \in Conv : HumanReply(c)
    BY <1>3
  <2>2. /\ NextReply /\ wires' = wires \cup Everywhere(c, "message") /\ Owe("message", OpenTabs)
        /\ UNCHANGED <<tabs, shown, members>>
    BY <2>1 DEF HumanReply
  <2>3. CASE Process # {}
    <3>1. PICK q \in Process : TRUE
      BY <2>3
    <3> QED
      BY <2>2, <3>1, PublishStep
  <2>4. CASE Process = {}
    <3>1. Tab = {}
      BY <2>4, WebChatAssumption
    <3>2. replies' \in 0..MaxReplies /\ owed' \in [1..MaxReplies -> SUBSET Tab]
      BY <2>2, <3>1, WebChatAssumption DEF NextReply, Owe, OpenTabs, WebInv, OwedInv
    <3> QED
      BY <2>2, <3>1, <3>2 DEF WebInv, OwedInv, TabsInv
  <2> QED
    BY <2>3, <2>4
<1>4. CASE NoReply
  BY <1>4, WebRests DEF NoReply, outgoing
<1> QED
  BY <1>1, <1>2, <1>3, <1>4

\* WebInv is inductive.
THEOREM WebInductive == WebSpec => []WebInv
<1>1. WebInit => WebInv
  <2> SUFFICES ASSUME WebInit PROVE WebInv
    OBVIOUS
  <2>1. /\ DOMAIN NoTab = Fields /\ NoTab.at = "off" /\ NoTab.seen = {}
        /\ shown \in [Tab -> [Ids -> Nat]] /\ \A t \in Tab, i \in Ids : shown[t][i] = 0
        /\ DOMAIN tabs = Tab /\ \A t \in Tab : tabs[t] = NoTab
    BY DEF WebInit, NoTab, Fields
  <2>2. TabsInv
    BY <2>1 DEF TabsInv
  <2>3. replies = 0 /\ owed \in [1..MaxReplies -> SUBSET Tab]
    BY DEF WebInit
  <2> QED
    BY <2>2, <2>3, WebChatAssumption DEF WebInv, OwedInv
<1>2. WebInv /\ [WebNext]_webVars => WebInv'
  <2> SUFFICES ASSUME WebInv, [WebNext]_webVars PROVE WebInv'
    OBVIOUS
  <2>1. CASE \E t \in Tab, x \in MessageId, k \in Task : SendText(t, x, k)
    BY <2>1, WebRests DEF SendText, outgoing
  <2>2. CASE \/ \E c \in Conv : TakeOver(c)
             \/ \E p \in ProjectId \ {Unverified} : SwitchProject(p)
    BY <2>2, WebRests DEF TakeOver, SwitchProject, outgoing
  <2>3. CASE UNCHANGED webVars
    BY <2>3, WebRests DEF webVars
  <2> QED
    BY <2>1, <2>2, <2>3, SocketStep, MessageStep, WorkerStep, RestartStep, DeliveredStep,
       MissesStep DEF WebNext
<1> QED
  BY <1>1, <1>2, PTL DEF WebSpec

\* For any number of tabs, processes, conversations and replies: a reply is
\* shown once by every tab that was open when it was published and still is,
\* and no tab is sent a message twice.
THEOREM EveryTab == WebSpec => []EveryTabOnce
<1>1. WebInv => EveryTabOnce
  <2> SUFFICES ASSUME WebInv PROVE EveryTabOnce
    OBVIOUS
  <2>1. \A t \in Tab, i \in Ids : shown[t][i] <= 1
    BY DEF WebInv, TabsInv
  <2>2. ASSUME NEW n \in 1..replies, \A w \in wires : w.n # n, NEW t \in owed[n],
               tabs[t].at = "open"
        PROVE  shown[t][ReplyId(n)] = 1
    <3>1. n \in 1..MaxReplies /\ t \in Tab
      BY WebChatAssumption DEF WebInv, OwedInv
    <3>2. ReplyId(n) \in tabs[t].seen
      BY <2>2, <3>1 DEF WebInv, OwedInv, Coming
    <3>3. ReplyId(n) \in Ids
      BY <3>1 DEF Ids
    <3> QED
      BY <3>1, <3>2, <3>3 DEF WebInv, TabsInv
  <2> QED
    BY <2>1, <2>2 DEF EveryTabOnce
<1> QED
  BY <1>1, WebInductive, PTL

(* Types.                                                                  *)

Socket == [at: {"off", "open", "gone"}, room: Conv \cup {None}, looking: BOOLEAN,
           seen: SUBSET Ids]
Handling == [at: {"idle", "find", "create", "code", "persist", "hand"}, tab: Tab \cup {None},
             text: MessageId \cup {None}, conv: Conv \cup {None}, human: BOOLEAN,
             id: Ids \cup {None}]

\* What a message has by the step it is at.
Equipped(k) ==
    /\ k.at # "idle" => k.tab \in Tab /\ k.text \in MessageId
    /\ k.at \in {"code", "persist", "hand"} => k.conv \in Conv
    /\ k.at = "hand" => k.id \in Ids

RoomsTyped == tabs \in [Tab -> Socket] /\ members \subseteq (Conv \cup {Recipient}) \X Tab
MessagesTyped ==
    /\ tasks \in [Task -> Handling]
    /\ \A k \in Task : Equipped(tasks[k]) /\ (tasks[k].at # "idle" => sends > 0)
StoreTyped ==
    /\ convs \in [Conv -> ProjectId \cup {None}] /\ withHuman \subseteq Conv
    /\ rows \subseteq Conv \X MessageId /\ queue \subseteq Conv \X (1..MaxInputs)
    /\ turn = NoTurn \/ turn \in [at: {"post"}, conv: Conv]
WiresTyped == \A w \in wires : w.n \in 1..MaxReplies
TalliesTyped ==
    /\ sends \in 0..MaxInputs /\ replies \in 0..MaxReplies /\ moves \in 0..MaxInputs
    /\ mishaps \in 0..MaxMishaps
WebTyped == RoomsTyped /\ MessagesTyped /\ StoreTyped /\ WiresTyped /\ TalliesTyped

LEMMA SocketGoes ==
  ASSUME RoomsTyped, NEW t \in Tab, NEW new \in Socket, tabs' = [tabs EXCEPT ![t] = new],
         members' \subseteq members \cup ((Conv \cup {Recipient}) \X Tab)
  PROVE  RoomsTyped'
  BY DEF RoomsTyped

LEMMA MessageGoes ==
  ASSUME MessagesTyped, UNCHANGED sends, NEW k \in Task, NEW new \in Handling,
         tasks' = [tasks EXCEPT ![k] = new], Equipped(new),
         new.at # "idle" => tasks[k].at # "idle"
  PROVE  MessagesTyped'
<1>1. tasks'[k] = new /\ \A l \in Task \ {k} : tasks'[l] = tasks[l]
  BY DEF MessagesTyped
<1> QED
  BY <1>1 DEF MessagesTyped

LEMMA NoMessage ==
  /\ NoTask \in Handling /\ NoTask.at = "idle" /\ Equipped(NoTask)
  /\ NoTab \in Socket
  BY DEF NoTask, NoTab, Handling, Socket, Equipped

LEMMA MessageDone ==
  ASSUME MessagesTyped, UNCHANGED sends, NEW k \in Task, Done(k)
  PROVE  MessagesTyped'
  BY MessageGoes, NoMessage DEF Done

LEMMA IdsTyped ==
  /\ \A n \in 1..MaxReplies : ReplyId(n) \in Ids
  /\ \A c \in Conv \cup {None}, i \in MessageId : <<c, i>> \in Ids
  BY DEF Ids

LEMMA BroadcastTyped ==
  ASSUME RoomsTyped, UNCHANGED members, NEW q, NEW c, NEW id \in Ids, NEW skip,
         Broadcast(q, c, id, skip)
  PROVE  RoomsTyped'
<1> DEFINE new == {t \in Audience(q, c, skip) : id \notin tabs[t].seen}
<1>1. tabs' = [t \in Tab |-> IF t \in new THEN [tabs[t] EXCEPT !.seen = @ \cup {id}] ELSE tabs[t]]
  BY DEF Broadcast
<1> HIDE DEF new
<1>2. ASSUME NEW t \in Tab
      PROVE  [tabs[t] EXCEPT !.seen = @ \cup {id}] \in Socket /\ tabs[t] \in Socket
  BY DEF RoomsTyped, Socket
<1> QED
  BY <1>1, <1>2 DEF RoomsTyped

LEMMA MishapTyped == TalliesTyped /\ Mishap => mishaps' \in 0..MaxMishaps
<1> SUFFICES ASSUME TalliesTyped, Mishap PROVE mishaps' \in 0..MaxMishaps
  OBVIOUS
<1>1. mishaps \in 0..MaxMishaps /\ MaxMishaps \in Nat /\ mishaps < MaxMishaps
      /\ mishaps' = mishaps + 1
  BY WebChatAssumption DEF TalliesTyped, Mishap
<1> QED
  BY <1>1

LEMMA MovedTyped == TalliesTyped /\ Moved => moves' \in 0..MaxInputs
<1> SUFFICES ASSUME TalliesTyped, Moved PROVE moves' \in 0..MaxInputs
  OBVIOUS
<1>1. /\ sends \in 0..MaxInputs /\ moves \in 0..MaxInputs /\ MaxInputs \in Nat
      /\ sends + moves < MaxInputs /\ moves' = moves + 1
  BY WebChatAssumption DEF TalliesTyped, Moved
<1> QED
  BY <1>1

LEMMA SocketTyped ==
  ASSUME WebTyped, NEW t \in Tab, Connect(t) \/ SetUp(t) \/ Close(t)
  PROVE  WebTyped'
<1>1. UNCHANGED <<convs, withHuman, tasks, rows, queue, turn, wires, sends, replies, moves,
                  mishaps>>
  BY DEF Connect, SetUp, Close, tallies
<1>2. tabs[t] \in Socket /\ RoomsTyped
  BY DEF WebTyped, RoomsTyped
<1>3. ASSUME Connect(t) PROVE RoomsTyped'
  <2> DEFINE new == [tabs[t] EXCEPT !.at = "open", !.looking = TRUE]
  <2>1. new \in Socket
    BY <1>2 DEF Socket
  <2>2. tabs' = [tabs EXCEPT ![t] = new]
    BY <1>3 DEF Connect
  <2>3. members' \subseteq members \cup ((Conv \cup {Recipient}) \X Tab)
    BY <1>3 DEF Connect
  <2> HIDE DEF new
  <2> QED
    BY <1>2, <2>1, <2>2, <2>3, SocketGoes
<1>4. ASSUME SetUp(t) PROVE RoomsTyped'
  <2>1. PICK c \in Conv \cup {None} :
          /\ tabs' = [tabs EXCEPT ![t] = [tabs[t] EXCEPT
                !.looking = FALSE, !.room = IF c = None THEN tabs[t].room ELSE c]]
          /\ members' = members \cup ({<<c, t>>} \ {<<None, t>>})
    BY <1>4 DEF SetUp, Active, There
  <2> DEFINE new == [tabs[t] EXCEPT !.looking = FALSE,
                                    !.room = IF c = None THEN tabs[t].room ELSE c]
  <2>2. new \in Socket
    BY <1>2 DEF Socket
  <2>3. members' \subseteq members \cup ((Conv \cup {Recipient}) \X Tab)
    BY <2>1
  <2>4. tabs' = [tabs EXCEPT ![t] = new]
    BY <2>1
  <2> HIDE DEF new
  <2> QED
    BY <1>2, <2>2, <2>3, <2>4, SocketGoes
<1>5. ASSUME Close(t) PROVE RoomsTyped'
  <2>1. [tabs[t] EXCEPT !.at = "gone"] \in Socket
    BY <1>2 DEF Socket
  <2>2. tabs' = [tabs EXCEPT ![t] = [tabs[t] EXCEPT !.at = "gone"]] /\ members' \subseteq members
    BY <1>2, <1>5 DEF Close, RoomsTyped
  <2> QED
    BY <1>2, <2>1, <2>2, SocketGoes
<1>6. RoomsTyped'
  BY <1>3, <1>4, <1>5
<1> QED
  BY <1>1, <1>6 DEF WebTyped, MessagesTyped, StoreTyped, WiresTyped, TalliesTyped

LEMMA SendTextTyped ==
  ASSUME WebTyped, NEW t \in Tab, NEW m \in MessageId, NEW k \in Task, SendText(t, m, k)
  PROVE  WebTyped'
<1> DEFINE new == [NoTask EXCEPT !.at = "find", !.tab = t, !.text = m]
<1>1. /\ sends \in 0..MaxInputs /\ moves \in 0..MaxInputs /\ MaxInputs \in Nat
      /\ sends + moves < MaxInputs /\ sends' = sends + 1
  BY WebChatAssumption DEF WebTyped, TalliesTyped, SendText
<1>2. sends' \in 0..MaxInputs /\ sends' > 0
  BY <1>1
<1>3. new \in Handling /\ Equipped(new)
  BY NoMessage DEF Handling, Equipped
<1>4. tasks' = [tasks EXCEPT ![k] = new]
  BY DEF SendText, WebTyped, MessagesTyped
<1> HIDE DEF new
<1>5. MessagesTyped'
  <2>1. tasks'[k] = new /\ \A l \in Task \ {k} : tasks'[l] = tasks[l]
    BY <1>4 DEF WebTyped, MessagesTyped
  <2> QED
    BY <1>2, <1>3, <1>4, <2>1 DEF WebTyped, MessagesTyped
<1>6. UNCHANGED <<tabs, members, convs, withHuman, rows, queue, turn, wires, replies, moves, mishaps>>
  BY DEF SendText, outgoing
<1> QED
  BY <1>2, <1>5, <1>6 DEF WebTyped, RoomsTyped, StoreTyped, WiresTyped, TalliesTyped

LEMMA EnterTyped ==
  ASSUME WebTyped, NEW k \in Task, tasks[k].at \in {"find", "create"}, NEW c \in Conv, Enter(k, c),
         UNCHANGED sends
  PROVE  RoomsTyped' /\ MessagesTyped'
<1>1. tasks[k] \in Handling /\ tasks[k].tab \in Tab /\ tasks[k].text \in MessageId
  BY DEF WebTyped, MessagesTyped, Equipped
<1>2. RoomsTyped'
  <2>1. tabs[tasks[k].tab] \in Socket
    BY <1>1 DEF WebTyped, RoomsTyped
  <2>2. [tabs[tasks[k].tab] EXCEPT !.room = c] \in Socket
    BY <2>1 DEF Socket
  <2>3. tabs' = [tabs EXCEPT ![tasks[k].tab] = [tabs[tasks[k].tab] EXCEPT !.room = c]]
    BY <1>1 DEF Enter, WebTyped, RoomsTyped
  <2>4. members' \subseteq members \cup ((Conv \cup {Recipient}) \X Tab)
    BY <1>1 DEF Enter
  <2> QED
    BY <1>1, <2>2, <2>3, <2>4, SocketGoes DEF WebTyped
<1>3. MessagesTyped'
  <2> DEFINE new == [tasks[k] EXCEPT !.at = "code", !.conv = c]
  <2>1. new \in Handling /\ Equipped(new)
    BY <1>1 DEF Handling, Equipped
  <2>2. tasks' = [tasks EXCEPT ![k] = new]
    BY DEF Enter, WebTyped, MessagesTyped
  <2> HIDE DEF new
  <2> QED
    BY <2>1, <2>2, MessageGoes DEF WebTyped
<1> QED
  BY <1>2, <1>3

\* A message goes to its next step with what it has.
LEMMA StepTyped ==
  ASSUME WebTyped, NEW k \in Task, UNCHANGED sends, NEW new \in Handling, Equipped(new),
         tasks' = [tasks EXCEPT ![k] = new], tasks[k].at # "idle"
  PROVE  MessagesTyped'
  BY MessageGoes DEF WebTyped

LEMMA HandleTyped ==
  ASSUME WebTyped, NEW k \in Task, HandleMessage(k)
  PROVE  WebTyped'
<1>0. /\ tasks[k] \in Handling /\ Equipped(tasks[k])
      /\ RoomsTyped /\ MessagesTyped /\ StoreTyped /\ WiresTyped /\ TalliesTyped
  BY DEF WebTyped, MessagesTyped
<1>1. CASE Find(k)
  <2>1. UNCHANGED <<convs, withHuman, rows, queue, turn, wires, sends, replies, moves, mishaps>>
    BY <1>1 DEF Find, outgoing
  <2>2. RoomsTyped' /\ MessagesTyped'
    <3>1. CASE \E c \in Conv : Enter(k, c)
      BY <1>1, <2>1, <3>1, EnterTyped DEF Find
    <3>2. CASE Step(k, "create") /\ UNCHANGED <<tabs, members>>
      <4>1. /\ tasks' = [tasks EXCEPT ![k] = [tasks[k] EXCEPT !.at = "create"]]
            /\ [tasks[k] EXCEPT !.at = "create"] \in Handling
            /\ Equipped([tasks[k] EXCEPT !.at = "create"])
        BY <1>0, <1>1, <3>2 DEF Find, Step, MessagesTyped, Handling, Equipped
      <4> QED
        BY <1>0, <1>1, <2>1, <3>2, <4>1, StepTyped DEF Find, RoomsTyped
    <3> QED
      BY <1>1, <3>1, <3>2 DEF Find, Active, There
  <2> QED
    BY <1>0, <2>1, <2>2 DEF WebTyped, StoreTyped, WiresTyped, TalliesTyped
<1>2. CASE Create(k)
  <2>1. PICK c \in Conv : convs' = [convs EXCEPT ![c] = Ticket[tasks[k].tab]] /\ Enter(k, c)
    BY <1>2 DEF Create
  <2>2. UNCHANGED <<withHuman, rows, queue, turn, wires, sends, replies, moves, mishaps>>
    BY <1>2 DEF Create, outgoing
  <2>3. RoomsTyped' /\ MessagesTyped'
    BY <1>2, <2>1, <2>2, EnterTyped DEF Create
  <2>4. Ticket[tasks[k].tab] \in ProjectId
    BY <1>0, <1>2, WebChatAssumption DEF Create, Equipped
  <2>5. StoreTyped'
    BY <1>0, <2>1, <2>2, <2>4 DEF StoreTyped
  <2> QED
    BY <1>0, <2>2, <2>3, <2>5 DEF WebTyped, WiresTyped, TalliesTyped
<1>3. CASE Gate(k)
  <2>1. UNCHANGED <<tabs, members, convs, withHuman, rows, queue, turn, wires, sends, replies, moves>>
    BY <1>3 DEF Gate, outgoing
  <2>2. mishaps' = mishaps \/ Mishap
    BY <1>3 DEF Gate
  <2>3. MessagesTyped'
    <3>1. CASE Done(k)
      BY <1>0, <2>1, <3>1, MessageDone
    <3>2. ASSUME NEW human \in BOOLEAN,
                 tasks' = [tasks EXCEPT ![k] = [tasks[k] EXCEPT !.at = "persist", !.human = human]]
          PROVE  MessagesTyped'
      <4>1. /\ [tasks[k] EXCEPT !.at = "persist", !.human = human] \in Handling
            /\ Equipped([tasks[k] EXCEPT !.at = "persist", !.human = human])
        BY <1>0, <1>3 DEF Gate, Handling, Equipped
      <4> QED
        BY <1>3, <2>1, <3>2, <4>1, StepTyped DEF Gate
    <3>3. CASE Step(k, "persist")
      <4>1. tasks[k].human \in BOOLEAN
        BY <1>0 DEF Handling
      <4>2. [tasks[k] EXCEPT !.at = "persist"]
              = [tasks[k] EXCEPT !.at = "persist", !.human = tasks[k].human]
        BY <1>0 DEF Handling
      <4>3. tasks' = [tasks EXCEPT ![k] = [tasks[k] EXCEPT !.at = "persist"]]
        BY <1>0, <3>3 DEF Step, MessagesTyped
      <4> QED
        BY <3>2, <4>1, <4>2, <4>3
    <3>4. CASE tasks' = [tasks EXCEPT ![k] = [@ EXCEPT !.at = "persist",
                                                       !.human = tasks[k].conv \in withHuman]]
      <4>1. (tasks[k].conv \in withHuman) \in BOOLEAN
        OBVIOUS
      <4> QED
        BY <3>2, <3>4, <4>1
    <3> QED
      BY <1>3, <3>1, <3>3, <3>4 DEF Gate
  <2>4. mishaps' \in 0..MaxMishaps
    BY <1>0, <2>2, MishapTyped DEF TalliesTyped
  <2> QED
    BY <1>0, <2>1, <2>3, <2>4 DEF WebTyped, RoomsTyped, StoreTyped, WiresTyped, TalliesTyped
<1>4. CASE StoreMessage(k)
  <2>1. UNCHANGED <<tabs, members, convs, withHuman, queue, turn, wires, sends, replies, moves>>
    BY <1>4 DEF StoreMessage, outgoing
  <2>2. mishaps' = mishaps \/ Mishap
    BY <1>4 DEF StoreMessage
  <2>3. tasks[k].conv \in Conv /\ tasks[k].text \in MessageId /\ tasks[k].tab \in Tab
        /\ tasks[k].at = "persist"
    BY <1>0, <1>4 DEF StoreMessage, Equipped
  <2>4. rows' \subseteq Conv \X MessageId
    BY <1>0, <1>4, <2>3 DEF StoreMessage, StoreTyped
  <2>5. PICK id \in Ids : tasks' = [tasks EXCEPT ![k] = [tasks[k] EXCEPT !.at = "hand", !.id = id]]
    BY <1>4, <2>3, IdsTyped DEF StoreMessage
  <2>6. /\ [tasks[k] EXCEPT !.at = "hand", !.id = id] \in Handling
        /\ Equipped([tasks[k] EXCEPT !.at = "hand", !.id = id])
    BY <1>0, <2>3 DEF Handling, Equipped
  <2>7. MessagesTyped'
    BY <2>1, <2>3, <2>5, <2>6, StepTyped
  <2>8. mishaps' \in 0..MaxMishaps
    BY <1>0, <2>2, MishapTyped DEF TalliesTyped
  <2> QED
    BY <1>0, <2>1, <2>4, <2>7, <2>8 DEF WebTyped, RoomsTyped, StoreTyped, WiresTyped, TalliesTyped
<1>5. CASE Hand(k)
  <2>1. UNCHANGED <<members, convs, withHuman, rows, turn, wires, sends, replies, moves, mishaps>>
    BY <1>5 DEF Hand, tallies
  <2>2. tasks[k].conv \in Conv /\ tasks[k].id \in Ids /\ sends \in 1..MaxInputs
    BY <1>0, <1>5, WebChatAssumption DEF Hand, Equipped, MessagesTyped, TalliesTyped
  <2>3. RoomsTyped'
    BY <1>0, <1>5, <2>1, <2>2, BroadcastTyped DEF Hand
  <2>4. MessagesTyped'
    BY <1>0, <1>5, <2>1, MessageDone DEF Hand
  <2>5. queue' \subseteq Conv \X (1..MaxInputs)
    BY <1>0, <1>5, <2>2 DEF Hand, StoreTyped
  <2> QED
    BY <1>0, <2>1, <2>3, <2>4, <2>5 DEF WebTyped, StoreTyped, WiresTyped, TalliesTyped
<1>6. CASE \E p \in ProjectId \ {Unverified} : JoinCode(k, p)
  <2>1. PICK p \in ProjectId : JoinCode(k, p)
    BY <1>6
  <2>2. UNCHANGED <<tabs, members, withHuman, rows, queue, turn, wires, sends, replies, mishaps>>
    BY <2>1 DEF JoinCode, outgoing
  <2>3. MessagesTyped'
    BY <1>0, <2>1, <2>2, MessageDone DEF JoinCode
  <2>4. convs' \in [Conv -> ProjectId \cup {None}]
    BY <1>0, <2>1 DEF JoinCode, StoreTyped
  <2>5. moves' \in 0..MaxInputs
    BY <1>0, <2>1, MovedTyped DEF JoinCode
  <2> QED
    BY <1>0, <2>2, <2>3, <2>4, <2>5 DEF WebTyped, RoomsTyped, StoreTyped, WiresTyped, TalliesTyped
<1> QED
  BY <1>1, <1>2, <1>3, <1>4, <1>5, <1>6 DEF HandleMessage

LEMMA NextReplyTyped ==
  ASSUME TalliesTyped, NextReply
  PROVE  replies' \in 0..MaxReplies /\ replies + 1 \in 1..MaxReplies
<1>1. replies \in 0..MaxReplies /\ MaxReplies \in Nat /\ replies < MaxReplies
      /\ replies' = replies + 1
  BY WebChatAssumption DEF TalliesTyped, NextReply
<1> QED
  BY <1>1

LEMMA PublishTyped ==
  ASSUME WebTyped, UNCHANGED <<members, sends, moves>>, NEW q \in Process, NEW c, NEW what,
         PublishOutbound(q, c, what)
  PROVE  RoomsTyped' /\ WiresTyped' /\ TalliesTyped'
<1>1. replies' \in 0..MaxReplies /\ replies + 1 \in 1..MaxReplies
  BY NextReplyTyped DEF WebTyped, PublishOutbound
<1>2. wires' \subseteq wires \cup Everywhere(c, what)
  BY DEF PublishOutbound
<1>3. WiresTyped'
  BY <1>1, <1>2 DEF WebTyped, WiresTyped, Everywhere, Payload
<1>4. mishaps' = mishaps \/ Mishap
  BY DEF PublishOutbound
<1>5. TalliesTyped'
  BY <1>1, <1>4, MishapTyped DEF WebTyped, TalliesTyped
<1>6. UNCHANGED tabs \/ Broadcast(q, c, ReplyId(replies + 1), {})
  BY DEF PublishOutbound
<1>7. RoomsTyped'
  <2>1. CASE UNCHANGED tabs
    BY <2>1 DEF WebTyped, RoomsTyped
  <2>2. CASE Broadcast(q, c, ReplyId(replies + 1), {})
    BY <1>1, <2>2, IdsTyped, BroadcastTyped DEF WebTyped
  <2> QED
    BY <1>6, <2>1, <2>2
<1> QED
  BY <1>3, <1>5, <1>7

LEMMA RepliesTyped ==
  ASSUME WebTyped,
         \/ \E q \in Process : (\E j \in queue : TakeJob(q, j)) \/ WorkerReplies(q)
         \/ \E c \in Conv : HumanReply(c)
         \/ NoReply
  PROVE  WebTyped'
<1>0. RoomsTyped /\ MessagesTyped /\ StoreTyped /\ WiresTyped /\ TalliesTyped
  BY DEF WebTyped
<1>1. CASE \E q \in Process, j \in queue : TakeJob(q, j)
  <2>1. PICK q \in Process, j \in queue : TakeJob(q, j)
    BY <1>1
  <2>2. /\ UNCHANGED <<members, convs, withHuman, tasks, rows, sends, moves>>
        /\ queue' \subseteq queue /\ j[1] \in Conv
    BY <1>0, <2>1 DEF TakeJob, StoreTyped
  <2>3. MessagesTyped'
    BY <1>0, <2>2 DEF MessagesTyped
  <2>4. CASE convs[j[1]] = Unverified
    <3>1. PublishOutbound(q, j[1], "message") /\ UNCHANGED turn
      BY <2>1, <2>4 DEF TakeJob
    <3>2. RoomsTyped' /\ WiresTyped' /\ TalliesTyped'
      BY <2>2, <3>1, PublishTyped
    <3> QED
      BY <1>0, <2>2, <2>3, <3>1, <3>2 DEF WebTyped, StoreTyped
  <2>5. CASE convs[j[1]] # Unverified
    <3>1. /\ turn' = [at |-> "post", conv |-> j[1]]
          /\ UNCHANGED <<tabs, replies, wires, mishaps>>
      BY <2>1, <2>5 DEF TakeJob, outgoing
    <3> QED
      BY <1>0, <2>2, <2>3, <3>1 DEF WebTyped, RoomsTyped, StoreTyped, WiresTyped, TalliesTyped
  <2> QED
    BY <2>4, <2>5
<1>2. CASE \E q \in Process : WorkerReplies(q)
  <2>1. PICK q \in Process : WorkerReplies(q)
    BY <1>2
  <2>2. /\ \E what : PublishOutbound(q, turn.conv, what)
        /\ UNCHANGED <<members, convs, tasks, rows, queue, sends, moves>>
        /\ turn.at = "post" /\ turn' = NoTurn
        /\ withHuman' \subseteq withHuman \cup {turn.conv}
    BY <2>1 DEF WorkerReplies
  <2>3. RoomsTyped' /\ WiresTyped' /\ TalliesTyped'
    BY <2>2, PublishTyped
  <2>4. turn.conv \in Conv
    BY <1>0, <2>2 DEF StoreTyped, NoTurn
  <2> QED
    BY <1>0, <2>2, <2>3, <2>4 DEF WebTyped, MessagesTyped, StoreTyped
<1>3. CASE \E c \in Conv : HumanReply(c)
  <2>1. PICK c \in Conv : HumanReply(c)
    BY <1>3
  <2>2. /\ NextReply /\ wires' = wires \cup Everywhere(c, "message")
        /\ UNCHANGED <<tabs, members, convs, withHuman, tasks, rows, queue, turn, sends, moves,
                       mishaps>>
    BY <2>1 DEF HumanReply
  <2>3. replies' \in 0..MaxReplies /\ replies + 1 \in 1..MaxReplies
    BY <1>0, <2>2, NextReplyTyped
  <2>4. WiresTyped'
    BY <1>0, <2>2, <2>3 DEF WiresTyped, Everywhere, Payload
  <2> QED
    BY <1>0, <2>2, <2>3, <2>4 DEF WebTyped, RoomsTyped, MessagesTyped, StoreTyped, TalliesTyped
<1>4. CASE NoReply
  BY <1>0, <1>4 DEF NoReply, outgoing, WebTyped, RoomsTyped, MessagesTyped, StoreTyped, WiresTyped,
     TalliesTyped
<1> QED
  BY <1>1, <1>2, <1>3, <1>4

LEMMA WiresStep ==
  ASSUME WebTyped, NEW w, Delivered(w) \/ SubscriberMisses(w)
  PROVE  WebTyped'
<1>0. RoomsTyped /\ MessagesTyped /\ StoreTyped /\ WiresTyped /\ TalliesTyped
  BY DEF WebTyped
<1>1. /\ w \in wires /\ wires' = wires \ {w}
      /\ UNCHANGED <<members, convs, withHuman, tasks, rows, queue, turn, sends, replies, moves>>
      /\ mishaps' = mishaps \/ Mishap
  BY DEF Delivered, SubscriberMisses, tallies
<1>2. mishaps' \in 0..MaxMishaps
  BY <1>0, <1>1, MishapTyped DEF TalliesTyped
<1>3. RoomsTyped'
  <2>1. CASE UNCHANGED tabs
    BY <1>0, <1>1, <2>1 DEF RoomsTyped
  <2>2. CASE Broadcast(w.to, w.conv, ReplyId(w.n), {})
    <3>1. ReplyId(w.n) \in Ids
      BY <1>0, <1>1, IdsTyped DEF WiresTyped
    <3> QED
      BY <1>0, <1>1, <2>2, <3>1, BroadcastTyped
  <2> QED
    BY <2>1, <2>2 DEF Delivered, SubscriberMisses
<1> QED
  BY <1>0, <1>1, <1>2, <1>3 DEF WebTyped, MessagesTyped, StoreTyped, WiresTyped, TalliesTyped

LEMMA RestartTyped ==
  ASSUME WebTyped, NEW q \in Process, Restart(q)
  PROVE  WebTyped'
<1>0. RoomsTyped /\ MessagesTyped /\ StoreTyped /\ WiresTyped /\ TalliesTyped
  BY DEF WebTyped
<1>1. /\ Mishap /\ members' \subseteq members /\ wires' \subseteq wires
      /\ tabs' = [t \in Tab |-> IF Home[t] = q /\ tabs[t].at = "open"
                                THEN [tabs[t] EXCEPT !.at = "gone", !.looking = FALSE]
                                ELSE tabs[t]]
      /\ tasks' = [k \in Task |-> IF tasks[k] # NoTask /\ Home[tasks[k].tab] = q THEN NoTask
                                  ELSE tasks[k]]
      /\ UNCHANGED <<convs, withHuman, rows, queue, turn, sends, replies, moves>>
  BY DEF Restart
<1>2. RoomsTyped'
  <2>1. \A t \in Tab : /\ tabs[t] \in Socket
                       /\ [tabs[t] EXCEPT !.at = "gone", !.looking = FALSE] \in Socket
    BY <1>0 DEF RoomsTyped, Socket
  <2> QED
    BY <1>0, <1>1, <2>1 DEF RoomsTyped
<1>3. MessagesTyped'
  <2>1. \A k \in Task : tasks'[k] \in {NoTask, tasks[k]}
    BY <1>1
  <2> QED
    BY <1>0, <1>1, <2>1, NoMessage DEF MessagesTyped
<1>4. mishaps' \in 0..MaxMishaps
  BY <1>0, <1>1, MishapTyped
<1> QED
  BY <1>0, <1>1, <1>2, <1>3, <1>4 DEF WebTyped, StoreTyped, WiresTyped, TalliesTyped

LEMMA OperatorsTyped ==
  ASSUME WebTyped,
         \/ \E c \in Conv : TakeOver(c)
         \/ \E p \in ProjectId \ {Unverified} : SwitchProject(p)
  PROVE  WebTyped'
<1>1. /\ Moved
      /\ UNCHANGED <<tabs, members, tasks, rows, queue, turn, wires, sends, replies, mishaps>>
  BY DEF TakeOver, SwitchProject, outgoing
<1>2. moves' \in 0..MaxInputs
  BY <1>1, MovedTyped DEF WebTyped
<1>3. StoreTyped'
  BY <1>1 DEF WebTyped, StoreTyped, TakeOver, SwitchProject, There
<1> QED
  BY <1>1, <1>2, <1>3 DEF WebTyped, RoomsTyped, MessagesTyped, WiresTyped, TalliesTyped

\* Types: rooms are those of conversations and of the recipient, a message has
\* what the step it is at needs, and replies and payloads are numbered.
THEOREM WebTypes == WebSpec => []WebTypeOK
<1>1. WebInit => WebTyped
  <2> SUFFICES ASSUME WebInit PROVE WebTyped
    OBVIOUS
  <2>1. RoomsTyped
    BY NoMessage DEF WebInit, RoomsTyped
  <2>2. MessagesTyped
    BY NoMessage DEF WebInit, MessagesTyped
  <2>3. StoreTyped
    BY DEF WebInit, StoreTyped
  <2> QED
    BY <2>1, <2>2, <2>3, WebChatAssumption DEF WebInit, WebTyped, WiresTyped, TalliesTyped
<1>2. WebTyped /\ [WebNext]_webVars => WebTyped'
  <2>1. CASE UNCHANGED webVars
    BY <2>1 DEF webVars, tallies, WebTyped, RoomsTyped, MessagesTyped, StoreTyped, WiresTyped,
       TalliesTyped
  <2> QED
    BY <2>1, SocketTyped, SendTextTyped, HandleTyped, RepliesTyped, WiresStep, RestartTyped,
       OperatorsTyped DEF WebNext
<1>3. WebInv /\ WebTyped => WebTypeOK
  BY DEF WebInv, OwedInv, WebTyped, RoomsTyped, MessagesTyped, StoreTyped, TalliesTyped, Socket,
     Handling, NoTurn, WebTypeOK
<1> QED
  BY <1>1, <1>2, <1>3, WebInductive, PTL DEF WebSpec

-----------------------------------------------------------------------------
(* ProjectOnboarding.                                                      *)

(* The inductive invariant.                                                *)
Choice == Project \cup {NoProject}
SessionRow == [state: Pending \cup {"none", "COMPLETED"}, selected: Choice, expired: BOOLEAN]
Planned == [state: Pending \cup {"keep", "COMPLETED"}, selected: Choice, join: Choice,
         opens: BOOLEAN, creates: BOOLEAN, asks: BOOLEAN]
Transaction == [at: {"idle", "session", "decide", "commit"}, input: Input, ready: Choice,
                seen: SessionRow, locked: BOOLEAN, plan: Planned]

OnboardingBasics ==
    /\ session \in SessionRow /\ rowLock \in Somebody
    /\ enrolled \subseteq Project /\ activeCodes \subseteq Code
    /\ open \in [Project -> Nat] /\ requests \in Int
    /\ unlocked \in [Choice -> Nat]
    /\ tx \in [Tx -> Transaction] /\ resolving \in Planned

\* What belongs together in a plan.
Coherent(plan) ==
    /\ plan.opens => plan.join # NoProject
    /\ plan.state \in {"keep", "AWAITING_PROJECT_DETAILS"} => plan.join = NoProject
    /\ plan.asks => plan.state = "PENDING_HUMAN" /\ plan.join = NoProject

\* Who has locked the row knows what it holds; who has not, found none.
LockInv ==
    \A h \in Tx :
      /\ rowLock = h <=> tx[h].at \in {"decide", "commit"} /\ tx[h].locked
      /\ tx[h].at \in {"decide", "commit"} =>
           tx[h].seen = IF tx[h].locked THEN session ELSE NoSession

\* What was decided under the lock is still so.
PlanInv ==
    /\ Coherent(resolving) /\ ~resolving.asks
    /\ \A h \in Tx : tx[h].at = "commit" =>
         /\ Coherent(tx[h].plan)
         /\ tx[h].plan.asks => tx[h].locked /\ session.state = "AWAITING_PROJECT_DETAILS"
         /\ tx[h].locked /\ tx[h].plan.opens => open[tx[h].plan.join] = 0
         /\ tx[h].locked /\ tx[h].plan.state = "AWAITING_PROJECT_DETAILS" => requests <= 0

\* The transactions that will open a conversation, or lead back to the
\* question for details, on what they read without the lock.
Opens(t, p) == t.at = "commit" /\ ~t.locked /\ t.plan.opens /\ t.plan.join = p
WillAsk(t) == t.at = "commit" /\ ~t.locked /\ t.plan.state = "AWAITING_PROJECT_DETAILS"
Opening(p) == {h \in Tx : Opens(tx[h], p)}
Asking == {h \in Tx : WillAsk(tx[h])}

\* Each of them is owed to an unlocked write; one conversation, and one
\* request or one question for its details, is not.
One(b) == IF b THEN 1 ELSE 0
Owed(p) == Cardinality(Opening(p)) + One(resolving.opens /\ resolving.join = p)
CountInv ==
    /\ \A p \in Project : /\ Owed(p) <= unlocked[p]
                          /\ Owed(p) + open[p] <= 1 + unlocked[p]
    /\ Cardinality(Asking) <= unlocked[NoProject]
    /\ Cardinality(Asking) + requests + One(session.state = "AWAITING_PROJECT_DETAILS")
       <= 1 + unlocked[NoProject]

OnboardingInv == OnboardingBasics /\ LockInv /\ PlanInv /\ CountInv

(* What a transaction decides.                                             *)
Button == {"menu", "browse", "connect new", "has code", "no code", "switch"}

LEMMA Inputs ==
  ASSUME NEW i \in Input
  PROVE  /\ i[1] \in {"relink", "text", "follow", "menu", "browse", "connect new", "has code",
                       "no code", "switch", "code"}
         /\ i[1] = "switch" => i[2] \in Project
         /\ i[1] = "code" => i[2] \in Code
  BY DEF Input

\* A plan that fits what is read while it is made.
Sensible(plan) ==
    /\ plan \in Planned /\ Coherent(plan)
    /\ plan.opens => open[plan.join] = 0
    /\ plan.state = "AWAITING_PROJECT_DETAILS" => requests <= 0

LEMMA NothingSensible == Sensible(NoPlan) /\ ~NoPlan.asks
  BY OnboardingAssumption DEF NoPlan, Sensible, Planned, Coherent, Choice, Pending

LEMMA SetSensible ==
  ASSUME NEW state \in Pending, state = "AWAITING_PROJECT_DETAILS" => requests <= 0
  PROVE  Sensible(Set(state)) /\ ~Set(state).asks
  BY OnboardingAssumption DEF Set, NoPlan, Sensible, Planned, Coherent, Choice, Pending

LEMMA CompleteSensible ==
  ASSUME NEW joined \in Project, NEW selected \in Choice, OnboardingBasics
  PROVE  Sensible(Complete(joined, selected)) /\ ~Complete(joined, selected).asks
<1> DEFINE plan == Complete(joined, selected)
<1>1. NoPlan \in Planned /\ ~NoPlan.asks
  BY NothingSensible DEF Sensible
<1>2. joined \in Choice /\ joined # NoProject /\ (~known) \in BOOLEAN
  BY OnboardingAssumption DEF Choice
<1>3. plan \in Planned
  BY <1>1, <1>2 DEF Complete, Planned
<1>4. /\ plan.state = "COMPLETED" /\ plan.join = joined /\ (plan.opens <=> open[joined] = 0)
      /\ ~plan.asks
  BY <1>1, <1>2 DEF Complete, Planned
<1>5. plan = Complete(joined, selected)
  OBVIOUS
<1> HIDE DEF plan
<1>6. Coherent(plan)
  BY <1>2, <1>4 DEF Coherent
<1> QED
  BY <1>3, <1>4, <1>5, <1>6 DEF Sensible

LEMMA OrChoiceSensible ==
  ASSUME NEW plan, Sensible(plan), ~plan.asks
  PROVE  Sensible(OrChoice(plan)) /\ ~OrChoice(plan).asks
  BY SetSensible DEF OrChoice, Pending

LEMMA CurrentIsProject ==
  ASSUME OnboardingBasics, NEW seen, NEW ready
  PROVE  Current(seen, ready) \in Choice /\ Available \subseteq Project
<1>1. Available \subseteq Project
  BY DEF OnboardingBasics, Available
<1>2. CASE seen.selected \in Available
  BY <1>1, <1>2 DEF Current, Choice
<1>3. CASE seen.selected \notin Available /\ ready \in Available
  BY <1>1, <1>3 DEF Current, Choice
<1>4. CASE seen.selected \notin Available /\ ready \notin Available
  <2>1. Available # {} => (CHOOSE p \in Available : TRUE) \in Available
    OBVIOUS
  <2>2. Cardinality(Available) = 1 => Available # {}
    BY FS_EmptySet
  <2>3. Current(seen, ready) = IF Cardinality(Available) = 1
                               THEN CHOOSE p \in Available : TRUE ELSE NoProject
    BY <1>4 DEF Current
  <2> QED
    BY <1>1, <2>1, <2>2, <2>3 DEF Choice
<1> QED
  BY <1>1, <1>2, <1>3, <1>4

LEMMA PostbackSensible ==
  ASSUME OnboardingBasics, NEW t \in Transaction, NEW seen,
         t.input[1] \in Button
  PROVE  Sensible(Postback(t, seen)) /\ ~Postback(t, seen).asks
<1>1. CASE t.input[1] = "switch"
  <2>1. t.input[2] \in Choice /\ t.input[2] \in Project
    BY <1>1, Inputs DEF Transaction, Choice
  <2>2. Postback(t, seen) = OrChoice(IF t.input[2] \in Available
                                     THEN Complete(t.input[2], t.input[2]) ELSE NoPlan)
    BY <1>1 DEF Postback
  <2> QED
    BY <2>1, <2>2, CompleteSensible, NothingSensible, OrChoiceSensible
<1>2. CASE t.input[1] = "menu"
  <2> DEFINE p == Current(seen, t.ready)
  <2>1. p \in Choice
    BY CurrentIsProject
  <2>2. Postback(t, seen) = OrChoice(IF p # NoProject THEN Complete(p, p) ELSE NoPlan)
    BY <1>2 DEF Postback
  <2> HIDE DEF p
  <2>3. p # NoProject => p \in Project
    BY <2>1 DEF Choice
  <2> QED
    BY <2>1, <2>2, <2>3, CompleteSensible, NothingSensible, OrChoiceSensible
<1>3. CASE t.input[1] = "browse"
  BY <1>3, NothingSensible, OrChoiceSensible DEF Postback
<1>4. CASE t.input[1] = "connect new"
  BY <1>4, SetSensible DEF Postback, Pending
<1>5. CASE t.input[1] = "has code"
  BY <1>5, SetSensible DEF Postback, Pending
<1>6. CASE t.input[1] = "no code"
  <2> DEFINE state == IF requests > 0 THEN "PENDING_HUMAN" ELSE "AWAITING_PROJECT_DETAILS"
  <2>1. state \in Pending /\ (state = "AWAITING_PROJECT_DETAILS" => ~(requests > 0))
    BY DEF Pending
  <2>3. ~(requests > 0) => requests <= 0
    <3>1. requests \in Int
      BY DEF OnboardingBasics
    <3> QED
      BY <3>1
  <2>2. Postback(t, seen) = Set(state)
    BY <1>6 DEF Postback
  <2> QED
    BY <2>1, <2>2, <2>3, SetSensible
<1> QED
  BY <1>1, <1>2, <1>3, <1>4, <1>5, <1>6 DEF Button

LEMMA ValidateCodeSensible ==
  ASSUME OnboardingBasics, NEW t \in Transaction, NEW seen
  PROVE  Sensible(ValidateCode(t, seen)) /\ ~ValidateCode(t, seen).asks
<1> DEFINE valid == {c \in activeCodes : ProjectOf[c] \in Enabled}
<1>1. CASE t.input[1] # "code" \/ t.input[2] \notin valid
  BY <1>1, SetSensible DEF ValidateCode, Pending
<1>2. CASE ~(t.input[1] # "code" \/ t.input[2] \notin valid)
  <2> DEFINE p == ProjectOf[t.input[2]]
             now == Current(seen, t.ready)
             kept == IF now # NoProject THEN now ELSE p
  <2>1. p \in Project
    BY <1>2, OnboardingAssumption
  <2>2. kept \in Choice
    BY <2>1, CurrentIsProject DEF Choice
  <2>3. ValidateCode(t, seen) = Complete(p, kept)
    BY <1>2 DEF ValidateCode
  <2> HIDE DEF p, kept
  <2> QED
    BY <2>1, <2>2, <2>3, CompleteSensible
<1> QED
  BY <1>1, <1>2

LEMMA AnswerSensible ==
  ASSUME OnboardingBasics, NEW t \in Transaction, NEW seen \in SessionRow
  PROVE  /\ Sensible(Answer(t, seen))
         /\ Answer(t, seen).asks => seen.state = "AWAITING_PROJECT_DETAILS"
<1>1. CASE seen = NoSession \/ seen.expired
  <2>1. seen = NoSession => seen.state = "none"
    BY DEF NoSession
  <2>2. Answer(t, seen) = Set("AWAITING_CHOICE")
    BY <1>1, <2>1 DEF Answer
  <2>3. "AWAITING_CHOICE" \in Pending
    BY DEF Pending
  <2> QED
    BY <2>2, <2>3, SetSensible
<1>2. CASE ~(seen = NoSession \/ seen.expired) /\ seen.state = "AWAITING_CHOICE"
  BY <1>2, ValidateCodeSensible, NothingSensible DEF Answer
<1>3. CASE ~(seen = NoSession \/ seen.expired) /\ seen.state = "AWAITING_CODE"
  BY <1>3, ValidateCodeSensible DEF Answer
<1>4. CASE ~(seen = NoSession \/ seen.expired) /\ seen.state = "AWAITING_PROJECT_DETAILS"
  <2> DEFINE plan == [Set("PENDING_HUMAN") EXCEPT !.asks = TRUE]
  <2>1. Answer(t, seen) = plan
    BY <1>4 DEF Answer
  <2>2. Sensible(plan)
    BY OnboardingAssumption DEF Set, NoPlan, Sensible, Planned, Coherent, Choice, Pending
  <2> QED
    BY <1>4, <2>1, <2>2
<1>5. CASE ~(seen = NoSession \/ seen.expired)
           /\ seen.state \notin {"AWAITING_CHOICE", "AWAITING_CODE", "AWAITING_PROJECT_DETAILS"}
  BY <1>5, NothingSensible DEF Answer
<1> QED
  BY <1>1, <1>2, <1>3, <1>4, <1>5

LEMMA PassSensible ==
  ASSUME NEW t \in Transaction, NEW seen
  PROVE  Sensible(Pass(t, seen)) /\ ~Pass(t, seen).asks
<1>1. CASE seen = NoSession
  <2> DEFINE plan == [Set("COMPLETED") EXCEPT !.selected = t.ready]
  <2>1. t.ready \in Choice
    BY DEF Transaction
  <2>2. /\ NoPlan \in Planned /\ ~NoPlan.asks /\ ~NoPlan.opens /\ NoPlan.join = NoProject
    BY NothingSensible DEF Sensible, Planned, NoPlan
  <2>3. Pass(t, seen) = plan
    BY <1>1 DEF Pass
  <2>4. /\ plan \in Planned /\ ~plan.asks /\ ~plan.opens /\ plan.join = NoProject
        /\ plan.state = "COMPLETED"
    BY <2>1, <2>2 DEF Set, Planned
  <2> HIDE DEF plan
  <2> QED
    BY <2>3, <2>4 DEF Sensible, Coherent
<1>2. CASE seen # NoSession
  BY <1>2, NothingSensible DEF Pass
<1> QED
  BY <1>1, <1>2

LEMMA FollowSensible ==
  ASSUME OnboardingBasics
  PROVE  Sensible(Follow) /\ ~Follow.asks
<1>1. CASE Smart /\ Cardinality(Enabled) = 1
  <2> DEFINE p == CHOOSE q \in Enabled : TRUE
  <2>1. Enabled # {}
    BY <1>1, FS_EmptySet
  <2>2. p \in Project /\ p \in Choice
    BY <2>1, OnboardingAssumption DEF Choice
  <2>3. Follow = Complete(p, p)
    BY <1>1 DEF Follow
  <2> HIDE DEF p
  <2> QED
    BY <2>2, <2>3, CompleteSensible
<1>2. CASE ~(Smart /\ Cardinality(Enabled) = 1)
  BY <1>2, SetSensible DEF Follow, Pending
<1> QED
  BY <1>1, <1>2

\* A plan fits what was read, and only who read that the details were asked
\* for makes a request.
LEMMA DecidedSensible ==
  ASSUME OnboardingBasics, NEW t \in Transaction
  PROVE  /\ Sensible(Decided(t))
         /\ Decided(t).asks => t.seen.state = "AWAITING_PROJECT_DETAILS"
<1>0. t.seen \in SessionRow /\ t.input \in Input
  BY DEF Transaction
<1>1. CASE t.input[1] = "relink"
  BY <1>1, SetSensible DEF Decided, Pending
<1>2. CASE t.input[1] = "follow"
  BY <1>2, NothingSensible, FollowSensible DEF Decided
<1>3. CASE t.input[1] \in {"text", "code"}
  <2>1. Decided(t) = IF t.ready # NoProject /\ t.seen.state \notin Pending
                     THEN Pass(t, t.seen) ELSE Answer(t, t.seen)
    BY <1>3 DEF Decided
  <2> QED
    BY <1>0, <2>1, PassSensible, AnswerSensible
<1>4. CASE t.input[1] \notin {"relink", "follow", "text", "code"}
  <2>1. Decided(t) = Postback(t, t.seen)
    BY <1>4 DEF Decided
  <2>2. t.input[1] \in Button
    BY <1>0, <1>4, Inputs DEF Button
  <2>3. Sensible(Postback(t, t.seen)) /\ ~Postback(t, t.seen).asks
    BY <2>2, PostbackSensible
  <2> QED
    BY <2>1, <2>3
<1> QED
  BY <1>1, <1>2, <1>3, <1>4

(* One transaction changes.                                                *)

LEMMA TxStep ==
  ASSUME OnboardingBasics, NEW h \in Tx, NEW new \in Transaction, tx' = [tx EXCEPT ![h] = new]
  PROVE  /\ tx' \in [Tx -> Transaction] /\ tx'[h] = new
         /\ \A k \in Tx \ {h} : tx'[k] = tx[k]
  BY DEF OnboardingBasics

LEMMA CountTypes ==
  /\ \A p : Cardinality(Opening(p)) \in Nat /\ IsFiniteSet(Opening(p))
  /\ Cardinality(Asking) \in Nat /\ IsFiniteSet(Asking)
<1>1. \A p : Opening(p) \subseteq Tx
  BY DEF Opening
<1>2. Asking \subseteq Tx
  BY DEF Asking
<1> QED
  BY <1>1, <1>2, FS_Subset, FS_CardinalityType, OnboardingAssumption

LEMMA CountTypesNext ==
  (\A p : Cardinality(Opening(p)') \in Nat) /\ Cardinality(Asking') \in Nat
<1>1. \A p : Opening(p)' \subseteq Tx
  BY DEF Opening
<1>2. Asking' \subseteq Tx
  BY DEF Asking
<1> QED
  BY <1>1, <1>2, FS_Subset, FS_CardinalityType, OnboardingAssumption

\* A set from which h may have gone and to which it may have come.
LEMMA OneMoreTx ==
  ASSUME NEW S, NEW T, IsFiniteSet(S), NEW h, S \ {h} = T \ {h}
  PROVE  Cardinality(T) = Cardinality(S) + One(h \in T) - One(h \in S)
<1>1. /\ IsFiniteSet(S \ {h}) /\ Cardinality(S \ {h}) = IF h \in S THEN Cardinality(S) - 1
                                                       ELSE Cardinality(S)
  BY FS_RemoveElement
<1>2. T = IF h \in T THEN (S \ {h}) \cup {h} ELSE S \ {h}
  OBVIOUS
<1>3. h \in T => Cardinality(T) = Cardinality(S \ {h}) + 1
  BY <1>1, <1>2, FS_AddElement
<1>4. h \notin T => Cardinality(T) = Cardinality(S \ {h})
  BY <1>2
<1>5. Cardinality(S) \in Nat
  BY FS_CardinalityType
<1> QED
  BY <1>1, <1>3, <1>4, <1>5 DEF One

LEMMA Recount ==
  ASSUME OnboardingBasics, NEW h \in Tx, NEW new \in Transaction, tx' = [tx EXCEPT ![h] = new]
  PROVE  /\ \A p : Cardinality(Opening(p)')
                    = Cardinality(Opening(p)) + One(Opens(new, p)) - One(Opens(tx[h], p))
         /\ Cardinality(Asking') = Cardinality(Asking) + One(WillAsk(new)) - One(WillAsk(tx[h]))
<1>1. tx'[h] = new /\ \A k \in Tx \ {h} : tx'[k] = tx[k]
  BY TxStep
<1>2. ASSUME NEW p
      PROVE  Cardinality(Opening(p)')
               = Cardinality(Opening(p)) + One(Opens(new, p)) - One(Opens(tx[h], p))
  <2>1. Opening(p) \ {h} = Opening(p)' \ {h}
    BY <1>1 DEF Opening
  <2>2. (h \in Opening(p)' <=> Opens(new, p)) /\ (h \in Opening(p) <=> Opens(tx[h], p))
    BY <1>1 DEF Opening
  <2>3. Cardinality(Opening(p)') = Cardinality(Opening(p)) + One(h \in Opening(p)')
                                     - One(h \in Opening(p))
    BY <2>1, CountTypes, OneMoreTx
  <2> QED
    BY <2>2, <2>3 DEF One
<1>3. Cardinality(Asking') = Cardinality(Asking) + One(WillAsk(new)) - One(WillAsk(tx[h]))
  <2>1. Asking \ {h} = Asking' \ {h}
    BY <1>1 DEF Asking
  <2>2. (h \in Asking' <=> WillAsk(new)) /\ (h \in Asking <=> WillAsk(tx[h]))
    BY <1>1 DEF Asking
  <2>3. Cardinality(Asking') = Cardinality(Asking) + One(h \in Asking') - One(h \in Asking)
    BY <2>1, CountTypes, OneMoreTx
  <2> QED
    BY <2>2, <2>3 DEF One
<1> QED
  BY <1>2, <1>3

LEMMA Holders ==
  ASSUME LockInv, NEW h \in Tx, rowLock \in {h, "nobody"}
  PROVE  \A k \in Tx \ {h} : tx[k].at \in {"decide", "commit"} => ~tx[k].locked
  BY OnboardingAssumption DEF LockInv

LEMMA NoHolder ==
  ASSUME LockInv, rowLock = "nobody"
  PROVE  \A k \in Tx : tx[k].at \in {"decide", "commit"} => ~tx[k].locked
  BY OnboardingAssumption DEF LockInv

LEMMA NewTx == NoTx \in Transaction /\ NoTx.at = "idle" /\ NoSession \in SessionRow
<1>1. <<"text", NoProject>> \in Input /\ NoSession \in SessionRow /\ NoPlan \in Planned
  BY NothingSensible DEF Input, NoSession, SessionRow, Choice, Sensible
<1> QED
  BY <1>1 DEF NoTx, Transaction, Choice

\* A transaction that does not count moves without disturbing the counts.
LEMMA CountsStay ==
  ASSUME OnboardingBasics, CountInv, NEW h \in Tx, NEW new \in Transaction,
         tx' = [tx EXCEPT ![h] = new], new.at # "commit",
         UNCHANGED <<open, resolving, unlocked, session, requests>>
  PROVE  CountInv'
<1>1. ~WillAsk(new) /\ \A p : ~Opens(new, p)
  BY DEF WillAsk, Opens
<1>2. \A b \in BOOLEAN : One(b) \in {0, 1}
  BY DEF One
<1>3. ASSUME NEW p PROVE Cardinality(Opening(p)') <= Cardinality(Opening(p))
  <2>1. One(Opens(new, p)) = 0 /\ One(Opens(tx[h], p)) \in {0, 1}
    BY <1>1 DEF One
  <2>2. Cardinality(Opening(p)')
          = Cardinality(Opening(p)) + One(Opens(new, p)) - One(Opens(tx[h], p))
    BY Recount
  <2> QED
    BY <2>1, <2>2, CountTypes
<1>4. Cardinality(Asking') <= Cardinality(Asking)
  <2>1. One(WillAsk(new)) = 0 /\ One(WillAsk(tx[h])) \in {0, 1}
    BY <1>1 DEF One
  <2>2. Cardinality(Asking') = Cardinality(Asking) + One(WillAsk(new)) - One(WillAsk(tx[h]))
    BY Recount
  <2> QED
    BY <2>1, <2>2, CountTypes
<1>5. ASSUME NEW p \in Project
      PROVE  Owed(p)' <= unlocked'[p] /\ Owed(p)' + open'[p] <= 1 + unlocked'[p]
  <2>1. Owed(p)' = Cardinality(Opening(p)') + One(resolving.opens /\ resolving.join = p)
    BY DEF Owed
  <2>2. One(resolving.opens /\ resolving.join = p) \in {0, 1}
    BY DEF One
  <2>3. /\ open[p] \in Nat /\ unlocked[p] \in Nat
        /\ Owed(p) <= unlocked[p] /\ Owed(p) + open[p] <= 1 + unlocked[p]
    BY DEF OnboardingBasics, CountInv, Choice
  <2> QED
    BY <1>3, <2>1, <2>2, <2>3, CountTypes, CountTypesNext DEF Owed
<1>6. /\ Cardinality(Asking') <= unlocked'[NoProject]
      /\ Cardinality(Asking') + requests' + One(session'.state = "AWAITING_PROJECT_DETAILS")
           <= 1 + unlocked'[NoProject]
  <2>1. unlocked[NoProject] \in Nat /\ requests \in Int
    BY DEF OnboardingBasics, Choice
  <2>2. One(session.state = "AWAITING_PROJECT_DETAILS") \in {0, 1}
    BY DEF One
  <2> QED
    BY <1>4, <2>1, <2>2, CountTypes, CountTypesNext DEF CountInv
<1> QED
  BY <1>5, <1>6 DEF CountInv

LEMMA Basics ==
  OnboardingBasics <=>
    /\ session \in SessionRow /\ rowLock \in Somebody
    /\ enrolled \subseteq Project /\ activeCodes \subseteq Code
    /\ open \in [Project -> Nat] /\ requests \in Int
    /\ unlocked \in [Choice -> Nat]
    /\ tx \in [Tx -> Transaction] /\ resolving \in Planned
  BY DEF OnboardingBasics

(* Every step keeps the invariant.                                         *)

LEMMA BeginTxInv ==
  ASSUME OnboardingInv, NEW h \in Tx, NEW input \in Input, BeginTx(h, input)
  PROVE  OnboardingInv'
<1>0. OnboardingBasics /\ LockInv /\ PlanInv /\ CountInv
  BY DEF OnboardingInv
<1>1. PICK p \in ReadyIn :
        tx' = [tx EXCEPT ![h] = [NoTx EXCEPT !.at = "session", !.input = input, !.ready = p]]
  BY DEF BeginTx
<1> DEFINE new == [NoTx EXCEPT !.at = "session", !.input = input, !.ready = p]
<1>2. p \in Choice
  BY <1>0, OnboardingAssumption DEF ReadyIn, OnboardingBasics, SessionRow, Choice
<1>3. new \in Transaction /\ new.at = "session" /\ tx' = [tx EXCEPT ![h] = new]
  BY <1>1, <1>2, NewTx DEF Transaction
<1> HIDE DEF new
<1>4. tx[h].at = "idle" /\ UNCHANGED <<session, rowLock, facts, resolving, changes, unlocked>>
  BY DEF BeginTx
<1>5. UNCHANGED <<session, rowLock, enrolled, open, requests, activeCodes, resolving, unlocked>>
  BY <1>4 DEF facts
<1>6. /\ tx' \in [Tx -> Transaction] /\ tx'[h] = new
      /\ \A k \in Tx \ {h} : tx'[k] = tx[k]
  BY <1>0, <1>3, TxStep
<1>7. OnboardingBasics'
  BY <1>0, <1>5, <1>6 DEF OnboardingBasics
<1>8. LockInv'
  BY <1>0, <1>3, <1>4, <1>5, <1>6 DEF LockInv
<1>9. PlanInv'
  BY <1>0, <1>3, <1>5, <1>6 DEF PlanInv
<1>10. CountInv'
  BY <1>0, <1>3, <1>5, CountsStay
<1> QED
  BY <1>7, <1>8, <1>9, <1>10 DEF OnboardingInv

LEMMA GetSessionInv ==
  ASSUME OnboardingInv, NEW h \in Tx, GetSession(h)
  PROVE  OnboardingInv'
<1>0. OnboardingBasics /\ LockInv /\ PlanInv /\ CountInv
  BY DEF OnboardingInv
<1> DEFINE new == [tx[h] EXCEPT !.at = "decide", !.seen = session,
                                !.locked = session # NoSession]
<1>1. tx[h] \in Transaction /\ session \in SessionRow
  BY <1>0 DEF OnboardingBasics
<1>2. tx' = [tx EXCEPT ![h] = new]
  BY <1>0 DEF GetSession
<1>3. /\ new \in Transaction /\ new.at = "decide" /\ new.seen = session
      /\ (new.locked <=> session # NoSession)
  <2>1. (session # NoSession) \in BOOLEAN
    OBVIOUS
  <2> QED
    BY <1>1, <2>1 DEF Transaction
<1> HIDE DEF new
<1>4. /\ tx[h].at = "session" /\ rowLock = "nobody"
      /\ rowLock' = IF session = NoSession THEN "nobody" ELSE h
      /\ UNCHANGED <<session, enrolled, open, requests, activeCodes, resolving, unlocked>>
  BY DEF GetSession, facts
<1>5. /\ tx' \in [Tx -> Transaction] /\ tx'[h] = new
      /\ \A k \in Tx \ {h} : tx'[k] = tx[k]
  BY <1>0, <1>2, <1>3, TxStep
<1>6. OnboardingBasics'
  BY <1>0, <1>4, <1>5 DEF OnboardingBasics, Somebody
<1>7. LockInv'
  <2>1. \A k \in Tx \ {h} : tx[k].at \in {"decide", "commit"} => ~tx[k].locked
    BY <1>0, <1>4, NoHolder
  <2>2. \A k \in Tx \ {h} : rowLock' # k
    BY <1>4, OnboardingAssumption
  <2>3. rowLock' = h <=> new.locked
    BY <1>3, <1>4, OnboardingAssumption
  <2>4. new.seen = IF new.locked THEN session ELSE NoSession
    BY <1>3
  <2> QED
    BY <1>0, <1>3, <1>4, <1>5, <2>1, <2>2, <2>3, <2>4 DEF LockInv
<1>8. PlanInv'
  BY <1>0, <1>3, <1>4, <1>5 DEF PlanInv
<1>9. CountInv'
  BY <1>0, <1>2, <1>3, <1>4, CountsStay
<1> QED
  BY <1>6, <1>7, <1>8, <1>9 DEF OnboardingInv

LEMMA ProcessClaimedEventInv ==
  ASSUME OnboardingInv, NEW h \in Tx, ProcessClaimedEvent(h)
  PROVE  OnboardingInv'
<1> DEFINE plan == Decided(tx[h])
           new == [tx[h] EXCEPT !.at = "commit", !.plan = plan]
<1>0. OnboardingBasics /\ LockInv /\ PlanInv /\ CountInv
  BY DEF OnboardingInv
<1>1. tx[h] \in Transaction
  BY <1>0 DEF OnboardingBasics
<1>2. Sensible(plan) /\ (plan.asks => tx[h].seen.state = "AWAITING_PROJECT_DETAILS")
  BY <1>0, <1>1, DecidedSensible
<1>3. /\ tx[h].at = "decide" /\ tx' = [tx EXCEPT ![h] = new]
      /\ unlocked' = IF tx[h].locked \/ plan.state = "keep" THEN unlocked
                     ELSE [unlocked EXCEPT ![plan.join] = @ + 1]
      /\ UNCHANGED <<session, rowLock, enrolled, open, requests, activeCodes, resolving>>
  BY <1>0 DEF ProcessClaimedEvent, facts
<1> HIDE DEF plan
<1>4. plan \in Planned
  BY <1>2 DEF Sensible
<1>5. /\ new \in Transaction /\ new.at = "commit" /\ new.plan = plan
      /\ new.seen = tx[h].seen /\ new.locked = tx[h].locked
  BY <1>1, <1>4 DEF Transaction
<1> HIDE DEF new
<1>6. /\ tx' \in [Tx -> Transaction] /\ tx'[h] = new
      /\ \A k \in Tx \ {h} : tx'[k] = tx[k]
  BY <1>0, <1>3, <1>5, TxStep
<1>7. unlocked' \in [Choice -> Nat] /\ \A c \in Choice : unlocked'[c] >= unlocked[c]
  BY <1>0, <1>3, <1>4 DEF OnboardingBasics, Planned
<1>8. OnboardingBasics'
  BY <1>0, <1>3, <1>6, <1>7 DEF OnboardingBasics
<1>9. LockInv'
  BY <1>0, <1>3, <1>5, <1>6 DEF LockInv
<1>10. PlanInv'
  <2>1. NoSession.state # "AWAITING_PROJECT_DETAILS"
    BY DEF NoSession
  <2>2. tx[h].seen = IF tx[h].locked THEN session ELSE NoSession
    BY <1>0, <1>3 DEF LockInv
  <2>3. plan.asks => tx[h].locked /\ session.state = "AWAITING_PROJECT_DETAILS"
    BY <1>2, <2>1, <2>2
  <2> QED
    BY <1>0, <1>2, <1>3, <1>5, <1>6, <2>3 DEF PlanInv, Sensible
<1>11. CountInv'
  <2>1. ~WillAsk(tx[h]) /\ \A p : ~Opens(tx[h], p)
    BY <1>3 DEF WillAsk, Opens
  <2>2. Coherent(plan)
    BY <1>2 DEF Sensible
  <2>3. ASSUME NEW p \in Project
        PROVE  Owed(p)' <= unlocked'[p] /\ Owed(p)' + open'[p] <= 1 + unlocked'[p]
    <3>1. /\ open[p] \in Nat /\ unlocked[p] \in Nat /\ unlocked'[p] \in Nat
          /\ unlocked'[p] >= unlocked[p]
          /\ Owed(p) <= unlocked[p] /\ Owed(p) + open[p] <= 1 + unlocked[p]
      BY <1>0, <1>7 DEF OnboardingBasics, CountInv, Choice
    <3>2. Opens(new, p) => unlocked'[p] = unlocked[p] + 1
      <4> SUFFICES ASSUME Opens(new, p) PROVE unlocked'[p] = unlocked[p] + 1
        OBVIOUS
      <4>1. plan.join = p /\ ~tx[h].locked /\ plan.state # "keep"
        BY <1>5, <2>2, OnboardingAssumption DEF Opens, Coherent
      <4> QED
        BY <1>0, <1>3, <4>1 DEF OnboardingBasics, Choice
    <3>3. Cardinality(Opening(p)') = Cardinality(Opening(p)) + One(Opens(new, p))
      <4>1. Cardinality(Opening(p)') = Cardinality(Opening(p)) + One(Opens(new, p)) - One(Opens(tx[h], p))
        BY <1>0, <1>3, <1>5, Recount
      <4>2. One(Opens(tx[h], p)) = 0 /\ One(Opens(new, p)) \in {0, 1}
        BY <2>1 DEF One
      <4> QED
        BY <4>1, <4>2, CountTypes
    <3>4. One(resolving.opens /\ resolving.join = p) \in {0, 1}
      BY DEF One
    <3>5. Owed(p) \in Nat /\ Owed(p)' = Owed(p) + One(Opens(new, p))
      BY <1>3, <3>3, <3>4, CountTypes DEF Owed, One
    <3> QED
      BY <1>3, <3>1, <3>2, <3>5 DEF One
  <2>4. /\ Cardinality(Asking') <= unlocked'[NoProject]
        /\ Cardinality(Asking') + requests' + One(session'.state = "AWAITING_PROJECT_DETAILS")
             <= 1 + unlocked'[NoProject]
    <3>1. /\ unlocked[NoProject] \in Nat /\ unlocked'[NoProject] \in Nat /\ requests \in Int
          /\ unlocked'[NoProject] >= unlocked[NoProject]
      BY <1>0, <1>7 DEF OnboardingBasics, Choice
    <3>2. WillAsk(new) => unlocked'[NoProject] = unlocked[NoProject] + 1
      <4> SUFFICES ASSUME WillAsk(new) PROVE unlocked'[NoProject] = unlocked[NoProject] + 1
        OBVIOUS
      <4>1. plan.join = NoProject /\ ~tx[h].locked /\ plan.state # "keep"
        BY <1>5, <2>2 DEF WillAsk, Coherent
      <4> QED
        BY <1>0, <1>3, <4>1 DEF OnboardingBasics, Choice
    <3>3. Cardinality(Asking') = Cardinality(Asking) + One(WillAsk(new))
      <4>1. Cardinality(Asking') = Cardinality(Asking) + One(WillAsk(new)) - One(WillAsk(tx[h]))
        BY <1>0, <1>3, <1>5, Recount
      <4>2. One(WillAsk(tx[h])) = 0 /\ One(WillAsk(new)) \in {0, 1}
        BY <2>1 DEF One
      <4> QED
        BY <4>1, <4>2, CountTypes
    <3>4. One(session.state = "AWAITING_PROJECT_DETAILS") \in {0, 1}
      BY DEF One
    <3> QED
      BY <1>0, <1>3, <3>1, <3>2, <3>3, <3>4, CountTypes DEF CountInv, One
  <2> QED
    BY <2>3, <2>4 DEF CountInv
<1> QED
  BY <1>8, <1>9, <1>10, <1>11 DEF OnboardingInv

LEMMA RollBackInv ==
  ASSUME OnboardingInv, NEW h \in Tx, RollBack(h)
  PROVE  OnboardingInv'
<1>0. OnboardingBasics /\ LockInv /\ PlanInv /\ CountInv
  BY DEF OnboardingInv
<1>1. /\ tx' = [tx EXCEPT ![h] = NoTx]
      /\ rowLock' = IF rowLock = h THEN "nobody" ELSE rowLock
      /\ UNCHANGED <<session, enrolled, open, requests, activeCodes, resolving, unlocked>>
  BY DEF RollBack, Unlock, facts
<1>2. /\ tx' \in [Tx -> Transaction] /\ tx'[h].at = "idle"
      /\ \A k \in Tx \ {h} : tx'[k] = tx[k]
  BY <1>0, <1>1, TxStep, NewTx
<1>3. OnboardingBasics'
  BY <1>0, <1>1, <1>2 DEF OnboardingBasics, Somebody
<1>4. LockInv'
  BY <1>0, <1>1, <1>2, OnboardingAssumption DEF LockInv
<1>5. PlanInv'
  BY <1>0, <1>1, <1>2 DEF PlanInv
<1>6. CountInv'
  BY <1>0, <1>1, NewTx, CountsStay
<1> QED
  BY <1>3, <1>4, <1>5, <1>6 DEF OnboardingInv

\* What a provisioning adds.
LEMMA ProvisionStep ==
  ASSUME OnboardingBasics, NEW plan \in Planned, Provision(plan)
  PROVE  /\ enrolled' \subseteq Project /\ open' \in [Project -> Nat]
         /\ \A p \in Project : open'[p] = open[p] + One(p = plan.join /\ plan.opens)
<1>1. plan.join \in Choice
  BY DEF Planned
<1>2. enrolled' \subseteq Project
  BY <1>1 DEF Provision, OnboardingBasics, Choice
<1>3. \A p \in Project : open'[p] = open[p] + One(p = plan.join /\ plan.opens)
  BY DEF Provision, One
<1>4. open' \in [Project -> Nat]
  BY DEF Provision, OnboardingBasics
<1> QED
  BY <1>2, <1>3, <1>4

LEMMA CommitTxInv ==
  ASSUME OnboardingInv, NEW h \in Tx, CommitTx(h)
  PROVE  OnboardingInv'
<1> DEFINE plan == tx[h].plan
<1>0. OnboardingBasics /\ LockInv /\ PlanInv /\ CountInv
  BY DEF OnboardingInv
<1>1. tx[h] \in Transaction /\ plan \in Planned
  BY <1>0 DEF OnboardingBasics, Transaction
<1>2. /\ tx[h].at = "commit" /\ tx' = [tx EXCEPT ![h] = NoTx]
      /\ rowLock \in {h, "nobody"} \/ plan.state = "keep"
      /\ session' = Written(h) /\ Provision(plan)
      /\ requests' = requests + One(plan.asks)
      /\ rowLock' = IF rowLock = h THEN "nobody" ELSE rowLock
      /\ UNCHANGED <<activeCodes, resolving, unlocked>>
  BY DEF CommitTx, Unlock, One
<1>3. /\ Coherent(plan)
      /\ plan.asks => tx[h].locked /\ session.state = "AWAITING_PROJECT_DETAILS"
      /\ tx[h].locked /\ plan.opens => open[plan.join] = 0
      /\ tx[h].locked /\ plan.state = "AWAITING_PROJECT_DETAILS" => requests <= 0
  BY <1>0, <1>2 DEF PlanInv
<1>4. /\ session' \in SessionRow
      /\ session' = session \/ (session'.state = plan.state /\ plan.state # "keep")
      /\ plan.asks => session'.state = "PENDING_HUMAN"
      /\ plan.state = "keep" => session' = session
  <2>1. /\ session \in SessionRow /\ plan.selected \in Choice
        /\ plan.state \in Pending \cup {"keep", "COMPLETED"}
    BY <1>0, <1>1 DEF OnboardingBasics, Planned
  <2> DEFINE row == [state |-> plan.state, expired |-> FALSE,
                     selected |-> IF plan.state = "COMPLETED" THEN plan.selected
                                  ELSE session.selected]
  <2>2. /\ session' = session \/ (session' = row /\ plan.state # "keep")
        /\ plan.state = "keep" => session' = session
        /\ plan.state = "PENDING_HUMAN" => session' = row
    BY <1>2 DEF Written
  <2>3. row.state = plan.state /\ (plan.state # "keep" => row \in SessionRow)
    BY <2>1 DEF SessionRow
  <2> HIDE DEF row
  <2> QED
    BY <1>3, <2>1, <2>2, <2>3 DEF Coherent
<1> HIDE DEF plan
<1>5. /\ enrolled' \subseteq Project /\ open' \in [Project -> Nat]
      /\ \A p \in Project : open'[p] = open[p] + One(p = plan.join /\ plan.opens)
  BY <1>0, <1>1, <1>2, ProvisionStep
<1>6. /\ tx' \in [Tx -> Transaction] /\ tx'[h].at = "idle"
      /\ \A k \in Tx \ {h} : tx'[k] = tx[k]
  BY <1>0, <1>2, TxStep, NewTx
<1>7. requests \in Int /\ requests' \in Int /\ (~plan.asks => requests' = requests)
  BY <1>0, <1>2 DEF OnboardingBasics, One
<1>8. OnboardingBasics'
  BY <1>0, <1>2, <1>4, <1>5, <1>6, <1>7 DEF OnboardingBasics, Somebody
<1>9. plan.state = "keep" => /\ session' = session /\ requests' = requests
                             /\ \A p \in Project : open'[p] = open[p]
  BY <1>0, <1>3, <1>4, <1>5, <1>7 DEF Coherent, One, OnboardingBasics
<1>10. plan.state # "keep" =>
          \A k \in Tx \ {h} : tx[k].at \in {"decide", "commit"} => ~tx[k].locked
  BY <1>0, <1>2, Holders
<1>11. LockInv'
  BY <1>0, <1>2, <1>6, <1>9, <1>10, OnboardingAssumption DEF LockInv
<1>12. PlanInv'
  <2> SUFFICES ASSUME NEW k \in Tx, tx'[k].at = "commit"
               PROVE  /\ Coherent(tx[k].plan)
                      /\ tx[k].plan.asks
                           => tx[k].locked /\ session'.state = "AWAITING_PROJECT_DETAILS"
                      /\ tx[k].locked /\ tx[k].plan.opens => open'[tx[k].plan.join] = 0
                      /\ tx[k].locked /\ tx[k].plan.state = "AWAITING_PROJECT_DETAILS"
                           => requests' <= 0
    BY <1>0, <1>2, <1>6 DEF PlanInv
  <2>1. k # h /\ tx[k].at = "commit"
    BY <1>6
  <2>2. CASE plan.state = "keep"
    <3>1. tx[k].plan.opens => tx[k].plan.join \in Project
      BY <1>0, <2>1 DEF PlanInv, Coherent, OnboardingBasics, Transaction, Planned, Choice
    <3> QED
      BY <1>0, <1>9, <2>1, <2>2, <3>1 DEF PlanInv
  <2>3. CASE plan.state # "keep"
    BY <1>0, <1>10, <2>1, <2>3 DEF PlanInv
  <2> QED
    BY <2>2, <2>3
<1>13. ASSUME NEW p \in Project
       PROVE  Owed(p)' <= unlocked'[p] /\ Owed(p)' + open'[p] <= 1 + unlocked'[p]
  <2>1. /\ open[p] \in Nat /\ unlocked[p] \in Nat
        /\ Owed(p) <= unlocked[p] /\ Owed(p) + open[p] <= 1 + unlocked[p]
    BY <1>0 DEF OnboardingBasics, CountInv, Choice
  <2>2. ~Opens(NoTx, p)
    BY NewTx DEF Opens
  <2>3. Cardinality(Opening(p)') = Cardinality(Opening(p)) - One(Opens(tx[h], p))
    <3>1. Cardinality(Opening(p)') = Cardinality(Opening(p)) + One(Opens(NoTx, p)) - One(Opens(tx[h], p))
      BY <1>0, <1>2, NewTx, Recount
    <3>2. One(Opens(NoTx, p)) = 0 /\ One(Opens(tx[h], p)) \in {0, 1}
      BY <2>2 DEF One
    <3> QED
      BY <3>1, <3>2, CountTypes
  <2>4. One(resolving.opens /\ resolving.join = p) \in {0, 1}
    BY DEF One
  <2>5. Owed(p) \in Nat /\ Owed(p)' = Owed(p) - One(Opens(tx[h], p))
    BY <1>2, <2>3, <2>4, CountTypes DEF Owed, One
  <2>6. Opens(tx[h], p) <=> ~tx[h].locked /\ plan.opens /\ plan.join = p
    BY <1>2 DEF Opens, plan
  <2>7. open'[p] = open[p] + One(p = plan.join /\ plan.opens)
    BY <1>5
  <2>8. CASE Opens(tx[h], p)
    BY <1>2, <2>1, <2>5, <2>6, <2>7, <2>8 DEF One
  <2>9. CASE ~Opens(tx[h], p) /\ plan.opens /\ plan.join = p
    <3>1. open[p] = 0
      BY <1>3, <2>6, <2>9
    <3> QED
      BY <1>2, <2>1, <2>5, <2>7, <2>9, <3>1 DEF One
  <2>10. CASE ~Opens(tx[h], p) /\ ~(plan.opens /\ plan.join = p)
    BY <1>2, <2>1, <2>5, <2>7, <2>10 DEF One
  <2> QED
    BY <2>8, <2>9, <2>10
<1>14. /\ Cardinality(Asking') <= unlocked'[NoProject]
       /\ Cardinality(Asking') + requests' + One(session'.state = "AWAITING_PROJECT_DETAILS")
            <= 1 + unlocked'[NoProject]
  <2> DEFINE was == One(session.state = "AWAITING_PROJECT_DETAILS")
             is == One(session'.state = "AWAITING_PROJECT_DETAILS")
  <2>1. unlocked[NoProject] \in Nat
    BY <1>0 DEF OnboardingBasics, Choice
  <2>2. ~WillAsk(NoTx)
    BY NewTx DEF WillAsk
  <2>3. Cardinality(Asking') = Cardinality(Asking) - One(WillAsk(tx[h]))
    <3>1. Cardinality(Asking') = Cardinality(Asking) + One(WillAsk(NoTx)) - One(WillAsk(tx[h]))
      BY <1>0, <1>2, NewTx, Recount
    <3>2. One(WillAsk(NoTx)) = 0 /\ One(WillAsk(tx[h])) \in {0, 1}
      BY <2>2 DEF One
    <3> QED
      BY <3>1, <3>2, CountTypes
  <2>4. WillAsk(tx[h]) <=> ~tx[h].locked /\ plan.state = "AWAITING_PROJECT_DETAILS"
    BY <1>2 DEF WillAsk, plan
  <2>5. was \in {0, 1} /\ is \in {0, 1}
    BY DEF One
  <2>6. /\ Cardinality(Asking) \in Nat /\ Cardinality(Asking) <= unlocked[NoProject]
        /\ Cardinality(Asking) + requests + was <= 1 + unlocked[NoProject]
    BY <1>0, CountTypes DEF CountInv
  <2>7. CASE WillAsk(tx[h])
    <3>1. ~plan.asks /\ One(WillAsk(tx[h])) = 1
      BY <1>3, <2>4, <2>7 DEF Coherent, One
    <3> QED
      BY <1>2, <1>7, <2>1, <2>3, <2>5, <2>6, <3>1
  <2>8. CASE ~WillAsk(tx[h]) /\ plan.state = "AWAITING_PROJECT_DETAILS"
    <3>1. ~plan.asks /\ One(WillAsk(tx[h])) = 0 /\ requests <= 0
      BY <1>3, <2>4, <2>8 DEF Coherent, One
    <3> QED
      BY <1>2, <1>7, <2>1, <2>3, <2>5, <2>6, <3>1
  <2>9. CASE ~WillAsk(tx[h]) /\ plan.asks
    <3>1. One(WillAsk(tx[h])) = 0 /\ was = 1 /\ is = 0 /\ requests' = requests + 1
      BY <1>2, <1>3, <1>4, <2>9 DEF One
    <3> QED
      BY <1>2, <1>7, <2>1, <2>3, <2>6, <3>1
  <2>10. CASE ~WillAsk(tx[h]) /\ ~plan.asks /\ plan.state # "AWAITING_PROJECT_DETAILS"
    <3>1. One(WillAsk(tx[h])) = 0 /\ requests' = requests /\ is <= was
      BY <1>4, <1>7, <2>10 DEF One
    <3> QED
      BY <1>2, <1>7, <2>1, <2>3, <2>5, <2>6, <3>1
  <2> QED
    BY <2>7, <2>8, <2>9, <2>10
<1>15. CountInv'
  BY <1>13, <1>14 DEF CountInv
<1> QED
  BY <1>8, <1>11, <1>12, <1>15 DEF OnboardingInv

LEMMA ResolveRequestInv ==
  ASSUME OnboardingInv, NEW q \in Project, ResolveRequest(q)
  PROVE  OnboardingInv'
<1>0. OnboardingBasics /\ LockInv /\ PlanInv /\ CountInv
  BY DEF OnboardingInv
<1>1. /\ resolving = NoPlan /\ resolving' = Complete(q, q)
      /\ unlocked' = [unlocked EXCEPT ![q] = @ + 1]
      /\ UNCHANGED <<session, rowLock, enrolled, open, requests, activeCodes, tx>>
  BY DEF ResolveRequest, facts
<1>2. Sensible(resolving') /\ ~resolving'.asks /\ ~resolving.opens
  <2>1. ~NoPlan.opens /\ q \in Choice
    BY DEF NoPlan, Choice
  <2> QED
    BY <1>0, <1>1, <2>1, CompleteSensible
<1>3. OnboardingBasics'
  <2>1. unlocked' \in [Choice -> Nat]
    BY <1>0, <1>1 DEF OnboardingBasics, Choice
  <2> QED
    BY <1>0, <1>1, <1>2, <2>1 DEF OnboardingBasics, Sensible
<1>4. LockInv'
  BY <1>0, <1>1 DEF LockInv
<1>5. PlanInv'
  BY <1>0, <1>1, <1>2 DEF PlanInv, Sensible
<1>6. ASSUME NEW p \in Project
      PROVE  Owed(p)' <= unlocked'[p] /\ Owed(p)' + open'[p] <= 1 + unlocked'[p]
  <2>1. /\ open[p] \in Nat /\ unlocked[p] \in Nat
        /\ unlocked'[p] = IF p = q THEN unlocked[p] + 1 ELSE unlocked[p]
        /\ Owed(p) <= unlocked[p] /\ Owed(p) + open[p] <= 1 + unlocked[p]
    BY <1>0, <1>1 DEF OnboardingBasics, CountInv, Choice
  <2>2. One(resolving.opens /\ resolving.join = p) = 0
    BY <1>2 DEF One
  <2>3. One(resolving'.opens /\ resolving'.join = p) \in {0, 1}
        /\ (p # q => One(resolving'.opens /\ resolving'.join = p) = 0)
    <3>1. resolving'.join = q
      BY <1>1 DEF Complete, NoPlan
    <3> QED
      BY <3>1 DEF One
  <2>4. Opening(p)' = Opening(p)
    BY <1>1 DEF Opening
  <2>5. Owed(p) = Cardinality(Opening(p))
    BY <2>2, CountTypes DEF Owed
  <2>6. Owed(p)' = Cardinality(Opening(p)) + One(resolving'.opens /\ resolving'.join = p)
    BY <2>4 DEF Owed
  <2> QED
    BY <1>1, <2>1, <2>3, <2>5, <2>6, CountTypes
<1>7. unlocked'[NoProject] = unlocked[NoProject] /\ Asking' = Asking
  BY <1>0, <1>1, OnboardingAssumption DEF OnboardingBasics, Choice, Asking
<1>8. CountInv'
  BY <1>0, <1>1, <1>6, <1>7 DEF CountInv
<1> QED
  BY <1>3, <1>4, <1>5, <1>8 DEF OnboardingInv

LEMMA ResolveEndsInv ==
  ASSUME OnboardingInv, ResolveEnds
  PROVE  OnboardingInv'
<1>0. OnboardingBasics /\ LockInv /\ PlanInv /\ CountInv
  BY DEF OnboardingInv
<1>1. /\ rowLock = "nobody" /\ resolving' = NoPlan
      /\ UNCHANGED <<rowLock, activeCodes, tx, unlocked>>
  BY DEF ResolveEnds
<1>2. \A k \in Tx : tx[k].at \in {"decide", "commit"} => ~tx[k].locked
  BY <1>0, <1>1, NoHolder
<1>3. /\ session' \in SessionRow /\ requests' \in Int /\ requests' <= requests
      /\ session'.state = "AWAITING_PROJECT_DETAILS"
           => session.state = "AWAITING_PROJECT_DETAILS"
  <2>1. session \in SessionRow /\ resolving.selected \in Choice /\ requests \in Int
    BY <1>0 DEF OnboardingBasics, Planned
  <2> DEFINE row == [state |-> "COMPLETED", selected |-> resolving.selected, expired |-> FALSE]
  <2>2. row \in SessionRow /\ row.state = "COMPLETED"
    BY <2>1 DEF SessionRow
  <2>3. session' \in {session, row} /\ requests' \in {requests, requests - 1}
    BY DEF ResolveEnds
  <2> HIDE DEF row
  <2> QED
    BY <2>1, <2>2, <2>3
<1>4. /\ enrolled' \subseteq Project /\ open' \in [Project -> Nat]
      /\ \A p \in Project : open'[p] <= open[p] + One(resolving.opens /\ resolving.join = p)
  <2>1. CASE Clashes(resolving)
    BY <1>0, <2>1 DEF ResolveEnds, OnboardingBasics, One
  <2>2. CASE ~Clashes(resolving)
    <3>1. Provision(resolving) /\ resolving \in Planned
      BY <1>0, <2>2 DEF ResolveEnds, OnboardingBasics
    <3>2. /\ enrolled' \subseteq Project /\ open' \in [Project -> Nat]
          /\ \A p \in Project : open'[p] = open[p] + One(p = resolving.join /\ resolving.opens)
      BY <1>0, <3>1, ProvisionStep
    <3> QED
      BY <1>0, <3>2 DEF OnboardingBasics, One
  <2> QED
    BY <2>1, <2>2
<1>5. OnboardingBasics'
  BY <1>0, <1>1, <1>3, <1>4, NothingSensible DEF OnboardingBasics, Sensible
<1>6. LockInv'
  BY <1>0, <1>1, <1>2 DEF LockInv
<1>7. PlanInv'
  BY <1>0, <1>1, <1>2, NothingSensible DEF PlanInv, Sensible
<1>8. ASSUME NEW p \in Project
      PROVE  Owed(p)' <= unlocked'[p] /\ Owed(p)' + open'[p] <= 1 + unlocked'[p]
  <2>1. /\ open[p] \in Nat /\ open'[p] \in Nat /\ unlocked[p] \in Nat
        /\ open'[p] <= open[p] + One(resolving.opens /\ resolving.join = p)
        /\ Owed(p) <= unlocked[p] /\ Owed(p) + open[p] <= 1 + unlocked[p]
    BY <1>0, <1>4 DEF OnboardingBasics, CountInv, Choice
  <2>2. One(NoPlan.opens /\ NoPlan.join = p) = 0
        /\ One(resolving.opens /\ resolving.join = p) \in {0, 1}
    BY DEF One, NoPlan
  <2>3. Opening(p)' = Opening(p)
    BY <1>1 DEF Opening
  <2>4. Owed(p)' = Cardinality(Opening(p))
    BY <1>1, <2>2, <2>3, CountTypes DEF Owed
  <2> QED
    BY <1>1, <2>1, <2>2, <2>4, CountTypes DEF Owed
<1>9. /\ Cardinality(Asking') <= unlocked'[NoProject]
      /\ Cardinality(Asking') + requests' + One(session'.state = "AWAITING_PROJECT_DETAILS")
           <= 1 + unlocked'[NoProject]
  <2>1. /\ Cardinality(Asking) <= unlocked[NoProject]
        /\ Cardinality(Asking) + requests + One(session.state = "AWAITING_PROJECT_DETAILS")
             <= 1 + unlocked[NoProject]
        /\ unlocked[NoProject] \in Nat /\ requests \in Int
    BY <1>0 DEF CountInv, OnboardingBasics, Choice
  <2>2. Asking' = Asking
    BY <1>1 DEF Asking
  <2>3. One(session'.state = "AWAITING_PROJECT_DETAILS")
          <= One(session.state = "AWAITING_PROJECT_DETAILS")
    BY <1>3 DEF One
  <2>4. One(session'.state = "AWAITING_PROJECT_DETAILS") \in {0, 1}
        /\ One(session.state = "AWAITING_PROJECT_DETAILS") \in {0, 1}
    BY DEF One
  <2> QED
    BY <1>1, <1>3, <2>1, <2>2, <2>3, <2>4, CountTypes
<1>10. CountInv'
  BY <1>8, <1>9 DEF CountInv
<1> QED
  BY <1>5, <1>6, <1>7, <1>10 DEF OnboardingInv

\* Administrators who leave sessions and conversations alone, and time.
LEMMA OthersInv ==
  ASSUME OnboardingInv,
         Reject \/ (\E c \in Code : GiveCode(c)) \/ (\E p \in Project : RevokeJoinCode(p))
           \/ SessionExpires \/ UNCHANGED onboardingVars
  PROVE  OnboardingInv'
<1>0. OnboardingBasics /\ LockInv /\ PlanInv /\ CountInv
  BY DEF OnboardingInv
<1>1. UNCHANGED <<rowLock, enrolled, open, tx, resolving, unlocked>>
  BY DEF Reject, GiveCode, RevokeJoinCode, SessionExpires, onboardingVars, facts
<1>2. /\ activeCodes' \subseteq Code
      /\ requests' \in {requests, requests - 1}
  BY <1>0 DEF Reject, GiveCode, RevokeJoinCode, SessionExpires, onboardingVars, facts, OnboardingBasics
<1>3. \/ session' = session
      \/ rowLock = "nobody" /\ session' = [session EXCEPT !.expired = TRUE]
  <2>1. CASE Reject \/ UNCHANGED onboardingVars
    BY <2>1 DEF Reject, onboardingVars
  <2>2. CASE (\E c \in Code : GiveCode(c)) \/ (\E p \in Project : RevokeJoinCode(p))
    BY <2>2 DEF GiveCode, RevokeJoinCode
  <2>3. CASE SessionExpires
    BY <2>3 DEF SessionExpires
  <2> QED
    BY <2>1, <2>2, <2>3
<1>4. session \in SessionRow /\ requests \in Int
  BY <1>0 DEF OnboardingBasics
<1>5. session' \in SessionRow /\ session'.state = session.state
  BY <1>3, <1>4 DEF SessionRow
<1>6. requests' \in Int /\ requests' <= requests
  BY <1>2, <1>4
<1>7. OnboardingBasics'
  BY <1>0, <1>1, <1>2, <1>5, <1>6 DEF OnboardingBasics
<1>8. LockInv'
  BY <1>0, <1>1, <1>3, NoHolder DEF LockInv
<1>9. PlanInv'
  BY <1>0, <1>1, <1>4, <1>5, <1>6 DEF PlanInv
<1>10. Asking' = Asking /\ \A p : Opening(p)' = Opening(p)
  BY <1>1 DEF Asking, Opening
<1>11. \A p \in Project : Owed(p)' = Owed(p)
  BY <1>1, <1>10 DEF Owed
<1>12. /\ One(session'.state = "AWAITING_PROJECT_DETAILS")
            = One(session.state = "AWAITING_PROJECT_DETAILS")
       /\ One(session.state = "AWAITING_PROJECT_DETAILS") \in {0, 1}
  BY <1>5 DEF One
<1>13. Cardinality(Asking) \in Nat /\ unlocked[NoProject] \in Nat
  BY <1>0, CountTypes DEF OnboardingBasics, Choice
<1>14. CountInv'
  BY <1>0, <1>1, <1>4, <1>6, <1>10, <1>11, <1>12, <1>13 DEF CountInv
<1> QED
  BY <1>7, <1>8, <1>9, <1>14 DEF OnboardingInv

(* The theorems.                                                           *)

LEMMA OnboardingBegins == OnboardingInit => OnboardingInv
<1> SUFFICES ASSUME OnboardingInit PROVE OnboardingInv
  OBVIOUS
<1>1. /\ tx = [h \in Tx |-> NoTx] /\ rowLock = "nobody" /\ resolving = NoPlan /\ requests = 0
      /\ unlocked = [p \in Project \cup {NoProject} |-> 0] /\ open = [p \in Project |-> 0]
  BY DEF OnboardingInit
<1>2. session \in SessionRow
  <2>1. session \in {NoSession, [NoSession EXCEPT !.state = "AWAITING_PROJECT_DETAILS"]}
    BY DEF OnboardingInit
  <2> QED
    BY <2>1, NewTx DEF SessionRow, Pending
<1>3. \A h \in Tx : tx[h].at = "idle"
  BY <1>1, NewTx
<1>4. OnboardingBasics
  <2>1. enrolled \subseteq Project /\ activeCodes \subseteq Code
    BY DEF OnboardingInit
  <2> QED
    BY <1>1, <1>2, <2>1, NewTx, NothingSensible DEF OnboardingBasics, Somebody, Choice, Sensible
<1>5. LockInv /\ PlanInv
  BY <1>1, <1>3, NothingSensible, OnboardingAssumption DEF LockInv, PlanInv, Sensible
<1>6. CountInv
  <2>1. Asking = {} /\ \A p : Opening(p) = {}
    BY <1>3 DEF Asking, Opening, WillAsk, Opens
  <2>2. \A p : One(NoPlan.opens /\ NoPlan.join = p) = 0
    BY DEF One, NoPlan
  <2>3. Cardinality({}) = 0
    BY FS_EmptySet
  <2>4. One(session.state = "AWAITING_PROJECT_DETAILS") \in {0, 1}
    BY DEF One
  <2>5. \A p \in Project : Owed(p) = 0 /\ open[p] = 0 /\ unlocked[p] = 0
    BY <1>1, <2>1, <2>2, <2>3 DEF Owed
  <2>6. unlocked[NoProject] = 0
    BY <1>1
  <2> QED
    BY <1>1, <2>1, <2>3, <2>4, <2>5, <2>6 DEF CountInv
<1> QED
  BY <1>4, <1>5, <1>6 DEF OnboardingInv

\* Every reachable state has the invariant: for any transactions, writers
\* without a lock, customers and administrators.
THEOREM OnboardingInductive == OnboardingSpec => []OnboardingInv
<1>1. ASSUME OnboardingInv, [OnboardingNext]_onboardingVars PROVE OnboardingInv'
  BY <1>1, BeginTxInv, GetSessionInv, ProcessClaimedEventInv, CommitTxInv, RollBackInv,
     ResolveRequestInv, ResolveEndsInv, OthersInv DEF OnboardingNext
<1> QED
  BY <1>1, OnboardingBegins, PTL DEF OnboardingSpec

\* A customer has one open conversation in a project, however their events and
\* an administrator's provisioning overlap (provisionProject looks for one
\* before it inserts): a further one is owed to a write without the lock of
\* the session's row.
THEOREM ConversationIsOne == OnboardingSpec => []OneConversation
<1>1. OnboardingInv => OneConversation
  <2> SUFFICES ASSUME OnboardingInv, NEW p \in Project PROVE open[p] <= 1 + unlocked[p]
    BY DEF OneConversation
  <2>1. /\ open[p] \in Nat /\ unlocked[p] \in Nat /\ Owed(p) + open[p] <= 1 + unlocked[p]
    BY DEF OnboardingInv, OnboardingBasics, CountInv, Choice
  <2>2. One(resolving.opens /\ resolving.join = p) \in {0, 1}
    BY DEF One
  <2> QED
    BY <2>1, <2>2, CountTypes DEF Owed
<1> QED
  BY <1>1, OnboardingInductive, PTL

\* A customer has one request waiting for an administrator, whichever way they
\* leave the question for its details and come back to it.
THEOREM RequestIsOne == OnboardingSpec => []OnePendingRequest
<1>1. OnboardingInv => OnePendingRequest
  <2> SUFFICES ASSUME OnboardingInv PROVE requests <= 1 + unlocked[NoProject]
    BY DEF OnePendingRequest
  <2>1. /\ requests \in Int /\ unlocked[NoProject] \in Nat
        /\ Cardinality(Asking) + requests + One(session.state = "AWAITING_PROJECT_DETAILS")
             <= 1 + unlocked[NoProject]
    BY DEF OnboardingInv, OnboardingBasics, CountInv, Choice
  <2>2. One(session.state = "AWAITING_PROJECT_DETAILS") \in {0, 1}
    BY DEF One
  <2> QED
    BY <2>1, <2>2, CountTypes
<1> QED
  BY <1>1, OnboardingInductive, PTL

\* Together: what onboarding makes for a customer it makes once, but for the
\* writers that had no session row to lock.
THEOREM Onboards == OnboardingSpec => []OnboardedOnce
  BY ConversationIsOne, RequestIsOne, PTL DEF OnboardedOnce

(* Types.                                                                  *)

\* A completed session has a selection.
Selects(plan) == plan.state = "COMPLETED" => plan.selected # NoProject

SessionTyped ==
    /\ session.state = "COMPLETED" => session.selected # NoProject
    /\ rowLock # "nobody" => session # NoSession
PlansTyped ==
    /\ Selects(resolving) /\ (resolving # NoPlan => resolving.state = "COMPLETED")
    /\ \A h \in Tx : Selects(tx[h].plan)
\* Who is joined or has a conversation is known.
KnownTyped ==
    /\ known \in BOOLEAN
    /\ enrolled # {} => known
    /\ \A p \in Project : open[p] > 0 => known
\* A request that is being resolved is pending.
RequestsPending == requests \in Nat /\ (resolving # NoPlan => requests > 0)
OnboardingBounds == events \in 0..MaxEvents /\ changes \in 0..MaxChanges
OnboardingTyped ==
    SessionTyped /\ PlansTyped /\ KnownTyped /\ RequestsPending /\ OnboardingBounds

LEMMA NothingSelects ==
  /\ NoPlan.state = "keep" /\ Selects(NoPlan)
  /\ \A state \in Pending : Selects(Set(state)) /\ Set(state).state = state
  BY DEF NoPlan, Set, Selects, Pending

LEMMA CompleteSelects ==
  ASSUME NEW joined, NEW selected, selected # NoProject
  PROVE  Selects(Complete(joined, selected)) /\ Complete(joined, selected).state = "COMPLETED"
  BY DEF Complete, NoPlan, Selects

LEMMA OrChoiceSelects ==
  ASSUME NEW plan, Selects(plan)
  PROVE  Selects(OrChoice(plan))
  BY NothingSelects DEF OrChoice, Pending

LEMMA PostbackSelects ==
  ASSUME NEW t \in Transaction, NEW seen, t.input[1] \in Button
  PROVE  Selects(Postback(t, seen))
<1>1. CASE t.input[1] = "switch"
  <2>1. t.input[2] # NoProject
    BY <1>1, Inputs, OnboardingAssumption DEF Transaction
  <2>2. Postback(t, seen) = OrChoice(IF t.input[2] \in Available
                                     THEN Complete(t.input[2], t.input[2]) ELSE NoPlan)
    BY <1>1 DEF Postback
  <2> QED
    BY <2>1, <2>2, CompleteSelects, NothingSelects, OrChoiceSelects
<1>2. CASE t.input[1] = "menu"
  <2> DEFINE p == Current(seen, t.ready)
  <2>1. Postback(t, seen) = OrChoice(IF p # NoProject THEN Complete(p, p) ELSE NoPlan)
    BY <1>2 DEF Postback
  <2> HIDE DEF p
  <2> QED
    BY <2>1, CompleteSelects, NothingSelects, OrChoiceSelects
<1>3. CASE t.input[1] = "browse"
  BY <1>3, NothingSelects, OrChoiceSelects DEF Postback
<1>4. CASE t.input[1] = "connect new"
  BY <1>4, NothingSelects DEF Postback, Pending
<1>5. CASE t.input[1] = "has code"
  BY <1>5, NothingSelects DEF Postback, Pending
<1>6. CASE t.input[1] = "no code"
  <2> DEFINE state == IF requests > 0 THEN "PENDING_HUMAN" ELSE "AWAITING_PROJECT_DETAILS"
  <2>1. state \in Pending
    BY DEF Pending
  <2>2. Postback(t, seen) = Set(state)
    BY <1>6 DEF Postback
  <2> HIDE DEF state
  <2> QED
    BY <2>1, <2>2, NothingSelects
<1> QED
  BY <1>1, <1>2, <1>3, <1>4, <1>5, <1>6 DEF Button

LEMMA ValidateCodeSelects ==
  ASSUME NEW t, NEW seen
  PROVE  Selects(ValidateCode(t, seen))
<1> DEFINE valid == {c \in activeCodes : ProjectOf[c] \in Enabled}
<1>1. CASE t.input[1] # "code" \/ t.input[2] \notin valid
  BY <1>1, NothingSelects DEF ValidateCode, Pending
<1>2. CASE ~(t.input[1] # "code" \/ t.input[2] \notin valid)
  <2> DEFINE p == ProjectOf[t.input[2]]
             now == Current(seen, t.ready)
             kept == IF now # NoProject THEN now ELSE p
  <2>1. p # NoProject
    BY <1>2, OnboardingAssumption
  <2>2. ValidateCode(t, seen) = Complete(p, kept)
    BY <1>2 DEF ValidateCode
  <2>3. kept # NoProject
    BY <2>1
  <2> HIDE DEF p, kept
  <2> QED
    BY <2>2, <2>3, CompleteSelects
<1> QED
  BY <1>1, <1>2

LEMMA AnswerSelects ==
  ASSUME NEW t, NEW seen
  PROVE  Selects(Answer(t, seen))
<1>1. CASE seen = NoSession \/ seen.expired
  <2>1. seen = NoSession => seen.state = "none"
    BY DEF NoSession
  <2>2. Answer(t, seen) = Set("AWAITING_CHOICE")
    BY <1>1, <2>1 DEF Answer
  <2> QED
    BY <2>2, NothingSelects DEF Pending
<1>2. CASE ~(seen = NoSession \/ seen.expired) /\ seen.state \in {"AWAITING_CHOICE", "AWAITING_CODE"}
  BY <1>2, ValidateCodeSelects, NothingSelects DEF Answer
<1>3. CASE ~(seen = NoSession \/ seen.expired) /\ seen.state = "AWAITING_PROJECT_DETAILS"
  <2>1. Answer(t, seen) = [Set("PENDING_HUMAN") EXCEPT !.asks = TRUE]
    BY <1>3 DEF Answer
  <2> QED
    BY <2>1 DEF Set, NoPlan, Selects
<1>4. CASE ~(seen = NoSession \/ seen.expired)
           /\ seen.state \notin {"AWAITING_CHOICE", "AWAITING_CODE", "AWAITING_PROJECT_DETAILS"}
  BY <1>4, NothingSelects DEF Answer
<1> QED
  BY <1>1, <1>2, <1>3, <1>4

LEMMA DecidedSelects ==
  ASSUME NEW t \in Transaction
  PROVE  Selects(Decided(t))
<1>1. CASE t.input[1] = "relink"
  BY <1>1, NothingSelects DEF Decided, Pending
<1>2. CASE t.input[1] = "follow"
  <2>1. Selects(Follow)
    <3>1. CASE Smart /\ Cardinality(Enabled) = 1
      <4> DEFINE p == CHOOSE q \in Enabled : TRUE
      <4>1. p # NoProject
        BY <3>1, FS_EmptySet, OnboardingAssumption
      <4>2. Follow = Complete(p, p)
        BY <3>1 DEF Follow
      <4> HIDE DEF p
      <4> QED
        BY <4>1, <4>2, CompleteSelects
    <3>2. CASE ~(Smart /\ Cardinality(Enabled) = 1)
      BY <3>2, NothingSelects DEF Follow, Pending
    <3> QED
      BY <3>1, <3>2
  <2> QED
    BY <1>2, <2>1, NothingSelects DEF Decided
<1>3. CASE t.input[1] \in {"text", "code"}
  <2>1. CASE t.ready # NoProject /\ t.seen.state \notin Pending
    <3>1. Decided(t) = Pass(t, t.seen)
      BY <1>3, <2>1 DEF Decided
    <3>2. Pass(t, t.seen) = NoPlan \/ Pass(t, t.seen) = [Set("COMPLETED") EXCEPT !.selected = t.ready]
      BY DEF Pass
    <3>3. Selects([Set("COMPLETED") EXCEPT !.selected = t.ready])
      BY <2>1 DEF Set, NoPlan, Selects
    <3> QED
      BY <3>1, <3>2, <3>3, NothingSelects
  <2>2. CASE ~(t.ready # NoProject /\ t.seen.state \notin Pending)
    BY <1>3, <2>2, AnswerSelects DEF Decided
  <2> QED
    BY <2>1, <2>2
<1>4. CASE t.input[1] \notin {"relink", "follow", "text", "code"}
  <2>1. Decided(t) = Postback(t, t.seen)
    BY <1>4 DEF Decided
  <2>2. t.input[1] \in Button
    BY <1>4, Inputs DEF Button, Transaction
  <2> QED
    BY <2>1, <2>2, PostbackSelects
<1> QED
  BY <1>1, <1>2, <1>3, <1>4

LEMMA PlansStep ==
  ASSUME OnboardingBasics, PlansTyped, UNCHANGED resolving,
         NEW h \in Tx, NEW new, tx' = [tx EXCEPT ![h] = new], Selects(new.plan)
  PROVE  PlansTyped'
<1>1. tx'[h] = new /\ \A k \in Tx \ {h} : tx'[k] = tx[k]
  BY DEF OnboardingBasics
<1> QED
  BY <1>1 DEF PlansTyped, Selects

LEMMA ChangesTyped == OnboardingBounds /\ Change => changes' \in 0..MaxChanges
  BY OnboardingAssumption DEF OnboardingBounds, Change

LEMMA BetweenTyped ==
  ASSUME OnboardingInv, OnboardingTyped, NEW h \in Tx,
         (\E input \in Input : BeginTx(h, input)) \/ GetSession(h) \/ ProcessClaimedEvent(h)
  PROVE  OnboardingTyped'
<1>0. OnboardingBasics /\ tx[h] \in Transaction
  BY DEF OnboardingInv, OnboardingBasics
<1>1. UNCHANGED <<session, known, enrolled, open, requests, resolving, changes>>
  BY DEF BeginTx, GetSession, ProcessClaimedEvent, facts
<1>2. KnownTyped' /\ RequestsPending'
  BY <1>1 DEF OnboardingTyped, KnownTyped, RequestsPending
<1>3. SessionTyped'
  BY <1>1 DEF OnboardingTyped, SessionTyped, BeginTx, GetSession, ProcessClaimedEvent
<1>4. OnboardingBounds'
  <2>1. events' = events \/ (events < MaxEvents /\ events' = events + 1)
    BY DEF BeginTx, GetSession, ProcessClaimedEvent
  <2>2. events \in 0..MaxEvents /\ changes \in 0..MaxChanges /\ MaxEvents \in Nat
    BY OnboardingAssumption DEF OnboardingTyped, OnboardingBounds
  <2> QED
    BY <1>1, <2>1, <2>2 DEF OnboardingBounds
<1>5. PlansTyped'
  <2>1. CASE \E input \in Input : BeginTx(h, input)
    <3>1. PICK input \in Input, p \in ReadyIn :
            tx' = [tx EXCEPT ![h] = [NoTx EXCEPT !.at = "session", !.input = input, !.ready = p]]
      BY <2>1 DEF BeginTx
    <3>2. [NoTx EXCEPT !.at = "session", !.input = input, !.ready = p].plan = NoPlan
      BY DEF NoTx
    <3> QED
      BY <1>0, <1>1, <3>1, <3>2, PlansStep, NothingSelects DEF OnboardingTyped
  <2>2. CASE GetSession(h)
    <3> DEFINE new == [tx[h] EXCEPT !.at = "decide", !.seen = session,
                                    !.locked = session # NoSession]
    <3>1. tx' = [tx EXCEPT ![h] = new] /\ new.plan = tx[h].plan
      BY <1>0, <2>2 DEF GetSession, Transaction, OnboardingBasics
    <3> HIDE DEF new
    <3> QED
      BY <1>0, <1>1, <3>1, PlansStep DEF OnboardingTyped, PlansTyped
  <2>3. CASE ProcessClaimedEvent(h)
    <3> DEFINE plan == Decided(tx[h])
               new == [tx[h] EXCEPT !.at = "commit", !.plan = plan]
    <3>1. tx' = [tx EXCEPT ![h] = new] /\ new.plan = plan
      BY <1>0, <2>3 DEF ProcessClaimedEvent, Transaction, OnboardingBasics
    <3> HIDE DEF new
    <3> QED
      BY <1>0, <1>1, <3>1, PlansStep, DecidedSelects DEF OnboardingTyped
  <2> QED
    BY <2>1, <2>2, <2>3
<1> QED
  BY <1>2, <1>3, <1>4, <1>5 DEF OnboardingTyped

\* What a plan provides makes the customer known.
LEMMA ProvisionTyped ==
  ASSUME OnboardingBasics, KnownTyped, NEW plan \in Planned, Coherent(plan), Provision(plan)
  PROVE  KnownTyped'
<1>1. known' = (known \/ plan.join # NoProject) /\ known' \in BOOLEAN
  BY DEF Provision
<1>2. enrolled' # {} => known'
  BY <1>1 DEF Provision, KnownTyped
<1>3. ASSUME NEW p \in Project, open'[p] > 0 PROVE known'
  <2>1. open'[p] = open[p] + (IF p = plan.join /\ plan.opens THEN 1 ELSE 0)
    BY DEF Provision
  <2>2. CASE p = plan.join /\ plan.opens
    BY <1>1, <2>2 DEF Coherent
  <2>3. CASE ~(p = plan.join /\ plan.opens)
    <3>1. open[p] > 0
      BY <1>3, <2>1, <2>3 DEF OnboardingBasics
    <3> QED
      BY <1>1, <3>1 DEF KnownTyped
  <2> QED
    BY <2>2, <2>3
<1> QED
  BY <1>1, <1>2, <1>3 DEF KnownTyped

LEMMA CommitTxTyped ==
  ASSUME OnboardingInv, OnboardingTyped, NEW h \in Tx, CommitTx(h)
  PROVE  OnboardingTyped'
<1>0. /\ OnboardingBasics /\ SessionTyped /\ PlansTyped /\ KnownTyped /\ RequestsPending
      /\ OnboardingBounds
      /\ tx[h].plan \in Planned /\ Coherent(tx[h].plan) /\ Selects(tx[h].plan)
  BY DEF OnboardingInv, OnboardingBasics, OnboardingTyped, PlansTyped, PlanInv, Transaction,
     CommitTx
<1>1. KnownTyped'
  BY <1>0, ProvisionTyped DEF CommitTx
<1>2. PlansTyped'
  <2>1. tx' = [tx EXCEPT ![h] = NoTx] /\ NoTx.plan = NoPlan
    BY DEF CommitTx, NoTx
  <2> QED
    BY <1>0, <2>1, PlansStep, NothingSelects DEF CommitTx
<1>3. RequestsPending' /\ OnboardingBounds'
  BY <1>0 DEF CommitTx, RequestsPending, OnboardingBounds
<1>4. SessionTyped'
  <2>1. session' = Written(h) /\ (rowLock' # "nobody" => rowLock # "nobody")
    BY DEF CommitTx, Unlock
  <2>2. tx[h].plan.state # "none"
    BY <1>0 DEF Planned, Pending
  <2>3. CASE Written(h) = session
    BY <1>0, <2>1, <2>3 DEF SessionTyped
  <2>4. CASE Written(h) # session
    <3>1. Written(h) = [state |-> tx[h].plan.state, expired |-> FALSE,
                        selected |-> IF tx[h].plan.state = "COMPLETED" THEN tx[h].plan.selected
                                     ELSE session.selected]
      BY <2>4 DEF Written
    <3> QED
      BY <1>0, <2>1, <2>2, <3>1 DEF SessionTyped, Selects, NoSession
  <2> QED
    BY <2>3, <2>4
<1> QED
  BY <1>1, <1>2, <1>3, <1>4 DEF OnboardingTyped

LEMMA RollBackTyped ==
  ASSUME OnboardingInv, OnboardingTyped, NEW h \in Tx, RollBack(h)
  PROVE  OnboardingTyped'
<1>0. OnboardingBasics
  BY DEF OnboardingInv
<1>1. /\ tx' = [tx EXCEPT ![h] = NoTx] /\ NoTx.plan = NoPlan
      /\ UNCHANGED <<session, known, enrolled, open, requests, resolving, events>>
      /\ rowLock' # "nobody" => rowLock # "nobody"
  BY DEF RollBack, NoTx, facts, Unlock
<1>2. PlansTyped'
  BY <1>0, <1>1, PlansStep, NothingSelects DEF OnboardingTyped
<1>3. OnboardingBounds'
  BY <1>1, ChangesTyped DEF RollBack, OnboardingTyped, OnboardingBounds
<1> QED
  BY <1>1, <1>2, <1>3 DEF OnboardingTyped, SessionTyped, KnownTyped, RequestsPending

LEMMA ResolveTyped ==
  ASSUME OnboardingInv, OnboardingTyped, NEW p \in Project, ResolveRequest(p)
  PROVE  OnboardingTyped'
<1>1. Selects(Complete(p, p)) /\ Complete(p, p).state = "COMPLETED"
  BY CompleteSelects, OnboardingAssumption
<1>2. /\ resolving' = Complete(p, p) /\ requests > 0
      /\ UNCHANGED <<session, rowLock, known, enrolled, open, requests, tx, events>>
  BY DEF ResolveRequest, facts
<1>3. OnboardingBounds'
  BY <1>2, ChangesTyped DEF ResolveRequest, OnboardingTyped, OnboardingBounds
<1> QED
  BY <1>1, <1>2, <1>3 DEF OnboardingTyped, SessionTyped, PlansTyped, KnownTyped, RequestsPending

LEMMA ResolveEndsTyped ==
  ASSUME OnboardingInv, OnboardingTyped, ResolveEnds
  PROVE  OnboardingTyped'
<1>0. /\ OnboardingBasics /\ SessionTyped /\ PlansTyped /\ KnownTyped /\ RequestsPending
      /\ OnboardingBounds
      /\ resolving \in Planned /\ Coherent(resolving) /\ Selects(resolving)
  BY DEF OnboardingInv, OnboardingBasics, OnboardingTyped, PlansTyped, PlanInv
<1>1. /\ resolving # NoPlan /\ resolving' = NoPlan /\ rowLock' = "nobody"
      /\ UNCHANGED <<tx, events, changes>>
  BY DEF ResolveEnds
<1>2. PlansTyped' /\ OnboardingBounds'
  BY <1>0, <1>1, NothingSelects DEF PlansTyped, OnboardingBounds
<1>3. CASE Clashes(resolving)
  <2>1. UNCHANGED <<session, known, enrolled, open, requests>>
    BY <1>3 DEF ResolveEnds
  <2> QED
    BY <1>0, <1>1, <1>2, <2>1 DEF OnboardingTyped, SessionTyped, KnownTyped, RequestsPending
<1>4. CASE ~Clashes(resolving)
  <2>1. /\ Provision(resolving) /\ requests' = requests - 1
        /\ session' = IF session = NoSession THEN NoSession
                      ELSE [state |-> "COMPLETED", selected |-> resolving.selected,
                            expired |-> FALSE]
    BY <1>4 DEF ResolveEnds
  <2>2. KnownTyped'
    BY <1>0, <2>1, ProvisionTyped
  <2>3. RequestsPending'
    BY <1>0, <1>1, <2>1 DEF RequestsPending
  <2>4. resolving.selected # NoProject
    BY <1>0, <1>1 DEF PlansTyped, Selects
  <2>5. SessionTyped'
    BY <1>1, <2>1, <2>4 DEF SessionTyped, NoSession
  <2> QED
    BY <1>2, <2>2, <2>3, <2>5 DEF OnboardingTyped
<1> QED
  BY <1>3, <1>4

LEMMA ChangeTyped ==
  ASSUME OnboardingInv, OnboardingTyped,
         \/ Reject \/ SessionExpires
         \/ \E p \in Project : RevokeJoinCode(p)
         \/ \E c \in Code : GiveCode(c)
  PROVE  OnboardingTyped'
<1>1. UNCHANGED <<rowLock, known, enrolled, open, tx, resolving, events>> /\ Change
  BY DEF Reject, SessionExpires, RevokeJoinCode, GiveCode, facts
<1>2. OnboardingBounds'
  BY <1>1, ChangesTyped DEF OnboardingTyped, OnboardingBounds
<1>3. RequestsPending'
  BY <1>1 DEF OnboardingTyped, RequestsPending, Reject, SessionExpires, RevokeJoinCode, GiveCode,
     facts
<1>4. SessionTyped'
  <2>1. CASE SessionExpires
    <3>1. /\ session \in SessionRow /\ session.state \in Pending /\ rowLock = "nobody"
          /\ session' = [session EXCEPT !.expired = TRUE]
      BY <2>1 DEF SessionExpires, OnboardingInv, OnboardingBasics
    <3>2. session'.state \in Pending
      BY <3>1 DEF SessionRow
    <3> QED
      BY <1>1, <3>1, <3>2 DEF SessionTyped, Pending
  <2>2. CASE ~SessionExpires
    BY <1>1, <2>2 DEF OnboardingTyped, SessionTyped, Reject, RevokeJoinCode, GiveCode
  <2> QED
    BY <2>1, <2>2
<1> QED
  BY <1>1, <1>2, <1>3, <1>4 DEF OnboardingTyped, PlansTyped, KnownTyped

LEMMA OnboardingTypedStep ==
  ASSUME OnboardingInv, OnboardingTyped, [OnboardingNext]_onboardingVars
  PROVE  OnboardingTyped'
<1>1. CASE \E h \in Tx : \/ \E input \in Input : BeginTx(h, input)
                         \/ GetSession(h) \/ ProcessClaimedEvent(h) \/ CommitTx(h) \/ RollBack(h)
  BY <1>1, BetweenTyped, CommitTxTyped, RollBackTyped
<1>2. CASE \E p \in Project : ResolveRequest(p)
  BY <1>2, ResolveTyped
<1>3. CASE UNCHANGED onboardingVars
  BY <1>3 DEF OnboardingTyped, SessionTyped, PlansTyped, KnownTyped, RequestsPending,
     OnboardingBounds, onboardingVars, facts
<1> QED
  BY <1>1, <1>2, <1>3, ResolveEndsTyped, ChangeTyped DEF OnboardingNext

\* Types: the lock is of a row there is, who is joined or has a conversation
\* is known, a completed session has a selection, and no request is resolved
\* that is not pending.
THEOREM OnboardingTypes == OnboardingSpec => []OnboardingTypeOK
<1>1. OnboardingInit => OnboardingTyped
  <2> SUFFICES ASSUME OnboardingInit PROVE OnboardingTyped
    OBVIOUS
  <2>1. /\ \A h \in Tx : tx[h].plan = NoPlan
        /\ resolving = NoPlan /\ rowLock = "nobody" /\ requests = 0 /\ events = 0 /\ changes = 0
        /\ \A p \in Project : open[p] = 0
    BY DEF OnboardingInit, NoTx
  <2>2. session.state # "COMPLETED"
    BY DEF OnboardingInit, NoSession
  <2>3. known \in BOOLEAN /\ (enrolled # {} => known)
    BY DEF OnboardingInit
  <2> QED
    BY <2>1, <2>2, <2>3, NothingSelects, OnboardingAssumption DEF OnboardingTyped, SessionTyped,
       PlansTyped, KnownTyped, RequestsPending, OnboardingBounds
<1>2. OnboardingInv /\ OnboardingTyped => OnboardingTypeOK
  BY DEF OnboardingInv, OnboardingBasics, SessionRow, Transaction, Choice, OnboardingTyped,
     SessionTyped, KnownTyped, RequestsPending, OnboardingBounds, OnboardingTypeOK
<1> QED
  BY <1>1, <1>2, OnboardingInductive, OnboardingTypedStep, PTL DEF OnboardingSpec
=============================================================================
