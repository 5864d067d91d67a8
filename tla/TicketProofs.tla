---------------------------- MODULE TicketProofs ----------------------------
(***************************************************************************)
(* Theorems of TicketSync, for any number of movers, edits, saves,         *)
(* overwrites and failing dispatches, and of TicketTools, for any number   *)
(* of tickets, calls, reports and failures.                                *)
(***************************************************************************)
EXTENDS MCTickets, SequenceTheorems, FiniteSetTheorems, TLAPS

Hop   == [to: Status, actor: Actor]
Event == [status: Status, tries: 0..(MaxTries - 1)]
Mover == Message \cup {Poller}

(***************************************************************************)
(* The tables map statuses to states and back.                             *)
(***************************************************************************)

LEMMA ToPlaneType == \A s \in Status : ToPlane(s) \in PlaneState
  BY DEF ToPlane, PlaneState, Status, Awaiting

LEMMA FromPlaneType ==
  ASSUME NEW label \in PlaneState, NEW s \in Status
  PROVE  FromPlane(label, s) \in Status
<1>1. /\ \A kept, target : target \in Status => Unless(kept, s, target) \in Status
      /\ {"TRIAGED", "IN_PROGRESS", "WAITING_CUSTOMER", "REOPENED",
          "RESOLVED", "CANCELLED"} \subseteq Status
  BY DEF Unless, Status
<1>2. CASE label \in {"Backlog", "Triaged"}
  BY <1>1, <1>2 DEF FromPlane
<1>3. CASE label \in {"In Progress", "Test Failed", "Waiting for Customer", "Re-Open"}
  BY <1>1, <1>3 DEF FromPlane
<1>4. CASE label \in {"Delivery to Customer", "Close", "Cancelled"}
  BY <1>1, <1>4 DEF FromPlane
<1> QED
  BY <1>2, <1>3, <1>4 DEF PlaneState

\* A walk is a list of hops, empty only if its path is.
LEMMA WalkType ==
  ASSUME NEW path \in Seq(Status), NEW mine, path # <<>>
  PROVE  Walk(path, mine) \in Seq(Hop) /\ Walk(path, mine) # <<>>
<1>1. Walk(path, mine) \in [1..Len(path) -> Hop]
  BY LenProperties, ElementOfSeq DEF Walk, Hop, Actor
<1>2. Walk(path, mine) \in Seq(Hop) /\ Len(Walk(path, mine)) = Len(path)
  BY <1>1, LenProperties
<1>3. Len(path) > 0
  BY EmptySeq, LenProperties
<1> QED
  BY <1>2, <1>3, EmptySeq

LEMMA RouteType ==
  ASSUME NEW s \in Status
  PROVE  RouteToClosed(s) \in Seq(Status) /\ RouteToClosed(s) # <<>>
<1> DEFINE end == <<"CUSTOMER_CONFIRMED", "CLOSED">>
<1>1. end \in Seq(Status) /\ Len(end) = 2
  BY DEF Status
<1>2. <<"IN_PROGRESS", "RESOLVED">> \in Seq(Status) /\ <<"RESOLVED">> \in Seq(Status)
  BY DEF Status
<1>3. <<"CLOSED">> \in Seq(Status) /\ Len(<<"CLOSED">>) = 1
  BY DEF Status
<1> HIDE DEF end
<1>4. ASSUME NEW t \in Seq(Status)
      PROVE  t \o end \in Seq(Status) /\ t \o end # <<>>
  <2>1. t \o end \in Seq(Status) /\ Len(t \o end) = Len(t) + 2
    BY <1>1, ConcatProperties DEF end
  <2>2. Len(t \o end) # Len(<<>>)
    BY <2>1, LenProperties, EmptySeq
  <2> QED
    BY <2>1, <2>2
<1>5. CASE s \in {"NEW", "TRIAGED"}
  <2>1. RouteToClosed(s) = <<"IN_PROGRESS", "RESOLVED">> \o end
    BY <1>5 DEF RouteToClosed, end
  <2> QED
    BY <2>1, <1>2, <1>4
<1>6. CASE s = "RESOLVED"
  BY <1>6, <1>1, EmptySeq DEF RouteToClosed, end
<1>7. CASE s = "CUSTOMER_CONFIRMED"
  BY <1>7, <1>3, EmptySeq DEF RouteToClosed
<1>8. CASE s \notin {"NEW", "TRIAGED", "RESOLVED", "CUSTOMER_CONFIRMED"}
  <2>1. RouteToClosed(s) = <<"RESOLVED">> \o end
    BY <1>8 DEF RouteToClosed, end
  <2> QED
    BY <2>1, <1>2, <1>4
<1> QED
  BY <1>5, <1>6, <1>7, <1>8

LEMMA RemoveAtType ==
  ASSUME NEW S, NEW s \in Seq(S), NEW i \in DOMAIN s
  PROVE  RemoveAt(s, i) \in Seq(S)
<1>1. i \in 1..Len(s) /\ Len(s) \in Nat
  BY LenProperties
<1>2. \A j \in 1..Len(s) : s[j] \in S
  BY ElementOfSeq
<1>3. SubSeq(s, 1, i - 1) \in Seq(S) /\ SubSeq(s, i + 1, Len(s)) \in Seq(S)
  BY <1>1, <1>2, SubSeqProperties
<1> QED
  BY <1>3, ConcatProperties DEF RemoveAt

\* Taking the head of a queue keeps its last element, if one is left.
LEMMA RemoveHead ==
  ASSUME NEW S, NEW s \in Seq(S), s # <<>>
  PROVE  /\ Len(RemoveAt(s, 1)) = Len(s) - 1
         /\ \A i \in 1..(Len(s) - 1) : RemoveAt(s, 1)[i] = s[i + 1]
<1>1. Len(s) \in Nat \ {0}
  BY EmptySeq
<1>2. \A j \in 1..Len(s) : s[j] \in S
  BY ElementOfSeq
<1>3. SubSeq(s, 1, 0) = <<>>
  BY SubSeqEmpty
<1>4. /\ SubSeq(s, 2, Len(s)) \in Seq(S)
      /\ Len(SubSeq(s, 2, Len(s))) = Len(s) - 1
      /\ \A i \in 1..(Len(s) - 1) : SubSeq(s, 2, Len(s))[i] = s[i + 1]
  <2>1. Tail(s) = SubSeq(s, 2, Len(s))
    BY TailIsSubSeq
  <2> QED
    BY <2>1, HeadTailProperties
<1>5. RemoveAt(s, 1) = SubSeq(s, 2, Len(s))
  BY <1>3, <1>4, ConcatEmptySeq DEF RemoveAt
<1> QED
  BY <1>4, <1>5

(***************************************************************************)
(* The invariant of the calls of transition: a caller between two of its   *)
(* statements has a hop to make, and between the check and the UPDATE the  *)
(* hop is one its actor may make from the status that was read.            *)
(***************************************************************************)
Call == [at: {"idle", "load", "update", "done"}, from: Status, route: Seq(Hop)]

Sound(c) ==
    /\ c.at \in {"load", "update"} => c.route # <<>>
    /\ c.at = "update" =>
         CanTransition(c.from, Head(c.route).to, Head(c.route).actor)

CallInv == \A k \in Mover : Sound(call[k])

\* TypeOK by groups of variables.
TicketType == status \in Status /\ outbox \in Seq(Event)
PlaneType  == remote \in PlaneState /\ fresh \in BOOLEAN /\ ours \in BOOLEAN
GhostType  == buried \in BOOLEAN /\ refused \in BOOLEAN
CallType   == call \in [Mover -> Call]
PollType   == poll \in [at: {"idle", "selected", "got", "moving", "seen"},
                        label: PlaneState, moved: BOOLEAN]
RestType   == /\ copy \in Status \cup {NoCopy}
              /\ count \in [{"edits", "saves", "overwrites", "faults"} -> Nat]

\* The inductive invariant.
Inv == /\ TicketType /\ PlaneType /\ GhostType
       /\ CallType /\ CallInv /\ PollType /\ RestType

LEMMA Types ==
  TypeOK <=> /\ TicketType /\ PlaneType /\ GhostType
             /\ CallType /\ PollType /\ RestType
<1>1. TypeOK <=> /\ status \in Status /\ outbox \in Seq(Event)
                 /\ remote \in PlaneState
                 /\ {fresh, ours, buried, refused} \subseteq BOOLEAN
                 /\ CallType /\ PollType /\ RestType
  BY DEF TypeOK, Event, CallType, Call, Mover, Hop, PollType, RestType
<1>2. {fresh, ours, buried, refused} \subseteq BOOLEAN <=>
        /\ fresh \in BOOLEAN /\ ours \in BOOLEAN
        /\ buried \in BOOLEAN /\ refused \in BOOLEAN
  OBVIOUS
<1> QED
  BY <1>1, <1>2 DEF TicketType, PlaneType, GhostType

LEMMA InitInv == Init => Inv
<1> SUFFICES ASSUME Init PROVE Inv
  OBVIOUS
<1>1. NotCalled \in Call /\ Sound(NotCalled)
  BY EmptySeq DEF NotCalled, Call, Status, Sound
<1>2. CallType /\ CallInv
  BY <1>1 DEF Init, Mover, CallType, CallInv
<1>3. TicketType
  BY EmptySeq DEF Init, Status, TicketType
<1>4. PlaneType /\ PollType
  BY DEF Init, PlaneType, PollType, NotPolling, PlaneState
<1>5. GhostType
  BY DEF Init, GhostType
<1>6. RestType
  BY DEF Init, RestType
<1> QED
  BY <1>2, <1>3, <1>4, <1>5, <1>6 DEF Inv

(***************************************************************************)
(* What the building blocks of the actions preserve.                       *)
(***************************************************************************)

LEMMA SetStatusType ==
  ASSUME TicketType, NEW s \in Status, SetStatus(s)
  PROVE  TicketType'
<1>1. [status |-> s, tries |-> 0] \in Event
  BY SyncAssumption DEF Event
<1> QED
  BY <1>1 DEF TicketType, SetStatus

LEMMA CallEdit ==
  ASSUME CallType, CallInv, NEW k \in Mover, NEW c \in Call, Sound(c),
         call' = [call EXCEPT ![k] = c]
  PROVE  CallType' /\ CallInv'
<1>1. \A j \in Mover : call'[j] = IF j = k THEN c ELSE call[j]
  BY DEF CallType
<1>2. CallType'
  BY DEF CallType
<1> QED
  BY <1>1, <1>2 DEF CallInv

LEMMA CallKept ==
  ASSUME CallType, CallInv, UNCHANGED call
  PROVE  CallType' /\ CallInv'
  BY DEF CallType, CallInv

LEMMA EndType ==
  ASSUME CallType, CallInv, NEW k \in Mover, End(k)
  PROVE  CallType' /\ CallInv'
<1>1. [NotCalled EXCEPT !.at = "done"] \in Call
  BY EmptySeq DEF NotCalled, Call, Status
<1>2. Sound([NotCalled EXCEPT !.at = "done"])
  BY DEF NotCalled, Sound
<1> QED
  BY <1>1, <1>2, CallEdit DEF End

\* A caller, or the poller, that is about to load with a route.
LEMMA LoadingType ==
  ASSUME NEW route \in Seq(Hop), route # <<>>
  PROVE  /\ [NotCalled EXCEPT !.at = "load", !.route = route] \in Call
         /\ Sound([NotCalled EXCEPT !.at = "load", !.route = route])
  BY DEF NotCalled, Call, Status, Sound

LEMMA OutdateType ==
  ASSUME PollType, Outdate
  PROVE  PollType'
<1> DEFINE moved == poll.at \in {"got", "moving", "seen"}
<1>1. moved \in BOOLEAN
  OBVIOUS
<1>2. poll' = [poll EXCEPT !.moved = moved]
  BY DEF Outdate
<1> HIDE DEF moved
<1> QED
  BY <1>1, <1>2 DEF PollType

LEMMA PatchType ==
  ASSUME PlaneType, PollType, NEW s \in PlaneState, Patch(s)
  PROVE  PlaneType' /\ PollType'
<1>1. PlaneType'
  BY DEF PlaneType, Patch
<1>2. PollType'
  BY OutdateType DEF PollType, Patch
<1> QED
  BY <1>1, <1>2

LEMMA CountType ==
  ASSUME RestType, NEW what \in {"edits", "saves", "overwrites", "faults"},
         NEW bound, Count(what, bound)
  PROVE  count' \in [{"edits", "saves", "overwrites", "faults"} -> Nat]
  BY DEF RestType, Count

(***************************************************************************)
(* Every step preserves the invariant.                                     *)
(***************************************************************************)

LEMMA LoadInv ==
  ASSUME Inv, NEW k \in Mover, Load(k)
  PROVE  Inv'
<1> DEFINE hop == Head(call[k].route)
           next == [call[k] EXCEPT !.at = "update", !.from = status]
<1>1. CallType /\ CallInv /\ TicketType /\ call[k] \in Call /\ Sound(call[k])
  BY DEF Inv, CallInv, CallType
<1>2. next \in Call
  BY <1>1 DEF Call, TicketType
<1>3. next.route = call[k].route /\ next.from = status /\ next.at = "update"
  BY <1>1 DEF Call
<1>4. CanTransition(status, hop.to, hop.actor) => Sound(next)
  BY <1>1, <1>3 DEF Sound, Load
<1>5. CanTransition(status, hop.to, hop.actor) => call' = [call EXCEPT ![k] = next]
  BY <1>1 DEF Load, CallType
<1>6. ~CanTransition(status, hop.to, hop.actor) => End(k)
  BY DEF Load
<1> HIDE DEF next, hop
<1>7. CallType' /\ CallInv'
  BY <1>1, <1>2, <1>4, <1>5, <1>6, CallEdit, EndType
<1>8. UNCHANGED <<status, outbox, remote, fresh, ours, buried, refused, poll, copy, count>>
  BY DEF Load, ticket, plane, ghosts
<1>9. TicketType' /\ PlaneType' /\ GhostType' /\ PollType' /\ RestType'
  BY <1>8 DEF Inv, TicketType, PlaneType, GhostType, PollType, RestType
<1> QED
  BY <1>7, <1>9 DEF Inv

LEMMA UpdateInv ==
  ASSUME Inv, NEW k \in Mover, Update(k)
  PROVE  Inv'
<1> DEFINE hop  == Head(call[k].route)
           next == [call[k] EXCEPT !.at = "load", !.route = Tail(@)]
<1>1. CallType /\ CallInv /\ TicketType /\ GhostType /\ call[k] \in Call /\ Sound(call[k])
  BY DEF Inv, CallInv, CallType
<1>2. call[k].route \in Seq(Hop) /\ call[k].route # <<>>
  BY <1>1 DEF Update, Sound, Call
<1>3. hop \in Hop /\ Tail(call[k].route) \in Seq(Hop)
  BY <1>2, HeadTailProperties
<1>4. TicketType'
  <2>1. hop.to \in Status
    BY <1>3 DEF Hop
  <2>2. SetStatus(hop.to) \/ UNCHANGED ticket
    BY DEF Update
  <2> HIDE DEF hop
  <2> QED
    BY <1>1, <2>1, <2>2, SetStatusType DEF ticket, TicketType
<1>5. next \in Call /\ next.at = "load" /\ next.route = Tail(call[k].route)
  BY <1>1, <1>3 DEF Call
<1>6. Tail(call[k].route) # <<>> => Sound(next)
  BY <1>5 DEF Sound
<1>7. End(k) \/ (Tail(call[k].route) # <<>> /\ call' = [call EXCEPT ![k] = next])
  BY <1>1 DEF Update, CallType
<1>8. refused' \in BOOLEAN
  <2>1. CASE Unchanged(k)
    BY <2>1, <1>1 DEF Update, GhostType
  <2>2. CASE ~Unchanged(k)
    BY <2>2, <1>1 DEF Update, GhostType
  <2> QED
    BY <2>1, <2>2
<1>9. UNCHANGED <<remote, fresh, ours, buried, poll, copy, count>>
  BY DEF Update, plane
<1>10. PlaneType' /\ GhostType' /\ PollType' /\ RestType'
  BY <1>8, <1>9 DEF Inv, PlaneType, GhostType, PollType, RestType
<1> HIDE DEF next
<1>11. CallType' /\ CallInv'
  BY <1>1, <1>5, <1>6, <1>7, CallEdit, EndType
<1> QED
  BY <1>4, <1>10, <1>11 DEF Inv

LEMMA StartInv ==
  ASSUME Inv, NEW k \in Mover, NEW route \in Seq(Hop), route # <<>>, Start(k, route)
  PROVE  Inv'
<1>1. CallType' /\ CallInv'
  BY LoadingType, CallEdit DEF Inv, Start
<1>2. UNCHANGED <<status, outbox, remote, fresh, ours, buried, refused, poll, copy, count>>
  BY DEF Start, ticket, plane, ghosts
<1>3. TicketType' /\ PlaneType' /\ GhostType' /\ PollType' /\ RestType'
  BY <1>2 DEF Inv, TicketType, PlaneType, GhostType, PollType, RestType
<1> QED
  BY <1>1, <1>3 DEF Inv

LEMMA AnswerInv ==
  ASSUME Inv, NEW m \in Message, Answer(m)
  PROVE  Inv'
<1>1. m \in Mover /\ status \in Status
  BY DEF Mover, Inv, TicketType
<1>2. /\ <<"CUSTOMER_CONFIRMED">> \in Seq(Status) /\ <<"RESOLVED">> \in Seq(Status)
      /\ <<"REOPENED", "IN_PROGRESS">> \in Seq(Status)
  BY DEF Status
<1>3. CASE Confirm(m)
  BY <1>1, <1>3, RouteType, WalkType, StartInv DEF Confirm
<1>4. CASE ItWorks(m)
  BY <1>1, <1>2, <1>4, WalkType, StartInv DEF ItWorks
<1>5. CASE Decline(m)
  BY <1>1, <1>2, <1>5, WalkType, StartInv DEF Decline
<1>6. CASE StillBroken(m)
  BY <1>1, <1>2, <1>6, WalkType, StartInv DEF StillBroken
<1>7. CASE Portal(m)
  <2>1. PICK to \in {edge[2] : edge \in CustomerEdges} : Start(m, Walk(<<to>>, Status))
    BY <1>7 DEF Portal
  <2>2. to \in Status
    BY DEF CustomerEdges, Awaiting, Status
  <2>3. <<to>> \in Seq(Status) /\ <<to>> # <<>>
    BY <2>2
  <2> QED
    BY <1>1, <2>1, <2>3, WalkType, StartInv
<1>8. CASE AutoClose(m)
  BY <1>1, <1>8, RouteType, WalkType, StartInv DEF AutoClose
<1>9. CASE GiveUp(m)
  <2>1. CallType' /\ CallInv'
    BY <1>1, <1>9, EndType DEF GiveUp, Inv
  <2>2. UNCHANGED <<status, outbox, remote, fresh, ours, buried, refused, poll, copy, count>>
    BY <1>9 DEF GiveUp, ticket, plane, ghosts
  <2>3. TicketType' /\ PlaneType' /\ GhostType' /\ PollType' /\ RestType'
    BY <2>2 DEF Inv, TicketType, PlaneType, GhostType, PollType, RestType
  <2> QED
    BY <2>1, <2>3 DEF Inv
<1> QED
  BY <1>3, <1>4, <1>5, <1>6, <1>7, <1>8, <1>9 DEF Answer

LEMMA PollInv ==
  ASSUME Inv, PollStep
  PROVE  Inv'
<1>1. /\ CallType /\ CallInv /\ PollType /\ PlaneType /\ TicketType /\ Poller \in Mover
      /\ poll.label \in PlaneState
  BY DEF Inv, PollType, Mover
<1>2. UNCHANGED <<status, outbox, remote, ours, buried, refused, copy, count>>
  BY DEF PollStep, Select, Fetch, Apply, Record, PollFails, ticket, plane, ghosts
<1>3. TicketType' /\ GhostType' /\ RestType'
  BY <1>2 DEF Inv, TicketType, GhostType, RestType
<1>4. NotPolling \in [at: {"idle", "selected", "got", "moving", "seen"},
                      label: PlaneState, moved: BOOLEAN]
  BY DEF NotPolling, PlaneState
<1>5. NotCalled \in Call /\ Sound(NotCalled)
  BY EmptySeq DEF NotCalled, Call, Status, Sound
<1>6. CASE Select
  BY <1>6, <1>1, <1>3, CallKept DEF Select, Poll, PollType, PlaneType, plane, Inv
<1>7. CASE Fetch
  <2>1. PollType'
    BY <1>7, <1>1, <1>4 DEF Fetch, PollType, PlaneType
  <2> QED
    BY <1>7, <1>1, <1>3, <2>1, CallKept DEF Fetch, PlaneType, plane, Inv
<1>8. CASE Apply
  <2> DEFINE target == FromPlane(poll.label, status)
             route  == <<[to |-> target, actor |-> "plane"]>>
  <2>1. target \in Status
    BY <1>1, FromPlaneType DEF TicketType
  <2>2. route \in Seq(Hop) /\ route # <<>>
    BY <2>1 DEF Hop, Actor
  <2>3. \/ UNCHANGED call
        \/ call' = [call EXCEPT ![Poller] = [NotCalled EXCEPT !.at = "load", !.route = route]]
    BY <1>8 DEF Apply
  <2>4. Poll("seen") \/ Poll("moving")
    BY <1>8 DEF Apply
  <2>5. PollType' /\ PlaneType'
    BY <1>8, <1>1, <2>4 DEF Apply, Poll, PollType, PlaneType, plane
  <2> HIDE DEF route
  <2>6. CallType' /\ CallInv'
    BY <1>1, <2>2, <2>3, LoadingType, CallEdit, CallKept
  <2> QED
    BY <1>3, <2>5, <2>6 DEF Inv
<1>9. CASE Record
  <2>1. PollType' /\ PlaneType'
    BY <1>9, <1>1, <1>4 DEF Record, PollType, PlaneType
  <2>2. CallType' /\ CallInv'
    BY <1>9, <1>1, <1>5, CallEdit DEF Record
  <2> QED
    BY <1>3, <2>1, <2>2 DEF Inv
<1>10. CASE PollFails
  <2>1. PollType' /\ PlaneType'
    BY <1>10, <1>1, <1>4 DEF PollFails, PollType, PlaneType, plane
  <2>2. CallType' /\ CallInv'
    BY <1>10, <1>1, <1>5, CallEdit DEF PollFails
  <2> QED
    BY <1>3, <2>1, <2>2 DEF Inv
<1> QED
  BY <1>6, <1>7, <1>8, <1>9, <1>10 DEF PollStep

LEMMA DispatchInv ==
  ASSUME Inv, NEW i \in DOMAIN outbox, Dispatch(i) \/ DispatchFails(i)
  PROVE  Inv'
<1>1. /\ outbox \in Seq(Event) /\ status \in Status /\ PlaneType /\ PollType /\ RestType
      /\ CallType /\ CallInv /\ GhostType
  BY DEF Inv, TicketType
<1>2. outbox[i] \in Event /\ i \in 1..Len(outbox)
  BY <1>1, ElementOfSeq, LenProperties
<1>3. ToPlane(outbox[i].status) \in PlaneState
  BY <1>2, ToPlaneType DEF Event
<1>4. RemoveAt(outbox, i) \in Seq(Event)
  BY <1>1, RemoveAtType
<1>5. CallType' /\ CallInv'
  BY <1>1, CallKept DEF Dispatch, DispatchFails
<1>6. PlaneType' /\ PollType'
  <2>1. Patch(ToPlane(outbox[i].status)) \/ UNCHANGED <<plane, poll>>
    BY DEF Dispatch, DispatchFails
  <2>2. CASE UNCHANGED <<plane, poll>>
    BY <2>2, <1>1 DEF plane, PlaneType, PollType
  <2> QED
    BY <1>1, <1>3, <2>1, <2>2, PatchType
<1>7. CASE Dispatch(i)
  <2>1. TicketType'
    BY <1>1, <1>4, <1>7 DEF Dispatch, TicketType
  <2>2. GhostType' /\ RestType'
    BY <1>1, <1>7 DEF Dispatch, ghosts, GhostType, RestType
  <2> QED
    BY <1>5, <1>6, <2>1, <2>2 DEF Inv
<1>8. CASE DispatchFails(i)
  <2>1. RestType'
    BY <1>1, <1>8, CountType DEF DispatchFails, RestType
  <2>2. CASE buried' = TRUE /\ outbox' = RemoveAt(outbox, i)
    BY <1>1, <1>4, <1>5, <1>6, <1>8, <2>1, <2>2 DEF DispatchFails, GhostType, TicketType, Inv
  <2>3. CASE /\ outbox[i].tries + 1 < MaxTries
             /\ outbox' = [outbox EXCEPT ![i].tries = @ + 1]
             /\ UNCHANGED buried
    <3> DEFINE later == [outbox[i] EXCEPT !.tries = @ + 1]
    <3>1. later \in Event
      BY <1>2, <2>3, SyncAssumption DEF Event
    <3>2. outbox' = [outbox EXCEPT ![i] = later]
      BY <1>1, <1>2, <2>3
    <3> HIDE DEF later
    <3>3. TicketType'
      BY <1>1, <1>2, <1>8, <3>1, <3>2, ExceptSeq DEF DispatchFails, TicketType
    <3>4. GhostType'
      BY <1>1, <1>8, <2>3 DEF DispatchFails, GhostType
    <3> QED
      BY <1>5, <1>6, <2>1, <3>3, <3>4 DEF Inv
  <2> QED
    BY <1>8, <2>2, <2>3 DEF DispatchFails
<1> QED
  BY <1>7, <1>8

LEMMA OthersInv ==
  ASSUME Inv,
         (\E s \in PlaneState : Edit(s)) \/ ReadRow \/ SaveRow \/ ConsoleClose \/ Restore
  PROVE  Inv'
<1>1. CallType /\ CallInv /\ TicketType /\ PlaneType /\ GhostType /\ PollType /\ RestType
  BY DEF Inv
<1>2. CASE \E s \in PlaneState : Edit(s)
  <2>1. PICK s \in PlaneState : Edit(s)
    BY <1>2
  <2>2. PollType'
    BY <1>1, <2>1, OutdateType DEF Edit
  <2>3. PlaneType' /\ TicketType'
    BY <1>1, <2>1 DEF Edit, PlaneType, TicketType, ticket
  <2>4. GhostType'
    BY <1>1, <2>1 DEF Edit, GhostType
  <2>5. RestType'
    BY <1>1, <2>1, CountType DEF Edit, RestType
  <2>6. CallType' /\ CallInv'
    BY <1>1, <2>1, CallKept DEF Edit
  <2> QED
    BY <2>2, <2>3, <2>4, <2>5, <2>6 DEF Inv
<1>3. CASE ReadRow
  <2>1. TicketType' /\ PlaneType' /\ GhostType' /\ PollType'
    BY <1>1, <1>3 DEF ReadRow, ticket, plane, ghosts, TicketType, PlaneType,
       GhostType, PollType
  <2>2. RestType'
    BY <1>1, <1>3, CountType DEF ReadRow, RestType, TicketType
  <2>3. CallType' /\ CallInv'
    BY <1>1, <1>3, CallKept DEF ReadRow
  <2> QED
    BY <2>1, <2>2, <2>3 DEF Inv
<1>4. CASE SaveRow
  <2>1. TicketType'
    BY <1>1, <1>4, SetStatusType DEF SaveRow, RestType
  <2>2. PlaneType' /\ GhostType' /\ PollType' /\ RestType'
    BY <1>1, <1>4 DEF SaveRow, plane, ghosts, PlaneType, GhostType, PollType, RestType
  <2>3. CallType' /\ CallInv'
    BY <1>1, <1>4, CallKept DEF SaveRow
  <2> QED
    BY <2>1, <2>2, <2>3 DEF Inv
<1>5. CASE ConsoleClose \/ Restore
  <2>1. PICK s \in Status : Overwrite(s)
    BY <1>5 DEF ConsoleClose, Restore, Finished, Status
  <2>2. TicketType'
    BY <1>1, <2>1, SetStatusType DEF Overwrite
  <2>3. PlaneType' /\ GhostType' /\ PollType'
    BY <1>1, <2>1 DEF Overwrite, plane, ghosts, PlaneType, GhostType, PollType
  <2>4. RestType'
    BY <1>1, <2>1, CountType DEF Overwrite, RestType
  <2>5. CallType' /\ CallInv'
    BY <1>1, <2>1, CallKept DEF Overwrite
  <2> QED
    BY <2>2, <2>3, <2>4, <2>5 DEF Inv
<1> QED
  BY <1>2, <1>3, <1>4, <1>5

LEMMA NextInv == Inv /\ [Next]_vars => Inv'
<1> SUFFICES ASSUME Inv, [Next]_vars PROVE Inv'
  OBVIOUS
<1>1. CASE UNCHANGED vars
  <2>1. UNCHANGED <<status, outbox, remote, fresh, ours, buried, refused, call, poll, copy, count>>
    BY <1>1 DEF vars, ticket, plane, ghosts
  <2>2. CallType' /\ CallInv'
    BY <2>1, CallKept DEF Inv
  <2>3. TicketType' /\ PlaneType' /\ GhostType' /\ PollType' /\ RestType'
    BY <2>1 DEF Inv, TicketType, PlaneType, GhostType, PollType, RestType
  <2> QED
    BY <2>2, <2>3 DEF Inv
<1>2. CASE \E k \in Mover : Load(k) \/ Update(k)
  BY <1>2, LoadInv, UpdateInv
<1>3. CASE \E m \in Message : Answer(m)
  BY <1>3, AnswerInv
<1>4. CASE PollStep
  BY <1>4, PollInv
<1>5. CASE \E i \in DOMAIN outbox : Dispatch(i) \/ DispatchFails(i)
  BY <1>5, DispatchInv
<1>6. CASE (\E s \in PlaneState : Edit(s)) \/ ReadRow \/ SaveRow \/ ConsoleClose \/ Restore
  BY <1>6, OthersInv
<1> QED
  BY <1>1, <1>2, <1>3, <1>4, <1>5, <1>6 DEF Next, Mover

\* Every state of the ticket, the outbox, the work item, the callers and the
\* poller has the types the schema and the tables give them.
THEOREM TypeCorrect == Spec => []TypeOK
<1>1. Inv => TypeOK
  BY Types DEF Inv
<1> QED
  BY <1>1, InitInv, NextInv, PTL DEF Spec

(***************************************************************************)
(* A move is legal when it is made.                                        *)
(***************************************************************************)
Legal(k) == Moved(k) => CanTransition(status, status', Head(call[k].route).actor)

\* The only step that moves the ticket for k is k's own UPDATE, which finds
\* the status that was checked.
LEMMA MoveLegal ==
  ASSUME Inv, [Next]_vars, NEW k \in Mover
  PROVE  Legal(k)
<1> SUFFICES ASSUME Moved(k) PROVE CanTransition(status, status', Head(call[k].route).actor)
  BY DEF Legal
<1>1. CallType /\ Sound(call[k]) /\ call[k].at = "update" /\ status' # status /\ call'[k] # call[k]
  BY DEF Inv, CallInv, Moved
<1>2. CASE \E j \in Mover : Update(j)
  <2>1. PICK j \in Mover : Update(j)
    BY <1>2
  <2>2. call' = [call EXCEPT ![j] = call'[j]]
    BY <2>1, <1>1 DEF Update, End, CallType
  <2>3. j = k
    BY <1>1, <2>2 DEF CallType
  <2>4. status = call[k].from /\ status' = Head(call[k].route).to
    BY <1>1, <2>1, <2>3 DEF Update, Unchanged, SetStatus, ticket
  <2> QED
    BY <1>1, <2>4 DEF Sound
<1>3. CASE \E j \in Mover : Load(j)
  BY <1>1, <1>3 DEF Load, ticket
<1>4. CASE \E m \in Message : Answer(m)
  BY <1>1, <1>4 DEF Answer, Confirm, ItWorks, Decline, StillBroken, Portal,
     AutoClose, GiveUp, Start, ticket
<1>5. CASE PollStep
  BY <1>1, <1>5 DEF PollStep, Select, Fetch, Apply, Record, PollFails, ticket
<1>6. CASE \E i \in DOMAIN outbox : Dispatch(i) \/ DispatchFails(i)
  BY <1>1, <1>6 DEF Dispatch, DispatchFails
<1>7. CASE (\E s \in PlaneState : Edit(s)) \/ ReadRow \/ SaveRow \/ ConsoleClose \/ Restore
  BY <1>1, <1>7 DEF Edit, ReadRow, SaveRow, ConsoleClose, Restore, Overwrite
<1>8. CASE UNCHANGED vars
  BY <1>1, <1>8 DEF vars, ticket
<1> QED
  BY <1>2, <1>3, <1>4, <1>5, <1>6, <1>7, <1>8 DEF Next, Mover

\* However the poller, the customer's answers, automatic closes, saves and
\* overwrites interleave, transition makes only moves that its actor may make
\* from the status the row has at that moment.
THEOREM AllMovesLegal == Spec => MovesLegal
<1>1. Inv /\ [Next]_vars => [\A k \in Message \cup {Poller} :
         Moved(k) => CanTransition(status, status', Head(call[k].route).actor)]_vars
  BY MoveLegal DEF Legal, Mover
<1> QED
  BY <1>1, InitInv, NextInv, PTL DEF Spec, MovesLegal

(***************************************************************************)
(* The work item mirrors the ticket.                                       *)
(***************************************************************************)

\* As long as no dispatch failed, no event waits for a retry, so events leave
\* the outbox at its head only.
Untried == \A i \in DOMAIN outbox : outbox[i].tries = 0
MirrorInv == count.faults = 0 => Untried /\ MirrorsWhenDrained

LEMMA MirrorSetStatus ==
  ASSUME Inv, MirrorInv, NEW s \in Status, SetStatus(s), UNCHANGED plane, count'.faults = count.faults
  PROVE  MirrorInv'
<1> SUFFICES ASSUME count.faults = 0 PROVE Untried' /\ MirrorsWhenDrained'
  BY DEF MirrorInv
<1>1. Untried /\ MirrorsWhenDrained /\ outbox \in Seq(Event) /\ Len(outbox) \in Nat
  BY LenProperties DEF MirrorInv, Inv, TicketType
<1>2. CASE s = status
  <2>1. UNCHANGED <<status, outbox, remote, ours>> /\ count'.faults = count.faults
    BY <1>2 DEF SetStatus, plane
  <2> QED
    BY <1>1, <2>1 DEF Untried, MirrorsWhenDrained, Last
<1>3. CASE s # status
  <2> DEFINE e == [status |-> s, tries |-> 0]
  <2>1. outbox' = Append(outbox, e) /\ status' = s
    BY <1>3 DEF SetStatus
  <2>2. e \in Event /\ e.status = s /\ e.tries = 0
    BY SyncAssumption DEF Event
  <2> HIDE DEF e
  <2>3. /\ Len(outbox') = Len(outbox) + 1 /\ DOMAIN outbox' = 1..(Len(outbox) + 1)
        /\ \A i \in DOMAIN outbox' : outbox'[i] = IF i = Len(outbox) + 1 THEN e ELSE outbox[i]
    BY <1>1, <2>1, <2>2
  <2>4. Untried'
    BY <1>1, <2>2, <2>3 DEF Untried
  <2>5. outbox' # <<>> /\ Last(outbox').status = status'
    BY <1>1, <2>1, <2>2, <2>3 DEF Last
  <2> QED
    BY <2>4, <2>5 DEF MirrorsWhenDrained
<1> QED
  BY <1>2, <1>3

LEMMA MirrorDispatch ==
  ASSUME Inv, MirrorInv, NEW i \in DOMAIN outbox, Dispatch(i)
  PROVE  MirrorInv'
<1> SUFFICES ASSUME count.faults = 0 PROVE Untried' /\ MirrorsWhenDrained'
  BY DEF MirrorInv, Dispatch
<1>1. Untried /\ MirrorsWhenDrained /\ outbox \in Seq(Event) /\ outbox # <<>>
  BY EmptySeq DEF MirrorInv, Inv, TicketType
<1>2. Len(outbox) \in Nat \ {0} /\ DOMAIN outbox = 1..Len(outbox)
  BY <1>1, EmptySeq, LenProperties
<1>3. i = 1
  BY <1>1, <1>2 DEF Dispatch, Due, Untried
<1>4. outbox' = RemoveAt(outbox, 1) /\ outbox' \in Seq(Event)
  BY <1>1, <1>3, RemoveAtType DEF Dispatch
<1>5. Len(outbox') = Len(outbox) - 1
  BY <1>1, <1>4, RemoveHead
<1>5a. \A j \in 1..(Len(outbox) - 1) : outbox'[j] = outbox[j + 1]
  BY <1>1, <1>4, RemoveHead
<1>6. Untried'
  BY <1>1, <1>2, <1>4, <1>5, <1>5a, LenProperties DEF Untried
<1>7. Last(outbox).status = status /\ UNCHANGED status
  BY <1>1 DEF MirrorsWhenDrained, Dispatch
<1>8. CASE outbox' # <<>>
  <2>1. Last(outbox') = Last(outbox)
    BY <1>2, <1>4, <1>5, <1>5a, <1>8, EmptySeq DEF Last
  <2> QED
    BY <1>6, <1>7, <1>8, <2>1 DEF MirrorsWhenDrained
<1>9. CASE outbox' = <<>>
  <2> DEFINE n == Len(outbox)
             m == Len(outbox')
  <2>1. m = 0
    BY <1>9
  <2>2. n \in Nat /\ m = n - 1
    BY <1>2, <1>5
  <2> HIDE DEF n, m
  <2>3. n = 1
    BY <2>1, <2>2
  <2>4. outbox[1].status = status
    BY <1>7, <2>3 DEF Last, n
  <2>5. remote' = ToPlane(status')
    BY <1>3, <1>7, <2>4 DEF Dispatch, Patch
  <2> QED
    BY <1>6, <1>9, <2>5 DEF MirrorsWhenDrained
<1> QED
  BY <1>8, <1>9

LEMMA MirrorKept ==
  ASSUME MirrorInv, UNCHANGED <<status, outbox, remote, ours>>,
         count'.faults = count.faults
  PROVE  MirrorInv'
  BY DEF MirrorInv, Untried, MirrorsWhenDrained, Last

LEMMA MirrorNext ==
  ASSUME Inv, MirrorInv, [Next]_vars
  PROVE  MirrorInv'
<1>1. count.faults \in Nat /\ status \in Status
  BY DEF Inv, RestType, TicketType
<1>2. CASE \E k \in Mover : Update(k)
  <2>1. PICK k \in Mover : Update(k)
    BY <1>2
  <2>2. call[k].route \in Seq(Hop) /\ call[k].route # <<>>
    BY <2>1 DEF Update, Inv, CallType, CallInv, Sound, Call
  <2>3. Head(call[k].route) \in Hop
    BY <2>2, HeadTailProperties
  <2>4. Head(call[k].route).to \in Status
    BY <2>3 DEF Hop
  <2>5. UNCHANGED <<plane, count>> /\ (SetStatus(Head(call[k].route).to) \/ UNCHANGED ticket)
    BY <2>1 DEF Update
  <2> QED
    BY <2>4, <2>5, MirrorSetStatus, MirrorKept DEF plane, ticket
<1>3. CASE \E k \in Mover : Load(k)
  BY <1>3, MirrorKept DEF Load, ticket, plane
<1>4. CASE \E m \in Message : Answer(m)
  BY <1>4, MirrorKept DEF Answer, Confirm, ItWorks, Decline, StillBroken, Portal,
     AutoClose, GiveUp, Start, ticket, plane
<1>5. CASE PollStep
  BY <1>5, MirrorKept DEF PollStep, Select, Fetch, Apply, Record, PollFails, ticket, plane
<1>6. CASE \E i \in DOMAIN outbox : Dispatch(i)
  BY <1>6, MirrorDispatch
<1>7. CASE \E i \in DOMAIN outbox : DispatchFails(i)
  BY <1>1, <1>7 DEF DispatchFails, Count, Inv, RestType, MirrorInv
<1>8. CASE \E s \in PlaneState : Edit(s)
  <2>1. UNCHANGED <<status, outbox>> /\ ours' = FALSE /\ count'.faults = count.faults
    BY <1>8 DEF Edit, ticket, Count, Inv, RestType
  <2> QED
    BY <2>1 DEF MirrorInv, Untried, MirrorsWhenDrained, Last
<1>9. CASE ReadRow
  <2>1. UNCHANGED <<status, outbox, remote, ours>> /\ count'.faults = count.faults
    BY <1>9 DEF ReadRow, ticket, plane, Count, Inv, RestType
  <2> QED
    BY <2>1, MirrorKept
<1>10. CASE SaveRow
  BY <1>10, MirrorSetStatus DEF SaveRow, Inv, RestType
<1>11. CASE ConsoleClose \/ Restore
  <2>1. PICK s \in Status : Overwrite(s)
    BY <1>11 DEF ConsoleClose, Restore, Finished, Status
  <2>2. count'.faults = count.faults
    BY <2>1 DEF Overwrite, Count, Inv, RestType
  <2> QED
    BY <2>1, <2>2, MirrorSetStatus DEF Overwrite
<1>12. CASE UNCHANGED vars
  BY <1>12, MirrorKept DEF vars, ticket, plane
<1> QED
  BY <1>2, <1>3, <1>4, <1>5, <1>6, <1>7, <1>8, <1>9, <1>10, <1>11, <1>12 DEF Next, Mover

\* While no dispatch fails, the outbox ends with the ticket's status, whoever
\* wrote it, and once it is empty the work item shows the ticket's state,
\* unless an engineer has edited it since.
THEOREM PlaneMirrors == Spec => []MirrorsWhenDrained
<1>1. Init => MirrorInv
  BY DEF Init, MirrorInv, Untried, MirrorsWhenDrained, ToPlane, Awaiting
<1>2. Inv /\ MirrorInv /\ [Next]_vars => MirrorInv'
  BY MirrorNext
<1>3. MirrorInv => MirrorsWhenDrained
  BY DEF MirrorInv, MirrorsWhenDrained
<1> QED
  BY <1>1, <1>2, <1>3, InitInv, NextInv, PTL DEF Spec

-----------------------------------------------------------------------------
(* What the poller has seen.                                               *)

\* Nobody moves a ticket to OPEN: the one status whose Plane state asks for
\* another one.
Unopened(route) == \A i \in DOMAIN route : route[i].to # "OPEN"
OpenInv ==
    /\ status # "OPEN" /\ copy # "OPEN"
    /\ \A k \in Mover : Unopened(call[k].route)

\* The poller would not move the ticket for the work item's state.
Target == FromPlane(remote, status)
Settled == ~CanTransition(status, Target, "plane")

\* With nothing dispatched since an engineer's edit and nothing to dispatch,
\* the ticket has not moved since: what the poller fetched after the edit it
\* is about to try, or has found to be settled.
InFlight == poll.at \in {"got", "moving", "seen"}
PollerTries ==
    \/ call[Poller].at = "load" /\ call[Poller].route = <<[to |-> Target, actor |-> "plane"]>>
    \/ call[Poller].at = "update" /\ call[Poller].from = status
    \/ call[Poller].at = "done" /\ Settled
SeenInv ==
    /\ InFlight => fresh
    /\ InFlight /\ ~poll.moved => poll.label = remote
    /\ outbox = <<>> /\ ~ours =>
         /\ ~fresh => Settled
         /\ poll.at = "seen" /\ ~poll.moved => Settled
         /\ poll.at = "moving" /\ ~poll.moved => PollerTries
RefetchInv == OpenInv /\ (count.faults = 0 => SeenInv)

LEMMA RouteVisits ==
  ASSUME NEW s \in Status
  PROVE  RouteToClosed(s) \in Seq(Status \ {"OPEN"})
<1> DEFINE S == Status \ {"OPEN"}
           end == <<"CUSTOMER_CONFIRMED", "CLOSED">>
<1>1. end \in Seq(S) /\ <<"IN_PROGRESS", "RESOLVED">> \in Seq(S) /\ <<"RESOLVED">> \in Seq(S)
      /\ <<"CLOSED">> \in Seq(S)
  BY DEF Status
<1> HIDE DEF S
<1>2. ASSUME NEW t \in Seq(S)
      PROVE  t \o end \in Seq(S)
  BY <1>1, ConcatProperties
<1> HIDE DEF end
<1> QED
  BY <1>1, <1>2 DEF RouteToClosed, S, end

\* A walk visits the statuses of its path.
LEMMA WalkVisits ==
  ASSUME NEW path \in Seq(Status \ {"OPEN"}), NEW mine
  PROVE  Unopened(Walk(path, mine))
<1>1. \A i \in DOMAIN path : path[i] # "OPEN"
  BY ElementOfSeq, LenProperties
<1> QED
  BY <1>1 DEF Unopened, Walk

LEMMA FromPlaneOpens ==
  ASSUME NEW label \in PlaneState, NEW s \in Status, s # "OPEN"
  PROVE  FromPlane(label, s) # "OPEN"
BY DEF FromPlane, Unless, PlaneState

\* A status written to Plane comes back as itself.
LEMMA ToPlaneSettles ==
  ASSUME NEW s \in Status, s \notin {"NEW", "OPEN"}
  PROVE  ~CanTransition(s, FromPlane(ToPlane(s), s), "plane")
<1>1. CASE s = "TRIAGED"
  BY <1>1 DEF ToPlane, Awaiting, FromPlane, Unless, Status, CanTransition
<1>2. CASE s \in {"IN_PROGRESS", "WAITING_INTERNAL"}
  BY <1>2 DEF ToPlane, Awaiting, FromPlane, Unless, Status, CanTransition
<1>3. CASE s = "WAITING_CUSTOMER"
  BY <1>3 DEF ToPlane, Awaiting, FromPlane, Unless, Status, CanTransition, Finished
<1>4. CASE s \in Awaiting
  BY <1>4 DEF ToPlane, Awaiting, FromPlane, Unless, CanTransition
<1>5. CASE s = "REOPENED"
  BY <1>5 DEF ToPlane, Awaiting, FromPlane, Unless, Status, CanTransition, Working, Finished
<1>6. CASE s \in Finished
  BY <1>6 DEF ToPlane, Awaiting, FromPlane, Unless, CanTransition, Finished
<1> QED
  BY <1>1, <1>2, <1>3, <1>4, <1>5, <1>6 DEF Status, Awaiting, Finished

-----------------------------------------------------------------------------
(* Nobody opens a ticket.                                                  *)

LEMMA OpenCall ==
  ASSUME Inv, OpenInv, NEW k \in Mover, NEW c, Unopened(c.route),
         call' = [call EXCEPT ![k] = c], status' # "OPEN", copy' # "OPEN"
  PROVE  OpenInv'
BY DEF Inv, CallType, OpenInv

LEMMA OpenKept ==
  ASSUME OpenInv, UNCHANGED call, status' # "OPEN", copy' # "OPEN"
  PROVE  OpenInv'
BY DEF OpenInv

LEMMA StoppedRoutes ==
  /\ Unopened(NotCalled.route) /\ Unopened([NotCalled EXCEPT !.at = "done"].route)
  /\ \A route : Unopened(route) =>
       Unopened([NotCalled EXCEPT !.at = "load", !.route = route].route)
<1>1. NotCalled.route = <<>> /\ DOMAIN <<>> = {}
  BY DEF NotCalled
<1>2. [NotCalled EXCEPT !.at = "done"].route = <<>>
  BY DEF NotCalled
<1>3. \A route : [NotCalled EXCEPT !.at = "load", !.route = route].route = route
  BY DEF NotCalled
<1> QED
  BY <1>1, <1>2, <1>3 DEF Unopened

LEMMA OpenUpdate ==
  ASSUME Inv, OpenInv, NEW k \in Mover, Update(k)
  PROVE  OpenInv'
<1> DEFINE route == call[k].route
<1>1. route \in Seq(Hop) /\ route # <<>> /\ Unopened(route) /\ call[k] \in Call
  BY DEF Inv, CallType, CallInv, Sound, Call, OpenInv, Update
<1>2. /\ Head(route) = route[1] /\ 1 \in DOMAIN route
      /\ Tail(route) \in Seq(Hop)
      /\ \A i \in DOMAIN Tail(route) : i + 1 \in DOMAIN route /\ Tail(route)[i] = route[i + 1]
  BY <1>1, HeadTailProperties, EmptySeq, LenProperties
<1>3. Head(route).to # "OPEN" /\ Unopened(Tail(route))
  BY <1>1, <1>2 DEF Unopened
<1>4. status' # "OPEN" /\ copy' # "OPEN"
  BY <1>3 DEF Update, SetStatus, ticket, OpenInv
<1>5. CASE End(k)
  BY <1>4, <1>5, StoppedRoutes, OpenCall DEF End
<1>6. CASE ~End(k)
  <2> DEFINE c == [call[k] EXCEPT !.at = "load", !.route = Tail(@)]
  <2>1. call' = [call EXCEPT ![k] = c]
    BY <1>6 DEF Update, Inv, CallType
  <2>2. c.route = Tail(route)
    BY <1>1 DEF Call
  <2> HIDE DEF c
  <2> QED
    BY <1>3, <1>4, <2>1, <2>2, OpenCall
<1> QED
  BY <1>5, <1>6

LEMMA OpenLoad ==
  ASSUME Inv, OpenInv, NEW k \in Mover, Load(k)
  PROVE  OpenInv'
<1>1. status' # "OPEN" /\ copy' # "OPEN" /\ call[k] \in Call
  BY DEF Load, ticket, OpenInv, Inv, CallType
<1>2. CASE End(k)
  BY <1>1, <1>2, StoppedRoutes, OpenCall DEF End
<1>3. CASE ~End(k)
  <2> DEFINE c == [call[k] EXCEPT !.at = "update", !.from = status]
  <2>1. call' = [call EXCEPT ![k] = c]
    BY <1>3 DEF Load, Inv, CallType
  <2>2. c.route = call[k].route
    BY <1>1 DEF Call
  <2> HIDE DEF c
  <2> QED
    BY <1>1, <2>1, <2>2, OpenCall DEF OpenInv
<1> QED
  BY <1>2, <1>3

LEMMA OpenStart ==
  ASSUME Inv, OpenInv, NEW k \in Mover, NEW route, Unopened(route), Start(k, route)
  PROVE  OpenInv'
<1>1. status' # "OPEN" /\ copy' # "OPEN"
  BY DEF Start, ticket, OpenInv
<1> QED
  BY <1>1, StoppedRoutes, OpenCall DEF Start

LEMMA OpenAnswer ==
  ASSUME Inv, OpenInv, NEW m \in Message, Answer(m)
  PROVE  OpenInv'
<1> DEFINE S == Status \ {"OPEN"}
<1>1. m \in Mover /\ status \in Status
  BY DEF Mover, Inv, TicketType
<1>2. <<"CUSTOMER_CONFIRMED">> \in Seq(S) /\ <<"RESOLVED">> \in Seq(S)
      /\ <<"REOPENED", "IN_PROGRESS">> \in Seq(S)
  BY DEF Status
<1>3. CASE Confirm(m) \/ AutoClose(m)
  BY <1>1, <1>3, RouteVisits, WalkVisits, OpenStart DEF Confirm, AutoClose
<1>4. CASE ItWorks(m) \/ Decline(m) \/ StillBroken(m)
  BY <1>1, <1>2, <1>4, WalkVisits, OpenStart DEF ItWorks, Decline, StillBroken
<1>5. CASE Portal(m)
  <2>1. PICK to \in {edge[2] : edge \in CustomerEdges} : Start(m, Walk(<<to>>, Status))
    BY <1>5 DEF Portal
  <2>2. <<to>> \in Seq(S)
    <3>1. to \in S
      BY DEF CustomerEdges, Awaiting, Status
    <3> QED
      BY <3>1
  <2> QED
    BY <1>1, <2>1, <2>2, WalkVisits, OpenStart
<1>6. CASE GiveUp(m)
  BY <1>1, <1>6, StoppedRoutes, OpenCall DEF GiveUp, End, ticket, OpenInv
<1> QED
  BY <1>3, <1>4, <1>5, <1>6 DEF Answer

LEMMA OpenPoll ==
  ASSUME Inv, OpenInv, PollStep
  PROVE  OpenInv'
<1>1. status' # "OPEN" /\ copy' # "OPEN" /\ Poller \in Mover
  BY DEF PollStep, Select, Fetch, Apply, Record, PollFails, ticket, OpenInv, Mover
<1>2. CASE Select \/ Fetch
  BY <1>1, <1>2, OpenKept DEF Select, Fetch
<1>3. CASE Record \/ PollFails
  BY <1>1, <1>3, StoppedRoutes, OpenCall DEF Record, PollFails
<1>4. CASE Apply
  <2> DEFINE target == FromPlane(poll.label, status)
             route == <<[to |-> target, actor |-> "plane"]>>
  <2>1. target # "OPEN"
    BY FromPlaneOpens DEF Inv, TicketType, PollType, OpenInv
  <2>2. Unopened(route)
    <3>1. DOMAIN route = {1} /\ route[1].to = target
      OBVIOUS
    <3> HIDE DEF route, target
    <3> QED
      BY <2>1, <3>1 DEF Unopened
  <2>3. \/ UNCHANGED call
        \/ call' = [call EXCEPT ![Poller] = [NotCalled EXCEPT !.at = "load", !.route = route]]
    BY <1>4 DEF Apply
  <2> HIDE DEF route
  <2> QED
    BY <1>1, <2>2, <2>3, StoppedRoutes, OpenCall, OpenKept
<1> QED
  BY <1>2, <1>3, <1>4 DEF PollStep

LEMMA OpenNext ==
  ASSUME Inv, OpenInv, [Next]_vars
  PROVE  OpenInv'
<1>1. CASE \E i \in DOMAIN outbox : Dispatch(i) \/ DispatchFails(i)
  BY <1>1, OpenKept DEF Dispatch, DispatchFails, OpenInv
<1>2. CASE \E s \in PlaneState : Edit(s)
  BY <1>2, OpenKept DEF Edit, ticket, OpenInv
<1>3. CASE ReadRow \/ SaveRow
  BY <1>3, OpenKept DEF ReadRow, SaveRow, SetStatus, ticket, OpenInv, NoCopy
<1>4. CASE ConsoleClose \/ Restore
  BY <1>4, OpenKept DEF ConsoleClose, Restore, Overwrite, SetStatus, Finished, OpenInv
<1>5. CASE UNCHANGED vars
  BY <1>5 DEF vars, ticket, OpenInv
<1> QED
  BY <1>1, <1>2, <1>3, <1>4, <1>5, OpenLoad, OpenUpdate, OpenAnswer, OpenPoll DEF Next, Mover

-----------------------------------------------------------------------------
(* What was recorded as seen is settled.                                   *)

LEMMA SeenKept ==
  ASSUME SeenInv, UNCHANGED <<status, outbox, remote, fresh, ours, poll>>,
         call'[Poller] = call[Poller]
  PROVE  SeenInv'
BY DEF SeenInv, InFlight, PollerTries, Settled, Target

LEMMA SeenSetStatus ==
  ASSUME SeenInv, Inv, NEW s \in Status, SetStatus(s), UNCHANGED <<remote, fresh, ours, poll>>,
         call'[Poller] = call[Poller]
  PROVE  SeenInv'
<1>1. CASE s = status
  BY <1>1, SeenKept DEF SetStatus
<1>2. CASE s # status
  <2> DEFINE e == [status |-> s, tries |-> 0]
  <2>1. outbox' = Append(outbox, e) /\ outbox \in Seq(Event) /\ e \in Event
    BY <1>2, SyncAssumption DEF SetStatus, Inv, TicketType, Event
  <2>2. outbox' # <<>>
    BY <2>1, AppendProperties, EmptySeq
  <2> QED
    BY <2>2 DEF SeenInv, InFlight
<1> QED
  BY <1>1, <1>2

LEMMA HopType ==
  ASSUME Inv, NEW k \in Mover, call[k].at = "update"
  PROVE  /\ Head(call[k].route).to \in Status
         /\ CanTransition(call[k].from, Head(call[k].route).to, Head(call[k].route).actor)
<1>1. call[k].route \in Seq(Hop) /\ call[k].route # <<>>
  BY DEF Inv, CallType, CallInv, Sound, Call
<1>2. Head(call[k].route) \in Hop
  BY <1>1, HeadTailProperties
<1> QED
  BY <1>2 DEF Inv, CallInv, Sound, Hop

LEMMA SeenUpdate ==
  ASSUME Inv, SeenInv, NEW k \in Mover, Update(k)
  PROVE  SeenInv'
<1> DEFINE hop == Head(call[k].route)
<1>1. /\ hop.to \in Status /\ CanTransition(call[k].from, hop.to, hop.actor)
      /\ UNCHANGED <<remote, fresh, ours, poll>> /\ call[k].at = "update"
      /\ SetStatus(hop.to) \/ UNCHANGED <<status, outbox>>
  BY HopType DEF Update, plane, ticket
<1>2. CASE k # Poller
  <2>1. call'[Poller] = call[Poller]
    BY <1>2 DEF Update, End, Inv, CallType, Mover
  <2> QED
    BY <1>1, <2>1, SeenKept, SeenSetStatus
<1>3. CASE k = Poller
  <2>1. CASE status = call[k].from
    <3>1. SetStatus(hop.to) /\ hop.to # status
      BY <1>1, <2>1 DEF Update, Unchanged, CanTransition
    <3>2. outbox' # <<>>
      <4> DEFINE e == [status |-> hop.to, tries |-> 0]
      <4>1. outbox' = Append(outbox, e) /\ outbox \in Seq(Event) /\ e \in Event
        BY <1>1, <3>1, SyncAssumption DEF SetStatus, Inv, TicketType, Event
      <4> QED
        BY <4>1, AppendProperties, EmptySeq
    <3> QED
      BY <1>1, <3>2 DEF SeenInv, InFlight
  <2>2. CASE status # call[k].from
    <3>1. UNCHANGED <<status, outbox>>
      BY <2>2 DEF Update, Unchanged, ticket
    <3>2. ~PollerTries
      BY <1>1, <1>3, <2>2 DEF PollerTries
    <3> QED
      BY <1>1, <3>1, <3>2 DEF SeenInv, InFlight, Settled, Target
  <2> QED
    BY <2>1, <2>2
<1> QED
  BY <1>2, <1>3

LEMMA SeenLoad ==
  ASSUME Inv, SeenInv, NEW k \in Mover, Load(k)
  PROVE  SeenInv'
<1>1. /\ UNCHANGED <<status, outbox, remote, fresh, ours, poll>>
      /\ call[k].at = "load" /\ call \in [Mover -> Call]
  BY DEF Load, plane, ticket, Inv, CallType
<1>2. CASE k # Poller
  <2>1. call'[Poller] = call[Poller]
    BY <1>1, <1>2 DEF Load, End, Mover
  <2> QED
    BY <1>1, <2>1, SeenKept
<1>3. CASE k = Poller
  <2>1. PollerTries => PollerTries'
    <3> DEFINE hop == Head(call[Poller].route)
    <3> SUFFICES ASSUME PollerTries PROVE PollerTries'
      OBVIOUS
    <3>1. call[Poller].route = <<[to |-> Target, actor |-> "plane"]>>
      BY <1>1, <1>3 DEF PollerTries
    <3>2. hop.to = Target /\ hop.actor = "plane"
      BY <3>1
    <3>3. CASE CanTransition(status, hop.to, hop.actor)
      <4>1. call' = [call EXCEPT ![k].at = "update", ![k].from = status]
        BY <1>3, <3>3 DEF Load
      <4>2. call'[Poller].at = "update" /\ call'[Poller].from = status
        BY <1>1, <1>3, <4>1 DEF Call
      <4> QED
        BY <1>1, <4>2 DEF PollerTries
    <3>4. CASE ~CanTransition(status, hop.to, hop.actor)
      <4>1. End(k)
        BY <1>3, <3>4 DEF Load
      <4>2. call'[Poller].at = "done"
        BY <1>1, <1>3, <4>1 DEF End, NotCalled
      <4> QED
        BY <1>1, <3>2, <3>4, <4>2 DEF PollerTries, Settled, Target
    <3> QED
      BY <3>3, <3>4
  <2> QED
    BY <1>1, <2>1 DEF SeenInv, InFlight, Settled, Target
<1> QED
  BY <1>2, <1>3

LEMMA SeenPoll ==
  ASSUME Inv, SeenInv, PollStep
  PROVE  SeenInv'
<1>1. /\ UNCHANGED <<status, outbox, remote, ours>> /\ PollType /\ CallType /\ Poller \in Mover
  BY DEF PollStep, Select, Fetch, Apply, Record, PollFails, ticket, plane, Inv, Mover
<1>2. Settled' <=> Settled
  BY <1>1 DEF Settled, Target
<1>3. CASE Select
  <2>1. poll'.at = "selected" /\ fresh' = fresh
    BY <1>1, <1>3 DEF Select, Poll, PollType, plane
  <2> QED
    BY <1>1, <1>2, <2>1 DEF SeenInv, InFlight
<1>4. CASE Fetch
  <2>1. CASE fresh
    <3>1. /\ poll'.at = "got" /\ poll'.label = remote /\ fresh'
      BY <1>4, <2>1 DEF Fetch, plane
    <3> QED
      BY <1>1, <3>1 DEF SeenInv, InFlight
  <2>2. CASE ~fresh
    <3>1. poll'.at = "idle" /\ fresh' = fresh
      BY <1>4, <2>2 DEF Fetch, NotPolling, plane
    <3> QED
      BY <1>1, <1>2, <2>2, <3>1 DEF SeenInv, InFlight
  <2> QED
    BY <2>1, <2>2
<1>5. CASE Apply
  <2> DEFINE target == FromPlane(poll.label, status)
             route == <<[to |-> target, actor |-> "plane"]>>
  <2>1. poll.at = "got" /\ fresh' = fresh /\ fresh
    BY <1>5 DEF Apply, plane, SeenInv, InFlight
  <2>2. /\ poll'.label = poll.label /\ poll'.moved = poll.moved /\ poll'.at \in {"seen", "moving"}
    BY <1>1, <1>5 DEF Apply, Poll, PollType
  <2>3. ~poll.moved => target = Target
    BY <2>1 DEF SeenInv, InFlight, Target
  <2>4. CASE target = status
    <3>1. poll'.at = "seen"
      BY <1>1, <1>5, <2>4 DEF Apply, Poll, PollType
    <3>2. ~poll.moved => Settled
      BY <2>3, <2>4 DEF Settled, CanTransition
    <3> QED
      BY <1>1, <1>2, <2>1, <2>2, <3>1, <3>2 DEF SeenInv, InFlight
  <2>5. CASE target # status
    <3> DEFINE c == [NotCalled EXCEPT !.at = "load", !.route = route]
    <3>1. poll'.at = "moving" /\ call' = [call EXCEPT ![Poller] = c]
      BY <1>1, <1>5, <2>5 DEF Apply, Poll, PollType
    <3>2. c.at = "load" /\ c.route = route
      BY DEF NotCalled
    <3> HIDE DEF c
    <3>3. call'[Poller] = c
      BY <1>1, <3>1 DEF CallType
    <3>4. ~poll.moved => PollerTries'
      BY <1>1, <2>3, <3>2, <3>3 DEF PollerTries, Target
    <3> QED
      BY <1>1, <2>1, <2>2, <3>1, <3>4 DEF SeenInv, InFlight
  <2> QED
    BY <2>4, <2>5
<1>6. CASE Record
  <2>1. poll'.at = "idle" /\ fresh' = poll.moved
    BY <1>6 DEF Record, NotPolling
  <2>2. ~poll.moved /\ outbox = <<>> /\ ~ours => Settled
    BY <1>6 DEF Record, SeenInv, PollerTries
  <2> QED
    BY <1>1, <1>2, <2>1, <2>2 DEF SeenInv, InFlight
<1>7. CASE PollFails
  <2>1. poll'.at = "idle" /\ fresh' = fresh
    BY <1>7 DEF PollFails, NotPolling, plane
  <2> QED
    BY <1>1, <1>2, <2>1 DEF SeenInv, InFlight
<1> QED
  BY <1>3, <1>4, <1>5, <1>6, <1>7 DEF PollStep

\* The work item is updated while a fetched state of it is in flight, or it
\* already had the state.
LEMMA SeenPlane ==
  ASSUME Inv, SeenInv, (Outdate /\ fresh') \/ UNCHANGED <<remote, fresh, poll>>,
         ours' \/ (fresh' /\ Outdate)
  PROVE  SeenInv'
<1>1. CASE Outdate /\ fresh'
  <2>1. poll'.at = poll.at /\ poll'.moved = (poll.at \in {"got", "moving", "seen"})
    BY <1>1 DEF Outdate, Inv, PollType
  <2> QED
    BY <1>1, <2>1 DEF SeenInv, InFlight
<1>2. CASE UNCHANGED <<remote, fresh, poll>> /\ ours'
  BY <1>2 DEF SeenInv, InFlight
<1> QED
  BY <1>1, <1>2

LEMMA AnswersLeavePoller ==
  ASSUME Inv, NEW m \in Message, Answer(m)
  PROVE  call'[Poller] = call[Poller] /\ UNCHANGED <<status, outbox, remote, fresh, ours, poll>>
<1>1. Poller # m /\ Poller \in Mover /\ call \in [Mover -> Call]
  BY SyncAssumption DEF Mover, Inv, CallType
<1> QED
  BY <1>1 DEF Answer, Confirm, ItWorks, Decline, StillBroken, Portal, AutoClose, GiveUp, Start,
              End, ticket, plane

LEMMA SeenNext ==
  ASSUME Inv, SeenInv, count.faults = 0, [Next]_vars, count'.faults = 0
  PROVE  SeenInv'
<1>1. CASE \E k \in Mover : Load(k) \/ Update(k)
  BY <1>1, SeenLoad, SeenUpdate
<1>2. CASE \E m \in Message : Answer(m)
  BY <1>2, AnswersLeavePoller, SeenKept
<1>3. CASE PollStep
  BY <1>3, SeenPoll
<1>4. CASE \E i \in DOMAIN outbox : Dispatch(i)
  BY <1>4, SeenPlane DEF Dispatch, Patch
<1>5. CASE \E i \in DOMAIN outbox : DispatchFails(i)
  BY <1>5 DEF DispatchFails, Count, Inv, RestType
<1>6. CASE \E s \in PlaneState : Edit(s)
  BY <1>6, SeenPlane DEF Edit
<1>7. CASE ReadRow \/ UNCHANGED vars
  BY <1>7, SeenKept DEF ReadRow, vars, ticket, plane
<1>8. CASE SaveRow
  BY <1>8, SeenSetStatus DEF SaveRow, plane, Inv, RestType
<1>9. CASE ConsoleClose \/ Restore
  <2>1. PICK s \in Status : Overwrite(s)
    BY <1>9 DEF ConsoleClose, Restore, Finished, Status
  <2> QED
    BY <2>1, SeenSetStatus DEF Overwrite, plane
<1> QED
  BY <1>1, <1>2, <1>3, <1>4, <1>5, <1>6, <1>7, <1>8, <1>9 DEF Next, Mover

LEMMA RefetchNext ==
  ASSUME Inv, RefetchInv, [Next]_vars
  PROVE  RefetchInv'
<1>1. OpenInv'
  BY OpenNext DEF RefetchInv
<1>2. count.faults \in Nat /\ (count'.faults = 0 => count.faults = 0)
  <2>1. count.faults \in Nat /\ (count' = count \/ \E what \in DOMAIN count : \E bound : Count(what, bound))
    BY DEF Next, vars, Load, Update, Answer, Confirm, ItWorks, Decline, StillBroken, Portal,
           AutoClose, GiveUp, Start, PollStep, Select, Fetch, Apply, Record, PollFails, Dispatch,
           DispatchFails, Edit, ReadRow, SaveRow, ConsoleClose, Restore, Overwrite, Inv, RestType
  <2>2. count.faults \in Nat /\ (count' = count \/ count'.faults >= count.faults)
    BY <2>1 DEF Count, Inv, RestType
  <2> QED
    BY <2>2
<1>3. count'.faults = 0 => SeenInv'
  BY <1>2, SeenNext DEF RefetchInv
<1> QED
  BY <1>1, <1>3 DEF RefetchInv

\* "Re-fetching it changes nothing": for any number of movers, edits, saves
\* and overwrites, once everything is dispatched and no dispatch failed, a
\* work item the poller will skip has nothing to say that the ticket would
\* accept.
THEOREM RefetchQuiet == Spec => []RefetchChangesNothing
<1>1. Init => RefetchInv /\ MirrorInv
  <2> SUFFICES ASSUME Init PROVE RefetchInv /\ MirrorInv
    OBVIOUS
  <2>1. MirrorInv
    BY DEF Init, MirrorInv, Untried, MirrorsWhenDrained, ToPlane, Awaiting
  <2>2. OpenInv
    BY StoppedRoutes DEF Init, OpenInv, NoCopy, Mover
  <2>3. SeenInv
    BY DEF Init, SeenInv, InFlight, NotPolling
  <2> QED
    BY <2>1, <2>2, <2>3 DEF RefetchInv
<1>2. Inv /\ RefetchInv /\ [Next]_vars => RefetchInv'
  BY RefetchNext
<1>3. Inv /\ MirrorInv /\ [Next]_vars => MirrorInv'
  BY MirrorNext
<1>4. Inv /\ MirrorInv /\ RefetchInv => RefetchChangesNothing
  <2> SUFFICES ASSUME Inv, MirrorInv, RefetchInv, count.faults = 0, outbox = <<>>, ~fresh,
                      status # "NEW"
               PROVE  Settled
    BY DEF RefetchChangesNothing, Settled, Target
  <2>1. CASE ours
    <3>1. remote = ToPlane(status) /\ status \in Status /\ status # "OPEN"
      BY <2>1 DEF MirrorInv, MirrorsWhenDrained, Inv, TicketType, RefetchInv, OpenInv
    <3> QED
      BY <3>1, ToPlaneSettles DEF Settled, Target
  <2>2. CASE ~ours
    BY <2>2 DEF RefetchInv, SeenInv
  <2> QED
    BY <2>1, <2>2
<1> QED
  BY <1>1, <1>2, <1>3, <1>4, InitInv, NextInv, PTL DEF Spec

-----------------------------------------------------------------------------
(* TicketTools.  The inductive invariant says what a call at each step has  *)
(* read, and what keeps the copy or the twin it found true.                 *)

Copying == {"locked", "copied", "scanned"}
Enrichment == {"assign", "title", "digest", "duplicates", "merge", "close"}
CallRecord ==
    [tool: Tool \cup {"none"},
     step: {"ready", "over", "insert", "announce", "locked", "copied", "scanned", "mark"},
     on: TicketId \cup {NoTicket}, copy: Row \cup {Absent},
     other: TicketId \cup {NoTicket}, text: Report \cup Detail \cup {"none"}]

\* What a call at each of its steps is, and the row it is about.
CallShaped(k) ==
    /\ k.step \in {"ready", "over"} => k \in {Ready, Spent}
    /\ k.step \notin {"ready", "over"} => k.tool # "none"
    /\ k.step = "insert" => k.tool = "create" /\ k.text \in Report
    /\ k.tool = "create" => k.step = "insert"
    /\ k.step = "locked" => \/ k.tool = "reopen"
                            \/ k.tool = "update_summary" /\ k.text \in Detail
    /\ k.step = "copied" => k.tool \in Enrichment
    /\ k.step = "copied" => (k.other # NoTicket <=> k.tool = "merge")
    /\ k.step = "scanned" => k.tool = "duplicates"
    /\ k.step = "mark" => k.tool = "close"
    /\ k.step \in Copying \cup {"announce", "mark"} => k.on \in TicketId
    /\ k.step \in Copying => k.copy \in Row

CallsShaped == calls \in [Caller -> CallRecord] /\ \A c \in Caller : CallShaped(calls[c])

\* The row a call is about is there, and was always of the same report.
RowsThere ==
    \A c \in Caller :
        /\ calls[c].step \in Copying \cup {"announce", "mark"} => Exists(calls[c].on)
        /\ calls[c].step \in Copying => calls[c].copy.report = tickets[calls[c].on].report

\* A copy read under the lock is the row.
LocksHold ==
    \A c \in Caller : At(c, "locked") => /\ heldBy[calls[c].on] = c
                                         /\ calls[c].copy = tickets[calls[c].on]

ShapeInv == ToolsTypeOK /\ CallsShaped /\ RowsThere /\ LocksHold

\* A creation that found nothing is the only one about its topic, and there is
\* still nothing to find, unless the topic is in doubled.
CreationsSee ==
    \A c \in Caller : At(c, "insert") /\ Topic[calls[c].text] \notin doubled =>
        /\ SameTopic(calls[c].text) = {}
        /\ \A d \in Caller : At(d, "insert") /\ Topic[calls[d].text] = Topic[calls[c].text] => d = c

Finds(c) == At(c, "scanned") /\ calls[c].other # NoTicket

\* Merges and closings are on record before they end a ticket.
EndsWanted ==
    \A c \in Caller :
        calls[c].tool \in {"merge", "close"} => MatterOf(calls[c].on) \in ended

\* The ticket a duplicate check found stays open, unless two checks overlapped.
FindsStay ==
    \A c \in Caller : Finds(c) =>
        \/ Matter[calls[c].copy.report] \in ended \cup undone
        \/ /\ calls[c].other \in TicketId \ {calls[c].on}
           /\ IsOpen(tickets[calls[c].other])
           /\ Title[tickets[calls[c].other].report] = Title[calls[c].copy.report]

FindsApart ==
    \A c, d \in Caller :
        /\ c # d /\ Finds(c) /\ Finds(d)
        /\ Title[calls[c].copy.report] = Title[calls[d].copy.report]
        => Matter[calls[c].copy.report] \in undone

\* Copies that are out tell what is to be kept.
CopiesTell ==
    \A c \in Caller, p \in saved \ exposed :
        calls[c].step \in {"copied", "scanned"} /\ calls[c].on = p[1]
            => p[1] \in rewritten \/ p[2] \in calls[c].copy.history

SavedThere == \A p \in saved : Exists(p[1])

ToolsInv ==
    /\ ShapeInv
    /\ CreationsSee /\ AtMostOneCase
    /\ EndsWanted /\ FindsStay /\ FindsApart /\ SomeCase
    /\ EachAnnounced
    /\ CopiesTell /\ SavedThere /\ HistoryKept

-----------------------------------------------------------------------------

\* Rows are never removed and never change their report.
RowsKept ==
    \A t \in TicketId : Exists(t) => tickets'[t] \in Row /\ tickets'[t].report = tickets[t].report

\* What every call does to calls, rows and locks.
StepShape(c) ==
    /\ calls' \in [Caller -> CallRecord]
    /\ \A d \in Caller \ {c} : calls'[d] = calls[d]
    /\ CallShaped(calls'[c])
    /\ tickets' \in [TicketId -> Row \cup {Absent}]
    /\ RowsKept
    /\ heldBy' \in [TicketId -> Caller \cup {"free"}]
    /\ \A t \in TicketId : Exists(t) /\ heldBy[t] \in Caller \ {c}
                              => heldBy'[t] = heldBy[t] /\ tickets'[t] = tickets[t]
    /\ calls'[c].step \in Copying \cup {"announce", "mark"} =>
          /\ tickets'[calls'[c].on] \in Row
          /\ calls'[c].step \in Copying =>
                calls'[c].copy.report = tickets'[calls'[c].on].report
    /\ calls'[c].step = "locked" => /\ heldBy'[calls'[c].on] = c
                                    /\ calls'[c].copy = tickets'[calls'[c].on]

LEMMA RowPresent == Absent \notin Row
  BY DEF Absent, Row, RowStatus

LEMMA ShapeKept ==
  ASSUME ShapeInv, NEW c \in Caller, StepShape(c)
  PROVE  CallsShaped' /\ RowsThere' /\ LocksHold'
<1> USE DEF ShapeInv, StepShape
<1>1. CallsShaped'
  BY DEF CallsShaped
<1>2. \A d \in Caller \ {c} :
         calls[d].step \in Copying \cup {"announce", "mark"} =>
            /\ calls[d].on \in TicketId /\ Exists(calls[d].on)
            /\ tickets'[calls[d].on] \in Row
            /\ tickets'[calls[d].on].report = tickets[calls[d].on].report
  BY DEF RowsThere, CallsShaped, CallShaped, RowsKept
<1>3. RowsThere'
  BY <1>2, RowPresent DEF RowsThere, Exists
<1>4. \A d \in Caller \ {c} : At(d, "locked") =>
         heldBy'[calls[d].on] = d /\ calls[d].copy = tickets'[calls[d].on]
  BY DEF LocksHold, RowsThere, CallsShaped, CallShaped, Copying, At, Exists
<1>5. LocksHold'
  BY <1>4 DEF LocksHold, At
<1> QED
  BY <1>1, <1>3, <1>5

LEMMA Blank ==
  /\ Ready \in CallRecord /\ Spent \in CallRecord
  /\ CallShaped(Ready) /\ CallShaped(Spent)
  /\ Ready.step = "ready" /\ Ready.tool = "none" /\ Ready.other = NoTicket /\ Ready.copy = Absent
  /\ Spent.step = "over" /\ Spent.tool = "none"
  BY DEF Ready, Spent, CallRecord, CallShaped, Copying

\* A call that ends leaves the shape, whatever it has done to its row.
LEMMA ReturnShape ==
  ASSUME ShapeInv, NEW c \in Caller, Returns(c),
         tickets' \in [TicketId -> Row \cup {Absent}], RowsKept,
         heldBy' \in [TicketId -> Caller \cup {"free"}],
         \A t \in TicketId : Exists(t) /\ heldBy[t] \in Caller \ {c}
                                => heldBy'[t] = heldBy[t] /\ tickets'[t] = tickets[t]
  PROVE  StepShape(c)
<1>1. calls' \in [Caller -> CallRecord] /\ calls'[c] = Spent
      /\ \A d \in Caller \ {c} : calls'[d] = calls[d]
  BY Blank DEF Returns, ShapeInv, CallsShaped
<1>2. calls'[c].step \notin Copying \cup {"announce", "mark"} /\ calls'[c].step # "locked"
  BY <1>1, Blank DEF Copying
<1> QED
  BY <1>1, <1>2, Blank DEF StepShape

LEMMA RowsRest == ShapeInv /\ UNCHANGED tickets => RowsKept
  BY DEF RowsKept, ShapeInv, ToolsTypeOK, Exists

\* A call that begins or goes on without touching a row.
LEMMA CallShape ==
  ASSUME ShapeInv, NEW c \in Caller, NEW k \in CallRecord,
         calls' = [calls EXCEPT ![c] = k], CallShaped(k), UNCHANGED <<tickets, heldBy>>,
         k.step \in Copying \cup {"announce", "mark"} => Exists(k.on),
         k.step \in Copying => k.copy.report = tickets[k.on].report,
         k.step # "locked"
  PROVE  StepShape(c)
<1>1. calls' \in [Caller -> CallRecord] /\ calls'[c] = k
      /\ \A d \in Caller \ {c} : calls'[d] = calls[d]
  BY DEF ShapeInv, CallsShaped
<1>2. k.step \in Copying \cup {"announce", "mark"} => tickets[k.on] \in Row
  BY DEF CallShaped, ShapeInv, ToolsTypeOK, Exists
<1> QED
  BY <1>1, <1>2, RowsRest DEF StepShape, ShapeInv, ToolsTypeOK

LEMMA LookUpShape ==
  ASSUME ShapeInv, NEW c \in Caller, NEW s \in Report, LookUp(c, s) PROVE StepShape(c)
<1> DEFINE k == [Ready EXCEPT !.tool = "create", !.step = "insert", !.text = s]
<1>1. CASE Returns(c)
  BY <1>1, ReturnShape, RowsRest DEF LookUp, ShapeInv, ToolsTypeOK
<1>2. CASE calls' = [calls EXCEPT ![c] = k]
  <2>1. k \in CallRecord /\ CallShaped(k) /\ k.step = "insert"
    BY DEF Ready, CallRecord, CallShaped, Copying, Tool
  <2> QED
    BY <1>2, <2>1, CallShape DEF LookUp, Copying
<1> QED
  BY <1>1, <1>2 DEF LookUp

LEMMA ReadShape ==
  ASSUME ShapeInv, NEW c \in Caller, NEW tool \in Enrichment, NEW t \in TicketId,
         NEW o \in TicketId \cup {NoTicket}, Read(c, tool, t, o)
  PROVE  StepShape(c)
<1> DEFINE k == [Ready EXCEPT !.tool = tool, !.step = "copied", !.on = t, !.copy = tickets[t],
                              !.other = o]
<1>1. tickets[t] \in Row /\ (o # NoTicket <=> tool = "merge")
  BY DEF Read, ShapeInv, ToolsTypeOK, Exists
<1>2. /\ k.tool = tool /\ k.step = "copied" /\ k.on = t /\ k.copy = tickets[t] /\ k.other = o
      /\ k.text = "none"
  BY DEF Ready
<1>3. k \in CallRecord
  BY <1>1 DEF Ready, CallRecord, Tool, Enrichment
<1>4. CallShaped(k)
  BY <1>1, <1>2 DEF CallShaped, Enrichment, Copying
<1>5. calls' = [calls EXCEPT ![c] = k] /\ Exists(t) /\ UNCHANGED <<tickets, heldBy>>
  BY DEF Read
<1> HIDE DEF k
<1> QED
  BY <1>2, <1>3, <1>4, <1>5, CallShape DEF Copying

LEMMA ScanShape == ASSUME ShapeInv, NEW c \in Caller, Scan(c) PROVE StepShape(c)
<1>1. PICK u \in TicketId \cup {NoTicket} :
         calls' = [calls EXCEPT ![c].step = "scanned", ![c].other = u]
  BY DEF Scan
<1> DEFINE k == [calls[c] EXCEPT !.step = "scanned", !.other = u]
<1>2. calls[c] \in CallRecord /\ CallShaped(calls[c]) /\ calls[c].step = "copied"
      /\ calls[c].tool = "duplicates"
  BY DEF Scan, At, ShapeInv, CallsShaped
<1>3. /\ k.tool = "duplicates" /\ k.step = "scanned" /\ k.on = calls[c].on
      /\ k.copy = calls[c].copy /\ k.other = u
  BY <1>2 DEF CallRecord
<1>4. k \in CallRecord
  BY <1>2 DEF CallRecord
<1>5. CallShaped(k)
  BY <1>2, <1>3 DEF CallShaped, Copying
<1>6. calls' = [calls EXCEPT ![c] = k]
  BY <1>1 DEF ShapeInv, CallsShaped
<1>7. Exists(k.on) /\ k.copy.report = tickets[k.on].report
  BY <1>2, <1>3 DEF ShapeInv, RowsThere, Copying
<1> HIDE DEF k
<1> QED
  BY <1>3, <1>4, <1>5, <1>6, <1>7, CallShape DEF Scan, Copying

LEMMA TakeLockShape ==
  ASSUME ShapeInv, NEW c \in Caller, NEW tool \in {"update_summary", "reopen"},
         NEW t \in TicketId, NEW d \in Detail \cup {"none"},
         tool = "update_summary" => d \in Detail, TakeLock(c, tool, t, d)
  PROVE  StepShape(c)
<1> DEFINE k == [Ready EXCEPT !.tool = tool, !.step = "locked", !.on = t, !.copy = tickets[t],
                              !.text = d]
<1>1. tickets[t] \in Row /\ heldBy[t] = "free" /\ UNCHANGED tickets
  BY DEF TakeLock, ShapeInv, ToolsTypeOK, Exists
<1>2. /\ k.tool = tool /\ k.step = "locked" /\ k.on = t /\ k.copy = tickets[t] /\ k.text = d
      /\ k.other = NoTicket
  BY DEF Ready
<1>3. k \in CallRecord
  BY <1>1 DEF Ready, CallRecord, Tool
<1>4. CallShaped(k)
  BY <1>1, <1>2 DEF CallShaped, Copying
<1>5. calls' = [calls EXCEPT ![c] = k]
  BY DEF TakeLock
<1> HIDE DEF k
<1>6. calls' \in [Caller -> CallRecord] /\ calls'[c] = k
      /\ \A e \in Caller \ {c} : calls'[e] = calls[e]
  BY <1>3, <1>5 DEF ShapeInv, CallsShaped
<1>7. /\ heldBy' \in [TicketId -> Caller \cup {"free"}] /\ heldBy'[t] = c
      /\ \A u \in TicketId : heldBy[u] \in Caller \ {c} => heldBy'[u] = heldBy[u]
  BY <1>1, ToolsAssumption DEF TakeLock, ShapeInv, ToolsTypeOK
<1> QED
  BY <1>1, <1>2, <1>4, <1>6, <1>7, RowsRest DEF StepShape, ShapeInv, ToolsTypeOK

-----------------------------------------------------------------------------

\* Steps that write a row.
LEMMA SaveKeeps ==
  ASSUME ShapeInv, NEW t \in TicketId, Exists(t), NEW new \in Row,
         new.report = tickets[t].report, Save(t, new)
  PROVE  /\ tickets' \in [TicketId -> Row \cup {Absent}]
         /\ RowsKept
         /\ \A u \in TicketId \ {t} : tickets'[u] = tickets[u]
  BY DEF ShapeInv, ToolsTypeOK, Save, RowsKept, Exists

LEMMA NewRowShape ==
  ASSUME ShapeInv, NEW t \in TicketId, ~Exists(t), NEW s \in Report,
         tickets' = [tickets EXCEPT ![t] = NewRow(s)]
  PROVE  /\ tickets' \in [TicketId -> Row \cup {Absent}]
         /\ RowsKept /\ tickets'[t] = NewRow(s) /\ NewRow(s) \in Row
         /\ \A u \in TicketId \ {t} : tickets'[u] = tickets[u]
<1>1. NewRow(s) \in Row
  BY DEF NewRow, Row, RowStatus
<1> QED
  BY <1>1 DEF ShapeInv, ToolsTypeOK, RowsKept, Exists

\* A row that is not there is not locked.
LEMMA LockedThere ==
  ASSUME ShapeInv, NEW c \in Caller, At(c, "locked")
  PROVE  /\ calls[c].on \in TicketId /\ Exists(calls[c].on)
         /\ heldBy[calls[c].on] = c
         /\ calls[c].copy = tickets[calls[c].on]
         /\ tickets[calls[c].on] \in Row
         /\ calls[c].tool = "update_summary" => calls[c].text \in Detail
  BY DEF ShapeInv, CallsShaped, CallShaped, RowsThere, LocksHold, At, Copying, ToolsTypeOK, Exists

LEMMA SaveSummaryShape ==
  ASSUME ShapeInv, NEW c \in Caller, SaveSummary(c) PROVE StepShape(c)
<1> DEFINE t == calls[c].on
           new == [tickets[t] EXCEPT !.history = @ \cup {calls[c].text}]
<1>1. /\ t \in TicketId /\ Exists(t) /\ heldBy[t] = c /\ calls[c].copy = tickets[t]
      /\ tickets[t] \in Row /\ calls[c].text \in Detail
  BY LockedThere DEF SaveSummary
<1>2. new \in Row /\ new.report = tickets[t].report
  BY <1>1 DEF Row
<1> HIDE DEF t
<1>3. UNCHANGED tickets \/ Save(t, new)
  BY <1>1 DEF SaveSummary, t
<1> HIDE DEF new
<1>4. /\ tickets' \in [TicketId -> Row \cup {Absent}] /\ RowsKept
      /\ \A u \in TicketId \ {t} : tickets'[u] = tickets[u]
  BY <1>1, <1>2, <1>3, SaveKeeps, RowsRest DEF ShapeInv, ToolsTypeOK
<1>5. heldBy' = [heldBy EXCEPT ![t] = "free"] /\ Returns(c)
  BY DEF SaveSummary, FreeRow, t
<1> QED
  BY <1>1, <1>4, <1>5, ReturnShape DEF ShapeInv, ToolsTypeOK

LEMMA SaveReopenedShape ==
  ASSUME ShapeInv, NEW c \in Caller, SaveReopened(c) PROVE StepShape(c)
<1> DEFINE t == calls[c].on
<1>1. /\ t \in TicketId /\ Exists(t) /\ heldBy[t] = c /\ calls[c].copy = tickets[t]
      /\ tickets[t] \in Row
  BY LockedThere DEF SaveReopened
<1>2. PICK new \in Row : new.report = tickets[t].report /\ Save(t, new)
  <2>1. tickets[t] \in Row /\ [tickets[t] EXCEPT !.status = "REOPENED"] \in Row
        /\ [tickets[t] EXCEPT !.status = "REOPENED"].report = tickets[t].report
    BY <1>1 DEF Row, RowStatus
  <2> QED
    BY <1>1, <2>1 DEF SaveReopened
<1> HIDE DEF t
<1>4. /\ tickets' \in [TicketId -> Row \cup {Absent}] /\ RowsKept
      /\ \A u \in TicketId \ {t} : tickets'[u] = tickets[u]
  BY <1>1, <1>2, SaveKeeps
<1>5. heldBy' = [heldBy EXCEPT ![t] = "free"] /\ Returns(c)
  BY DEF SaveReopened, FreeRow, t
<1> QED
  BY <1>1, <1>4, <1>5, ReturnShape DEF ShapeInv, ToolsTypeOK

\* What is saved from a copy is a row of the same report.
LEMMA ResultRows ==
  ASSUME ShapeInv, NEW c \in Caller, calls[c].step \in {"copied", "scanned"}
  PROVE  /\ calls[c].on \in TicketId /\ Exists(calls[c].on) /\ calls[c].copy \in Row
         /\ calls[c].copy.report = tickets[calls[c].on].report
         /\ \A new \in Results(c) : new \in Row /\ new.report = tickets[calls[c].on].report
<1>1. /\ calls[c].on \in TicketId /\ Exists(calls[c].on) /\ calls[c].copy \in Row
      /\ calls[c].copy.report = tickets[calls[c].on].report
      /\ calls[c].other \in TicketId \cup {NoTicket}
  BY DEF ShapeInv, CallsShaped, CallShaped, RowsThere, Copying, CallRecord
<1>2. ASSUME NEW new \in Results(c)
      PROVE  new \in Row /\ new.report = calls[c].copy.report
  <2> DEFINE taken == calls[c].copy
  <2>1. /\ [taken EXCEPT !.status = "RESOLVED"] \in Row
        /\ [taken EXCEPT !.status = "RESOLVED"].report = taken.report
        /\ [taken EXCEPT !.status = "CANCELLED", !.of = calls[c].other] \in Row
        /\ [taken EXCEPT !.status = "CANCELLED", !.of = calls[c].other].report = taken.report
        /\ \A h \in SUBSET taken.history : /\ [taken EXCEPT !.history = h] \in Row
                                           /\ [taken EXCEPT !.history = h].report = taken.report
    BY <1>1 DEF Row, RowStatus
  <2> QED
    BY <1>1, <1>2, <2>1 DEF Results
<1> QED
  BY <1>1, <1>2

LEMMA SaveCopyShape ==
  ASSUME ShapeInv, NEW c \in Caller, SaveCopy(c) PROVE StepShape(c)
<1> DEFINE t == calls[c].on
<1>1. calls[c].step \in {"copied", "scanned"}
  BY DEF SaveCopy, At
<1>2. t \in TicketId /\ Exists(t)
  BY <1>1, ResultRows
<1>3. /\ tickets' \in [TicketId -> Row \cup {Absent}] /\ RowsKept
      /\ \A u \in TicketId : heldBy[u] \in Caller \ {c} => tickets'[u] = tickets[u]
  <2>1. CASE UNCHANGED tickets
    BY <2>1, RowsRest DEF ShapeInv, ToolsTypeOK
  <2>2. ASSUME NEW new \in Results(c), Save(t, new), heldBy[t] = "free"
        PROVE  /\ tickets' \in [TicketId -> Row \cup {Absent}] /\ RowsKept
               /\ \A u \in TicketId : heldBy[u] \in Caller \ {c} => tickets'[u] = tickets[u]
    BY <1>1, <1>2, <2>2, ResultRows, SaveKeeps, ToolsAssumption
  <2> QED
    BY <2>1, <2>2 DEF SaveCopy
<1>4. UNCHANGED heldBy
  BY DEF SaveCopy
<1>5. CASE Returns(c)
  BY <1>3, <1>4, <1>5, ReturnShape DEF ShapeInv, ToolsTypeOK
<1>6. CASE calls[c].tool = "close" /\ calls' = [calls EXCEPT ![c].step = "mark"]
  <2> DEFINE k == [calls[c] EXCEPT !.step = "mark"]
  <2>1. calls[c] \in CallRecord /\ k \in CallRecord /\ k.step = "mark" /\ k.tool = "close" /\ k.on = t
    BY <1>6 DEF ShapeInv, CallsShaped, CallRecord
  <2>2. CallShaped(k)
    BY <1>2, <2>1 DEF CallShaped, Copying
  <2>3. calls' \in [Caller -> CallRecord] /\ calls'[c] = k
        /\ \A d \in Caller \ {c} : calls'[d] = calls[d]
    BY <1>6, <2>1 DEF ShapeInv, CallsShaped
  <2>4. tickets'[k.on] \in Row
    BY <1>2, <1>3, <2>1 DEF RowsKept
  <2> HIDE DEF k
  <2> QED
    BY <1>3, <1>4, <2>1, <2>2, <2>3, <2>4 DEF StepShape, Copying, ShapeInv, ToolsTypeOK
<1> QED
  BY <1>5, <1>6 DEF SaveCopy

LEMMA RestedRow ==
  ASSUME ShapeInv, NEW c \in Caller, NEW t \in TicketId, Exists(t), heldBy[t] = "free",
         NEW s \in RowStatus, Save(t, [tickets[t] EXCEPT !.status = s]),
         Returns(c), UNCHANGED heldBy
  PROVE  StepShape(c)
<1>1. tickets[t] \in Row
  BY DEF ShapeInv, ToolsTypeOK, Exists
<1>2. /\ [tickets[t] EXCEPT !.status = s] \in Row
      /\ [tickets[t] EXCEPT !.status = s].report = tickets[t].report
  BY <1>1 DEF Row
<1>3. /\ tickets' \in [TicketId -> Row \cup {Absent}] /\ RowsKept
      /\ \A u \in TicketId \ {t} : tickets'[u] = tickets[u]
  BY <1>2, SaveKeeps
<1> QED
  BY <1>3, ReturnShape, ToolsAssumption DEF ShapeInv, ToolsTypeOK

LEMMA InsertShape ==
  ASSUME ShapeInv, NEW c \in Caller, NEW t \in TicketId, Insert(c, t) PROVE StepShape(c)
<1>1. calls[c].text \in Report /\ ~Exists(t)
  BY DEF Insert, At, ShapeInv, CallsShaped, CallShaped
<1>2. /\ tickets' \in [TicketId -> Row \cup {Absent}] /\ RowsKept
      /\ \A u \in TicketId \ {t} : tickets'[u] = tickets[u]
  BY <1>1, NewRowShape DEF Insert
<1> QED
  BY <1>1, <1>2, ReturnShape DEF Insert, ShapeInv, ToolsTypeOK

LEMMA PortalRowShape ==
  ASSUME ShapeInv, NEW c \in Caller, NEW s \in Report, NEW t \in TicketId, PortalRow(c, s, t)
  PROVE  StepShape(c)
<1> DEFINE k == [Ready EXCEPT !.tool = "portal", !.step = "announce", !.on = t]
<1>1. /\ tickets' \in [TicketId -> Row \cup {Absent}] /\ RowsKept /\ tickets'[t] \in Row
      /\ \A u \in TicketId \ {t} : tickets'[u] = tickets[u]
  BY NewRowShape DEF PortalRow
<1>2. k.tool = "portal" /\ k.step = "announce" /\ k.on = t
  BY DEF Ready
<1>3. k \in CallRecord
  BY DEF Ready, CallRecord, Tool
<1>4. CallShaped(k)
  BY <1>2 DEF CallShaped, Copying
<1>5. calls' = [calls EXCEPT ![c] = k] /\ ~Exists(t) /\ UNCHANGED heldBy
  BY DEF PortalRow
<1> HIDE DEF k
<1>6. calls' \in [Caller -> CallRecord] /\ calls'[c] = k
      /\ \A d \in Caller \ {c} : calls'[d] = calls[d]
  BY <1>3, <1>5 DEF ShapeInv, CallsShaped
<1> QED
  BY <1>1, <1>2, <1>4, <1>5, <1>6 DEF StepShape, Copying, ShapeInv, ToolsTypeOK

LEMMA BreakOffShape ==
  ASSUME ShapeInv, NEW c \in Caller, BreakOff(c) PROVE StepShape(c)
<1>1. /\ heldBy' \in [TicketId -> Caller \cup {"free"}]
      /\ \A t \in TicketId : heldBy[t] \in Caller \ {c} => heldBy'[t] = heldBy[t]
  BY DEF BreakOff, ShapeInv, ToolsTypeOK
<1>2. UNCHANGED tickets /\ Returns(c)
  BY DEF BreakOff
<1> QED
  BY <1>1, <1>2, ReturnShape, RowsRest DEF ShapeInv, ToolsTypeOK

LEMMA StepShaped == ASSUME ShapeInv, NEW c \in Caller, ToolStep(c) PROVE StepShape(c)
<1>1. ASSUME PortalEvent(c)
      PROVE  StepShape(c)
  BY <1>1, ReturnShape, RowsRest DEF PortalEvent, ShapeInv, ToolsTypeOK
<1>2. ASSUME MarkCancelled(c)
      PROVE  StepShape(c)
  <2>1. calls[c].on \in TicketId /\ Exists(calls[c].on)
    BY <1>2 DEF MarkCancelled, At, ShapeInv, CallsShaped, CallShaped, RowsThere
  <2> QED
    BY <1>2, <2>1, RestedRow DEF MarkCancelled, RowStatus
<1>3. ASSUME NEW t \in TicketId, RestoreRow(c, t)
      PROVE  StepShape(c)
  BY <1>3, RestedRow DEF RestoreRow, RowStatus
<1>4. ASSUME NEW t \in TicketId, NEW o \in TicketId \cup {NoTicket},
             NEW tool \in Enrichment, Read(c, tool, t, o)
      PROVE  StepShape(c)
  BY <1>4, ReadShape
<1>5. ASSUME NEW t \in TicketId, \/ TakeLock(c, "reopen", t, "none")
                                \/ \E d \in Detail : TakeLock(c, "update_summary", t, d)
      PROVE  StepShape(c)
  BY <1>5, TakeLockShape
<1> QED
  BY <1>1, <1>2, <1>3, <1>4, <1>5, LookUpShape, InsertShape, PortalRowShape, SaveSummaryShape,
     SaveReopenedShape, ScanShape, SaveCopyShape, BreakOffShape
  DEF ToolStep, Enrichment

LEMMA ToolsInitShape == ToolsInit => ShapeInv
<1> SUFFICES ASSUME ToolsInit PROVE ShapeInv
  OBVIOUS
<1>1. ToolsTypeOK
  <2>1. tickets \in [TicketId -> Row \cup {Absent}]
    <3>1. [report: Report, status: BornStatus, history: {{}}, of: {NoTicket}] \subseteq Row
      BY ToolsAssumption DEF Row, RowStatus
    <3> QED
      BY <3>1 DEF ToolsInit
  <2> QED
    BY <2>1, ToolsAssumption DEF ToolsInit, ToolsTypeOK
<1>2. calls = [c \in Caller |-> Ready]
  BY DEF ToolsInit
<1>3. CallsShaped
  BY <1>2, Blank DEF CallsShaped
<1>4. RowsThere /\ LocksHold
  BY <1>2, Blank DEF RowsThere, LocksHold, At, Copying
<1> QED
  BY <1>1, <1>3, <1>4 DEF ShapeInv

\* What a step adds to the outbox and to the ghosts.
RecordsTyped ==
    /\ announced \subseteq TicketId /\ slips \in 0..MaxSlips
    /\ saved \subseteq TicketId \X Detail /\ exposed \subseteq saved
    /\ silent \subseteq TicketId /\ rewritten \subseteq TicketId

LEMMA StepRecords == ASSUME ShapeInv, NEW c \in Caller, ToolStep(c) PROVE RecordsTyped'
<1>0. RecordsTyped
  BY DEF RecordsTyped, ShapeInv, ToolsTypeOK
<1>1. ASSUME UNCHANGED <<announced, slips, saved, exposed, silent, rewritten>>
      PROVE  RecordsTyped'
  BY <1>0, <1>1 DEF RecordsTyped
<1>2. ASSUME NEW t \in TicketId, announced' = announced \cup {t},
             UNCHANGED <<slips, saved, exposed, silent, rewritten>>
      PROVE  RecordsTyped'
  BY <1>0, <1>2 DEF RecordsTyped
<1>3. ASSUME PortalEvent(c)
      PROVE  RecordsTyped'
  <2>1. calls[c].on \in TicketId
    BY <1>3 DEF PortalEvent, At, ShapeInv, CallsShaped, CallShaped
  <2> QED
    BY <1>2, <1>3, <2>1 DEF PortalEvent, toolGhosts
<1>4. ASSUME SaveSummary(c)
      PROVE  RecordsTyped'
  <2>1. <<calls[c].on, calls[c].text>> \in TicketId \X Detail
    BY <1>4, LockedThere DEF SaveSummary
  <2>2. \/ UNCHANGED <<saved, exposed>>
        \/ /\ saved' = saved \cup {<<calls[c].on, calls[c].text>>}
           /\ exposed' \in {exposed, exposed \cup {<<calls[c].on, calls[c].text>>}}
    BY <1>4 DEF SaveSummary
  <2>3. UNCHANGED <<announced, slips, silent, rewritten>>
    BY <1>4 DEF SaveSummary
  <2> QED
    BY <1>0, <2>1, <2>2, <2>3 DEF RecordsTyped
<1>5. ASSUME SaveCopy(c)
      PROVE  RecordsTyped'
  <2>1. calls[c].on \in TicketId
    BY <1>5, ResultRows DEF SaveCopy, At
  <2>2. rewritten' \in {rewritten, rewritten \cup {calls[c].on}}
    BY <1>5 DEF SaveCopy
  <2> QED
    BY <1>0, <1>5, <2>1, <2>2 DEF SaveCopy, RecordsTyped
<1>6. ASSUME BreakOff(c)
      PROVE  RecordsTyped'
  <2>1. silent' \subseteq TicketId
    BY <1>0, <1>6 DEF BreakOff, At, RecordsTyped, ShapeInv, CallsShaped, CallShaped
  <2>2. slips' \in 0..MaxSlips
    BY <1>0, <1>6, ToolsAssumption DEF BreakOff, RecordsTyped
  <2> QED
    BY <1>0, <1>6, <2>1, <2>2 DEF BreakOff, RecordsTyped
<1>7. ASSUME NEW s \in Report, LookUp(c, s) \/ \E t \in TicketId : PortalRow(c, s, t)
      PROVE  RecordsTyped'
  BY <1>1, <1>7 DEF LookUp, PortalRow
<1>8. ASSUME NEW t \in TicketId, Insert(c, t) \/ RestoreRow(c, t)
      PROVE  RecordsTyped'
  BY <1>1, <1>2, <1>8 DEF Insert, RestoreRow
<1>9. ASSUME NEW tool, NEW t \in TicketId, NEW o, TakeLock(c, tool, t, o) \/ Read(c, tool, t, o)
      PROVE  RecordsTyped'
  BY <1>1, <1>9 DEF TakeLock, Read, toolGhosts
<1>10. ASSUME Scan(c) \/ SaveReopened(c) \/ MarkCancelled(c)
       PROVE  RecordsTyped'
  BY <1>1, <1>10 DEF Scan, SaveReopened, MarkCancelled
<1> QED
  BY <1>3, <1>4, <1>5, <1>6, <1>7, <1>8, <1>9, <1>10 DEF ToolStep

LEMMA StepTyped == ASSUME ShapeInv, NEW c \in Caller, ToolStep(c) PROVE ShapeInv'
<1>1. StepShape(c) /\ CallsShaped' /\ RowsThere' /\ LocksHold'
  BY StepShaped, ShapeKept
<1>2. \A d \in Caller :
         calls'[d] \in {Ready, Spent} \cup
             [tool: Tool, step: {"insert", "announce", "locked", "copied", "scanned", "mark"},
              on: TicketId \cup {NoTicket}, copy: Row \cup {Absent},
              other: TicketId \cup {NoTicket}, text: Report \cup Detail \cup {"none"}]
  BY <1>1 DEF CallsShaped, CallShaped, CallRecord
<1> QED
  BY <1>1, <1>2, StepRecords DEF RecordsTyped, ShapeInv, ToolsTypeOK, StepShape

-----------------------------------------------------------------------------

\* What a step does to open tickets and to the ghosts.
Opens(t) == ~IsOpen(tickets[t]) /\ IsOpen(tickets'[t])
Closes(t) == IsOpen(tickets[t]) /\ ~IsOpen(tickets'[t])

\* A ticket opens by the insertion of a creation, or its topic is doubled; it
\* closes because that was asked for, because an old copy closed it, or
\* because the duplicate check that found another cancels it.
Openings(c) ==
    /\ doubled \subseteq doubled'
    /\ \A t \in TicketId : Opens(t) =>
          \/ Topic[tickets'[t].report] \in doubled'
          \/ /\ At(c, "insert") /\ tickets'[t].report = calls[c].text
             /\ \A u \in TicketId \ {t} : tickets'[u] = tickets[u]

Endings(c) ==
    /\ ended \subseteq ended' /\ undone \subseteq undone'
    /\ \A t \in TicketId : Closes(t) =>
          \/ MatterOf(t) \in ended' \cup undone'
          \/ /\ Finds(c) /\ calls[c].on = t /\ calls'[c] = Spent
             /\ \A u \in TicketId \ {t} : tickets'[u] = tickets[u]

LEMMA SameOpens ==
  ASSUME NEW c \in Caller, UNCHANGED <<tickets, ended>>, undone \subseteq undone',
         doubled \subseteq doubled'
  PROVE  Openings(c) /\ Endings(c)
  BY DEF Openings, Endings, Opens, Closes

LEMMA InsertOpens ==
  ASSUME ShapeInv, NEW c \in Caller, NEW t \in TicketId, Insert(c, t)
  PROVE  Openings(c) /\ Endings(c)
<1>1. calls[c].text \in Report /\ ~Exists(t) /\ At(c, "insert")
  BY DEF Insert, At, ShapeInv, CallsShaped, CallShaped
<1>2. /\ tickets'[t] = NewRow(calls[c].text)
      /\ \A u \in TicketId \ {t} : tickets'[u] = tickets[u]
  BY <1>1, NewRowShape DEF Insert
<1>3. ~IsOpen(tickets[t])
  BY <1>1 DEF Exists, IsOpen
<1> QED
  BY <1>1, <1>2, <1>3 DEF Insert, Openings, Endings, Opens, Closes, NewRow

LEMMA PortalOpens ==
  ASSUME ShapeInv, NEW c \in Caller, NEW s \in Report, NEW t \in TicketId, PortalRow(c, s, t)
  PROVE  Openings(c) /\ Endings(c)
<1>2. /\ tickets'[t] = NewRow(s)
      /\ \A u \in TicketId \ {t} : tickets'[u] = tickets[u]
  BY NewRowShape DEF PortalRow
<1>3. ~IsOpen(tickets[t])
  BY DEF PortalRow, Exists, IsOpen
<1> QED
  BY <1>2, <1>3 DEF PortalRow, Openings, Endings, Opens, Closes, NewRow

LEMMA SaveOpens ==
  ASSUME ShapeInv, NEW c \in Caller, NEW t \in TicketId, Exists(t), NEW new \in Row,
         new.report = tickets[t].report, Save(t, new),
         ended \subseteq ended', undone \subseteq undone',
         IsOpen(tickets[t]) /\ ~IsOpen(new) =>
            \/ MatterOf(t) \in ended' \cup undone'
            \/ Finds(c) /\ calls[c].on = t /\ calls'[c] = Spent
  PROVE  Openings(c) /\ Endings(c)
<1>1. tickets'[t] = new /\ \A u \in TicketId \ {t} : tickets'[u] = tickets[u]
  BY DEF Save, ShapeInv, ToolsTypeOK
<1>2. Openings(c)
  BY <1>1 DEF Save, Openings, Opens
<1> QED
  BY <1>1, <1>2 DEF Endings, Closes

LEMMA OpenStatus ==
  ASSUME NEW r \in Row
  PROVE  IsOpen(r) <=> r.status \notin {"CLOSED", "CANCELLED", "CUSTOMER_CONFIRMED"}
  BY RowPresent DEF IsOpen

LEMMA SaveSummaryOpens ==
  ASSUME ShapeInv, NEW c \in Caller, SaveSummary(c) PROVE Openings(c) /\ Endings(c)
<1> DEFINE t == calls[c].on
           new == [tickets[t] EXCEPT !.history = @ \cup {calls[c].text}]
<1>1. /\ t \in TicketId /\ Exists(t) /\ calls[c].copy = tickets[t]
      /\ tickets[t] \in Row /\ calls[c].text \in Detail
  BY LockedThere DEF SaveSummary
<1>2. new \in Row /\ new.report = tickets[t].report /\ new.status = tickets[t].status
  BY <1>1 DEF Row
<1>3. IsOpen(new) <=> IsOpen(tickets[t])
  BY <1>1, <1>2, OpenStatus
<1>4. UNCHANGED <<ended, undone>>
  BY DEF SaveSummary
<1> HIDE DEF t
<1>5. UNCHANGED <<tickets, doubled>> \/ Save(t, new)
  BY <1>1 DEF SaveSummary, t
<1> HIDE DEF new
<1> QED
  BY <1>1, <1>2, <1>3, <1>4, <1>5, SaveOpens, SameOpens

LEMMA SaveReopenedOpens ==
  ASSUME ShapeInv, NEW c \in Caller, SaveReopened(c) PROVE Openings(c) /\ Endings(c)
<1> DEFINE t == calls[c].on
<1>1. /\ t \in TicketId /\ Exists(t) /\ calls[c].copy = tickets[t] /\ tickets[t] \in Row
  BY LockedThere DEF SaveReopened
<1>2. PICK new \in Row : /\ new.report = tickets[t].report /\ Save(t, new)
                         /\ IsOpen(tickets[t]) => IsOpen(new)
  <2> DEFINE again == [tickets[t] EXCEPT !.status = "REOPENED"]
  <2>1. again \in Row /\ again.report = tickets[t].report /\ again.status = "REOPENED"
    BY <1>1 DEF Row, RowStatus
  <2>2. IsOpen(again)
    BY <2>1, OpenStatus
  <2> QED
    BY <1>1, <2>1, <2>2 DEF SaveReopened
<1>3. UNCHANGED <<ended, undone>>
  BY DEF SaveReopened
<1> HIDE DEF t
<1> QED
  BY <1>1, <1>2, <1>3, SaveOpens

\* A tool closes a ticket its copy shows open only as a merge or a duplicate.
LEMMA ResultsOpen ==
  ASSUME ShapeInv, NEW c \in Caller, calls[c].step \in {"copied", "scanned"},
         NEW new \in Results(c), IsOpen(calls[c].copy), ~IsOpen(new)
  PROVE  calls[c].tool = "merge" \/ Finds(c)
<1>1. calls[c].copy \in Row /\ new \in Row
  BY ResultRows
<1>2. /\ calls[c].step = "copied" => calls[c].tool \in Enrichment
      /\ calls[c].step = "copied" => (calls[c].other # NoTicket <=> calls[c].tool = "merge")
      /\ calls[c].step = "scanned" => calls[c].tool = "duplicates"
  BY DEF ShapeInv, CallsShaped, CallShaped
<1>3. new # calls[c].copy /\ new.status \in {"CLOSED", "CANCELLED", "CUSTOMER_CONFIRMED"}
  BY <1>1, OpenStatus
<1>4. \A h \in SUBSET calls[c].copy.history : new # [calls[c].copy EXCEPT !.history = h]
  BY <1>1, <1>3, OpenStatus DEF Row
<1>5. new # [calls[c].copy EXCEPT !.status = "RESOLVED"]
  BY <1>1, <1>3 DEF Row
<1>6. calls[c].tool \notin {"assign", "title", "digest", "close"} /\ calls[c].other # NoTicket
  BY <1>3, <1>4, <1>5 DEF Results
<1> QED
  BY <1>2, <1>6 DEF Finds, At, Enrichment

LEMMA SaveCopyOpens ==
  ASSUME ShapeInv, EndsWanted, NEW c \in Caller, SaveCopy(c) PROVE Openings(c) /\ Endings(c)
<1> DEFINE t == calls[c].on
<1>1. calls[c].step \in {"copied", "scanned"} /\ ended' = ended
  BY DEF SaveCopy, At
<1>2. t \in TicketId /\ Exists(t)
  BY <1>1, ResultRows
<1>3. ASSUME UNCHANGED <<tickets, doubled, undone>>
      PROVE  Openings(c) /\ Endings(c)
  BY <1>1, <1>3, SameOpens
<1>4. ASSUME NEW new \in Results(c), Save(t, new),
             undone' = IF IsOpen(tickets[t]) /\ ~IsOpen(new) /\ ~IsOpen(calls[c].copy)
                       THEN undone \cup {Matter[new.report]} ELSE undone
      PROVE  Openings(c) /\ Endings(c)
  <2>1. new \in Row /\ new.report = tickets[t].report
    BY <1>1, ResultRows
  <2>2. ASSUME IsOpen(tickets[t]), ~IsOpen(new), ~IsOpen(calls[c].copy)
        PROVE  MatterOf(t) \in undone'
    BY <1>4, <2>1, <2>2 DEF MatterOf
  <2>3. ASSUME IsOpen(calls[c].copy), ~IsOpen(new)
        PROVE  MatterOf(t) \in ended' \/ Finds(c)
    BY <1>1, <2>3, ResultsOpen DEF EndsWanted
  <2>4. Finds(c) => calls'[c] = Spent
    <3>1. Finds(c) => calls[c].tool = "duplicates"
      BY DEF Finds, At, ShapeInv, CallsShaped, CallShaped
    <3> QED
      BY <3>1 DEF SaveCopy, Returns, ShapeInv, CallsShaped
  <2>5. undone \subseteq undone'
    BY <1>4
  <2> HIDE DEF t
  <2> QED
    BY <1>1, <1>2, <1>4, <2>1, <2>2, <2>3, <2>4, <2>5, SaveOpens DEF t
<1> QED
  BY <1>3, <1>4 DEF SaveCopy

LEMMA MarkOpens ==
  ASSUME ShapeInv, EndsWanted, NEW c \in Caller, MarkCancelled(c) PROVE Openings(c) /\ Endings(c)
<1> DEFINE t == calls[c].on
           new == [tickets[t] EXCEPT !.status = "CANCELLED"]
<1>1. t \in TicketId /\ Exists(t) /\ MatterOf(t) \in ended
  BY DEF MarkCancelled, At, ShapeInv, CallsShaped, CallShaped, RowsThere, EndsWanted
<1>2. tickets[t] \in Row
  BY <1>1 DEF ShapeInv, ToolsTypeOK, Exists
<1>3. new \in Row /\ new.report = tickets[t].report
  BY <1>2 DEF Row, RowStatus
<1>4. Save(t, new) /\ UNCHANGED <<ended, undone>>
  BY DEF MarkCancelled
<1> HIDE DEF t, new
<1> QED
  BY <1>1, <1>3, <1>4, SaveOpens

LEMMA RestoreOpens ==
  ASSUME ShapeInv, NEW c \in Caller, NEW t \in TicketId, RestoreRow(c, t)
  PROVE  Openings(c) /\ Endings(c)
<1> DEFINE new == [tickets[t] EXCEPT !.status = "REOPENED"]
<1>1. Exists(t) /\ Save(t, new) /\ UNCHANGED <<ended, undone>>
  BY DEF RestoreRow
<1>2. tickets[t] \in Row
  BY <1>1 DEF ShapeInv, ToolsTypeOK, Exists
<1>3. new \in Row /\ new.report = tickets[t].report /\ new.status = "REOPENED"
  BY <1>2 DEF Row, RowStatus
<1>4. IsOpen(new)
  BY <1>3, OpenStatus
<1> HIDE DEF new
<1> QED
  BY <1>1, <1>3, <1>4, SaveOpens

LEMMA StepOpens ==
  ASSUME ShapeInv, EndsWanted, NEW c \in Caller, ToolStep(c) PROVE Openings(c) /\ Endings(c)
<1>1. ASSUME NEW s \in Report, LookUp(c, s)
      PROVE  Openings(c) /\ Endings(c)
  <2>1. doubled \subseteq doubled'
    BY <1>1 DEF LookUp
  <2> QED
    BY <1>1, <2>1, SameOpens DEF LookUp
<1>2. ASSUME PortalEvent(c) \/ BreakOff(c)
      PROVE  Openings(c) /\ Endings(c)
  BY <1>2, SameOpens DEF PortalEvent, BreakOff, toolGhosts
<1>3. ASSUME NEW tool, NEW t \in TicketId, NEW o, TakeLock(c, tool, t, o)
      PROVE  Openings(c) /\ Endings(c)
  BY <1>3, SameOpens DEF TakeLock, toolGhosts
<1>4. ASSUME NEW tool, NEW t \in TicketId, NEW o, Read(c, tool, t, o)
      PROVE  Openings(c) /\ Endings(c)
  <2>1. ended \subseteq ended' /\ UNCHANGED <<tickets, undone, doubled>>
    BY <1>4 DEF Read
  <2> QED
    BY <2>1 DEF Openings, Endings, Opens, Closes
<1>5. ASSUME Scan(c)
      PROVE  Openings(c) /\ Endings(c)
  <2>1. undone \subseteq undone'
    BY <1>5 DEF Scan
  <2> QED
    BY <1>5, <2>1, SameOpens DEF Scan
<1> QED
  BY <1>1, <1>2, <1>3, <1>4, <1>5, InsertOpens, PortalOpens, SaveSummaryOpens, SaveReopenedOpens,
     SaveCopyOpens, MarkOpens, RestoreOpens DEF ToolStep

-----------------------------------------------------------------------------

\* What the call that makes a step is after it.
NextCall(c) ==
    \/ calls'[c] = Spent
    \/ \E s \in Report : /\ LookUp(c, s) /\ SameTopic(s) = {}
                         /\ calls'[c].step = "insert" /\ calls'[c].tool = "create"
                         /\ calls'[c].text = s
    \/ /\ \E s \in Report, t \in TicketId : PortalRow(c, s, t) /\ calls'[c].on = t
       /\ calls'[c].step = "announce" /\ calls'[c].tool = "portal"
    \/ calls'[c].step = "locked" /\ calls'[c].tool \in {"update_summary", "reopen"}
    \/ \E tool \in Enrichment, t \in TicketId, o \in TicketId \cup {NoTicket} :
          /\ Read(c, tool, t, o)
          /\ calls'[c].step = "copied" /\ calls'[c].tool = tool /\ calls'[c].on = t
          /\ calls'[c].copy = tickets[t]
    \/ /\ Scan(c) /\ calls[c].step = "copied" /\ calls'[c].step = "scanned"
       /\ calls'[c].tool = "duplicates"
       /\ calls'[c].on = calls[c].on /\ calls'[c].copy = calls[c].copy
    \/ /\ SaveCopy(c) /\ calls[c].step = "copied" /\ calls[c].tool = "close"
       /\ calls'[c].step = "mark" /\ calls'[c].tool = "close" /\ calls'[c].on = calls[c].on

LEMMA StepCall == ASSUME ShapeInv, NEW c \in Caller, ToolStep(c) PROVE NextCall(c)
<1>1. \A k : calls' = [calls EXCEPT ![c] = k] => calls'[c] = k
  BY DEF ShapeInv, CallsShaped
<1>2. Returns(c) => NextCall(c)
  BY <1>1 DEF Returns, NextCall
<1>3. ASSUME NEW s \in Report, LookUp(c, s)
      PROVE  NextCall(c)
  <2> DEFINE k == [Ready EXCEPT !.tool = "create", !.step = "insert", !.text = s]
  <2>1. k.tool = "create" /\ k.step = "insert" /\ k.text = s
    BY DEF Ready
  <2>2. Returns(c) \/ (SameTopic(s) = {} /\ calls' = [calls EXCEPT ![c] = k])
    BY <1>3 DEF LookUp
  <2> HIDE DEF k
  <2> QED
    BY <1>1, <1>2, <1>3, <2>1, <2>2 DEF NextCall
<1>4. ASSUME NEW s \in Report, NEW t \in TicketId, PortalRow(c, s, t)
      PROVE  NextCall(c)
  <2> DEFINE k == [Ready EXCEPT !.tool = "portal", !.step = "announce", !.on = t]
  <2>1. k.tool = "portal" /\ k.step = "announce" /\ k.on = t
    BY DEF Ready
  <2>2. calls' = [calls EXCEPT ![c] = k]
    BY <1>4 DEF PortalRow
  <2> HIDE DEF k
  <2> QED
    BY <1>1, <1>4, <2>1, <2>2 DEF NextCall
<1>5. ASSUME NEW tool \in {"update_summary", "reopen"}, NEW t \in TicketId, NEW d,
             TakeLock(c, tool, t, d)
      PROVE  NextCall(c)
  <2> DEFINE k == [Ready EXCEPT !.tool = tool, !.step = "locked", !.on = t, !.copy = tickets[t],
                                !.text = d]
  <2>1. k.tool = tool /\ k.step = "locked"
    BY DEF Ready
  <2>2. calls' = [calls EXCEPT ![c] = k]
    BY <1>5 DEF TakeLock
  <2> HIDE DEF k
  <2> QED
    BY <1>1, <2>1, <2>2 DEF NextCall
<1>6. ASSUME NEW tool \in Enrichment, NEW t \in TicketId, NEW o \in TicketId \cup {NoTicket},
             Read(c, tool, t, o)
      PROVE  NextCall(c)
  <2> DEFINE k == [Ready EXCEPT !.tool = tool, !.step = "copied", !.on = t, !.copy = tickets[t],
                                !.other = o]
  <2>1. k.tool = tool /\ k.step = "copied" /\ k.on = t /\ k.copy = tickets[t]
    BY DEF Ready
  <2>2. calls' = [calls EXCEPT ![c] = k]
    BY <1>6 DEF Read
  <2> HIDE DEF k
  <2> QED
    BY <1>1, <1>6, <2>1, <2>2 DEF NextCall
<1>7. ASSUME Scan(c)
      PROVE  NextCall(c)
  <2>1. calls[c] \in CallRecord /\ calls[c].step = "copied" /\ calls[c].tool = "duplicates"
    BY <1>7 DEF Scan, At, ShapeInv, CallsShaped
  <2>2. PICK u : calls' = [calls EXCEPT ![c].step = "scanned", ![c].other = u]
    BY <1>7 DEF Scan
  <2>3. /\ calls'[c].step = "scanned" /\ calls'[c].tool = "duplicates"
        /\ calls'[c].on = calls[c].on /\ calls'[c].copy = calls[c].copy
    BY <2>1, <2>2 DEF ShapeInv, CallsShaped, CallRecord
  <2> QED
    BY <1>7, <2>1, <2>3 DEF NextCall
<1>8. ASSUME SaveCopy(c)
      PROVE  NextCall(c)
  <2>1. calls[c] \in CallRecord
    BY DEF ShapeInv, CallsShaped
  <2>2. CASE calls[c].tool = "close" /\ calls' = [calls EXCEPT ![c].step = "mark"]
    <3>1. calls[c].step = "copied"
      BY <1>8, <2>2 DEF SaveCopy, At
    <3>2. calls'[c].step = "mark" /\ calls'[c].tool = "close" /\ calls'[c].on = calls[c].on
      BY <2>1, <2>2 DEF ShapeInv, CallsShaped, CallRecord
    <3> QED
      BY <1>8, <2>2, <3>1, <3>2 DEF NextCall
  <2> QED
    BY <1>2, <1>8, <2>2 DEF SaveCopy
<1>9. ASSUME NEW t \in TicketId, \/ Insert(c, t) \/ RestoreRow(c, t) \/ PortalEvent(c)
                                 \/ SaveSummary(c) \/ SaveReopened(c) \/ MarkCancelled(c)
      PROVE  Returns(c)
  BY <1>9 DEF Insert, RestoreRow, PortalEvent, SaveSummary, SaveReopened, MarkCancelled
<1>10. ASSUME \/ PortalEvent(c) \/ SaveSummary(c) \/ SaveReopened(c) \/ MarkCancelled(c)
              \/ BreakOff(c)
       PROVE  Returns(c)
  BY <1>10 DEF PortalEvent, SaveSummary, SaveReopened, MarkCancelled, BreakOff
<1> QED
  BY <1>2, <1>3, <1>4, <1>5, <1>6, <1>7, <1>8, <1>9, <1>10 DEF ToolStep, Enrichment

\* Rows that are there stay, with their report and their matter.
LEMMA StaysThere ==
  ASSUME ShapeInv, NEW c \in Caller, StepShape(c), NEW t \in TicketId, Exists(t)
  PROVE  /\ Exists(t)' /\ tickets'[t].report = tickets[t].report
         /\ MatterOf(t)' = MatterOf(t) /\ TopicOf(t)' = TopicOf(t)
         /\ tickets[t] \in Row /\ tickets'[t] \in Row /\ tickets[t].report \in Report
<1>1. /\ tickets'[t] \in Row /\ tickets'[t].report = tickets[t].report /\ tickets[t] \in Row
  BY DEF StepShape, RowsKept, ShapeInv, ToolsTypeOK, Exists
<1>2. tickets[t].report \in Report
  BY <1>1 DEF Row
<1> QED
  BY <1>1, <1>2, RowPresent DEF Exists, MatterOf, TopicOf

LEMMA OpenThere == \A t \in TicketId : IsOpen(tickets[t]) => Exists(t)
  BY DEF IsOpen, Exists

LEMMA WantedStep ==
  ASSUME ShapeInv, EndsWanted, NEW c \in Caller, ToolStep(c)
  PROVE  EndsWanted'
<1>1. StepShape(c) /\ NextCall(c) /\ ended \subseteq ended'
  BY StepShaped, StepCall, StepOpens DEF Endings
<1>2. ASSUME NEW d \in Caller, calls[d].tool \in {"merge", "close"}
      PROVE  /\ calls[d].on \in TicketId /\ Exists(calls[d].on)
             /\ Matter[tickets'[calls[d].on].report] \in ended'
  <2>1. calls[d].step \in Copying \cup {"announce", "mark"}
    <3>1. calls[d] \in CallRecord /\ CallShaped(calls[d])
      BY DEF ShapeInv, CallsShaped
    <3>2. calls[d].step \notin {"ready", "over"}
      BY <1>2, <3>1, Blank DEF CallShaped
    <3>3. calls[d].step # "insert"
      BY <1>2, <3>1 DEF CallShaped
    <3> QED
      BY <3>1, <3>2, <3>3 DEF CallRecord, Copying
  <2>2. calls[d].on \in TicketId /\ Exists(calls[d].on)
    BY <2>1 DEF ShapeInv, CallsShaped, CallShaped, RowsThere
  <2> QED
    BY <1>1, <1>2, <2>2, StaysThere DEF EndsWanted, MatterOf
<1>3. ASSUME NEW d \in Caller \ {c}, calls'[d].tool \in {"merge", "close"}
      PROVE  Matter[tickets'[calls[d].on].report] \in ended'
  BY <1>1, <1>2, <1>3 DEF StepShape
<1>4. ASSUME calls'[c].tool \in {"merge", "close"}
      PROVE  Matter[tickets'[calls'[c].on].report] \in ended'
  <2>1. CASE \E tool \in Enrichment, t \in TicketId, o \in TicketId \cup {NoTicket} :
                Read(c, tool, t, o) /\ calls'[c].tool = tool /\ calls'[c].on = t
    BY <1>4, <2>1 DEF Read, MatterOf
  <2>2. CASE calls[c].tool = "close" /\ calls'[c].on = calls[c].on
    BY <1>2, <2>2
  <2> QED
    BY <1>1, <1>4, <2>1, <2>2, Blank DEF NextCall
<1>5. \A d \in Caller \ {c} : calls'[d] = calls[d]
  BY <1>1 DEF StepShape
<1> QED
  BY <1>3, <1>4, <1>5 DEF EndsWanted, MatterOf

LEMMA CreationsStep ==
  ASSUME ShapeInv, CreationsSee, EndsWanted, NEW c \in Caller, ToolStep(c)
  PROVE  CreationsSee'
<1>1. StepShape(c) /\ NextCall(c) /\ Openings(c)
  BY StepShaped, StepCall, StepOpens
<1>2. SUFFICES ASSUME NEW e \in Caller, calls'[e].step = "insert",
                      Topic[calls'[e].text] \notin doubled'
               PROVE  /\ \A t \in TicketId : ~(IsOpen(tickets'[t]) /\ Topic[tickets'[t].report]
                                                                       = Topic[calls'[e].text])
                      /\ \A d \in Caller : /\ calls'[d].step = "insert"
                                           /\ Topic[calls'[d].text] = Topic[calls'[e].text]
                                           => d = e
  BY DEF CreationsSee, SameTopic, TopicOf, At
<1>3. calls'[c].step = "insert" =>
         \E s \in Report : LookUp(c, s) /\ SameTopic(s) = {} /\ calls'[c].text = s
  BY <1>1, Blank DEF NextCall
<1>4. \A d \in Caller : d # c => calls'[d] = calls[d]
  BY <1>1 DEF StepShape
<1>5. ASSUME NEW d \in Caller \ {c}, calls[d].step = "insert",
             calls'[c].step = "insert", Topic[calls'[c].text] = Topic[calls[d].text]
      PROVE  Topic[calls'[c].text] \in doubled'
  <2>1. calls[d].tool = "create"
    BY <1>5 DEF ShapeInv, CallsShaped, CallShaped
  <2>2. PICK s \in Report : LookUp(c, s) /\ SameTopic(s) = {} /\ calls'[c].text = s
    BY <1>3, <1>5
  <2> QED
    BY <1>5, <2>1, <2>2 DEF LookUp
<1>6. CASE e = c
  <2>1. PICK s \in Report : LookUp(c, s) /\ SameTopic(s) = {} /\ calls'[c].text = s
    BY <1>2, <1>3, <1>6
  <2>2. UNCHANGED tickets
    BY <2>1 DEF LookUp
  <2> QED
    BY <1>2, <1>4, <1>5, <1>6, <2>1, <2>2 DEF SameTopic, TopicOf
<1>7. CASE e # c
  <2>1. /\ calls'[e] = calls[e] /\ calls[e].step = "insert" /\ Topic[calls[e].text] \notin doubled
        /\ SameTopic(calls[e].text) = {}
        /\ \A d \in Caller : calls[d].step = "insert" /\ Topic[calls[d].text] = Topic[calls[e].text]
                                => d = e
    BY <1>1, <1>2, <1>4, <1>7 DEF CreationsSee, At, Openings
  <2>2. ASSUME NEW t \in TicketId, IsOpen(tickets'[t]),
               Topic[tickets'[t].report] = Topic[calls[e].text]
        PROVE  FALSE
    <3>1. CASE IsOpen(tickets[t])
      BY <1>1, <2>1, <2>2, <3>1, StaysThere, OpenThere DEF SameTopic, TopicOf
    <3>2. CASE ~IsOpen(tickets[t])
      <4>1. At(c, "insert") /\ tickets'[t].report = calls[c].text
        BY <1>1, <1>2, <2>1, <2>2, <3>2 DEF Openings, Opens
      <4> QED
        BY <1>7, <2>1, <2>2, <4>1 DEF At
    <3> QED
      BY <3>1, <3>2
  <2> QED
    BY <1>2, <1>4, <1>5, <1>7, <2>1, <2>2
<1> QED
  BY <1>6, <1>7

LEMMA OneCaseStep ==
  ASSUME ShapeInv, CreationsSee, AtMostOneCase, EndsWanted, NEW c \in Caller, ToolStep(c)
  PROVE  AtMostOneCase'
<1>1. StepShape(c) /\ Openings(c)
  BY StepShaped, StepOpens
<1>2. ASSUME NEW t \in TicketId, NEW u \in TicketId, IsOpen(tickets'[t]), IsOpen(tickets'[u]),
             t # u, Topic[tickets'[t].report] = Topic[tickets'[u].report], Opens(t)
      PROVE  Topic[tickets'[t].report] \in doubled'
  <2> SUFFICES ASSUME Topic[tickets'[t].report] \notin doubled'
               PROVE  FALSE
    OBVIOUS
  <2>1. At(c, "insert") /\ tickets'[t].report = calls[c].text /\ tickets'[u] = tickets[u]
        /\ Topic[calls[c].text] \notin doubled
    BY <1>1, <1>2 DEF Openings
  <2>2. u \in SameTopic(calls[c].text)
    BY <1>2, <2>1 DEF SameTopic, TopicOf
  <2> QED
    BY <2>1, <2>2 DEF CreationsSee
<1>3. ASSUME NEW t \in TicketId, NEW u \in TicketId, IsOpen(tickets[t]), IsOpen(tickets[u]),
             t # u, Topic[tickets'[t].report] = Topic[tickets'[u].report]
      PROVE  Topic[tickets'[t].report] \in doubled'
  <2>1. tickets'[t].report = tickets[t].report /\ tickets'[u].report = tickets[u].report
    BY <1>1, <1>3, StaysThere, OpenThere
  <2> QED
    BY <1>1, <1>3, <2>1 DEF AtMostOneCase, TopicOf, Openings
<1> QED
  BY <1>2, <1>3 DEF AtMostOneCase, TopicOf, Opens

\* Reports with one title are about one matter.
LEMMA TitleMatter ==
  ASSUME NEW r \in Report, NEW s \in Report, Title[r] = Title[s]
  PROVE  Matter[r] = Matter[s]
  BY ToolsAssumption

LEMMA CopyReport ==
  ASSUME ShapeInv, NEW c \in Caller, calls[c].step \in Copying
  PROVE  /\ calls[c].on \in TicketId /\ Exists(calls[c].on)
         /\ calls[c].copy.report = tickets[calls[c].on].report
         /\ calls[c].copy.report \in Report
  BY DEF ShapeInv, CallsShaped, CallShaped, RowsThere, Row

LEMMA FindsApartStep ==
  ASSUME ShapeInv, FindsApart, EndsWanted, NEW c \in Caller, ToolStep(c)
  PROVE  FindsApart'
<1>1. StepShape(c) /\ NextCall(c) /\ undone \subseteq undone'
  BY StepShaped, StepCall, StepOpens DEF Endings
<1>2. \A d \in Caller \ {c} : calls'[d] = calls[d]
  BY <1>1 DEF StepShape
<1>3. ASSUME NEW d \in Caller \ {c}, Finds(d), Finds(c)',
             Title[calls'[c].copy.report] = Title[calls[d].copy.report]
      PROVE  /\ Matter[calls'[c].copy.report] \in undone'
             /\ Matter[calls[d].copy.report] \in undone'
  <2>1. Scan(c) /\ calls'[c].copy = calls[c].copy /\ calls[c].step = "copied"
    BY <1>1, <1>3, Blank DEF NextCall, Finds, At
  <2>2. Matter[calls[c].copy.report] \in undone'
    <3> DEFINE twins == {u \in TicketId \ {calls[c].on} :
                            /\ IsOpen(tickets[u])
                            /\ Title[tickets[u].report] = Title[calls[c].copy.report]}
    <3>1. PICK u \in IF twins = {} THEN {NoTicket} ELSE twins :
             calls' = [calls EXCEPT ![c].step = "scanned", ![c].other = u]
      BY <2>1 DEF Scan
    <3>2. calls'[c].other = u
      BY <3>1 DEF ShapeInv, CallsShaped, CallRecord
    <3>3. twins # {}
      BY <1>3, <3>1, <3>2 DEF Finds
    <3>4. \E e \in Caller : /\ calls[e].step = "scanned" /\ calls[e].other # NoTicket
                            /\ Title[calls[e].copy.report] = Title[calls[c].copy.report]
      BY <1>3, <2>1 DEF Finds, At
    <3> QED
      BY <2>1, <3>3, <3>4 DEF Scan
  <2>3. Matter[calls[c].copy.report] = Matter[calls[d].copy.report]
    <3>1. calls[d].step \in Copying /\ calls[c].step \in Copying
      BY <1>3, <2>1 DEF Finds, At, Copying
    <3> QED
      BY <1>3, <2>1, <3>1, CopyReport, TitleMatter
  <2> QED
    BY <2>1, <2>2, <2>3
<1>4. ASSUME NEW d \in Caller, NEW e \in Caller, d # e, Finds(d)', Finds(e)',
             Title[calls'[d].copy.report] = Title[calls'[e].copy.report]
      PROVE  Matter[calls'[d].copy.report] \in undone'
  <2>1. CASE d # c /\ e # c
    BY <1>1, <1>2, <1>4, <2>1 DEF FindsApart, Finds, At
  <2>2. CASE d = c
    BY <1>2, <1>3, <1>4, <2>2 DEF Finds, At
  <2>3. CASE e = c
    BY <1>2, <1>3, <1>4, <2>3 DEF Finds, At
  <2> QED
    BY <2>1, <2>2, <2>3
<1> QED
  BY <1>4 DEF FindsApart

LEMMA FindsStayStep ==
  ASSUME ShapeInv, FindsStay, FindsApart, EndsWanted, NEW c \in Caller, ToolStep(c)
  PROVE  FindsStay'
<1>1. StepShape(c) /\ NextCall(c) /\ Endings(c)
  BY StepShaped, StepCall, StepOpens
<1>2. SUFFICES ASSUME NEW d \in Caller, Finds(d)',
                      Matter[calls'[d].copy.report] \notin ended' \cup undone'
               PROVE  /\ calls'[d].other \in TicketId \ {calls'[d].on}
                      /\ IsOpen(tickets'[calls'[d].other])
                      /\ Title[tickets'[calls'[d].other].report] = Title[calls'[d].copy.report]
  BY DEF FindsStay
<1>3. CASE d = c
  <2>1. Scan(c) /\ calls'[c].copy = calls[c].copy /\ calls'[c].on = calls[c].on
    BY <1>1, <1>2, <1>3, Blank DEF NextCall, Finds, At
  <2> DEFINE twins == {u \in TicketId \ {calls[c].on} :
                          /\ IsOpen(tickets[u])
                          /\ Title[tickets[u].report] = Title[calls[c].copy.report]}
  <2>2. PICK u \in IF twins = {} THEN {NoTicket} ELSE twins :
           calls' = [calls EXCEPT ![c].step = "scanned", ![c].other = u]
    BY <2>1 DEF Scan
  <2>3. calls'[c].other = u /\ UNCHANGED tickets
    BY <2>1, <2>2 DEF ShapeInv, CallsShaped, CallRecord, Scan
  <2>4. u \in twins
    BY <1>2, <1>3, <2>2, <2>3 DEF Finds
  <2> QED
    BY <1>3, <2>1, <2>3, <2>4
<1>4. CASE d # c
  <2> DEFINE u == calls[d].other
             m == Matter[calls[d].copy.report]
  <2>1. calls'[d] = calls[d] /\ Finds(d)
    BY <1>1, <1>2, <1>4 DEF StepShape, Finds, At
  <2>2. m \notin ended' \cup undone' /\ m \notin ended \cup undone
    BY <1>1, <1>2, <2>1 DEF Endings
  <2>3. /\ u \in TicketId \ {calls[d].on} /\ IsOpen(tickets[u])
        /\ Title[tickets[u].report] = Title[calls[d].copy.report]
    BY <2>1, <2>2 DEF FindsStay
  <2>4. tickets'[u].report = tickets[u].report /\ tickets[u].report \in Report
    BY <1>1, <2>3, OpenThere, StaysThere
  <2>5. calls[d].copy.report \in Report
    BY <2>1, CopyReport DEF Finds, At, Copying
  <2>6. MatterOf(u) = m
    BY <2>3, <2>4, <2>5, TitleMatter DEF MatterOf
  <2>7. ~(Finds(c) /\ calls[c].on = u)
    <3> SUFFICES ASSUME Finds(c), calls[c].on = u
                 PROVE  FALSE
      OBVIOUS
    <3>1. calls[c].copy.report = tickets[u].report
      BY CopyReport DEF Finds, At, Copying
    <3> QED
      BY <1>4, <2>1, <2>2, <2>3, <3>1 DEF FindsApart
  <2>8. IsOpen(tickets'[u])
    BY <1>1, <2>2, <2>3, <2>6, <2>7 DEF Endings, Closes
  <2> QED
    BY <2>1, <2>3, <2>4, <2>8
<1> QED
  BY <1>3, <1>4

LEMMA SomeCaseStep ==
  ASSUME ShapeInv, SomeCase, FindsStay, EndsWanted, NEW c \in Caller, ToolStep(c)
  PROVE  SomeCase'
<1>1. StepShape(c) /\ Endings(c)
  BY StepShaped, StepOpens
<1>2. SUFFICES ASSUME NEW p \in reported', p \notin ended' \cup undone'
               PROVE  \E t \in TicketId : IsOpen(tickets'[t]) /\ Matter[tickets'[t].report] = p
  BY DEF SomeCase, MatterOf
<1>3. p \notin ended \cup undone
  BY <1>1, <1>2 DEF Endings
<1>4. ASSUME NEW t \in TicketId, IsOpen(tickets[t]), MatterOf(t) = p
      PROVE  \E u \in TicketId : IsOpen(tickets'[u]) /\ Matter[tickets'[u].report] = p
  <2>1. Matter[tickets'[t].report] = p /\ tickets[t].report \in Report
    BY <1>1, <1>4, StaysThere, OpenThere DEF MatterOf
  <2>2. CASE IsOpen(tickets'[t])
    BY <2>1, <2>2
  <2>3. CASE ~IsOpen(tickets'[t])
    <3> DEFINE u == calls[c].other
    <3>1. /\ Finds(c) /\ calls[c].on = t
          /\ \A v \in TicketId \ {t} : tickets'[v] = tickets[v]
      BY <1>1, <1>2, <1>4, <2>3 DEF Endings, Closes
    <3>2. calls[c].copy.report = tickets[t].report
      BY <3>1, CopyReport DEF Finds, At, Copying
    <3>3. /\ u \in TicketId \ {t} /\ IsOpen(tickets[u])
          /\ Title[tickets[u].report] = Title[tickets[t].report]
      BY <1>3, <1>4, <3>1, <3>2 DEF FindsStay, MatterOf
    <3>4. tickets[u].report \in Report
      BY <1>1, <3>3, StaysThere, OpenThere
    <3>5. Matter[tickets[u].report] = p
      BY <1>4, <2>1, <3>3, <3>4, TitleMatter DEF MatterOf
    <3> QED
      BY <3>1, <3>3, <3>5
  <2> QED
    BY <2>2, <2>3
<1>5. ASSUME NEW t \in TicketId, NEW s \in Report, ~Exists(t), p = Matter[s],
             tickets' = [tickets EXCEPT ![t] = NewRow(s)]
      PROVE  \E u \in TicketId : IsOpen(tickets'[u]) /\ Matter[tickets'[u].report] = p
  <2>1. tickets'[t] = NewRow(s) /\ NewRow(s) \in Row
    BY <1>5, NewRowShape
  <2>2. IsOpen(NewRow(s)) /\ NewRow(s).report = s
    BY <2>1, OpenStatus DEF NewRow
  <2> QED
    BY <1>5, <2>1, <2>2
<1>6. CASE p \in reported
  BY <1>3, <1>4, <1>6 DEF SomeCase
<1>7. ASSUME NEW s \in Report, LookUp(c, s), p = Matter[s], SameTopic(s) # {}
      PROVE  \E u \in TicketId : IsOpen(tickets'[u]) /\ Matter[tickets'[u].report] = p
  <2>1. PICK t \in TicketId : IsOpen(tickets[t]) /\ Topic[tickets[t].report] = Topic[s]
    BY <1>7 DEF SameTopic, TopicOf
  <2>2. tickets[t].report \in Report
    BY <1>1, <2>1, StaysThere, OpenThere
  <2>3. MatterOf(t) = p
    BY <1>7, <2>1, <2>2, ToolsAssumption DEF MatterOf
  <2> QED
    BY <1>4, <2>1, <2>3
<1>8. CASE p \notin reported
  <2>1. \/ \E s \in Report : LookUp(c, s) /\ p = Matter[s] /\ SameTopic(s) # {}
        \/ \E t \in TicketId : Insert(c, t) /\ p = Matter[calls[c].text]
        \/ \E s \in Report, t \in TicketId : PortalRow(c, s, t) /\ p = Matter[s]
    <3>1. reported' # reported
      BY <1>2, <1>8
    <3>2. \/ \E s \in Report : LookUp(c, s)
          \/ \E t \in TicketId : Insert(c, t)
          \/ \E s \in Report, t \in TicketId : PortalRow(c, s, t)
      BY <3>1 DEF ToolStep, PortalEvent, TakeLock, SaveSummary, SaveReopened, Read, Scan,
                  SaveCopy, MarkCancelled, RestoreRow, BreakOff, toolGhosts
    <3> QED
      BY <1>2, <1>8, <3>2 DEF LookUp, Insert, PortalRow
  <2>2. ASSUME NEW t \in TicketId, Insert(c, t), p = Matter[calls[c].text]
        PROVE  \E u \in TicketId : IsOpen(tickets'[u]) /\ Matter[tickets'[u].report] = p
    <3>1. calls[c].text \in Report
      BY <2>2 DEF Insert, At, ShapeInv, CallsShaped, CallShaped
    <3> QED
      BY <1>5, <2>2, <3>1 DEF Insert
  <2> QED
    BY <1>5, <1>7, <2>1, <2>2 DEF PortalRow
<1> QED
  BY <1>6, <1>8

-----------------------------------------------------------------------------

\* A row is new by a creation or by the portal only.
LEMMA NewRows ==
  ASSUME ShapeInv, NEW c \in Caller, ToolStep(c), NEW t \in TicketId, ~Exists(t), Exists(t)'
  PROVE  \/ Insert(c, t)
         \/ \E s \in Report : PortalRow(c, s, t) /\ calls'[c].step = "announce" /\ calls'[c].on = t
<1>1. tickets'[t] # tickets[t]
  BY DEF Exists
<1>2. \A u \in TicketId : \A new : Save(u, new) /\ Exists(u) => FALSE
  BY <1>1 DEF Save, ShapeInv, ToolsTypeOK
<1>3. ASSUME SaveSummary(c) \/ SaveReopened(c)
      PROVE  FALSE
  <2>1. calls[c].on \in TicketId /\ Exists(calls[c].on)
    BY <1>3, LockedThere DEF SaveSummary, SaveReopened
  <2> QED
    BY <1>1, <1>2, <1>3, <2>1 DEF SaveSummary, SaveReopened
<1>4. ASSUME SaveCopy(c)
      PROVE  FALSE
  <2>1. calls[c].on \in TicketId /\ Exists(calls[c].on)
    BY <1>4, ResultRows DEF SaveCopy, At
  <2> QED
    BY <1>1, <1>2, <1>4, <2>1 DEF SaveCopy
<1>5. ASSUME MarkCancelled(c)
      PROVE  FALSE
  <2>1. calls[c].on \in TicketId /\ Exists(calls[c].on)
    BY <1>5 DEF MarkCancelled, At, ShapeInv, CallsShaped, CallShaped, RowsThere
  <2> QED
    BY <1>2, <1>5, <2>1 DEF MarkCancelled
<1>6. ASSUME NEW u \in TicketId, RestoreRow(c, u)
      PROVE  FALSE
  BY <1>2, <1>6 DEF RestoreRow
<1>7. ASSUME NEW u \in TicketId, Insert(c, u)
      PROVE  u = t
  BY <1>1, <1>7 DEF Insert, ShapeInv, ToolsTypeOK
<1>8. ASSUME NEW s \in Report, NEW u \in TicketId, PortalRow(c, s, u)
      PROVE  u = t /\ calls'[c].step = "announce" /\ calls'[c].on = t
  <2>1. u = t
    BY <1>1, <1>8 DEF PortalRow, ShapeInv, ToolsTypeOK
  <2> DEFINE k == [Ready EXCEPT !.tool = "portal", !.step = "announce", !.on = t]
  <2>2. k.step = "announce" /\ k.on = t
    BY DEF Ready
  <2>3. calls' = [calls EXCEPT ![c] = k]
    BY <1>8, <2>1 DEF PortalRow
  <2> HIDE DEF k
  <2> QED
    BY <2>1, <2>2, <2>3 DEF ShapeInv, CallsShaped
<1> QED
  BY <1>1, <1>3, <1>4, <1>5, <1>6, <1>7, <1>8
  DEF ToolStep, LookUp, PortalEvent, TakeLock, Read, Scan, BreakOff

LEMMA AnnouncedStep ==
  ASSUME ShapeInv, EachAnnounced, NEW c \in Caller, ToolStep(c)
  PROVE  EachAnnounced'
<1>1. StepShape(c)
  BY StepShaped
<1>2. announced \subseteq announced' /\ silent \subseteq silent'
  BY DEF ToolStep, LookUp, Insert, PortalRow, PortalEvent, TakeLock, SaveSummary, SaveReopened,
         Read, Scan, SaveCopy, MarkCancelled, RestoreRow, BreakOff, toolGhosts
<1>3. At(c, "announce") => calls[c].on \in announced' \cup silent'
  <2>1. At(c, "announce") => PortalEvent(c) \/ BreakOff(c)
    BY Blank DEF ToolStep, LookUp, Insert, PortalRow, TakeLock, SaveSummary, SaveReopened, Read,
                 Scan, SaveCopy, MarkCancelled, RestoreRow, At, Unused
  <2> QED
    BY <2>1 DEF PortalEvent, BreakOff
<1>4. SUFFICES ASSUME NEW t \in TicketId, Exists(t)'
               PROVE  \/ t \in announced' \cup silent'
                      \/ \E d \in Caller : calls'[d].step = "announce" /\ calls'[d].on = t
  BY DEF EachAnnounced, At
<1>5. CASE Exists(t)
  <2>1. ASSUME NEW d \in Caller, At(d, "announce"), calls[d].on = t
        PROVE  \/ t \in announced' \cup silent'
               \/ calls'[d].step = "announce" /\ calls'[d].on = t
    BY <1>1, <1>3, <2>1 DEF StepShape, At
  <2> QED
    BY <1>2, <1>5, <2>1 DEF EachAnnounced
<1>6. CASE ~Exists(t)
  BY <1>4, <1>6, NewRows DEF Insert
<1> QED
  BY <1>5, <1>6

\* A step keeps every history, or takes it from a copy, or declares it written
\* anew; what it saves is in the history afterwards.
Histories(c) ==
    /\ exposed \subseteq exposed' /\ rewritten \subseteq rewritten'
    /\ \A t \in TicketId : Exists(t) =>
          \/ tickets[t].history \subseteq tickets'[t].history
          \/ t \in rewritten'
          \/ /\ calls[c].step \in {"copied", "scanned"} /\ calls[c].on = t
             /\ calls[c].copy.history \subseteq tickets'[t].history
             /\ saved' = saved
    /\ \A p \in saved' \ saved : /\ Exists(p[1]) /\ p[2] \in tickets'[p[1]].history
                                 /\ p \in exposed' \/ ~CopyOut(p[1])

LEMMA RowsRestHistories ==
  ASSUME NEW c \in Caller, UNCHANGED <<tickets, saved, exposed, rewritten>>
  PROVE  Histories(c)
  BY DEF Histories

LEMMA NewHistories ==
  ASSUME ShapeInv, NEW c \in Caller, NEW t \in TicketId, NEW s \in Report, ~Exists(t),
         tickets' = [tickets EXCEPT ![t] = NewRow(s)], UNCHANGED <<saved, exposed, rewritten>>
  PROVE  Histories(c)
<1>1. \A u \in TicketId \ {t} : tickets'[u] = tickets[u]
  BY NewRowShape
<1> QED
  BY <1>1 DEF Histories

LEMMA SummaryHistories ==
  ASSUME ShapeInv, NEW c \in Caller, SaveSummary(c) PROVE Histories(c)
<1> DEFINE t == calls[c].on
           d == calls[c].text
           new == [tickets[t] EXCEPT !.history = @ \cup {d}]
<1>1. t \in TicketId /\ Exists(t) /\ calls[c].copy = tickets[t] /\ tickets[t] \in Row
  BY LockedThere DEF SaveSummary
<1>2. \/ UNCHANGED <<tickets, saved, exposed>>
      \/ /\ tickets' = [tickets EXCEPT ![t] = new]
         /\ saved' = saved \cup {<<t, d>>}
         /\ exposed' = IF CopyOut(t) THEN exposed \cup {<<t, d>>} ELSE exposed
  BY <1>1 DEF SaveSummary, Save
<1>3. UNCHANGED rewritten
  BY DEF SaveSummary
<1>4. new.history = tickets[t].history \cup {d}
  BY <1>1 DEF Row
<1> HIDE DEF t, d, new
<1>5. CASE /\ tickets' = [tickets EXCEPT ![t] = new]
           /\ saved' = saved \cup {<<t, d>>}
           /\ exposed' = IF CopyOut(t) THEN exposed \cup {<<t, d>>} ELSE exposed
  <2>1. tickets'[t] = new /\ \A u \in TicketId \ {t} : tickets'[u] = tickets[u]
    BY <1>1, <1>5 DEF ShapeInv, ToolsTypeOK
  <2>2. \A u \in TicketId : tickets[u].history \subseteq tickets'[u].history
    BY <1>4, <2>1
  <2>3. \A p \in saved' \ saved : p = <<t, d>>
    BY <1>5
  <2>4. exposed \subseteq exposed'
    BY <1>5
  <2> QED
    BY <1>1, <1>3, <1>4, <1>5, <2>1, <2>2, <2>3, <2>4 DEF Histories
<1> QED
  BY <1>2, <1>3, <1>5, RowsRestHistories

\* A row whose other columns change keeps its history.
LEMMA StatusHistories ==
  ASSUME ShapeInv, NEW c \in Caller, NEW t \in TicketId, Exists(t), NEW new \in Row,
         new.history = tickets[t].history, Save(t, new), UNCHANGED <<saved, exposed, rewritten>>
  PROVE  Histories(c)
<1>1. tickets'[t] = new /\ \A u \in TicketId \ {t} : tickets'[u] = tickets[u]
  BY DEF Save, ShapeInv, ToolsTypeOK
<1> QED
  BY <1>1 DEF Histories

LEMMA ReopenedHistories ==
  ASSUME ShapeInv, NEW c \in Caller, SaveReopened(c) PROVE Histories(c)
<1> DEFINE t == calls[c].on
<1>1. /\ t \in TicketId /\ Exists(t) /\ calls[c].copy = tickets[t] /\ tickets[t] \in Row
  BY LockedThere DEF SaveReopened
<1>2. PICK new \in Row : new.history = tickets[t].history /\ Save(t, new)
  <2> DEFINE again == [tickets[t] EXCEPT !.status = "REOPENED"]
  <2>1. again \in Row /\ again.history = tickets[t].history
    BY <1>1 DEF Row, RowStatus
  <2> QED
    BY <1>1, <2>1 DEF SaveReopened
<1>3. UNCHANGED <<saved, exposed, rewritten>>
  BY DEF SaveReopened
<1> HIDE DEF t
<1> QED
  BY <1>1, <1>2, <1>3, StatusHistories

LEMMA RestedHistories ==
  ASSUME ShapeInv, NEW c \in Caller, NEW t \in TicketId, Exists(t), NEW s \in RowStatus,
         Save(t, [tickets[t] EXCEPT !.status = s]), UNCHANGED <<saved, exposed, rewritten>>
  PROVE  Histories(c)
<1>1. tickets[t] \in Row
  BY DEF ShapeInv, ToolsTypeOK, Exists
<1>2. /\ [tickets[t] EXCEPT !.status = s] \in Row
      /\ [tickets[t] EXCEPT !.status = s].history = tickets[t].history
  BY <1>1 DEF Row
<1> QED
  BY <1>2, StatusHistories

LEMMA CopyHistories ==
  ASSUME ShapeInv, NEW c \in Caller, SaveCopy(c) PROVE Histories(c)
<1> DEFINE t == calls[c].on
<1>1. calls[c].step \in {"copied", "scanned"} /\ UNCHANGED <<saved, exposed>>
  BY DEF SaveCopy, At
<1>2. t \in TicketId /\ Exists(t) /\ calls[c].copy \in Row
  BY <1>1, ResultRows
<1>3. ASSUME UNCHANGED <<tickets, rewritten>>
      PROVE  Histories(c)
  BY <1>1, <1>3, RowsRestHistories
<1>4. ASSUME NEW new \in Results(c), Save(t, new),
             rewritten' = IF calls[c].tool = "digest" THEN rewritten \cup {t} ELSE rewritten
      PROVE  Histories(c)
  <2>1. tickets'[t] = new /\ \A u \in TicketId \ {t} : tickets'[u] = tickets[u]
    BY <1>2, <1>4 DEF Save, ShapeInv, ToolsTypeOK
  <2>2. calls[c].tool # "digest" => new.history = calls[c].copy.history
    BY <1>2, <1>4 DEF Results, Row
  <2>3. rewritten \subseteq rewritten'
    BY <1>4
  <2>4. t \in rewritten' \/ calls[c].copy.history \subseteq tickets'[t].history
    BY <1>4, <2>1, <2>2
  <2>5. \A u \in TicketId : Exists(u) =>
          \/ tickets[u].history \subseteq tickets'[u].history
          \/ u \in rewritten'
          \/ u = t /\ calls[c].copy.history \subseteq tickets'[u].history
    BY <2>1, <2>4
  <2> HIDE DEF t
  <2> QED
    BY <1>1, <2>3, <2>5 DEF Histories, t
<1> QED
  BY <1>3, <1>4 DEF SaveCopy

LEMMA StepHistories == ASSUME ShapeInv, NEW c \in Caller, ToolStep(c) PROVE Histories(c)
<1>1. ASSUME NEW s \in Report, \/ LookUp(c, s)
                               \/ \E t \in TicketId : PortalRow(c, s, t)
      PROVE  Histories(c)
  BY <1>1, RowsRestHistories, NewHistories DEF LookUp, PortalRow
<1>2. ASSUME NEW t \in TicketId, Insert(c, t)
      PROVE  Histories(c)
  <2>1. calls[c].text \in Report
    BY <1>2 DEF Insert, At, ShapeInv, CallsShaped, CallShaped
  <2> QED
    BY <1>2, <2>1, NewHistories DEF Insert
<1>3. ASSUME NEW tool, NEW t \in TicketId, NEW o,
             TakeLock(c, tool, t, o) \/ Read(c, tool, t, o)
      PROVE  Histories(c)
  BY <1>3, RowsRestHistories DEF TakeLock, Read, toolGhosts
<1>4. ASSUME PortalEvent(c) \/ Scan(c) \/ BreakOff(c)
      PROVE  Histories(c)
  BY <1>4, RowsRestHistories DEF PortalEvent, Scan, BreakOff, toolGhosts
<1>5. ASSUME MarkCancelled(c)
      PROVE  Histories(c)
  <2>1. calls[c].on \in TicketId /\ Exists(calls[c].on)
    BY <1>5 DEF MarkCancelled, At, ShapeInv, CallsShaped, CallShaped, RowsThere
  <2> QED
    BY <1>5, <2>1, RestedHistories DEF MarkCancelled, RowStatus
<1>6. ASSUME NEW t \in TicketId, RestoreRow(c, t)
      PROVE  Histories(c)
  BY <1>6, RestedHistories DEF RestoreRow, RowStatus
<1> QED
  BY <1>1, <1>2, <1>3, <1>4, <1>5, <1>6, SummaryHistories, ReopenedHistories, CopyHistories
  DEF ToolStep

LEMMA HistoryStep ==
  ASSUME ShapeInv, CopiesTell, SavedThere, HistoryKept, NEW c \in Caller, ToolStep(c)
  PROVE  CopiesTell' /\ SavedThere' /\ HistoryKept'
<1>1. StepShape(c) /\ NextCall(c) /\ Histories(c) /\ saved' \subseteq TicketId \X Detail
  BY StepShaped, StepCall, StepHistories, StepTyped DEF ShapeInv, ToolsTypeOK
<1>2. \A p \in saved' \ exposed' : p[1] \in TicketId /\ (p \in saved => p \in saved \ exposed)
  BY <1>1 DEF Histories
<1>3. SavedThere'
  <2>1. \A p \in saved' : p[1] \in TicketId /\ Exists(p[1])
    BY <1>1 DEF Histories, SavedThere
  <2> QED
    BY <1>1, <2>1, StaysThere DEF SavedThere, Exists
<1>4. HistoryKept'
  <2> SUFFICES ASSUME NEW p \in saved' \ exposed'
               PROVE  p[1] \in rewritten' \/ p[2] \in tickets'[p[1]].history
    BY DEF HistoryKept
  <2>1. CASE p \in saved
    BY <1>1, <1>2, <2>1 DEF Histories, HistoryKept, SavedThere, CopiesTell
  <2>2. CASE p \notin saved
    BY <1>1, <2>2 DEF Histories
  <2> QED
    BY <2>1, <2>2
<1>5. CopiesTell'
  <2> SUFFICES ASSUME NEW d \in Caller, NEW p \in saved' \ exposed',
                      calls'[d].step \in {"copied", "scanned"}, calls'[d].on = p[1]
               PROVE  p[1] \in rewritten' \/ p[2] \in calls'[d].copy.history
    BY DEF CopiesTell
  <2>1. rewritten \subseteq rewritten'
    BY <1>1 DEF Histories
  <2>2. CASE d # c
    <3>1. calls'[d] = calls[d]
      BY <1>1, <2>2 DEF StepShape
    <3>2. p \in saved
      BY <1>1, <3>1 DEF Histories, CopyOut
    <3> QED
      BY <1>2, <2>1, <3>1, <3>2 DEF CopiesTell
  <2>3. ASSUME d = c, Scan(c), calls[c].step = "copied", calls'[c].on = calls[c].on,
               calls'[c].copy = calls[c].copy
        PROVE  p[1] \in rewritten' \/ p[2] \in calls'[d].copy.history
    <3>1. UNCHANGED <<saved, exposed, rewritten>>
      BY <2>3 DEF Scan
    <3> QED
      BY <2>3, <3>1 DEF CopiesTell
  <2>4. ASSUME d = c, NEW tool, NEW t \in TicketId, NEW o, Read(c, tool, t, o),
               calls'[c].on = t, calls'[c].copy = tickets[t]
        PROVE  p[1] \in rewritten' \/ p[2] \in calls'[d].copy.history
    <3>1. UNCHANGED <<saved, exposed, rewritten>>
      BY <2>4 DEF Read
    <3> QED
      BY <2>4, <3>1 DEF HistoryKept
  <2> QED
    BY <1>1, <2>2, <2>3, <2>4, Blank DEF NextCall
<1> QED
  BY <1>3, <1>4, <1>5

LEMMA ToolsInitInv == ToolsInit => ToolsInv
<1> SUFFICES ASSUME ToolsInit PROVE ToolsInv
  OBVIOUS
<1>1. ShapeInv /\ calls = [c \in Caller |-> Ready]
  BY ToolsInitShape DEF ToolsInit
<1>2. CreationsSee /\ EndsWanted /\ FindsStay /\ FindsApart /\ CopiesTell
  BY <1>1, Blank DEF CreationsSee, EndsWanted, FindsStay, FindsApart, CopiesTell, At, Finds
<1>3. AtMostOneCase
  <2> SUFFICES ASSUME NEW t \in TicketId, NEW u \in TicketId, IsOpen(tickets[t]),
                      IsOpen(tickets[u]), t # u, TopicOf(t) = TopicOf(u)
               PROVE  FALSE
    BY DEF AtMostOneCase
  <2> DEFINE s == tickets[t].report
  <2>1. tickets[t] \in Row
    BY <1>1, OpenThere DEF ShapeInv, ToolsTypeOK, Exists
  <2>2. s \in Report
    BY <2>1 DEF Row
  <2>3. {t, u} \subseteq SameTopic(s)
    BY DEF SameTopic, TopicOf
  <2>4. IsFiniteSet(SameTopic(s)) /\ Cardinality(SameTopic(s)) <= 1
    <3>1. SameTopic(s) \subseteq TicketId
      BY DEF SameTopic
    <3> QED
      BY <2>2, <3>1, ToolsAssumption, FS_Subset DEF ToolsInit
  <2>5. Cardinality({t, u}) = 2
    <3>1. IsFiniteSet({t}) /\ Cardinality({t}) = 1
      BY FS_Singleton
    <3>2. Cardinality({t} \cup {u}) = Cardinality({t}) + 1
      BY <3>1, FS_AddElement
    <3>3. {t} \cup {u} = {t, u}
      OBVIOUS
    <3> QED
      BY <3>1, <3>2, <3>3
  <2>6. Cardinality({t, u}) <= Cardinality(SameTopic(s))
    BY <2>3, <2>4, FS_Subset
  <2>7. Cardinality(SameTopic(s)) \in Nat
    BY <2>4, FS_CardinalityType
  <2> QED
    BY <2>4, <2>5, <2>6, <2>7
<1>4. SomeCase /\ EachAnnounced /\ SavedThere /\ HistoryKept
  BY DEF ToolsInit, SomeCase, EachAnnounced, SavedThere, HistoryKept
<1> QED
  BY <1>1, <1>2, <1>3, <1>4 DEF ToolsInv

LEMMA ToolsNextInv == ToolsInv /\ [ToolsNext]_toolVars => ToolsInv'
<1> SUFFICES ASSUME ToolsInv, [ToolsNext]_toolVars PROVE ToolsInv'
  OBVIOUS
<1>1. CASE UNCHANGED toolVars
  BY <1>1 DEF toolVars, toolGhosts, ToolsInv, ShapeInv, ToolsTypeOK, CallsShaped, RowsThere,
     LocksHold, CreationsSee, AtMostOneCase, EndsWanted, FindsStay, FindsApart, SomeCase,
     EachAnnounced, CopiesTell, SavedThere, HistoryKept, At, Finds, Exists, TopicOf, MatterOf,
     SameTopic
<1>2. ASSUME NEW c \in Caller, ToolStep(c)
      PROVE  ToolsInv'
  BY <1>2, StepTyped, CreationsStep, OneCaseStep, WantedStep, FindsStayStep, FindsApartStep,
     SomeCaseStep, AnnouncedStep, HistoryStep DEF ToolsInv
<1> QED
  BY <1>1, <1>2 DEF ToolsNext

\* Calls, rows and locks keep their shape and what they say of the past.
THEOREM ToolsInductive == ToolsSpec => []ToolsInv
  BY ToolsInitInv, ToolsNextInv, PTL DEF ToolsSpec

\* Every variable of TicketTools keeps its type.
THEOREM ToolsTyped == ToolsSpec => []ToolsTypeOK
<1>1. ToolsInv => ToolsTypeOK
  BY DEF ToolsInv, ShapeInv
<1> QED
  BY <1>1, ToolsInductive, PTL

\* Reports are neither doubled nor lost, and each ticket is announced, for any
\* number of calls that overlap in any way.
THEOREM Accounted == ToolsSpec => []CasesAccounted
<1>1. ToolsInv => CasesAccounted
  BY DEF ToolsInv, CasesAccounted
<1> QED
  BY <1>1, ToolsInductive, PTL

\* What update_summary committed stays in the history, for any number of
\* overlapping calls.
THEOREM HistoriesKept == ToolsSpec => []HistoryKept
<1>1. ToolsInv => HistoryKept
  BY DEF ToolsInv
<1> QED
  BY <1>1, ToolsInductive, PTL

-----------------------------------------------------------------------------
(* Side by side.                                                           *)

\* A behaviour of the composition is one of each module, one of them at rest:
\* what holds of a module holds in the composition.
THEOREM SideBySide == TicketsSpec => Spec /\ ToolsSpec
<1>1. TicketsInit => Init /\ ToolsInit
  BY DEF TicketsInit
<1>2. [TicketsNext]_<<part, syncVars, toolVars>> => [Next]_vars /\ [ToolsNext]_toolVars
  BY DEF TicketsNext, SyncStep, ToolsStep, syncVars, vars, ticket, plane, ghosts
<1> QED
  BY <1>1, <1>2, PTL DEF TicketsSpec, Spec, ToolsSpec

\* Every variable of both modules keeps its type.
THEOREM BothTyped == TicketsSpec => []TicketsTypeOK
<1>1. TypeOK /\ ToolsTypeOK <=> TicketsTypeOK
  BY DEF TicketsTypeOK
<1> QED
  BY <1>1, SideBySide, TypeCorrect, ToolsTyped, PTL
=============================================================================
