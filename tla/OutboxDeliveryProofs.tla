------------------------- MODULE OutboxDeliveryProofs -------------------------
(***************************************************************************)
(* Theorems of OutboxDelivery, for any number of processes, rows, attempts *)
(* and troubles.                                                           *)
(***************************************************************************)
EXTENDS OutboxDelivery, FiniteSetTheorems, WellFoundedInduction, TLAPS

Row == [status: {"none", "pending", "processed", "dead_letter"}, attempts: Nat,
        kind: {"none"} \cup Verdict, due: BOOLEAN]

(***************************************************************************)
(* Helpers.                                                                *)
(***************************************************************************)

\* A batch has an oldest event.
LEMMA CurrentIsHeld ==
  ASSUME OutboxAssumption, NEW p, todo[p] \subseteq Id, todo[p] # {}
  PROVE  Current(p) \in todo[p]
<1> DEFINE less == OpToRel(<, Nat)
<1>1. todo[p] \subseteq Nat
  BY DEF Id, OutboxAssumption
<1>2. \E e \in todo[p] : \A f \in todo[p] : <<f, e>> \notin less
  BY <1>1, NatLessThanWellFounded, WFMin
<1>3. \A e, f \in Nat : f < e => <<f, e>> \in less
  <2> SUFFICES ASSUME NEW e \in Nat, NEW f \in Nat, f < e
               PROVE  <<f, e>> \in {ss \in Nat \X Nat : ss[1] < ss[2]}
    BY DEF OpToRel
  <2> QED
    OBVIOUS
<1> HIDE DEF less
<1>4. \E e \in todo[p] : \A f \in todo[p] : e <= f
  <2>1. PICK e \in todo[p] : \A f \in todo[p] : <<f, e>> \notin less
    BY <1>2
  <2>2. ASSUME NEW f \in todo[p] PROVE e <= f
    <3>1. e \in Nat /\ f \in Nat
      BY <1>1
    <3>2. ~(f < e)
      BY <1>3, <2>1, <3>1
    <3> QED
      BY <3>1, <3>2
  <2> QED
    BY <2>2
<1> QED
  BY <1>4 DEF Current

\* It depends on nothing but the batch.
LEMMA CurrentStays ==
  ASSUME NEW p, todo'[p] = todo[p]
  PROVE  Current(p)' = Current(p)
  BY DEF Current

LEMMA IdFacts == Id \subseteq Nat /\ MaxAttempts \in Nat \ {0}
  BY OutboxAssumption DEF Id, OutboxAssumption

(***************************************************************************)
(* The inductive invariant.                                                *)
(***************************************************************************)

\* A pass is under way as long as its batch is not finished.
PassInv == \A p \in Proc : at[p] \in {"down", "idle"} <=> todo[p] = {}

\* What is marked, or about to be, took effect.
EffectInv ==
  /\ \A e \in Id : row[e].status = "processed" => effects[e] > 0
  /\ \A p \in Proc : at[p] = "mark" => effects[Current(p)] > 0

\* Attempts, in the table or in a batch, were failures; the one that is
\* being recorded is one more than those the batch was read with.
BudgetInv ==
  /\ \A e \in Id :
       /\ row[e].attempts <= failures[e]
       /\ row[e].status = "dead_letter" /\ row[e].kind = "transient"
            => failures[e] >= MaxAttempts
  /\ \A p \in Proc, e \in Id : seen[p][e] <= failures[e]
  /\ \A p \in Proc : at[p] = "record" => seen[p][Current(p)] + 1 <= failures[Current(p)]

\* Processes that hold the event and may bring about its effect, now or by
\* leaving it pending.
May(e) == {p \in Proc : e \in todo[p] /\ ~(at[p] = "mark" /\ Current(p) = e)}
Held(e) == \E p \in Proc : e \in todo[p]
Hope(e) == IF Held(e) THEN Cardinality(May(e))
           ELSE IF row[e].status = "processed" THEN 0 ELSE 1

\* The effects there were, and those that may come without another excuse.
CauseInv == \A e \in Id : IsFiniteSet(May(e)) /\ effects[e] + Hope(e) <= 1 + excuses[e]

IInv == OutboxTypeOK /\ PassInv /\ EffectInv /\ BudgetInv

LEMMA InitInv == OutboxInit => IInv
<1> SUFFICES ASSUME OutboxInit PROVE IInv
  OBVIOUS
<1>1. NoRow \in Row /\ NoRow.status = "none" /\ NoRow.attempts = 0
  BY DEF NoRow, Row
<1>2. OutboxTypeOK
  BY <1>1 DEF OutboxInit, OutboxTypeOK, Row, Verdict
<1>3. \A e \in Id : row[e] = NoRow
  BY DEF OutboxInit
<1>4. PassInv /\ EffectInv /\ BudgetInv
  BY <1>1, <1>3 DEF OutboxInit, PassInv, EffectInv, BudgetInv
<1> QED
  BY <1>2, <1>4 DEF IInv

LEMMA RowType == OutboxTypeOK => row \in [Id -> Row]
  BY DEF OutboxTypeOK, Row

LEMMA Here ==
  ASSUME IInv, NEW p \in Proc, at[p] \in {"dispatch", "mark", "record"}
  PROVE  Current(p) \in todo[p] /\ Current(p) \in Id
<1>1. todo[p] \subseteq Id /\ todo[p] # {}
  BY DEF IInv, OutboxTypeOK, PassInv
<1> QED
  BY <1>1, CurrentIsHeld, OutboxAssumption

(***************************************************************************)
(* The table's own steps.                                                  *)
(***************************************************************************)

LEMMA TableInv ==
  ASSUME IInv, NEW e \in Id, InsertRow(e) \/ FallDue(e) \/ RequeueDeadLetter(e)
  PROVE  IInv'
<1>1. UNCHANGED <<passes, ghosts>> /\ troubles' \in Nat
  BY DEF InsertRow, FallDue, RequeueDeadLetter, IInv, OutboxTypeOK
<1>2. Fresh \in Row /\ Fresh.status = "pending" /\ Fresh.attempts = 0
  BY DEF Fresh, NoRow, Row
<1>3. /\ row' \in [Id -> Row]
      /\ \A f \in Id \ {e} : row'[f] = row[f]
      /\ row'[e].status = "pending" /\ row'[e].attempts \in {0, row[e].attempts}
  <2>1. row \in [Id -> Row]
    BY RowType DEF IInv
  <2>2. CASE FallDue(e)
    BY <2>1, <2>2 DEF FallDue, Row
  <2>3. CASE row' = [row EXCEPT ![e] = Fresh]
    BY <2>1, <2>3, <1>2
  <2> QED
    BY <2>2, <2>3 DEF InsertRow, RequeueDeadLetter
<1>4. OutboxTypeOK'
  BY <1>1, <1>3 DEF IInv, OutboxTypeOK, Row, passes, ghosts
<1>5. PassInv'
  BY <1>1 DEF IInv, PassInv, passes
<1>6. \A p \in Proc : Current(p)' = Current(p)
  BY <1>1, CurrentStays DEF passes
<1>7. EffectInv'
  BY <1>1, <1>3, <1>6 DEF IInv, EffectInv, passes, ghosts
<1>8. BudgetInv'
  <2>1. \A f \in Id : 0 <= failures[f] /\ row[f].attempts <= failures[f]
    BY DEF IInv, BudgetInv, OutboxTypeOK
  <2>2. \A f \in Id : row'[f].attempts <= failures[f]
    BY <1>3, <2>1
  <2> QED
    BY <1>1, <1>3, <1>6, <2>2 DEF IInv, BudgetInv, passes, ghosts
<1> QED
  BY <1>4, <1>5, <1>7, <1>8 DEF IInv

(***************************************************************************)
(* The steps of a pass.                                                    *)
(***************************************************************************)

\* Advance and Abandon take events from the batch and forget their attempts.
LEMMA AdvanceFacts ==
  ASSUME IInv, NEW p \in Proc, at[p] \in {"mark", "record"}, Advance(p)
  PROVE  /\ todo' \in [Proc -> SUBSET Id] /\ todo'[p] = todo[p] \ {Current(p)}
         /\ seen' \in [Proc -> [Id -> Nat]] /\ verdict' \in [Proc -> Verdict]
         /\ \A e \in Id : seen'[p][e] \in {0, seen[p][e]}
         /\ at' \in [Proc -> {"down", "idle", "dispatch", "mark", "record"}]
         /\ at'[p] = IF todo'[p] = {} THEN "idle" ELSE "dispatch"
         /\ \A q \in Proc \ {p} : /\ todo'[q] = todo[q] /\ seen'[q] = seen[q]
                                  /\ at'[q] = at[q] /\ verdict'[q] = verdict[q]
<1>1. Current(p) \in todo[p] /\ Current(p) \in Id
  BY Here
<1>2. /\ todo' = [todo EXCEPT ![p] = todo[p] \ {Current(p)}]
      /\ seen' = [seen EXCEPT ![p] = [seen[p] EXCEPT ![Current(p)] = 0]]
      /\ verdict' = [verdict EXCEPT ![p] = "transient"]
      /\ at' = [at EXCEPT ![p] = IF todo[p] = {Current(p)} THEN "idle" ELSE "dispatch"]
  BY DEF Advance
<1>3. /\ todo \in [Proc -> SUBSET Id] /\ seen \in [Proc -> [Id -> Nat]]
      /\ verdict \in [Proc -> Verdict]
      /\ at \in [Proc -> {"down", "idle", "dispatch", "mark", "record"}]
  BY DEF IInv, OutboxTypeOK
<1>4. todo[p] = {Current(p)} <=> todo[p] \ {Current(p)} = {}
  BY <1>1
<1>5. "transient" \in Verdict
  BY DEF Verdict
<1> QED
  BY <1>1, <1>2, <1>3, <1>4, <1>5

LEMMA AbandonFacts ==
  ASSUME IInv, NEW p \in Proc, NEW where \in {"down", "idle"}, Abandon(p, where)
  PROVE  /\ todo' \in [Proc -> SUBSET Id] /\ todo'[p] = {}
         /\ seen' \in [Proc -> [Id -> Nat]] /\ verdict' \in [Proc -> Verdict]
         /\ \A e \in Id : seen'[p][e] = 0
         /\ at' \in [Proc -> {"down", "idle", "dispatch", "mark", "record"}]
         /\ at'[p] = where
         /\ \A q \in Proc \ {p} : /\ todo'[q] = todo[q] /\ seen'[q] = seen[q]
                                  /\ at'[q] = at[q] /\ verdict'[q] = verdict[q]
<1>1. /\ todo \in [Proc -> SUBSET Id] /\ seen \in [Proc -> [Id -> Nat]]
      /\ verdict \in [Proc -> Verdict]
      /\ at \in [Proc -> {"down", "idle", "dispatch", "mark", "record"}]
      /\ "transient" \in Verdict
  BY DEF IInv, OutboxTypeOK, Verdict
<1> QED
  BY <1>1 DEF Abandon

\* What a process other than the one at work relies on: its batch is as it
\* was, and effects and failures only grow.
LEMMA OthersKeep ==
  ASSUME IInv, NEW p \in Proc,
         \A q \in Proc \ {p} : todo'[q] = todo[q] /\ seen'[q] = seen[q] /\ at'[q] = at[q],
         effects' \in [Id -> Nat], failures' \in [Id -> Nat],
         \A e \in Id : effects'[e] >= effects[e] /\ failures'[e] >= failures[e]
  PROVE  \A q \in Proc \ {p} :
           /\ at'[q] \in {"down", "idle"} <=> todo'[q] = {}
           /\ at'[q] = "mark" => effects'[Current(q)'] > 0
           /\ \A e \in Id : seen'[q][e] <= failures'[e]
           /\ at'[q] = "record" => seen'[q][Current(q)'] + 1 <= failures'[Current(q)']
<1> SUFFICES ASSUME NEW q \in Proc \ {p}
             PROVE  /\ at'[q] \in {"down", "idle"} <=> todo'[q] = {}
                    /\ at'[q] = "mark" => effects'[Current(q)'] > 0
                    /\ \A e \in Id : seen'[q][e] <= failures'[e]
                    /\ at'[q] = "record"
                         => seen'[q][Current(q)'] + 1 <= failures'[Current(q)']
  OBVIOUS
<1>1. Current(q)' = Current(q)
  BY CurrentStays
<1>2. at[q] \in {"mark", "record"} => Current(q) \in Id
  BY Here
<1>3. /\ effects \in [Id -> Nat] /\ failures \in [Id -> Nat] /\ seen \in [Proc -> [Id -> Nat]]
  BY DEF IInv, OutboxTypeOK
<1>4. at'[q] \in {"down", "idle"} <=> todo'[q] = {}
  BY DEF IInv, PassInv
<1>5. at'[q] = "mark" => effects'[Current(q)'] > 0
  BY <1>1, <1>2, <1>3 DEF IInv, EffectInv
<1>6. \A e \in Id : seen'[q][e] <= failures'[e]
  BY <1>3 DEF IInv, BudgetInv
<1>7. at'[q] = "record" => seen'[q][Current(q)'] + 1 <= failures'[Current(q)']
  BY <1>1, <1>2, <1>3 DEF IInv, BudgetInv
<1> QED
  BY <1>4, <1>5, <1>6, <1>7

LEMMA FetchInv ==
  ASSUME IInv, NEW p \in Proc, Fetch(p)
  PROVE  IInv'
<1>1. /\ at[p] = "idle" /\ Batch # {} /\ UNCHANGED <<row, troubles, verdict, effects, failures>>
      /\ todo' = [todo EXCEPT ![p] = Batch]
      /\ seen' = [seen EXCEPT ![p] = [e \in Id |-> IF e \in Batch THEN row[e].attempts ELSE 0]]
      /\ at' = [at EXCEPT ![p] = "dispatch"]
      /\ excuses' = [e \in Id |->
            excuses[e] + (IF e \in Batch /\ HeldElsewhere(p, e) THEN 1 ELSE 0)]
  BY DEF Fetch, table
<1>2. /\ Batch \subseteq Id /\ \A e \in Id : row[e].attempts \in Nat
      /\ todo \in [Proc -> SUBSET Id] /\ seen \in [Proc -> [Id -> Nat]]
      /\ at \in [Proc -> {"down", "idle", "dispatch", "mark", "record"}]
      /\ effects \in [Id -> Nat] /\ failures \in [Id -> Nat] /\ excuses \in [Id -> Nat]
  BY DEF Batch, Due, IInv, OutboxTypeOK
<1>3. /\ todo' \in [Proc -> SUBSET Id] /\ todo'[p] = Batch
      /\ seen' \in [Proc -> [Id -> Nat]]
      /\ \A e \in Id : seen'[p][e] \in {0, row[e].attempts}
      /\ at' \in [Proc -> {"down", "idle", "dispatch", "mark", "record"}] /\ at'[p] = "dispatch"
      /\ \A q \in Proc \ {p} : todo'[q] = todo[q] /\ seen'[q] = seen[q] /\ at'[q] = at[q]
  BY <1>1, <1>2
<1>4. excuses' \in [Id -> Nat]
  BY <1>1, <1>2
<1>5. OutboxTypeOK'
  BY <1>1, <1>3, <1>4 DEF IInv, OutboxTypeOK
<1>6. \A q \in Proc \ {p} :
        /\ at'[q] \in {"down", "idle"} <=> todo'[q] = {}
        /\ at'[q] = "mark" => effects'[Current(q)'] > 0
        /\ \A e \in Id : seen'[q][e] <= failures'[e]
        /\ at'[q] = "record" => seen'[q][Current(q)'] + 1 <= failures'[Current(q)']
  <2>1. \A e \in Id : effects'[e] >= effects[e] /\ failures'[e] >= failures[e]
    BY <1>1, <1>2
  <2>2. effects' \in [Id -> Nat] /\ failures' \in [Id -> Nat]
    BY <1>1, <1>2
  <2> QED
    BY <1>3, <2>1, <2>2, OthersKeep
<1>7. PassInv'
  BY <1>1, <1>3, <1>6 DEF PassInv
<1>8. EffectInv'
  BY <1>1, <1>3, <1>6 DEF IInv, EffectInv
<1>9. BudgetInv'
  <2>1. \A e \in Id : seen'[p][e] <= failures[e]
    BY <1>2, <1>3 DEF IInv, BudgetInv
  <2> QED
    BY <1>1, <1>3, <1>6, <2>1 DEF IInv, BudgetInv
<1> QED
  BY <1>5, <1>7, <1>8, <1>9 DEF IInv

\* A dispatch that ends, one way or another, and a mark that fails.
LEMMA AttemptInv ==
  ASSUME IInv, NEW p \in Proc, Dispatch(p) \/ DispatchFails(p) \/ AnswerLost(p) \/ MarkFails(p)
  PROVE  IInv'
<1> DEFINE e == Current(p)
<1>1. at[p] \in {"dispatch", "mark"} /\ UNCHANGED <<row, todo, seen>>
  BY DEF Dispatch, DispatchFails, AnswerLost, MarkFails, table
<1>2. e \in Id /\ todo[p] # {} /\ Current(p)' = e
  <2>1. Current(p)' = Current(p)
    BY <1>1, CurrentStays
  <2> QED
    BY <1>1, <2>1, Here
<1>3. /\ todo \in [Proc -> SUBSET Id] /\ seen \in [Proc -> [Id -> Nat]]
      /\ at \in [Proc -> {"down", "idle", "dispatch", "mark", "record"}]
      /\ effects \in [Id -> Nat] /\ failures \in [Id -> Nat] /\ excuses \in [Id -> Nat]
      /\ verdict \in [Proc -> Verdict] /\ troubles \in Nat /\ "transient" \in Verdict
  BY DEF IInv, OutboxTypeOK, Verdict
<1> HIDE DEF e
<1>4. /\ at' \in [Proc -> {"down", "idle", "dispatch", "mark", "record"}]
      /\ at'[p] \in {"mark", "record"} /\ \A q \in Proc \ {p} : at'[q] = at[q]
  BY <1>3 DEF Dispatch, DispatchFails, AnswerLost, MarkFails
<1>5. /\ effects' \in [Id -> Nat] /\ failures' \in [Id -> Nat]
      /\ at'[p] = "mark" => effects'[e] > 0
      /\ at'[p] = "record" => failures'[e] = failures[e] + 1
      /\ \A f \in Id : effects'[f] >= effects[f] /\ failures'[f] >= failures[f]
  <2>1. CASE Dispatch(p)
    <3>1. effects' = [effects EXCEPT ![e] = effects[e] + 1] /\ failures' = failures /\ at'[p] = "mark"
      BY <1>3, <2>1 DEF Dispatch, e
    <3> QED
      BY <1>2, <1>3, <3>1
  <2>2. CASE DispatchFails(p) \/ MarkFails(p)
    <3>1. failures' = [failures EXCEPT ![e] = failures[e] + 1] /\ effects' = effects /\ at'[p] = "record"
      BY <1>3, <2>2 DEF DispatchFails, MarkFails, e
    <3> QED
      BY <1>2, <1>3, <3>1
  <2>3. CASE AnswerLost(p)
    <3>1. /\ failures' = [failures EXCEPT ![e] = failures[e] + 1]
          /\ effects' = [effects EXCEPT ![e] = effects[e] + 1] /\ at'[p] = "record"
      BY <1>3, <2>3 DEF AnswerLost, e
    <3> QED
      BY <1>2, <1>3, <3>1
  <2> QED
    BY <2>1, <2>2, <2>3
<1>6. /\ excuses' \in [Id -> Nat] /\ verdict' \in [Proc -> Verdict] /\ troubles' \in Nat
  BY <1>3 DEF Dispatch, DispatchFails, AnswerLost, MarkFails, Trouble, table
<1>7. OutboxTypeOK'
  BY <1>1, <1>4, <1>5, <1>6 DEF IInv, OutboxTypeOK
<1>8. \A q \in Proc \ {p} :
        /\ at'[q] \in {"down", "idle"} <=> todo'[q] = {}
        /\ at'[q] = "mark" => effects'[Current(q)'] > 0
        /\ \A f \in Id : seen'[q][f] <= failures'[f]
        /\ at'[q] = "record" => seen'[q][Current(q)'] + 1 <= failures'[Current(q)']
  BY <1>1, <1>4, <1>5, OthersKeep
<1>9. PassInv'
  BY <1>1, <1>2, <1>4, <1>8 DEF PassInv
<1>10. EffectInv'
  <2>1. \A f \in Id : row'[f].status = "processed" => effects'[f] > 0
    BY <1>1, <1>3, <1>5 DEF IInv, EffectInv
  <2> QED
    BY <1>2, <1>5, <1>8, <2>1 DEF EffectInv
<1>11. BudgetInv'
  <2>1. \A f \in Id : /\ row[f].attempts \in Nat
                      /\ seen[p][f] \in Nat /\ failures[f] \in Nat /\ failures'[f] \in Nat
    BY <1>3, <1>5 DEF IInv, OutboxTypeOK
  <2>2. \A f \in Id :
          /\ row'[f].attempts <= failures'[f]
          /\ row'[f].status = "dead_letter" /\ row'[f].kind = "transient"
               => failures'[f] >= MaxAttempts
    BY <1>1, <1>5, <2>1, IdFacts DEF IInv, BudgetInv
  <2>3. \A f \in Id : seen'[p][f] <= failures'[f]
    BY <1>1, <1>5, <2>1 DEF IInv, BudgetInv
  <2>4. at'[p] = "record" => seen'[p][Current(p)'] + 1 <= failures'[Current(p)']
    BY <1>1, <1>2, <1>5, <2>1 DEF IInv, BudgetInv
  <2> QED
    BY <1>8, <2>2, <2>3, <2>4 DEF BudgetInv
<1> QED
  BY <1>7, <1>9, <1>10, <1>11 DEF IInv

\* An outcome is recorded, by any of the three UPDATEs.
LEMMA RecordInv ==
  ASSUME IInv, NEW p \in Proc, MarkProcessed(p) \/ DeadLetter(p) \/ ScheduleRetry(p)
  PROVE  IInv'
<1> DEFINE e == Current(p)
<1>1. /\ at[p] \in {"mark", "record"} /\ Advance(p)
      /\ UNCHANGED <<troubles, effects, failures, excuses>>
  BY DEF MarkProcessed, DeadLetter, ScheduleRetry, ghosts
<1>2. e \in Id
  BY <1>1, Here
<1>3. /\ todo' \in [Proc -> SUBSET Id] /\ seen' \in [Proc -> [Id -> Nat]]
      /\ verdict' \in [Proc -> Verdict] /\ \A f \in Id : seen'[p][f] \in {0, seen[p][f]}
      /\ at' \in [Proc -> {"down", "idle", "dispatch", "mark", "record"}]
      /\ at'[p] = IF todo'[p] = {} THEN "idle" ELSE "dispatch"
      /\ \A q \in Proc \ {p} : todo'[q] = todo[q] /\ seen'[q] = seen[q] /\ at'[q] = at[q]
  BY <1>1, AdvanceFacts
<1>4. /\ row \in [Id -> Row] /\ verdict[p] \in Verdict
      /\ effects \in [Id -> Nat] /\ failures \in [Id -> Nat] /\ excuses \in [Id -> Nat]
      /\ \A f \in Id : seen[p][f] \in Nat
  BY RowType DEF IInv, OutboxTypeOK
<1> HIDE DEF e
<1>5. /\ row' \in [Id -> Row] /\ \A f \in Id \ {e} : row'[f] = row[f]
      /\ row'[e].status = "processed" => effects[e] > 0
      /\ row'[e].attempts <= failures[e]
      /\ row'[e].status = "dead_letter" /\ row'[e].kind = "transient"
           => failures[e] >= MaxAttempts
  <2>1. CASE MarkProcessed(p)
    <3>1. row' = [row EXCEPT ![e].status = "processed"] /\ effects[e] > 0
      BY <2>1 DEF MarkProcessed, IInv, EffectInv, e
    <3>2. row[e].attempts <= failures[e]
      BY <1>2 DEF IInv, BudgetInv
    <3> QED
      BY <1>2, <1>4, <3>1, <3>2 DEF Row
  <2>2. CASE DeadLetter(p)
    <3>1. /\ row' = [row EXCEPT ![e] = [row[e] EXCEPT !.status = "dead_letter",
                                        !.attempts = seen[p][e] + 1,
                                        !.kind = verdict[p], !.due = TRUE]]
          /\ seen[p][e] + 1 <= failures[e]
          /\ verdict[p] = "transient" => seen[p][e] + 1 >= MaxAttempts
      BY <2>2 DEF DeadLetter, GivenUp, Exhausted, IInv, BudgetInv, e
    <3> DEFINE new == [row[e] EXCEPT !.status = "dead_letter", !.attempts = seen[p][e] + 1,
                                     !.kind = verdict[p], !.due = TRUE]
    <3>2. row[e] \in Row /\ seen[p][e] + 1 \in Nat
      BY <1>2, <1>4
    <3>3. /\ new \in Row /\ new.status = "dead_letter" /\ new.attempts = seen[p][e] + 1
          /\ new.kind = verdict[p]
      BY <1>4, <3>2 DEF Row
    <3>4. row' = [row EXCEPT ![e] = new]
      BY <3>1
    <3> HIDE DEF new
    <3>5. row' \in [Id -> Row] /\ row'[e] = new /\ \A f \in Id \ {e} : row'[f] = row[f]
      BY <1>2, <1>4, <3>3, <3>4
    <3>6. verdict[p] = "transient" => failures[e] >= MaxAttempts
      BY <1>2, <1>4, <3>1, IdFacts
    <3> QED
      BY <3>1, <3>3, <3>5, <3>6
  <2>3. CASE ScheduleRetry(p)
    <3>1. /\ row' = [row EXCEPT ![e] = [row[e] EXCEPT !.status = "pending",
                                        !.attempts = seen[p][e] + 1,
                                        !.kind = "transient", !.due = FALSE]]
          /\ seen[p][e] + 1 <= failures[e]
      BY <2>3 DEF ScheduleRetry, IInv, BudgetInv, e
    <3> DEFINE new == [row[e] EXCEPT !.status = "pending", !.attempts = seen[p][e] + 1,
                                     !.kind = "transient", !.due = FALSE]
    <3>2. row[e] \in Row /\ seen[p][e] + 1 \in Nat /\ "transient" \in Verdict
      BY <1>2, <1>4 DEF Verdict
    <3>3. new \in Row /\ new.status = "pending" /\ new.attempts = seen[p][e] + 1
      BY <3>2 DEF Row
    <3>4. row' = [row EXCEPT ![e] = new]
      BY <3>1
    <3> HIDE DEF new
    <3> QED
      BY <1>2, <1>4, <3>1, <3>3, <3>4
  <2> QED
    BY <2>1, <2>2, <2>3
<1>6. OutboxTypeOK'
  BY <1>1, <1>3, <1>5 DEF IInv, OutboxTypeOK, Row
<1>7. \A q \in Proc \ {p} :
        /\ at'[q] \in {"down", "idle"} <=> todo'[q] = {}
        /\ at'[q] = "mark" => effects'[Current(q)'] > 0
        /\ \A f \in Id : seen'[q][f] <= failures'[f]
        /\ at'[q] = "record" => seen'[q][Current(q)'] + 1 <= failures'[Current(q)']
  <2>1. \A f \in Id : effects'[f] >= effects[f] /\ failures'[f] >= failures[f]
    BY <1>1, <1>4
  <2>2. effects' \in [Id -> Nat] /\ failures' \in [Id -> Nat]
    BY <1>1, <1>4
  <2> QED
    BY <1>3, <2>1, <2>2, OthersKeep
<1>8. PassInv'
  BY <1>3, <1>7 DEF PassInv
<1>9. EffectInv'
  BY <1>1, <1>3, <1>5, <1>7 DEF IInv, EffectInv
<1>10. BudgetInv'
  <2>1. \A f \in Id :
          /\ row'[f].attempts <= failures'[f]
          /\ row'[f].status = "dead_letter" /\ row'[f].kind = "transient"
               => failures'[f] >= MaxAttempts
    BY <1>1, <1>5 DEF IInv, BudgetInv
  <2>2. \A f \in Id : seen'[p][f] <= failures'[f]
    <3>1. \A f \in Id : 0 <= failures[f] /\ seen[p][f] <= failures[f]
      BY <1>4 DEF IInv, BudgetInv
    <3> QED
      BY <1>1, <1>3, <3>1
  <2>3. at'[p] # "record"
    BY <1>3
  <2> QED
    BY <1>7, <2>1, <2>2, <2>3 DEF BudgetInv
<1> QED
  BY <1>6, <1>8, <1>9, <1>10 DEF IInv

\* A pass that ends early, with an error or with its process.
LEMMA AbandonInv ==
  ASSUME IInv, NEW p \in Proc, RecordFails(p) \/ Crash(p)
  PROVE  IInv'
<1>1. UNCHANGED <<row, effects, failures>> /\ Abandon(p, IF RecordFails(p) THEN "idle" ELSE "down")
  BY DEF RecordFails, Crash
<1>2. /\ todo' \in [Proc -> SUBSET Id] /\ todo'[p] = {}
      /\ seen' \in [Proc -> [Id -> Nat]] /\ verdict' \in [Proc -> Verdict]
      /\ \A e \in Id : seen'[p][e] = 0
      /\ at' \in [Proc -> {"down", "idle", "dispatch", "mark", "record"}]
      /\ at'[p] \in {"down", "idle"}
      /\ \A q \in Proc \ {p} : todo'[q] = todo[q] /\ seen'[q] = seen[q] /\ at'[q] = at[q]
  BY <1>1, AbandonFacts
<1>3. /\ effects \in [Id -> Nat] /\ failures \in [Id -> Nat] /\ excuses \in [Id -> Nat]
      /\ troubles \in Nat
  BY DEF IInv, OutboxTypeOK
<1>4. excuses' \in [Id -> Nat] /\ troubles' \in Nat
  BY <1>3 DEF RecordFails, Crash, Trouble
<1>5. OutboxTypeOK'
  BY <1>1, <1>2, <1>4 DEF IInv, OutboxTypeOK
<1>6. \A q \in Proc \ {p} :
        /\ at'[q] \in {"down", "idle"} <=> todo'[q] = {}
        /\ at'[q] = "mark" => effects'[Current(q)'] > 0
        /\ \A f \in Id : seen'[q][f] <= failures'[f]
        /\ at'[q] = "record" => seen'[q][Current(q)'] + 1 <= failures'[Current(q)']
  <2>1. \A f \in Id : effects'[f] >= effects[f] /\ failures'[f] >= failures[f]
    BY <1>1, <1>3
  <2>2. effects' \in [Id -> Nat] /\ failures' \in [Id -> Nat]
    BY <1>1, <1>3
  <2> QED
    BY <1>2, <2>1, <2>2, OthersKeep
<1>7. PassInv'
  BY <1>2, <1>6 DEF PassInv
<1>8. EffectInv'
  BY <1>1, <1>2, <1>6 DEF IInv, EffectInv
<1>9. BudgetInv'
  BY <1>1, <1>2, <1>3, <1>6 DEF IInv, BudgetInv
<1> QED
  BY <1>5, <1>7, <1>8, <1>9 DEF IInv

LEMMA RestartInv ==
  ASSUME IInv, NEW p \in Proc, Restart(p)
  PROVE  IInv'
<1>1. /\ UNCHANGED <<row, troubles, todo, seen, verdict, effects, failures, excuses>>
      /\ at[p] = "down" /\ at' = [at EXCEPT ![p] = "idle"]
  BY DEF Restart, table, ghosts
<1>2. /\ at' \in [Proc -> {"down", "idle", "dispatch", "mark", "record"}] /\ at'[p] = "idle"
      /\ \A q \in Proc \ {p} : at'[q] = at[q]
  BY <1>1 DEF IInv, OutboxTypeOK
<1>3. \A q \in Proc : Current(q)' = Current(q)
  BY <1>1, CurrentStays
<1>4. OutboxTypeOK'
  BY <1>1, <1>2 DEF IInv, OutboxTypeOK
<1>5. PassInv' /\ EffectInv' /\ BudgetInv'
  BY <1>1, <1>2, <1>3 DEF IInv, PassInv, EffectInv, BudgetInv
<1> QED
  BY <1>4, <1>5 DEF IInv

LEMMA StutterInv ==
  ASSUME IInv, UNCHANGED outboxVars
  PROVE  IInv'
<1>1. UNCHANGED <<row, troubles, at, todo, seen, verdict, effects, failures, excuses>>
  BY DEF outboxVars, table, passes, ghosts
<1>2. \A q \in Proc : Current(q)' = Current(q)
  BY <1>1, CurrentStays
<1> QED
  BY <1>1, <1>2 DEF IInv, OutboxTypeOK, PassInv, EffectInv, BudgetInv

LEMMA StepInv == IInv /\ [OutboxNext]_outboxVars => IInv'
<1> SUFFICES ASSUME IInv, [OutboxNext]_outboxVars PROVE IInv'
  OBVIOUS
<1>1. CASE UNCHANGED outboxVars
  BY <1>1, StutterInv
<1>2. ASSUME NEW e \in Id, InsertRow(e) \/ FallDue(e) \/ RequeueDeadLetter(e)
      PROVE  IInv'
  BY <1>2, TableInv
<1>3. ASSUME NEW p \in Proc, Work(p) \/ Crash(p) \/ Restart(p)
      PROVE  IInv'
  BY <1>3, FetchInv, AttemptInv, RecordInv, AbandonInv, RestartInv DEF Work
<1> QED
  BY <1>1, <1>2, <1>3 DEF OutboxNext

LEMMA Inductive == OutboxSpec => []IInv
  BY InitInv, StepInv, PTL DEF OutboxSpec

(***************************************************************************)
(* Delivery and budget.                                                    *)
(***************************************************************************)

\* Nothing is marked processed that did not take effect: at least once, for
\* any number of processes that mark and retry each other's rows.
THEOREM AtLeastOnce == OutboxSpec => []ProcessedTookEffect
<1>1. IInv => ProcessedTookEffect
  BY DEF IInv, EffectInv, ProcessedTookEffect
<1> QED
  BY <1>1, Inductive, PTL

\* No row is given up as transient before it failed MAX_TRANSIENT_ATTEMPTS
\* times, although the attempts are overwritten by id from stale reads.
THEOREM FullBudget == OutboxSpec => []BudgetNotCutShort
<1>1. IInv => BudgetNotCutShort
  BY DEF IInv, BudgetInv, BudgetNotCutShort
<1> QED
  BY <1>1, Inductive, PTL

(***************************************************************************)
(* Repeats.                                                                *)
(***************************************************************************)

\* Types of what Hope adds up.
LEMMA HopeType ==
  ASSUME NEW e \in Id, IsFiniteSet(May(e))
  PROVE  /\ Cardinality(May(e)) \in Nat /\ Hope(e) \in Nat
         /\ ~Held(e) => Hope(e) \in {0, 1}
         /\ Held(e) => Hope(e) = Cardinality(May(e))
         /\ (\E p \in Proc : p \in May(e)) => Held(e) /\ Hope(e) >= 1
<1>1. Cardinality(May(e)) \in Nat /\ (Cardinality(May(e)) = 0 <=> May(e) = {})
  BY FS_CardinalityType, FS_EmptySet
<1>2. (\E p \in Proc : p \in May(e)) => Held(e)
  BY DEF May, Held
<1> QED
  BY <1>1, <1>2 DEF Hope

\* Only the process at work counts differently.
LEMMA MayChanges ==
  ASSUME NEW p \in Proc, NEW e \in Id,
         \A q \in Proc \ {p} : todo'[q] = todo[q] /\ at'[q] = at[q]
  PROVE  /\ May(e)' \ {p} = May(e) \ {p}
         /\ p \in May(e)' => May(e)' = May(e) \cup {p}
         /\ p \notin May(e)' => May(e)' = May(e) \ {p}
<1>1. \A q \in Proc \ {p} : Current(q)' = Current(q)
  BY CurrentStays
<1>2. \A q \in Proc \ {p} : q \in May(e)' <=> q \in May(e)
  BY <1>1 DEF May
<1>3. May(e) \subseteq Proc /\ May(e)' \subseteq Proc
  BY DEF May
<1> QED
  BY <1>2, <1>3

\* If it counts as before, so does everything.
LEMMA HopeSame ==
  ASSUME NEW p \in Proc, NEW e \in Id, IsFiniteSet(May(e)),
         \A q \in Proc \ {p} : todo'[q] = todo[q] /\ at'[q] = at[q],
         e \in todo'[p] <=> e \in todo[p],
         p \in May(e)' <=> p \in May(e),
         row'[e].status = row[e].status
  PROVE  IsFiniteSet(May(e)') /\ Hope(e)' = Hope(e)
<1>1. May(e)' = May(e)
  BY MayChanges
<1>2. Held(e)' <=> Held(e)
  BY DEF Held
<1> QED
  BY <1>1, <1>2 DEF Hope

\* A process that drops an event it might still have brought about takes its
\* part of the hope with it, or leaves it to the row.
LEMMA HopeLeaves ==
  ASSUME NEW p \in Proc, NEW e \in Id, IsFiniteSet(May(e)),
         \A q \in Proc \ {p} : todo'[q] = todo[q] /\ at'[q] = at[q],
         e \notin todo'[p], p \in May(e)
  PROVE  IsFiniteSet(May(e)') /\ Hope(e)' \in Nat /\ Hope(e)' <= Hope(e)
<1>1. p \notin May(e)'
  BY DEF May
<1>2. May(e)' = May(e) \ {p}
  BY <1>1, MayChanges
<1>3. IsFiniteSet(May(e)') /\ Cardinality(May(e)') = Cardinality(May(e)) - 1
  BY <1>2, FS_RemoveElement
<1>4. /\ Hope(e) = Cardinality(May(e)) /\ Hope(e) >= 1 /\ Hope(e) \in Nat
  BY HopeType
<1>5. Cardinality(May(e)') \in Nat
  BY <1>3, FS_CardinalityType
<1>6. Hope(e)' \in {0, 1, Cardinality(May(e)')}
  BY DEF Hope
<1> QED
  BY <1>3, <1>4, <1>5, <1>6

\* A crash or an error adds one at most.
LEMMA HopeDrops ==
  ASSUME NEW p \in Proc, NEW e \in Id, IsFiniteSet(May(e)),
         \A q \in Proc \ {p} : todo'[q] = todo[q] /\ at'[q] = at[q],
         e \in todo[p], e \notin todo'[p]
  PROVE  IsFiniteSet(May(e)') /\ Hope(e)' \in Nat /\ Hope(e)' <= Hope(e) + 1
<1>1. p \notin May(e)'
  BY DEF May
<1>2. May(e)' = May(e) \ {p}
  BY <1>1, MayChanges
<1>3. IsFiniteSet(May(e)') /\ Cardinality(May(e)') <= Cardinality(May(e))
      /\ Cardinality(May(e)') \in Nat
  <2>1. Cardinality(May(e)) \in Nat
    BY HopeType
  <2>2. /\ IsFiniteSet(May(e)')
        /\ Cardinality(May(e)') \in {Cardinality(May(e)), Cardinality(May(e)) - 1}
    BY <1>2, FS_RemoveElement
  <2>3. Cardinality(May(e)') \in Nat
    BY <2>2, FS_CardinalityType
  <2> QED
    BY <2>1, <2>2, <2>3
<1>4. Held(e) /\ Hope(e) = Cardinality(May(e)) /\ Cardinality(May(e)) \in Nat
  BY HopeType DEF Held
<1>5. Hope(e)' \in {0, 1, Cardinality(May(e)')}
  BY DEF Hope
<1> QED
  BY <1>3, <1>4, <1>5

Counts == /\ effects \in [Id -> Nat] /\ excuses \in [Id -> Nat]
          /\ todo \in [Proc -> SUBSET Id]
          /\ at \in [Proc -> {"down", "idle", "dispatch", "mark", "record"}]

LEMMA CountsType == IInv => Counts
  BY DEF IInv, OutboxTypeOK, Counts

\* What a step may do to one event without breaking the sum.
LEMMA SumKept ==
  ASSUME CauseInv, Counts, NEW e \in Id, NEW n \in Nat,
         IsFiniteSet(May(e)'), Hope(e)' \in Nat,
         effects'[e] + Hope(e)' <= effects[e] + Hope(e) + n,
         excuses'[e] = excuses[e] + n, effects'[e] \in Nat
  PROVE  IsFiniteSet(May(e)') /\ effects'[e] + Hope(e)' <= 1 + excuses'[e]
<1>1. /\ effects[e] + Hope(e) <= 1 + excuses[e] /\ IsFiniteSet(May(e))
      /\ effects[e] \in Nat /\ excuses[e] \in Nat
  BY DEF CauseInv, Counts
<1>2. Hope(e) \in Nat
  BY <1>1, HopeType
<1> QED
  BY <1>1, <1>2

LEMMA CauseInit == OutboxInit => CauseInv
<1> SUFFICES ASSUME OutboxInit, NEW e \in Id
             PROVE  IsFiniteSet(May(e)) /\ effects[e] + Hope(e) <= 1 + excuses[e]
  BY DEF CauseInv
<1>1. May(e) = {} /\ ~Held(e)
  BY DEF OutboxInit, May, Held
<1>2. Hope(e) \in {0, 1} /\ effects[e] = 0 /\ excuses[e] = 0
  BY <1>1 DEF OutboxInit, Hope
<1> QED
  BY <1>1, <1>2, FS_EmptySet

LEMMA CauseTable ==
  ASSUME IInv, CauseInv, NEW f \in Id, InsertRow(f) \/ FallDue(f) \/ RequeueDeadLetter(f)
  PROVE  CauseInv'
<1>1. UNCHANGED <<at, todo, effects, excuses>>
  BY DEF InsertRow, FallDue, RequeueDeadLetter, passes, ghosts
<1>2. \A e \in Id : row'[e].status = "processed" <=> row[e].status = "processed"
  <2>1. row \in [Id -> Row] /\ Fresh \in Row /\ Fresh.status = "pending"
    BY RowType DEF IInv, Fresh, NoRow, Row
  <2>2. CASE FallDue(f)
    BY <2>1, <2>2 DEF FallDue, Row
  <2>3. CASE row' = [row EXCEPT ![f] = Fresh] /\ row[f].status \in {"none", "dead_letter"}
    BY <2>1, <2>3
  <2> QED
    BY <2>2, <2>3 DEF InsertRow, RequeueDeadLetter
<1>3. \A q \in Proc : Current(q)' = Current(q)
  BY <1>1, CurrentStays
<1>4. \A e \in Id : May(e)' = May(e) /\ (Held(e)' <=> Held(e))
  BY <1>1, <1>3 DEF May, Held
<1>5. \A e \in Id : Hope(e)' = Hope(e)
  BY <1>2, <1>4 DEF Hope
<1> QED
  BY <1>1, <1>4, <1>5 DEF CauseInv

LEMMA CauseFetch ==
  ASSUME IInv, CauseInv, NEW p \in Proc, Fetch(p)
  PROVE  CauseInv'
<1>1. /\ at[p] = "idle" /\ UNCHANGED <<row, effects>> /\ todo[p] = {}
      /\ todo'[p] = Batch /\ at'[p] = "dispatch" /\ Batch \subseteq Id
      /\ \A q \in Proc \ {p} : todo'[q] = todo[q] /\ at'[q] = at[q]
  BY CountsType DEF Counts, Fetch, table, IInv, PassInv, Batch, Due
<1>2. \A e \in Id : excuses'[e] = excuses[e] + (IF e \in Batch /\ HeldElsewhere(p, e) THEN 1 ELSE 0)
  BY DEF Fetch
<1> SUFFICES ASSUME NEW e \in Id
             PROVE  IsFiniteSet(May(e)') /\ effects'[e] + Hope(e)' <= 1 + excuses'[e]
  BY DEF CauseInv
<1>3. IsFiniteSet(May(e)) /\ Counts /\ p \notin May(e) /\ effects[e] \in Nat /\ excuses[e] \in Nat
  BY <1>1, CountsType DEF CauseInv, May, Counts
<1>4. Hope(e) \in Nat /\ Cardinality(May(e)) \in Nat
  BY <1>3, HopeType
<1>5. CASE e \notin Batch
  <2>1. p \notin May(e)'
    BY <1>1, <1>5 DEF May
  <2>2. IsFiniteSet(May(e)') /\ Hope(e)' = Hope(e)
    BY <1>1, <1>3, <1>5, <2>1, HopeSame
  <2>3. excuses'[e] = excuses[e] + 0
    BY <1>2, <1>3, <1>5
  <2> QED
    BY <1>1, <1>3, <1>4, <2>2, <2>3, SumKept
<1>6. CASE e \in Batch
  <2>1. p \in May(e)' /\ Held(e)' /\ row[e].status = "pending"
    BY <1>1, <1>6 DEF May, Held, Batch, Due
  <2>2. May(e)' = May(e) \cup {p}
    BY <1>1, <2>1, MayChanges
  <2>3. /\ IsFiniteSet(May(e)') /\ Cardinality(May(e)') = Cardinality(May(e)) + 1
    BY <1>3, <2>2, FS_AddElement
  <2>4. Hope(e)' = Cardinality(May(e)) + 1
    BY <2>1, <2>3 DEF Hope
  <2>5. Held(e) <=> HeldElsewhere(p, e)
    BY <1>1 DEF Held, HeldElsewhere
  <2>6. CASE Held(e)
    <3>1. Hope(e)' = Hope(e) + 1 /\ excuses'[e] = excuses[e] + 1
      BY <1>2, <1>6, <2>4, <2>5, <2>6 DEF Hope
    <3> QED
      BY <1>1, <1>3, <1>4, <2>3, <3>1, SumKept
  <2>7. CASE ~Held(e)
    <3>1. May(e) = {}
      BY <2>7 DEF May, Held
    <3>2. Hope(e)' = 1 /\ Hope(e) = 1
      BY <2>1, <2>4, <2>7, <3>1, FS_EmptySet DEF Hope
    <3>3. excuses'[e] = excuses[e] + 0
      BY <1>2, <1>3, <2>5, <2>7
    <3> QED
      BY <1>1, <1>3, <2>3, <3>2, <3>3, SumKept
  <2> QED
    BY <2>6, <2>7
<1> QED
  BY <1>5, <1>6

LEMMA CauseAttempt ==
  ASSUME IInv, CauseInv, NEW p \in Proc,
         Dispatch(p) \/ DispatchFails(p) \/ AnswerLost(p) \/ MarkFails(p)
  PROVE  CauseInv'
<1> DEFINE c == Current(p)
<1>1. /\ UNCHANGED <<row, todo>> /\ c \in Id /\ c \in todo[p] /\ Current(p)' = c
      /\ \A q \in Proc \ {p} : todo'[q] = todo[q] /\ at'[q] = at[q]
  <2>1. at[p] \in {"dispatch", "mark"} /\ UNCHANGED <<row, todo>>
    BY DEF Dispatch, DispatchFails, AnswerLost, MarkFails, table
  <2>2. c \in Id /\ c \in todo[p]
    BY <2>1, Here
  <2>3. \A q \in Proc \ {p} : at'[q] = at[q]
    BY CountsType DEF Counts, Dispatch, DispatchFails, AnswerLost, MarkFails
  <2> QED
    BY <2>1, <2>2, <2>3, CurrentStays
<1>2. Counts /\ p \in Proc
  BY CountsType
<1> HIDE DEF c
<1> SUFFICES ASSUME NEW e \in Id
             PROVE  IsFiniteSet(May(e)') /\ effects'[e] + Hope(e)' <= 1 + excuses'[e]
  BY DEF CauseInv
<1>3. IsFiniteSet(May(e)) /\ effects[e] \in Nat /\ excuses[e] \in Nat
  BY <1>2 DEF CauseInv, Counts
<1>4. Hope(e) \in Nat /\ Cardinality(May(e)) \in Nat
  BY <1>3, HopeType
<1>5. CASE e # c
  <2>1. p \in May(e)' <=> p \in May(e)
    BY <1>1, <1>5 DEF May, c
  <2>2. IsFiniteSet(May(e)') /\ Hope(e)' = Hope(e)
    BY <1>1, <1>3, <2>1, HopeSame
  <2>3. effects'[e] = effects[e] /\ excuses'[e] = excuses[e] + 0
    BY <1>2, <1>3, <1>5 DEF Dispatch, DispatchFails, AnswerLost, MarkFails, Trouble, Counts, c
  <2> QED
    BY <1>2, <1>3, <1>4, <2>2, <2>3, SumKept
<1>6. CASE e = c /\ Dispatch(p)
  <2>1. /\ at[p] = "dispatch" /\ at'[p] = "mark"
        /\ effects'[e] = effects[e] + 1 /\ excuses'[e] = excuses[e] + 0
    BY <1>2, <1>3, <1>6 DEF Dispatch, Counts, c
  <2>2. p \in May(e) /\ p \notin May(e)'
    BY <1>1, <1>6, <2>1 DEF May, c
  <2>3. May(e)' = May(e) \ {p}
    BY <1>1, <2>2, MayChanges
  <2>4. IsFiniteSet(May(e)') /\ Cardinality(May(e)') = Cardinality(May(e)) - 1
    BY <1>3, <2>2, <2>3, FS_RemoveElement
  <2>5. Held(e) /\ Held(e)'
    BY <1>1, <1>6 DEF Held
  <2>6. Hope(e)' = Hope(e) - 1 /\ Hope(e) >= 1
    BY <1>3, <2>2, <2>4, <2>5, HopeType DEF Hope
  <2>7. Hope(e)' \in Nat
    BY <1>4, <2>6
  <2> QED
    BY <1>2, <1>3, <1>4, <2>1, <2>4, <2>6, <2>7, SumKept
<1>7. CASE e = c /\ (DispatchFails(p) \/ AnswerLost(p))
  <2>1. at[p] = "dispatch" /\ at'[p] = "record"
    BY <1>2, <1>7 DEF DispatchFails, AnswerLost, Counts
  <2>2. p \in May(e)' <=> p \in May(e)
    BY <1>1, <2>1 DEF May
  <2>3. IsFiniteSet(May(e)') /\ Hope(e)' = Hope(e)
    BY <1>1, <1>3, <2>2, HopeSame
  <2>4. CASE DispatchFails(p)
    <3>1. effects'[e] = effects[e] /\ excuses'[e] = excuses[e] + 0
      BY <1>3, <2>4 DEF DispatchFails
    <3> QED
      BY <1>2, <1>3, <1>4, <2>3, <3>1, SumKept
  <2>5. CASE AnswerLost(p)
    <3>1. effects'[e] = effects[e] + 1 /\ excuses'[e] = excuses[e] + 1
      BY <1>2, <1>7, <2>5 DEF AnswerLost, Trouble, Counts, c
    <3> QED
      BY <1>2, <1>3, <1>4, <2>3, <3>1, SumKept
  <2> QED
    BY <1>7, <2>4, <2>5
<1>8. CASE e = c /\ MarkFails(p)
  <2>1. /\ at[p] = "mark" /\ at'[p] = "record"
        /\ effects'[e] = effects[e] /\ excuses'[e] = excuses[e] + 1
    BY <1>2, <1>8 DEF MarkFails, Trouble, Counts, c
  <2>2. p \notin May(e) /\ p \in May(e)'
    BY <1>1, <1>8, <2>1 DEF May, c
  <2>3. May(e)' = May(e) \cup {p}
    BY <1>1, <2>2, MayChanges
  <2>4. IsFiniteSet(May(e)') /\ Cardinality(May(e)') = Cardinality(May(e)) + 1
    BY <1>3, <2>2, <2>3, FS_AddElement
  <2>5. Held(e) /\ Held(e)'
    BY <1>1, <1>8 DEF Held
  <2>6. Hope(e)' = Hope(e) + 1
    BY <2>4, <2>5 DEF Hope
  <2> QED
    BY <1>2, <1>3, <1>4, <2>1, <2>4, <2>6, SumKept
<1> QED
  BY <1>5, <1>6, <1>7, <1>8

LEMMA CauseRecord ==
  ASSUME IInv, CauseInv, NEW p \in Proc, MarkProcessed(p) \/ DeadLetter(p) \/ ScheduleRetry(p)
  PROVE  CauseInv'
<1> DEFINE c == Current(p)
<1>1. at[p] \in {"mark", "record"} /\ Advance(p) /\ UNCHANGED <<effects, excuses>>
  BY DEF MarkProcessed, DeadLetter, ScheduleRetry, ghosts
<1>2. /\ c \in Id /\ c \in todo[p] /\ todo'[p] = todo[p] \ {c}
      /\ at'[p] \in {"idle", "dispatch"}
      /\ \A q \in Proc \ {p} : todo'[q] = todo[q] /\ at'[q] = at[q]
  BY <1>1, Here, AdvanceFacts
<1>3. Counts
  BY CountsType
<1>4. \A f \in Id \ {c} : row'[f] = row[f]
  BY RowType DEF MarkProcessed, DeadLetter, ScheduleRetry, IInv
<1> SUFFICES ASSUME NEW e \in Id
             PROVE  IsFiniteSet(May(e)') /\ effects'[e] + Hope(e)' <= 1 + excuses'[e]
  BY DEF CauseInv
<1>5. IsFiniteSet(May(e)) /\ effects[e] \in Nat /\ excuses[e] \in Nat
  BY <1>3 DEF CauseInv, Counts
<1>6. Hope(e) \in Nat /\ Cardinality(May(e)) \in Nat
  BY <1>5, HopeType
<1>7. effects'[e] = effects[e] /\ excuses'[e] = excuses[e] + 0
  BY <1>1, <1>5
<1>8. CASE e # c
  <2>1. p \in May(e)' <=> p \in May(e)
    BY <1>2, <1>8 DEF May
  <2>2. IsFiniteSet(May(e)') /\ Hope(e)' = Hope(e)
    BY <1>2, <1>4, <1>5, <1>8, <2>1, HopeSame
  <2> QED
    BY <1>3, <1>5, <1>6, <1>7, <2>2, SumKept
<1>9. CASE e = c /\ at[p] = "record"
  <2>1. p \in May(e) /\ e \notin todo'[p]
    BY <1>2, <1>9 DEF May
  <2>2. IsFiniteSet(May(e)') /\ Hope(e)' \in Nat /\ Hope(e)' <= Hope(e)
    BY <1>2, <1>5, <2>1, HopeLeaves
  <2> QED
    BY <1>3, <1>5, <1>6, <1>7, <2>2, SumKept
<1>10. CASE e = c /\ MarkProcessed(p)
  <2>1. at[p] = "mark" /\ row'[e].status = "processed"
    <3>1. row \in [Id -> Row] /\ row' = [row EXCEPT ![e].status = "processed"]
      BY <1>10, RowType DEF MarkProcessed, IInv
    <3> QED
      BY <1>10, <3>1 DEF MarkProcessed, Row
  <2>2. p \notin May(e) /\ p \notin May(e)'
    BY <1>2, <1>10, <2>1 DEF May
  <2>3. May(e)' = May(e)
    <3>1. May(e)' = May(e) \ {p}
      BY <1>2, <2>2, MayChanges
    <3> QED
      BY <2>2, <3>1
  <2>4. Held(e)
    BY <1>2, <1>10 DEF Held
  <2>5. Hope(e)' \in {0, Cardinality(May(e))} /\ Hope(e) = Cardinality(May(e))
    BY <2>1, <2>3, <2>4 DEF Hope
  <2>6. Hope(e)' \in Nat /\ Hope(e)' <= Hope(e)
    BY <1>6, <2>5
  <2> QED
    BY <1>3, <1>5, <1>6, <1>7, <2>3, <2>6, SumKept
<1> QED
  BY <1>8, <1>9, <1>10 DEF DeadLetter, ScheduleRetry

LEMMA CauseAbandon ==
  ASSUME IInv, CauseInv, NEW p \in Proc, RecordFails(p) \/ Crash(p)
  PROVE  CauseInv'
<1>1. UNCHANGED <<row, effects>> /\ Abandon(p, IF RecordFails(p) THEN "idle" ELSE "down")
  BY DEF RecordFails, Crash
<1>2. /\ todo'[p] = {}
      /\ \A q \in Proc \ {p} : todo'[q] = todo[q] /\ at'[q] = at[q]
  BY <1>1, AbandonFacts
<1>3. Counts
  BY CountsType
<1> SUFFICES ASSUME NEW e \in Id
             PROVE  IsFiniteSet(May(e)') /\ effects'[e] + Hope(e)' <= 1 + excuses'[e]
  BY DEF CauseInv
<1>4. IsFiniteSet(May(e)) /\ effects[e] \in Nat /\ excuses[e] \in Nat /\ effects'[e] = effects[e]
  BY <1>1, <1>3 DEF CauseInv, Counts
<1>5. Hope(e) \in Nat /\ Cardinality(May(e)) \in Nat
  BY <1>4, HopeType
<1>6. CASE e \notin todo[p]
  <2>1. p \in May(e)' <=> p \in May(e)
    BY <1>2, <1>6 DEF May
  <2>2. IsFiniteSet(May(e)') /\ Hope(e)' = Hope(e)
    BY <1>1, <1>2, <1>4, <1>6, <2>1, HopeSame
  <2>3. excuses'[e] = excuses[e] + 0
    <3>1. CASE Crash(p)
      BY <1>4, <1>6, <3>1 DEF Crash
    <3>2. CASE RecordFails(p)
      <4>1. Current(p) \in todo[p] /\ Current(p) # e
        BY <1>6, <3>2, Here DEF RecordFails
      <4> QED
        BY <1>3, <1>4, <3>2, <4>1 DEF RecordFails, Trouble, Counts
    <3> QED
      BY <3>1, <3>2
  <2> QED
    BY <1>3, <1>4, <1>5, <2>2, <2>3, SumKept
<1>7. CASE e \in todo[p] /\ (Crash(p) \/ e = Current(p))
  <2>1. IsFiniteSet(May(e)') /\ Hope(e)' \in Nat /\ Hope(e)' <= Hope(e) + 1
    BY <1>2, <1>4, <1>7, HopeDrops
  <2>2. excuses'[e] = excuses[e] + 1
    BY <1>3, <1>4, <1>7 DEF Crash, RecordFails, Trouble, Counts
  <2> QED
    BY <1>3, <1>4, <1>5, <2>1, <2>2, SumKept
<1>8. CASE e \in todo[p] /\ RecordFails(p) /\ e # Current(p)
  <2>1. p \in May(e) /\ e \notin todo'[p]
    BY <1>2, <1>8 DEF May
  <2>2. IsFiniteSet(May(e)') /\ Hope(e)' \in Nat /\ Hope(e)' <= Hope(e)
    BY <1>2, <1>4, <2>1, HopeLeaves
  <2>3. excuses'[e] = excuses[e] + 0
    <3>1. Current(p) \in Id
      BY <1>8, Here DEF RecordFails
    <3> QED
      BY <1>3, <1>4, <1>8, <3>1 DEF RecordFails, Trouble, Counts
  <2> QED
    BY <1>3, <1>4, <1>5, <2>2, <2>3, SumKept
<1> QED
  BY <1>6, <1>7, <1>8

LEMMA CauseRestart ==
  ASSUME IInv, CauseInv, NEW p \in Proc, Restart(p)
  PROVE  CauseInv'
<1>1. /\ UNCHANGED <<row, todo, effects, excuses>> /\ at[p] = "down" /\ at'[p] = "idle"
      /\ \A q \in Proc \ {p} : at'[q] = at[q]
  BY CountsType DEF Restart, table, ghosts, Counts
<1>2. \A e \in Id : p \in May(e)' <=> p \in May(e)
  BY <1>1 DEF May
<1>3. \A e \in Id : IsFiniteSet(May(e)') /\ Hope(e)' = Hope(e)
  BY <1>1, <1>2, HopeSame DEF CauseInv
<1> QED
  BY <1>1, <1>3 DEF CauseInv

LEMMA CauseStutter ==
  ASSUME CauseInv, UNCHANGED outboxVars
  PROVE  CauseInv'
<1>1. UNCHANGED <<row, at, todo, effects, excuses>>
  BY DEF outboxVars, table, passes, ghosts
<1>2. \A q \in Proc : Current(q)' = Current(q)
  BY <1>1, CurrentStays
<1>3. \A e \in Id : May(e)' = May(e) /\ (Held(e)' <=> Held(e))
  BY <1>1, <1>2 DEF May, Held
<1>4. \A e \in Id : Hope(e)' = Hope(e)
  BY <1>1, <1>3 DEF Hope
<1> QED
  BY <1>1, <1>3, <1>4 DEF CauseInv

LEMMA CauseStep == IInv /\ CauseInv /\ [OutboxNext]_outboxVars => CauseInv'
<1> SUFFICES ASSUME IInv, CauseInv, [OutboxNext]_outboxVars PROVE CauseInv'
  OBVIOUS
<1>1. CASE UNCHANGED outboxVars
  BY <1>1, CauseStutter
<1>2. ASSUME NEW e \in Id, InsertRow(e) \/ FallDue(e) \/ RequeueDeadLetter(e)
      PROVE  CauseInv'
  BY <1>2, CauseTable
<1>3. ASSUME NEW p \in Proc, Work(p) \/ Crash(p) \/ Restart(p)
      PROVE  CauseInv'
  BY <1>3, CauseFetch, CauseAttempt, CauseRecord, CauseAbandon, CauseRestart DEF Work
<1> QED
  BY <1>1, <1>2, <1>3 DEF OutboxNext

\* Every repeated effect has a crash, a lost answer, a failed UPDATE or an
\* overlapping read of its own to account for it, for any number of
\* processes, retries, dead letters and requeues.
THEOREM RepeatsAccounted == OutboxSpec => []RepeatsHaveCause
<1>1. IInv /\ CauseInv => RepeatsHaveCause
  <2> SUFFICES ASSUME IInv, CauseInv, NEW e \in Id PROVE effects[e] <= 1 + excuses[e]
    BY DEF RepeatsHaveCause
  <2>1. /\ effects[e] \in Nat /\ excuses[e] \in Nat /\ IsFiniteSet(May(e))
        /\ effects[e] + Hope(e) <= 1 + excuses[e]
    BY CountsType DEF Counts, CauseInv
  <2>2. Hope(e) \in Nat
    BY <2>1, HopeType
  <2> QED
    BY <2>1, <2>2
<1> QED
  BY <1>1, Inductive, CauseInit, CauseStep, PTL DEF OutboxSpec
=============================================================================
