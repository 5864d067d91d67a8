--------------------------- MODULE AgentTurnsProofs ---------------------------
(***************************************************************************)
(* Proofs about AgentTurns, for any messages, releases, thresholds, tries, *)
(* resends and failures: types, the breaker's count, cases and memory.     *)
(***************************************************************************)
EXTENDS AgentTurns, FiniteSetTheorems, TLAPS

TurnSteps == {"log", "read", "recall", "summary", "close", "look", "escalate", "route", "support",
          "knowledge", "ticket", "search", "hand over", "diagnose", "create", "reply",
          "answered", "dropped"}
Memory == [upTo: Nat, from: SUBSET Nat]
Where == [at: TurnSteps, run: 1..TurnRuns, seen: Nat, had: Memory, sent: 0..(Resends + 1),
          tries: 1..ToolTries]
Breaker == [state: {"CLOSED", "OPEN", "HALF_OPEN"}, fails: 0..Threshold, cooling: BOOLEAN]

Typed ==
    /\ breaker \in Breaker
    /\ turns \in [Chat -> Where]
    /\ thread \in Nat /\ IsFiniteSet(cases)
    /\ memory \in Memory /\ file \in Memory /\ elsewhere \in Memory
    /\ busy \in BOOLEAN /\ lapses \in 0..MaxLapses /\ misled \in BOOLEAN
    /\ \A t \in Chat : turns[t].seen \in 0..thread

\* Where a report has been looked at, and where a release can be.
Looked == {"route", "support", "knowledge", "ticket", "search", "hand over", "diagnose",
           "create", "reply", "answered"}
ClosingSteps == {"log", "read", "recall", "close", "answered", "dropped"}

Paths ==
    \A t \in Chat : /\ t \in Closing => turns[t].at \in ClosingSteps
                    /\ At(t, "close") => t \in Closing
                    /\ Sent(t) => turns[t].at \in Asks

\* A case opened on sight is told from others by the one turn that may open it.
CasesInv ==
    /\ \A t \in Incident : turns[t].at \in Looked => cases # {}
    /\ \A c, d \in cases : c.how = "tool" /\ d.how = "tool" /\ c.of = d.of => c = d
    /\ misled \/ \A c, d \in cases : c.how = "escalation" /\ d.how = "escalation" => c = d
    /\ misled \/ \A t, u \in Chat : At(t, "escalate") /\ At(u, "escalate") => t = u
    /\ misled \/ \A t \in Chat, c \in cases : At(t, "escalate") => c.how # "escalation"

WholeMemory(m) == 1..m.upTo \subseteq m.from
MemoryInv ==
    /\ WholeMemory(memory) /\ WholeMemory(file) /\ WholeMemory(elsewhere)
    /\ \A t \in Chat : WholeMemory(turns[t].had)

Inv == Typed /\ BreakerCounts /\ Paths /\ CasesInv /\ MemoryInv

-----------------------------------------------------------------------------
(* What a step leaves where it was.                                        *)

\* A set without two elements has a cardinality of at most one.
LEMMA AtMostOne ==
    ASSUME NEW S, \A c, d \in S : c = d
    PROVE  Cardinality(S) <= 1
<1>1. CASE S = {}
  BY <1>1, FS_EmptySet
<1>2. CASE S # {}
  <2>1. PICK c \in S : TRUE
    BY <1>2
  <2>2. S = {c}
    BY <2>1
  <2>3. Cardinality({c}) = 1
    BY FS_Singleton
  <2> QED
    BY <2>2, <2>3
<1> QED
  BY <1>1, <1>2

\* Every place a message can be sent to is a record of the right type.
LEMMA Places ==
    ASSUME Typed, NEW t \in Chat, NEW s \in TurnSteps
    PROVE  /\ Arrived \in Where /\ Onto(t, s) \in Where /\ Ends(t, s) \in Where
           /\ Again(t) \in Where /\ NoMemory \in Memory /\ WholeMemory(NoMemory)
           /\ Onto(t, s).at = s /\ Onto(t, s).had = NoMemory /\ Onto(t, s).seen = 0
           /\ Onto(t, s).sent = 0 /\ Ends(t, s).sent = 0 /\ Again(t).sent = 0
           /\ Ends(t, s).at = s /\ Ends(t, s).had = NoMemory /\ Ends(t, s).seen = 0
           /\ Again(t).at \in {"log", "dropped"} /\ Again(t).had = NoMemory /\ Again(t).seen = 0
<1>1. NoMemory \in Memory /\ WholeMemory(NoMemory)
  BY DEF NoMemory, Memory, WholeMemory
<1>2. turns[t] \in Where /\ turns[t].run \in 1..TurnRuns
  BY DEF Typed, Where
<1>3. 1 \in 1..TurnRuns /\ 1 \in 1..ToolTries /\ 0 \in 0..(Resends + 1)
  BY TurnsAssumption
<1>4. Arrived \in Where
  BY <1>1, <1>3 DEF Arrived, Where, TurnSteps
<1>5. Onto(t, s) \in Where /\ Ends(t, s) \in Where
  BY <1>1, <1>2, <1>3 DEF Onto, Ends, Arrived, Where
<1>6. Again(t) \in Where
  <2>1. CASE turns[t].run < TurnRuns
    <3>1. turns[t].run + 1 \in 1..TurnRuns
      BY <1>2, <2>1, TurnsAssumption
    <3> QED
      BY <1>1, <1>3, <2>1, <3>1 DEF Again, Arrived, Where, TurnSteps
  <2>2. CASE ~(turns[t].run < TurnRuns)
    BY <1>1, <1>3, <2>2 DEF Again, Ends, Arrived, Where, TurnSteps
  <2> QED
    BY <2>1, <2>2
<1> QED
  BY <1>1, <1>4, <1>5, <1>6 DEF Onto, Ends, Again, Arrived

\* What follows a request: the callers' next steps, and never a look or an escalation
\* but after the summary.
After(t, new) ==
    /\ new \in Where
    /\ turns[t].at = "summary" => new.at = "look"
    /\ turns[t].at = "close" => new.at = "answered"
    /\ turns[t].at \in Looked => new.at \in Looked
    /\ new.at \notin {"escalate", "close"}
    /\ new.had \in {NoMemory, turns[t].had}
    /\ new.seen \in {0, turns[t].seen} /\ new.sent = 0

LEMMA AnswersGoOn ==
    ASSUME Typed, NEW t \in Chat, turns[t].at \in Asks, NEW new \in AfterAnswer(t)
    PROVE  After(t, new)
<1> DEFINE P(s) == Onto(t, s) \in Where /\ Onto(t, s).at = s /\ Onto(t, s).had = NoMemory
                   /\ Onto(t, s).seen = 0 /\ Onto(t, s).sent = 0
<1>1. \A s \in TurnSteps : P(s)
  BY Places
<1>2. /\ P("support") /\ P("knowledge") /\ P("ticket") /\ P("reply") /\ P("create")
      /\ P("hand over") /\ P("look")
  BY <1>1 DEF TurnSteps
<1>3. /\ Ends(t, "answered") \in Where /\ Ends(t, "answered").at = "answered"
      /\ Ends(t, "answered").had = NoMemory /\ Ends(t, "answered").seen = 0
      /\ Ends(t, "answered").sent = 0
  BY Places DEF TurnSteps
<1> HIDE DEF P
<1>4. CASE At(t, "route")
  <2>1. new \in Routed(t)
    BY <1>4 DEF AfterAnswer, At
  <2>2. PICK a \in {"support", "knowledge", "ticket"} : new = Onto(t, a)
    BY <2>1 DEF Routed
  <2> QED
    BY <1>2, <1>4, <2>2 DEF P, After, At, Looked
<1>5. CASE At(t, "support")
  <2>1. new = Onto(t, "reply")
    BY <1>5 DEF AfterAnswer, At, Supported
  <2> QED
    BY <1>2, <1>5, <2>1 DEF P, After, At, Looked
<1>6. CASE At(t, "diagnose")
  <2>1. new = Onto(t, "create")
    BY <1>6 DEF AfterAnswer, At, Diagnosed
  <2> QED
    BY <1>2, <1>6, <2>1 DEF P, After, At, Looked
<1>7. CASE At(t, "search")
  <2>1. new \in {Onto(t, "reply"), Onto(t, "hand over")}
    BY <1>7 DEF AfterAnswer, At, Searched
  <2> QED
    BY <1>2, <1>7, <2>1 DEF P, After, At, Looked
<1>8. CASE At(t, "summary")
  <2>1. new = Onto(t, "look")
    BY <1>8 DEF AfterAnswer, At
  <2> QED
    BY <1>2, <1>8, <2>1 DEF P, After, At, Looked
<1>9. CASE At(t, "close")
  <2>1. new = Ends(t, "answered")
    BY <1>9 DEF AfterAnswer, At
  <2> QED
    BY <1>3, <1>9, <2>1 DEF After, At, Looked
<1> QED
  BY <1>4, <1>5, <1>6, <1>7, <1>8, <1>9 DEF Asks, At

LEMMA ErrorsGoOn ==
    ASSUME Typed, NEW t \in Chat, turns[t].at \in Asks, NEW again \in BOOLEAN,
           NEW new \in AfterError(t, again)
    PROVE  After(t, new)
<1>1. CASE ~At(t, "search")
  BY <1>1, AnswersGoOn DEF AfterError
<1>2. CASE At(t, "search")
  <2>1. CASE again /\ turns[t].tries < ToolTries
    <3>1. new = [turns[t] EXCEPT !.sent = 0, !.tries = @ + 1]
      BY <1>2, <2>1 DEF AfterError
    <3>2. turns[t] \in Where /\ turns[t].tries + 1 \in 1..ToolTries /\ 0 \in 0..(Resends + 1)
      BY <2>1, TurnsAssumption DEF Typed, Where
    <3> QED
      BY <1>2, <3>1, <3>2 DEF After, At, Where, Looked
  <2>2. CASE ~(again /\ turns[t].tries < ToolTries)
    <3>1. new = Onto(t, "hand over")
      BY <1>2, <2>2 DEF AfterError
    <3>2. /\ Onto(t, "hand over") \in Where /\ Onto(t, "hand over").at = "hand over"
          /\ Onto(t, "hand over").had = NoMemory /\ Onto(t, "hand over").seen = 0
          /\ Onto(t, "hand over").sent = 0
      <4>1. "hand over" \in TurnSteps
        BY DEF TurnSteps
      <4> QED
        BY <4>1, Places
    <3> QED
      BY <1>2, <3>1, <3>2 DEF After, At, Looked
  <2> QED
    BY <2>1, <2>2
<1> QED
  BY <1>1, <1>2

\* A step of a request goes on from its answer or error, or waits for one.
Waits(t, new) ==
    /\ new \in Where /\ turns[t].at \in Asks
    /\ new.at = turns[t].at /\ new.had = turns[t].had /\ new.seen = turns[t].seen

Requesting(t) == Request(t) \/ Answered(t) \/ Resend(t) \/ Fails(t)

LEMMA RequestsGoOn ==
    ASSUME Typed, Paths, NEW t \in Chat, Requesting(t)
    PROVE  /\ \E new : Moves(t, new) /\ (After(t, new) \/ Waits(t, new))
           /\ UNCHANGED Unreached
<1>0. turns[t] \in Where /\ 1 \in 0..(Resends + 1)
  BY TurnsAssumption DEF Typed
<1>1. CASE Request(t)
  <2>1. CASE Checked.state = "OPEN"
    <3>1. PICK new \in AfterError(t, FALSE) : Moves(t, new)
      BY <1>1, <2>1 DEF Request
    <3>2. After(t, new)
      BY <1>1, ErrorsGoOn DEF Request
    <3> QED
      BY <1>1, <3>1, <3>2 DEF Request
  <2>2. CASE Checked.state # "OPEN"
    <3> DEFINE new == [turns[t] EXCEPT !.sent = 1]
    <3>1. Moves(t, new) /\ turns[t].at \in Asks
      BY <1>1, <2>2 DEF Request
    <3>2. Waits(t, new)
      BY <1>0, <3>1 DEF Waits, Where
    <3> QED
      BY <1>1, <3>1, <3>2 DEF Request
  <2> QED
    BY <2>1, <2>2
<1>2. CASE Answered(t)
  <2>1. PICK new \in AfterAnswer(t) : Moves(t, new)
    BY <1>2 DEF Answered
  <2>2. After(t, new)
    BY <1>2, AnswersGoOn DEF Answered, Paths
  <2> QED
    BY <1>2, <2>1, <2>2 DEF Answered
<1>3. CASE Resend(t)
  <2> DEFINE new == [turns[t] EXCEPT !.sent = turns[t].sent + 1]
  <2>1. Moves(t, new) /\ turns[t].at \in Asks
    BY <1>0, <1>3 DEF Resend, Paths, Where
  <2>2. turns[t].sent + 1 \in 0..(Resends + 1)
    BY <1>0, <1>3, TurnsAssumption DEF Resend, Where
  <2>3. Waits(t, new)
    BY <1>0, <2>1, <2>2 DEF Waits, Where
  <2> QED
    BY <1>3, <2>1, <2>3 DEF Resend, Unreached
<1>4. CASE Fails(t)
  <2>1. PICK again \in BOOLEAN : \E new \in AfterError(t, again) : Moves(t, new)
    BY <1>4 DEF Fails
  <2>2. PICK new \in AfterError(t, again) : Moves(t, new)
    BY <2>1
  <2>3. After(t, new)
    BY <1>4, <2>2, ErrorsGoOn DEF Fails, Paths
  <2> QED
    BY <1>4, <2>2, <2>3 DEF Fails
<1> QED
  BY <1>1, <1>2, <1>3, <1>4 DEF Requesting

-----------------------------------------------------------------------------
(* Where a step takes its message or release.                              *)

Lands(t, new) ==
    /\ new \in Where /\ new.seen \in 0..thread'
    /\ new.had \in {NoMemory, turns[t].had, memory}
    /\ t \in Closing => new.at \in ClosingSteps
    /\ new.at = "close" => t \in Closing
    /\ new.sent > 0 => new.at \in Asks

Grows == thread' \in Nat /\ thread <= thread'

LEMMA OntoLands ==
    ASSUME Typed, Grows, NEW t \in Chat, NEW s \in TurnSteps,
           t \in Closing => s \in ClosingSteps, s # "close"
    PROVE  Lands(t, Onto(t, s)) /\ Lands(t, Ends(t, s))
<1>1. 0 \in 0..thread'
  BY DEF Grows
<1> QED
  BY <1>1, Places DEF Lands

LEMMA AgainLands ==
    ASSUME Typed, Grows, NEW t \in Chat
    PROVE  Lands(t, Again(t))
<1>1. 0 \in 0..thread'
  BY DEF Grows
<1>2. {"log", "dropped"} \subseteq ClosingSteps /\ "log" \in TurnSteps
  BY DEF ClosingSteps, TurnSteps
<1>3. /\ Again(t) \in Where /\ Again(t).at \in {"log", "dropped"} /\ Again(t).had = NoMemory
      /\ Again(t).seen = 0 /\ Again(t).sent = 0
  BY <1>2, Places
<1> QED
  BY <1>1, <1>2, <1>3 DEF Lands

LEMMA EnterGrows ==
    ASSUME Typed, NEW key, Enter(key)
    PROVE  Grows
  BY DEF Enter, Grows, Typed

LEMMA Landing ==
    ASSUME Typed, Paths, NEW t \in Chat, Proceeds(t) \/ Throws(t) \/ HandBack(t)
    PROVE  Grows /\ \E new : Moves(t, new) /\ Lands(t, new)
<1>1. thread \in Nat /\ turns[t] \in Where /\ turns[t].seen \in 0..thread
  BY DEF Typed
<1>2. {"read", "recall", "look", "escalate", "route", "ticket", "search", "reply", "hand over",
       "diagnose", "create", "answered"} \subseteq TurnSteps
  BY DEF TurnSteps
<1>3. t \in Closing => turns[t].at \in ClosingSteps /\ turns[t].at \in
        {"log", "read", "recall", "close", "answered", "dropped"}
  BY DEF Paths, ClosingSteps
<1>4. {"read", "recall", "answered"} \subseteq ClosingSteps
  BY DEF ClosingSteps
<1>5. thread' = thread => Grows
  BY <1>1 DEF Grows
<1>6. ASSUME Grows, NEW s \in {"read", "recall", "look", "escalate", "route", "ticket", "search",
                              "reply", "hand over", "diagnose", "create", "answered"},
             t \in Closing => s \in {"read", "recall", "answered"}
      PROVE  Lands(t, Onto(t, s)) /\ Lands(t, Ends(t, s))
  BY <1>2, <1>4, <1>6, OntoLands
<1>7. CASE LogMessage(t)
  <2>1. Grows
    BY <1>7, EnterGrows DEF LogMessage
  <2> QED
    BY <1>6, <1>7, <2>1, TurnsAssumption DEF LogMessage
<1>8. CASE ReadHistory(t)
  <2>1. Grows
    BY <1>5, <1>8 DEF ReadHistory
  <2>2. Lands(t, Onto(t, "recall"))
    BY <1>6, <2>1
  <2> DEFINE x == Onto(t, "recall")
  <2>x. x \in Where /\ Lands(t, x) /\ x.at = "recall" /\ x.sent = 0 /\ thread' = thread
    <3>1. "recall" \in TurnSteps
      BY DEF TurnSteps
    <3>2. /\ Onto(t, "recall") \in Where
          /\ Onto(t, "recall").at = "recall" /\ Onto(t, "recall").sent = 0
      BY <3>1, Places
    <3> QED
      BY <1>8, <2>2, <3>2 DEF ReadHistory
  <2> HIDE DEF x
  <2>3. Lands(t, [x EXCEPT !.seen = thread])
    BY <1>1, <2>x DEF Lands, Where
  <2>4. Lands(t, [x EXCEPT !.seen = 0])
    BY <1>1, <2>x DEF Lands, Where
  <2> QED
    BY <1>8, <2>1, <2>3, <2>4 DEF ReadHistory, x
<1>9. CASE t \in Turn /\ Recall(t)
  <2>1. Grows /\ t \notin Closing
    BY <1>5, <1>9, TurnsAssumption DEF Recall
  <2>2. Lands(t, Onto(t, "look"))
    BY <1>6, <2>1
  <2>3. Lands(t, [turns[t] EXCEPT !.at = "summary", !.had = memory])
    BY <1>1, <1>9, <2>1 DEF Lands, Where, Typed, TurnSteps, Asks, Recall
  <2> QED
    BY <1>9, <2>1, <2>2, <2>3 DEF Recall
<1>10. CASE CloseCase(t)
  <2>1. Grows
    BY <1>5, <1>10 DEF CloseCase
  <2>2. Lands(t, [turns[t] EXCEPT !.at = "close"])
    BY <1>1, <1>10 DEF Lands, Where, TurnSteps, ClosingSteps, Asks, CloseCase
  <2> QED
    BY <1>10, <2>1, <2>2 DEF CloseCase
<1>11. CASE LookUp(t)
  <2>1. Grows /\ t \notin Closing
    BY <1>3, <1>5, <1>11 DEF LookUp, At
  <2> QED
    BY <1>6, <1>11, <2>1 DEF LookUp
<1>12. CASE Escalate(t)
  <2>1. Grows /\ t \notin Closing
    BY <1>3, <1>5, <1>12 DEF Escalate, At
  <2> QED
    BY <1>6, <1>12, <2>1, AgainLands DEF Escalate
<1>13. CASE RouteByWords(t)
  <2>1. Grows /\ t \notin Closing
    BY <1>3, <1>5, <1>13 DEF RouteByWords, At
  <2> QED
    BY <1>6, <1>13, <2>1 DEF RouteByWords
<1>14. CASE Handle(t)
  <2>1. Grows /\ t \notin Closing
    BY <1>3, <1>5, <1>14 DEF Handle, At
  <2>2. PICK step \in {"search", "reply", "hand over", "diagnose"} : Moves(t, Onto(t, step))
    <3>1. CASE At(t, "knowledge")
      BY <1>14, <3>1 DEF Handle, At
    <3>2. CASE At(t, "ticket")
      <4>1. \E step \in IF OwnCase(t) THEN {"reply"} ELSE {"reply", "diagnose"} :
              Moves(t, Onto(t, step))
        BY <1>14, <3>2 DEF Handle, At
      <4> QED
        BY <4>1
    <3> QED
      BY <1>14, <3>1, <3>2 DEF Handle
  <2> QED
    BY <1>6, <2>1, <2>2
<1>15. CASE HandOver(t)
  <2>1. Grows /\ t \notin Closing
    <3>1. thread' = thread + 1 /\ turns[t].at = "hand over"
      BY <1>15 DEF HandOver, At
    <3>2. t \notin Closing
      BY <3>1 DEF Paths, ClosingSteps
    <3>3. thread \in Nat
      BY <1>1
    <3>4. thread + 1 \in Nat /\ thread <= thread + 1
      BY <3>3
    <3>5. Grows
      BY <3>1, <3>4 DEF Grows
    <3> QED
      BY <3>2, <3>5
  <2> QED
    BY <1>6, <1>15, <2>1 DEF HandOver
<1>16. CASE Create(t)
  <2>1. Grows /\ t \notin Closing
    BY <1>3, <1>5, <1>16 DEF Create, At
  <2>2. Moves(t, Again(t)) \/ Moves(t, Onto(t, "reply"))
    BY <1>16 DEF Create
  <2> QED
    BY <1>6, <2>1, <2>2, AgainLands
<1>17. CASE Reply(t)
  <2>1. Grows /\ t \notin Closing
    BY <1>3, <1>17, EnterGrows DEF Reply, At
  <2> QED
    BY <1>6, <1>17, <2>1 DEF Reply
<1>18. CASE Requesting(t)
  <2>1. PICK new : Moves(t, new) /\ (After(t, new) \/ Waits(t, new))
    BY <1>18, RequestsGoOn
  <2>2. Grows
    BY <1>5, <1>18, RequestsGoOn DEF Unreached
  <2>3. turns[t].at \in Asks
    BY <1>18 DEF Requesting, Request, Answered, Resend, Fails, Paths
  <2>4. t \in Closing => At(t, "close")
    BY <1>3, <2>3 DEF Asks, At
  <2>5. CASE After(t, new)
    BY <1>1, <1>4, <2>1, <2>2, <2>4, <2>5 DEF After, Lands, Grows, Where, At
  <2>6. CASE Waits(t, new)
    <3>1. turns[t].at = "close" => t \in Closing
      BY DEF Paths, At
    <3>2. t \in Closing => new.at \in ClosingSteps
      BY <1>3, <2>6 DEF Waits
    <3>3. new.seen \in 0..thread'
      BY <1>1, <2>2, <2>6 DEF Waits, Grows
    <3>4. Lands(t, new)
      BY <2>6, <3>1, <3>2, <3>3 DEF Waits, Lands
    <3> QED
      BY <2>1, <2>2, <3>4
  <2> QED
    BY <2>1, <2>2, <2>5, <2>6
<1>19. CASE Throws(t)
  BY <1>5, <1>19, AgainLands DEF Throws
<1>20. CASE HandBack(t)
  BY <1>5, <1>6, <1>20 DEF HandBack
<1> QED
  BY <1>7, <1>8, <1>9, <1>10, <1>11, <1>12, <1>13, <1>14, <1>15, <1>16, <1>17, <1>18, <1>19, <1>20
  DEF Proceeds, Requesting

-----------------------------------------------------------------------------
(* The breaker, the memory and the counters.                               *)

LEMMA BreakerMoves ==
    ASSUME breaker \in Breaker, BreakerCounts,
           NEW b \in {breaker, Checked, Ok, Bad, Closed, [breaker EXCEPT !.cooling = FALSE]}
    PROVE  b \in Breaker /\ (b.state = "CLOSED" <=> b.fails < Threshold)
<1>1. Threshold \in Nat \ {0}
  BY TurnsAssumption
<1>2. breaker = b => b \in Breaker /\ (b.state = "CLOSED" <=> b.fails < Threshold)
  BY DEF BreakerCounts
<1>3. CASE b = Checked
  BY <1>1, <1>3 DEF Checked, Breaker, BreakerCounts
<1>4. CASE b = Ok
  <2>1. b = [breaker EXCEPT !.fails = 0, !.state = "CLOSED", !.cooling = FALSE]
    BY <1>4 DEF Ok
  <2>2. 0 \in 0..Threshold /\ 0 < Threshold
    BY <1>1
  <2>3. b \in Breaker /\ b.state = "CLOSED" /\ b.fails = 0
    BY <2>1, <2>2 DEF Breaker
  <2> QED
    BY <2>2, <2>3
<1>5. CASE b = Bad
  <2> DEFINE n == IF breaker.fails < Threshold THEN breaker.fails + 1 ELSE Threshold
  <2>1. n \in 0..Threshold /\ (breaker.fails < Threshold \/ n = Threshold)
    BY <1>1 DEF Breaker
  <2>2. b = IF breaker.state # "OPEN" /\ n >= Threshold
            THEN [state |-> "OPEN", fails |-> n, cooling |-> TRUE]
            ELSE [breaker EXCEPT !.fails = n]
    BY <1>5 DEF Bad
  <2> HIDE DEF n
  <2>3. CASE breaker.state # "OPEN" /\ n >= Threshold
    BY <1>1, <2>1, <2>2, <2>3 DEF Breaker
  <2>4. CASE ~(breaker.state # "OPEN" /\ n >= Threshold)
    <3>1. b = [breaker EXCEPT !.fails = n]
      BY <2>2, <2>4
    <3>2. b \in Breaker /\ b.state = breaker.state /\ b.fails = n
      BY <2>1, <3>1 DEF Breaker
    <3>3. CASE breaker.state = "OPEN"
      BY <1>1, <2>1, <3>2, <3>3 DEF Breaker, BreakerCounts
    <3>4. CASE breaker.state # "OPEN"
      BY <1>1, <2>1, <2>4, <3>2, <3>4 DEF Breaker, BreakerCounts
    <3> QED
      BY <3>3, <3>4
  <2> QED
    BY <2>3, <2>4
<1>6. CASE b = Closed
  BY <1>1, <1>6 DEF Closed, Breaker
<1>7. CASE b = [breaker EXCEPT !.cooling = FALSE]
  BY <1>1, <1>7 DEF Breaker, BreakerCounts
<1> QED
  BY <1>2, <1>3, <1>4, <1>5, <1>6, <1>7

\* What is made from the memory a turn has read and from the messages it has
\* read is made from all of them.
LEMMA SummaryWhole ==
    ASSUME Typed, MemoryInv, NEW t \in Chat
    PROVE  /\ Summary(t) \in Memory /\ WholeMemory(Summary(t))
           /\ [upTo |-> turns[t].seen, from |-> 1..turns[t].seen] \in Memory
           /\ WholeMemory([upTo |-> turns[t].seen, from |-> 1..turns[t].seen])
<1> DEFINE m == turns[t].had
           n == turns[t].seen
<1>1. m \in Memory /\ n \in Nat
  BY DEF Typed, Where
<1>2. 1..m.upTo \subseteq m.from
  BY DEF MemoryInv, WholeMemory
<1> HIDE DEF m, n
<1>3. m.upTo \in Nat /\ m.from \subseteq Nat
  BY <1>1 DEF Memory
<1>4. Unsummarized(m, n) \subseteq Nat
  BY <1>1, <1>3 DEF Unsummarized
<1>5. 1..n \subseteq m.from \cup Unsummarized(m, n)
  BY <1>1, <1>2, <1>3 DEF Unsummarized
<1>6. Summary(t) = [upTo |-> n, from |-> m.from \cup Unsummarized(m, n)]
  BY DEF Summary, m, n
<1>7. 1..n \subseteq Nat
  BY <1>1
<1> QED
  BY <1>1, <1>3, <1>4, <1>5, <1>6, <1>7 DEF Memory, WholeMemory, n

\* What one message's or release's step leaves in the state it shares.
LEMMA Shared ==
    ASSUME Typed, NEW t \in Chat, Proceeds(t) \/ Throws(t) \/ HandBack(t)
    PROVE  /\ breaker' \in {breaker, Checked, Ok, Bad}
           /\ memory' \in {memory, Summary(t)}
           /\ file' \in {file, Summary(t), [upTo |-> turns[t].seen, from |-> 1..turns[t].seen]}
           /\ elsewhere' = elsewhere
           /\ busy' \in BOOLEAN /\ lapses' \in 0..MaxLapses /\ misled' \in BOOLEAN
           /\ IsFiniteSet(cases')
<1>1. /\ busy \in BOOLEAN /\ lapses \in 0..MaxLapses /\ misled \in BOOLEAN /\ IsFiniteSet(cases)
      /\ MaxLapses \in Nat
  BY TurnsAssumption DEF Typed
<1>2. lapses < MaxLapses => lapses + 1 \in 0..MaxLapses
  BY <1>1
<1>3. \A c : IsFiniteSet(cases \cup {c})
  BY <1>1, FS_AddElement
<1>4. CASE LogMessage(t)
  BY <1>1, <1>4 DEF LogMessage
<1>5. CASE ReadHistory(t)
  BY <1>1, <1>2, <1>5 DEF ReadHistory
<1>6. CASE Recall(t)
  BY <1>1, <1>6 DEF Recall
<1>7. CASE CloseCase(t) \/ RouteByWords(t) \/ Handle(t) \/ HandOver(t) \/ Reply(t) \/ HandBack(t)
  BY <1>1, <1>7 DEF CloseCase, RouteByWords, Handle, HandOver, Reply, HandBack
<1>8. CASE LookUp(t)
  <2>1. PICK blind \in BOOLEAN : /\ blind => lapses < MaxLapses
                                 /\ lapses' = IF blind THEN lapses + 1 ELSE lapses
    BY <1>8 DEF LookUp
  <2>2. misled' \in BOOLEAN
    BY <1>1, <1>8 DEF LookUp
  <2> QED
    BY <1>1, <1>2, <1>8, <2>1, <2>2 DEF LookUp
<1>9. CASE Escalate(t)
  BY <1>1, <1>2, <1>3, <1>9 DEF Escalate
<1>10. CASE Create(t)
  <2>1. PICK made, failed, untraced \in BOOLEAN :
           /\ failed \/ untraced => lapses < MaxLapses
           /\ lapses' = IF failed \/ untraced THEN lapses + 1 ELSE lapses
           /\ cases' = IF made /\ ~OwnCase(t) THEN cases \cup {Case(t, "tool")} ELSE cases
    BY <1>10 DEF Create
  <2>2. IsFiniteSet(cases') /\ lapses' \in 0..MaxLapses
    BY <1>1, <1>2, <1>3, <2>1
  <2> QED
    BY <1>1, <1>10, <2>2 DEF Create
<1>11. CASE Throws(t)
  BY <1>1, <1>2, <1>11 DEF Throws
<1>12. \A useful \in BOOLEAN : Store(t, useful) =>
         /\ memory' \in {memory, Summary(t)} /\ busy' \in BOOLEAN
         /\ file' \in {file, Summary(t), [upTo |-> turns[t].seen, from |-> 1..turns[t].seen]}
  BY <1>1 DEF Store
<1>13. CASE Request(t)
  BY <1>1, <1>12, <1>13 DEF Request, Unreached
<1>14. CASE Answered(t)
  BY <1>1, <1>12, <1>14 DEF Answered, Unreached
<1>15. CASE Resend(t)
  BY <1>1, <1>15 DEF Resend, Unreached
<1>16. CASE Fails(t)
  BY <1>1, <1>12, <1>16 DEF Fails, Unreached
<1> QED
  BY <1>4, <1>5, <1>6, <1>7, <1>8, <1>9, <1>10, <1>11, <1>13, <1>14, <1>15, <1>16 DEF Proceeds

-----------------------------------------------------------------------------
(* Each part of the invariant is preserved.                                *)

\* Types, the breaker's count, the paths and the memory, by where a step lands and
\* what it leaves of the shared state.
LEMMA TurnKeeps ==
    ASSUME Typed, BreakerCounts, Paths, MemoryInv, NEW t \in Chat,
           Proceeds(t) \/ Throws(t) \/ HandBack(t)
    PROVE  Typed' /\ BreakerCounts' /\ Paths' /\ MemoryInv'
<1>1. Grows /\ \E new : Moves(t, new) /\ Lands(t, new)
  BY Landing
<1>2. PICK new : Moves(t, new) /\ Lands(t, new)
  BY <1>1
<1>3. turns \in [Chat -> Where] /\ thread \in Nat /\ thread' \in Nat /\ thread <= thread'
  BY <1>1 DEF Typed, Grows
<1>4. turns' = [turns EXCEPT ![t] = new] /\ new \in Where
  BY <1>2 DEF Moves, Lands
<1>5. turns' \in [Chat -> Where] /\ \A u \in Chat : turns'[u] = IF u = t THEN new ELSE turns[u]
  BY <1>3, <1>4
<1>6. /\ breaker' \in {breaker, Checked, Ok, Bad}
      /\ memory' \in {memory, Summary(t)}
      /\ file' \in {file, Summary(t), [upTo |-> turns[t].seen, from |-> 1..turns[t].seen]}
      /\ elsewhere' = elsewhere
      /\ busy' \in BOOLEAN /\ lapses' \in 0..MaxLapses /\ misled' \in BOOLEAN
      /\ IsFiniteSet(cases')
  BY Shared
<1>7. breaker' \in Breaker /\ BreakerCounts'
  <2>1. breaker \in Breaker
    BY DEF Typed
  <2> QED
    BY <1>6, <2>1, BreakerMoves DEF BreakerCounts
<1>8. /\ memory' \in Memory /\ file' \in Memory /\ elsewhere' \in Memory
      /\ WholeMemory(memory') /\ WholeMemory(file') /\ WholeMemory(elsewhere')
  <2>1. /\ memory \in Memory /\ file \in Memory /\ elsewhere \in Memory
        /\ WholeMemory(memory) /\ WholeMemory(file) /\ WholeMemory(elsewhere)
    BY DEF Typed, MemoryInv
  <2> QED
    BY <1>6, <2>1, SummaryWhole
<1>9. \A u \in Chat : turns'[u].seen \in 0..thread'
  <2>1. \A u \in Chat : turns[u].seen \in 0..thread
    BY DEF Typed
  <2>2. new.seen \in 0..thread'
    BY <1>2 DEF Lands
  <2> QED
    BY <1>3, <1>5, <2>1, <2>2
<1>10. Typed'
  BY <1>3, <1>5, <1>6, <1>7, <1>8, <1>9 DEF Typed
<1>11. Paths'
  <2>1. SUFFICES ASSUME NEW u \in Chat
                 PROVE  /\ u \in Closing => turns'[u].at \in ClosingSteps
                        /\ turns'[u].at = "close" => u \in Closing
                        /\ turns'[u].sent > 0 => turns'[u].at \in Asks
    BY DEF Paths, At, Sent
  <2>2. CASE u = t
    BY <1>2, <1>5, <2>2 DEF Lands
  <2>3. CASE u # t
    BY <1>5, <2>3 DEF Paths, At, Sent
  <2> QED
    BY <2>2, <2>3
<1>12. MemoryInv'
  <2>1. WholeMemory(memory) /\ WholeMemory(NoMemory) /\ \A u \in Chat : WholeMemory(turns[u].had)
    BY DEF MemoryInv, WholeMemory, NoMemory
  <2>2. WholeMemory(new.had)
    BY <1>2, <2>1 DEF Lands
  <2>3. \A u \in Chat : WholeMemory(turns'[u].had)
    BY <1>5, <2>1, <2>2
  <2> QED
    BY <1>8, <2>3 DEF MemoryInv, WholeMemory
<1> QED
  BY <1>7, <1>10, <1>11, <1>12

\* The same for a process that dies.
LEMMA DeathKeeps ==
    ASSUME Typed, BreakerCounts, Paths, MemoryInv, Dies
    PROVE  Typed' /\ BreakerCounts' /\ Paths' /\ MemoryInv'
<1>1. \A u \in Chat : turns'[u] \in {turns[u], Ends(u, "dropped")}
  BY DEF Dies
<1>2. \A u \in Chat : /\ Ends(u, "dropped") \in Where /\ Ends(u, "dropped").at = "dropped"
                      /\ Ends(u, "dropped").seen = 0 /\ Ends(u, "dropped").sent = 0
                      /\ Ends(u, "dropped").had = NoMemory /\ WholeMemory(NoMemory)
  BY Places DEF TurnSteps
<1>3. turns \in [Chat -> Where] /\ thread \in Nat /\ \A u \in Chat : turns[u].seen \in 0..thread
  BY DEF Typed
<1>4. turns' \in [Chat -> Where]
  <2>1. turns' = [u \in Chat |-> IF turns[u].at \in Finished \/ turns[u] = Arrived THEN turns[u]
                                ELSE Ends(u, "dropped")]
    BY DEF Dies
  <2> QED
    BY <1>2, <1>3, <2>1
<1>5. /\ thread' = thread /\ cases' = cases /\ memory' = file /\ file' = file
      /\ elsewhere' = elsewhere /\ misled' = misled /\ busy' = FALSE /\ breaker' = Closed
      /\ lapses < MaxLapses /\ lapses' = lapses + 1
  BY DEF Dies
<1>6. breaker' \in Breaker /\ BreakerCounts'
  <2>1. breaker \in Breaker
    BY DEF Typed
  <2> QED
    BY <1>5, <2>1, BreakerMoves DEF BreakerCounts
<1>7. lapses' \in 0..MaxLapses
  BY <1>5, TurnsAssumption DEF Typed
<1>8. \A u \in Chat : turns'[u].seen \in 0..thread'
  BY <1>1, <1>2, <1>3, <1>5
<1>9. Typed'
  BY <1>4, <1>5, <1>6, <1>7, <1>8 DEF Typed
<1>10. Paths'
  <2>1. SUFFICES ASSUME NEW u \in Chat
                 PROVE  /\ u \in Closing => turns'[u].at \in ClosingSteps
                        /\ turns'[u].at = "close" => u \in Closing
                        /\ turns'[u].sent > 0 => turns'[u].at \in Asks
    BY DEF Paths, At, Sent
  <2>2. CASE turns'[u] = turns[u]
    BY <2>2 DEF Paths, At, Sent
  <2>3. CASE turns'[u] = Ends(u, "dropped")
    BY <1>2, <2>3 DEF ClosingSteps
  <2> QED
    BY <1>1, <2>2, <2>3
<1>11. MemoryInv'
  <2>1. WholeMemory(file) /\ WholeMemory(elsewhere) /\ \A u \in Chat : WholeMemory(turns[u].had)
    BY DEF MemoryInv
  <2>2. \A u \in Chat : WholeMemory(turns'[u].had)
    BY <1>1, <1>2, <2>1
  <2> QED
    BY <1>5, <2>1, <2>2 DEF MemoryInv, WholeMemory
<1> QED
  BY <1>6, <1>9, <1>10, <1>11

LEMMA OtherTurnsKeep ==
    ASSUME Typed, BreakerCounts, Paths, MemoryInv,
           Cool \/ OtherLoads \/ OtherStores \/ UNCHANGED turnVars
    PROVE  Typed' /\ BreakerCounts' /\ Paths' /\ MemoryInv'
<1>1. /\ turns' = turns /\ thread' = thread /\ cases' = cases /\ memory' = memory
      /\ busy' = busy /\ lapses' = lapses /\ misled' = misled
      /\ file' \in {file, elsewhere} /\ elsewhere' \in {file, elsewhere}
      /\ breaker' \in {breaker, [breaker EXCEPT !.cooling = FALSE]}
  BY DEF Cool, OtherLoads, OtherStores, turnVars
<1>2. breaker' \in Breaker /\ BreakerCounts'
  <2>1. breaker \in Breaker
    BY DEF Typed
  <2> QED
    BY <1>1, <2>1, BreakerMoves DEF BreakerCounts
<1>3. Typed'
  BY <1>1, <1>2 DEF Typed
<1>4. Paths'
  BY <1>1 DEF Paths, At, Sent
<1>5. MemoryInv'
  BY <1>1 DEF MemoryInv, WholeMemory
<1> QED
  BY <1>2, <1>3, <1>4, <1>5

-----------------------------------------------------------------------------
(* The cases.                                                              *)

\* A message moves on and no case is opened: it may not start to escalate, nor
\* pass the look for a case unseen.
LEMMA NoCaseOpened ==
    ASSUME Typed, CasesInv, NEW t \in Chat, NEW new, Moves(t, new), UNCHANGED <<cases, misled>>,
           new.at # "escalate", new.at \in Looked => turns[t].at \in Looked \/ t \notin Incident
    PROVE  CasesInv'
<1>1. turns \in [Chat -> Where] /\ Incident \subseteq Chat
  BY TurnsAssumption DEF Typed, Chat
<1>2. \A u \in Chat : turns'[u] = IF u = t THEN new ELSE turns[u]
  BY <1>1 DEF Moves
<1>3. \A u \in Incident : turns'[u].at \in Looked => cases # {}
  BY <1>1, <1>2 DEF CasesInv
<1>4. \A u \in Chat : turns'[u].at = "escalate" => turns[u].at = "escalate"
  BY <1>2
<1>5. misled \/ \A u, v \in Chat : turns'[u].at = "escalate" /\ turns'[v].at = "escalate" => u = v
  BY <1>4 DEF CasesInv, At
<1>6. misled \/ \A u \in Chat, c \in cases : turns'[u].at = "escalate" => c.how # "escalation"
  BY <1>4 DEF CasesInv, At
<1> QED
  BY <1>3, <1>5, <1>6 DEF CasesInv, At

LEMMA LookUpKeeps ==
    ASSUME Typed, Paths, CasesInv, NEW t \in Chat, LookUp(t)
    PROVE  CasesInv'
<1>1. turns \in [Chat -> Where] /\ Incident \subseteq Chat
  BY TurnsAssumption DEF Typed, Chat
<1>2. PICK blind \in BOOLEAN :
        IF (cases = {} \/ blind) /\ t \in Incident
        THEN /\ Moves(t, Onto(t, "escalate"))
             /\ misled' = (misled \/ blind \/ \E u \in Turn : At(u, "escalate"))
        ELSE Moves(t, Onto(t, "route")) /\ UNCHANGED misled
  BY DEF LookUp
<1>3. cases' = cases
  BY DEF LookUp
<1>4. {"escalate", "route"} \subseteq TurnSteps
  BY DEF TurnSteps
<1>5. Onto(t, "escalate").at = "escalate" /\ Onto(t, "route").at = "route"
  BY <1>4, Places
<1>6. CASE (cases = {} \/ blind) /\ t \in Incident
  <2>1. misled' = (misled \/ blind \/ \E u \in Turn : At(u, "escalate"))
    BY <1>2, <1>6
  <2>2. \A u \in Chat : turns'[u] = IF u = t THEN Onto(t, "escalate") ELSE turns[u]
    BY <1>1, <1>2, <1>6 DEF Moves
  <2>3. \A u \in Chat : u # t /\ turns'[u].at = "escalate" => \E v \in Turn : At(v, "escalate")
    <3>1. \A u \in Chat : turns[u].at = "escalate" => u \in Turn
      BY DEF Paths, ClosingSteps, Chat
    <3> QED
      BY <2>2, <3>1 DEF At
  <2>4. \A u \in Incident : turns'[u].at \in Looked => cases # {}
    BY <1>1, <1>5, <2>2 DEF CasesInv, Looked
  <2>5. misled' \/ cases = {}
    BY <1>6, <2>1
  <2>6. misled' \/ \A u, v \in Chat :
                     turns'[u].at = "escalate" /\ turns'[v].at = "escalate" => u = v
    BY <2>1, <2>3
  <2> QED
    BY <1>3, <2>4, <2>5, <2>6 DEF CasesInv, At
<1>7. CASE ~((cases = {} \/ blind) /\ t \in Incident)
  <2>1. Moves(t, Onto(t, "route")) /\ misled' = misled /\ (t \in Incident => cases # {})
    BY <1>2, <1>7
  <2>2. \A u \in Chat : turns'[u] = IF u = t THEN Onto(t, "route") ELSE turns[u]
    BY <1>1, <2>1 DEF Moves
  <2>3. \A u \in Incident : turns'[u].at \in Looked => cases # {}
    BY <1>1, <2>1, <2>2 DEF CasesInv
  <2>4. \A u \in Chat : turns'[u].at = "escalate" => turns[u].at = "escalate"
    BY <1>5, <2>2
  <2>5. misled \/ \A u, v \in Chat : turns'[u].at = "escalate" /\ turns'[v].at = "escalate" => u = v
    BY <2>4 DEF CasesInv, At
  <2>6. misled \/ \A u \in Chat, c \in cases : turns'[u].at = "escalate" => c.how # "escalation"
    BY <2>4 DEF CasesInv, At
  <2> QED
    BY <1>3, <2>1, <2>3, <2>5, <2>6 DEF CasesInv, At
<1> QED
  BY <1>6, <1>7

LEMMA EscalateKeeps ==
    ASSUME Typed, CasesInv, NEW t \in Chat, Escalate(t)
    PROVE  CasesInv'
<1>1. turns \in [Chat -> Where] /\ Incident \subseteq Chat
  BY TurnsAssumption DEF Typed, Chat
<1>2. Onto(t, "route").at = "route" /\ Again(t).at \in {"log", "dropped"}
  <2>1. "route" \in TurnSteps
    BY DEF TurnSteps
  <2> QED
    BY <2>1, Places
<1>3. PICK new \in {Onto(t, "route"), Again(t)} : Moves(t, new)
  BY DEF Escalate
<1>4. \A u \in Chat : turns'[u] = IF u = t THEN new ELSE turns[u]
  BY <1>1, <1>3 DEF Moves
<1> DEFINE c0 == Case(t, "escalation")
<1>5. c0.how = "escalation" /\ c0.of = t
  BY DEF Case
<1>6. cases' = cases \cup {c0} /\ misled' = misled /\ turns[t].at = "escalate"
  BY DEF Escalate, At
<1> HIDE DEF c0
<1>7. cases' # {}
  BY <1>6
<1>8. \A c, d \in cases' : c.how = "tool" /\ d.how = "tool" /\ c.of = d.of => c = d
  BY <1>5, <1>6 DEF CasesInv
<1>9. misled \/ \A c \in cases : c.how # "escalation"
  BY <1>6 DEF CasesInv, At
<1>10. misled \/ \A c, d \in cases' : c.how = "escalation" /\ d.how = "escalation" => c = d
  BY <1>6, <1>9
<1>11. misled \/ \A u \in Chat : turns'[u].at # "escalate"
  BY <1>2, <1>3, <1>4, <1>6 DEF CasesInv, At
<1> QED
  BY <1>6, <1>7, <1>8, <1>10, <1>11 DEF CasesInv, At

LEMMA CreateKeeps ==
    ASSUME Typed, CasesInv, NEW t \in Chat, Create(t)
    PROVE  CasesInv'
<1>1. turns \in [Chat -> Where] /\ Incident \subseteq Chat
  BY TurnsAssumption DEF Typed, Chat
<1>2. Onto(t, "reply").at = "reply" /\ Again(t).at \in {"log", "dropped"}
  <2>1. "reply" \in TurnSteps
    BY DEF TurnSteps
  <2> QED
    BY <2>1, Places
<1>3. PICK new \in {Onto(t, "reply"), Again(t)} : Moves(t, new)
  BY DEF Create
<1>4. \A u \in Chat : turns'[u] = IF u = t THEN new ELSE turns[u]
  BY <1>1, <1>3 DEF Moves
<1>5. misled' = misled /\ turns[t].at = "create"
  BY DEF Create, At
<1>6. cases' = cases \/ (cases' = cases \cup {Case(t, "tool")} /\ ~OwnCase(t))
  <2>1. PICK made \in BOOLEAN :
          cases' = IF made /\ ~OwnCase(t) THEN cases \cup {Case(t, "tool")} ELSE cases
    BY DEF Create
  <2> QED
    BY <2>1
<1>7. \A u \in Incident : turns[u].at \in Looked => cases # {}
  BY DEF CasesInv
<1>8. \A u \in Incident : turns'[u].at \in Looked => turns[u].at \in Looked
  BY <1>1, <1>4, <1>5 DEF Looked
<1>9. \A u \in Chat : turns'[u].at = "escalate" => turns[u].at = "escalate"
  BY <1>2, <1>3, <1>4
<1>10. misled \/ \A u, v \in Chat : turns'[u].at = "escalate" /\ turns'[v].at = "escalate" => u = v
  BY <1>9 DEF CasesInv, At
<1>11. misled \/ \A u \in Chat, c \in cases : turns'[u].at = "escalate" => c.how # "escalation"
  BY <1>9 DEF CasesInv, At
<1>12. CASE cases' = cases
  BY <1>5, <1>7, <1>8, <1>10, <1>11, <1>12 DEF CasesInv, At
<1>13. CASE cases' = cases \cup {Case(t, "tool")} /\ ~OwnCase(t)
  <2> DEFINE c0 == Case(t, "tool")
  <2>1. c0.how = "tool" /\ c0.of = t
    BY DEF Case
  <2>2. \A c \in cases : ~(c.of = t /\ c.how = "tool")
    BY <1>13 DEF OwnCase
  <2>3. cases' = cases \cup {c0}
    BY <1>13
  <2> HIDE DEF c0
  <2>4. \A c, d \in cases' : c.how = "tool" /\ d.how = "tool" /\ c.of = d.of => c = d
    BY <2>1, <2>2, <2>3 DEF CasesInv
  <2>5. misled \/ \A c, d \in cases' : c.how = "escalation" /\ d.how = "escalation" => c = d
    BY <2>1, <2>3 DEF CasesInv
  <2>6. misled \/ \A u \in Chat, c \in cases' : turns'[u].at = "escalate" => c.how # "escalation"
    BY <1>11, <2>1, <2>3
  <2> QED
    BY <1>5, <1>10, <2>3, <2>4, <2>5, <2>6 DEF CasesInv, At
<1> QED
  BY <1>6, <1>12, <1>13

\* The steps that open no case and start no escalation.
LEMMA CasesKept ==
    ASSUME Typed, Paths, CasesInv, NEW t \in Chat, Proceeds(t) \/ Throws(t) \/ HandBack(t)
    PROVE  CasesInv'
<1> DEFINE Calm(new) == Moves(t, new) /\ new.at # "escalate"
                        /\ (new.at \in Looked => turns[t].at \in Looked \/ t \notin Incident)
<1>1. \A s \in TurnSteps : Onto(t, s).at = s
  BY Places
<1>2. turns[t] \in Where /\ (t \in Closing => t \notin Incident)
  BY TurnsAssumption DEF Typed
<1>3. Again(t).at \notin Looked /\ Again(t).at # "escalate"
  <2>1. "log" \in TurnSteps
    BY DEF TurnSteps
  <2>2. Again(t).at \in {"log", "dropped"}
    BY <2>1, Places
  <2> QED
    BY <2>2 DEF Looked
<1>4. CASE LookUp(t)
  BY <1>4, LookUpKeeps
<1>5. CASE Escalate(t)
  BY <1>5, EscalateKeeps
<1>6. CASE Create(t)
  BY <1>6, CreateKeeps
<1>7. CASE LogMessage(t) \/ HandBack(t)
  <2>1. Calm(Onto(t, "read")) /\ UNCHANGED <<cases, misled>>
    BY <1>1, <1>7 DEF LogMessage, HandBack, TurnSteps, Looked
  <2> QED
    BY <2>1, NoCaseOpened
<1>8. CASE ReadHistory(t)
  <2>1. \A n : [Onto(t, "recall") EXCEPT !.seen = n].at = "recall"
    BY <1>1 DEF TurnSteps, Onto, Arrived
  <2>2. \E n : Moves(t, [Onto(t, "recall") EXCEPT !.seen = n]) /\ UNCHANGED <<cases, misled>>
    BY <1>8 DEF ReadHistory
  <2>3. PICK n : Calm([Onto(t, "recall") EXCEPT !.seen = n]) /\ UNCHANGED <<cases, misled>>
    BY <2>1, <2>2 DEF Looked
  <2> QED
    BY <2>3, NoCaseOpened
<1>9. CASE Recall(t)
  <2>1. [turns[t] EXCEPT !.at = "summary", !.had = memory].at = "summary"
    BY <1>2 DEF Where
  <2>2. Onto(t, "look").at = "look"
    BY <1>1 DEF TurnSteps
  <2>3. UNCHANGED <<cases, misled>> /\ \E new : Calm(new)
    BY <1>9, <2>1, <2>2 DEF Recall, Looked
  <2> QED
    BY <2>3, NoCaseOpened
<1>10. CASE CloseCase(t)
  <2>1. [turns[t] EXCEPT !.at = "close"].at = "close"
    BY <1>2 DEF Where
  <2>2. UNCHANGED <<cases, misled>> /\ \E new : Calm(new)
    BY <1>10, <2>1 DEF CloseCase, Looked
  <2> QED
    BY <2>2, NoCaseOpened
<1>11. CASE RouteByWords(t) \/ HandOver(t)
  <2>1. Onto(t, "ticket").at = "ticket"
    BY <1>1 DEF TurnSteps
  <2>2. UNCHANGED <<cases, misled>> /\ Calm(Onto(t, "ticket"))
    BY <1>11, <2>1 DEF RouteByWords, HandOver, At, Looked
  <2> QED
    BY <2>2, NoCaseOpened
<1>12. CASE Handle(t)
  <2>1. \A s \in {"search", "reply", "hand over", "diagnose"} :
          Onto(t, s).at = s /\ s # "escalate"
    BY <1>1 DEF TurnSteps
  <2>2. turns[t].at \in Looked /\ UNCHANGED <<cases, misled>>
    BY <1>12 DEF Handle, At, Looked
  <2>3. \E s \in {"search", "reply", "hand over", "diagnose"} : Moves(t, Onto(t, s))
    <3>1. CASE At(t, "knowledge")
      BY <1>12, <3>1 DEF Handle, At
    <3>2. CASE At(t, "ticket")
      <4>1. \E step \in IF OwnCase(t) THEN {"reply"} ELSE {"reply", "diagnose"} :
              Moves(t, Onto(t, step))
        BY <1>12, <3>2 DEF Handle, At
      <4> QED
        BY <4>1
    <3> QED
      BY <1>12, <3>1, <3>2 DEF Handle
  <2>4. PICK s \in {"search", "reply", "hand over", "diagnose"} : Moves(t, Onto(t, s))
    BY <2>3
  <2>5. Calm(Onto(t, s))
    BY <2>1, <2>2, <2>4
  <2> QED
    BY <2>2, <2>5, NoCaseOpened
<1>13. CASE Reply(t)
  <2>1. Ends(t, "answered").at = "answered"
    BY DEF Ends, Arrived
  <2>2. UNCHANGED <<cases, misled>> /\ Calm(Ends(t, "answered"))
    BY <1>13, <2>1 DEF Reply, At, Looked
  <2> QED
    BY <2>2, NoCaseOpened
<1>14. CASE Requesting(t)
  <2>1. PICK new : Moves(t, new) /\ (After(t, new) \/ Waits(t, new))
    BY <1>14, RequestsGoOn
  <2>2. UNCHANGED <<cases, misled>>
    BY <1>14, RequestsGoOn DEF Unreached
  <2>3. turns[t].at \in Asks
    BY <1>14 DEF Requesting, Request, Answered, Resend, Fails, Paths
  <2>4. turns[t].at = "close" => t \notin Incident
    BY <1>2 DEF Paths, At
  <2>5. new.at # "escalate"
    BY <2>1, <2>3 DEF After, Waits, Asks
  <2>6. new.at \in Looked => turns[t].at \in Looked \/ t \notin Incident
    <3>1. CASE turns[t].at = "summary"
      BY <2>1, <3>1 DEF After, Waits, Looked
    <3>2. CASE turns[t].at # "summary"
      BY <2>3, <2>4, <3>2 DEF Asks, Looked
    <3> QED
      BY <3>1, <3>2
  <2> QED
    BY <2>1, <2>2, <2>5, <2>6, NoCaseOpened
<1>15. CASE Throws(t)
  <2>1. UNCHANGED <<cases, misled>> /\ Calm(Again(t))
    BY <1>3, <1>15 DEF Throws
  <2> QED
    BY <2>1, NoCaseOpened
<1> QED
  BY <1>4, <1>5, <1>6, <1>7, <1>8, <1>9, <1>10, <1>11, <1>12, <1>13, <1>14, <1>15
  DEF Proceeds, Requesting

-----------------------------------------------------------------------------
(* The invariant, and what it gives.                                       *)

LEMMA InvInit ==
    TurnsInit => Inv
<1> SUFFICES ASSUME TurnsInit
             PROVE  Inv
  OBVIOUS
<1>1. /\ 1 \in 1..TurnRuns /\ 1 \in 1..ToolTries /\ 0 \in 0..(Resends + 1)
      /\ 0 \in 0..Threshold /\ 0 < Threshold /\ 0 \in 0..MaxLapses
  BY TurnsAssumption
<1>2. NoMemory \in Memory /\ WholeMemory(NoMemory)
  BY DEF NoMemory, Memory, WholeMemory
<1>3. Arrived \in Where
  BY <1>1, <1>2 DEF Arrived, Where, TurnSteps
<1>4. /\ turns = [t \in Chat |-> Arrived] /\ thread = 0 /\ cases = {} /\ breaker = Closed
      /\ memory = NoMemory /\ file = NoMemory /\ elsewhere = NoMemory
      /\ busy = FALSE /\ lapses = 0 /\ misled = FALSE
  BY DEF TurnsInit
<1>5. \A t \in Chat : turns[t] = Arrived
  BY <1>4
<1>6. Arrived.at = "log" /\ Arrived.seen = 0 /\ Arrived.had = NoMemory /\ Arrived.sent = 0
  BY DEF Arrived
<1>7. breaker \in Breaker /\ BreakerCounts
  BY <1>1, <1>4 DEF Closed, Breaker, BreakerCounts
<1>8. Typed
  <2>1. turns \in [Chat -> Where] /\ thread \in Nat
    BY <1>3, <1>4
  <2>2. \A t \in Chat : turns[t].seen \in 0..thread
    BY <1>4, <1>5, <1>6
  <2>3. memory \in Memory /\ file \in Memory /\ elsewhere \in Memory
    BY <1>2, <1>4
  <2>4. IsFiniteSet(cases)
    BY <1>4, FS_EmptySet
  <2>5. busy \in BOOLEAN /\ lapses \in 0..MaxLapses /\ misled \in BOOLEAN
    BY <1>1, <1>4
  <2> QED
    BY <1>7, <2>1, <2>2, <2>3, <2>4, <2>5 DEF Typed
<1>9. Paths
  BY <1>5, <1>6 DEF Paths, At, Sent, ClosingSteps
<1>10. CasesInv
  <2>1. Incident \subseteq Chat
    BY TurnsAssumption DEF Chat
  <2> QED
    BY <1>4, <1>5, <1>6, <2>1 DEF CasesInv, Looked, At
<1>11. MemoryInv
  BY <1>2, <1>4, <1>5, <1>6 DEF MemoryInv
<1> QED
  BY <1>7, <1>8, <1>9, <1>10, <1>11 DEF Inv

LEMMA InvStep ==
    Inv /\ [TurnsNext]_turnVars => Inv'
<1> SUFFICES ASSUME Inv, [TurnsNext]_turnVars
             PROVE  Inv'
  OBVIOUS
<1>1. Typed /\ BreakerCounts /\ Paths /\ CasesInv /\ MemoryInv
  BY DEF Inv
<1>2. CASE \E t \in Chat : Proceeds(t) \/ Throws(t) \/ HandBack(t)
  <2>1. PICK t \in Chat : Proceeds(t) \/ Throws(t) \/ HandBack(t)
    BY <1>2
  <2>2. Typed' /\ BreakerCounts' /\ Paths' /\ MemoryInv'
    BY <1>1, <2>1, TurnKeeps
  <2>3. CasesInv'
    BY <1>1, <2>1, CasesKept
  <2> QED
    BY <2>2, <2>3 DEF Inv
<1>3. CASE Dies
  <2>1. Typed' /\ BreakerCounts' /\ Paths' /\ MemoryInv'
    BY <1>1, <1>3, DeathKeeps
  <2>2. cases' = cases /\ misled' = misled
    BY <1>3 DEF Dies
  <2>3. \A u \in Chat : turns'[u] = turns[u] \/ turns'[u].at = "dropped"
    BY <1>3 DEF Dies, Ends, Arrived
  <2>4. Incident \subseteq Chat
    BY TurnsAssumption DEF Chat
  <2>5. \A u \in Incident : turns'[u].at \in Looked => cases # {}
    BY <1>1, <2>3, <2>4 DEF CasesInv, Looked
  <2>6. \A u \in Chat : turns'[u].at = "escalate" => turns[u].at = "escalate"
    BY <2>3
  <2>7. misled \/ \A u, v \in Chat : turns'[u].at = "escalate" /\ turns'[v].at = "escalate" => u = v
    BY <1>1, <2>6 DEF CasesInv, At
  <2>8. misled \/ \A u \in Chat, c \in cases : turns'[u].at = "escalate" => c.how # "escalation"
    BY <1>1, <2>6 DEF CasesInv, At
  <2>9. CasesInv'
    BY <1>1, <2>2, <2>5, <2>7, <2>8 DEF CasesInv, At
  <2> QED
    BY <2>1, <2>9 DEF Inv
<1>4. CASE Cool \/ OtherLoads \/ OtherStores \/ UNCHANGED turnVars
  <2>1. Typed' /\ BreakerCounts' /\ Paths' /\ MemoryInv'
    BY <1>1, <1>4, OtherTurnsKeep
  <2>2. turns' = turns /\ cases' = cases /\ misled' = misled
    BY <1>4 DEF Cool, OtherLoads, OtherStores, turnVars
  <2>3. CasesInv'
    BY <1>1, <2>2 DEF CasesInv, At
  <2> QED
    BY <2>1, <2>3 DEF Inv
<1> QED
  BY <1>2, <1>3, <1>4 DEF TurnsNext

LEMMA InvAlways ==
    TurnsSpec => []Inv
<1> QED
  BY InvInit, InvStep, PTL DEF TurnsSpec

\* Types: the breaker, the messages' places with their tries and what they have read of the
\* thread, and the bounds.
THEOREM TurnsTyped ==
    TurnsSpec => []TurnsTypeOK
<1>1. Inv => TurnsTypeOK
  BY DEF Inv, Typed, Where, Breaker, TurnsTypeOK
<1> QED
  BY <1>1, InvAlways, PTL

\* A report that was answered has its case; two looks at once or a failed query apart,
\* one case is opened on sight; the agent's tool opens one for a message, however
\* often it is run; and the breaker is closed exactly while fewer than Threshold
\* requests in a row have failed.
THEOREM TurnsAccountedAlways ==
    TurnsSpec => []TurnsAccounted
<1>1. Inv => TurnsAccounted
  <2> SUFFICES ASSUME Inv
               PROVE  TurnsAccounted
    OBVIOUS
  <2>1. CasesInv /\ BreakerCounts
    BY DEF Inv
  <2>2. \A t \in Incident : At(t, "answered") => cases # {}
    BY <2>1 DEF CasesInv, At, Looked
  <2>3. Cardinality({c \in cases : c.how = "escalation"}) <= 1 \/ misled
    <3>1. SUFFICES ASSUME ~misled
                   PROVE  Cardinality({c \in cases : c.how = "escalation"}) <= 1
      OBVIOUS
    <3>2. \A c, d \in {c \in cases : c.how = "escalation"} : c = d
      BY <2>1, <3>1 DEF CasesInv
    <3> HIDE DEF Inv
    <3> QED
      BY <3>2, AtMostOne
  <2>4. \A t \in Turn : Cardinality({c \in cases : c.of = t /\ c.how = "tool"}) <= 1
    <3>1. SUFFICES ASSUME NEW t \in Turn
                   PROVE  Cardinality({c \in cases : c.of = t /\ c.how = "tool"}) <= 1
      OBVIOUS
    <3>2. \A c, d \in {c \in cases : c.of = t /\ c.how = "tool"} : c = d
      BY <2>1 DEF CasesInv
    <3> QED
      BY <3>2, AtMostOne
  <2> QED
    BY <2>1, <2>2, <2>3, <2>4 DEF TurnsAccounted, TurnCases
<1> QED
  BY <1>1, InvAlways, PTL

\* The memory, in the store, in the file and in what another runtime will write over it,
\* is made from every message up to the one it says, through failures, restarts and
\* summaries that overtake one another.
THEOREM MemoryCompleteAlways ==
    TurnsSpec => []MemoryComplete
<1>1. Inv => MemoryComplete
  BY DEF Inv, MemoryInv, WholeMemory, MemoryComplete
<1> QED
  BY <1>1, InvAlways, PTL
=============================================================================
