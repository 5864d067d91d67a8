------------------------------ MODULE AgentTurns ------------------------------
(***************************************************************************)
(* Messages the AI answers in one conversation: what Orchestrator and      *)
(* AgentRuntime do from the message's entry in the thread to the reply,    *)
(* with the case they open, the conversation's memory, the routed agents,  *)
(* the tool router and the circuit breaker that all requests to PromptX    *)
(* share.  The worker runs several messages at once and a failed one       *)
(* again; who may answer at all is in HumanTakeover, the worker's guard in *)
(* GuardedJobs, the other ticket tools in TicketTools.  Left out: the first *)
(* contact of a guest, the mention gate of groups, and what the analyzer   *)
(* reads before it asks.  A message is in the thread as soon as it has its *)
(* time: getMessages orders by created_at, which the database stamps.      *)
(***************************************************************************)
EXTENDS Naturals, FiniteSets

CONSTANTS
    Turn,         \* messages
    Incident,     \* those the classifier takes for a report of a failure
    Closing,      \* releases of the conversation, with a closing summary
    SummarizeAt,  \* MEMORY_SUMMARIZE_THRESHOLD
    Threshold,    \* failureThreshold
    Resends,      \* maxRetries after 429
    ToolTries,    \* maxAttempts of the tool router
    TurnRuns,     \* attempts of the worker's job
    MaxLapses     \* bound: statements that fail and processes that die

ASSUME TurnsAssumption ==
    /\ Incident \subseteq Turn /\ Turn \cap Closing = {}
    /\ {SummarizeAt, Threshold, ToolTries, TurnRuns} \subseteq Nat \ {0}
    /\ {Resends, MaxLapses} \subseteq Nat

VARIABLES
    breaker,    \* PromptXMcpClient.circuitBreaker; cooling: cooldownExpiresAt is ahead
    turns,      \* where each message or release is, and what it has read
    thread,     \* messages of the conversation stored so far
    entered,    \* those of them with an external id
    cases,      \* tickets: of which message, how, how many before it
    memory,     \* the runtime's store: up to which message, and made from which
    file,       \* conversation_memory.json
    elsewhere,  \* the file as another conversation's runtime has loaded it
    busy,       \* activeLocks
    lapses,     \* failures so far
    misled      \* ghost: two turns looked for a case before one was written,
                \* or a query for it failed

turnVars == <<breaker, turns, thread, entered, cases, memory, file, elsewhere, busy, lapses,
              misled>>

Chat == Turn \cup Closing
NoMemory == [upTo |-> 0, from |-> {}]
Arrived == [at |-> "log", run |-> 1, seen |-> 0, had |-> NoMemory, sent |-> 0, tries |-> 1]
Closed == [state |-> "CLOSED", fails |-> 0, cooling |-> FALSE]

TurnsInit ==
    /\ breaker = Closed
    /\ turns = [t \in Chat |-> Arrived]
    /\ thread = 0 /\ entered = {} /\ cases = {}
    /\ memory = NoMemory /\ file = NoMemory /\ elsewhere = NoMemory
    /\ busy = FALSE /\ lapses = 0 /\ misled = FALSE

At(t, step) == turns[t].at = step
Onto(t, step) == [Arrived EXCEPT !.at = step, !.run = turns[t].run]
Ends(t, how) == [Arrived EXCEPT !.at = how]
Moves(t, new) == turns' = [turns EXCEPT ![t] = new]
Finished == {"answered", "dropped"}

-----------------------------------------------------------------------------
(* The message, its history and the memory.                                *)

\* saveMessage is an upsert on the external id, or an insert without one.
Enter(key) ==
    IF key \in entered THEN UNCHANGED <<thread, entered>>
    ELSE thread' = thread + 1 /\ entered' = entered \cup {key}

LogMessage(t) ==
    /\ t \in Turn /\ At(t, "log")
    /\ Enter(<<"customer", t>>)
    /\ Moves(t, Onto(t, "read"))
    /\ UNCHANGED <<breaker, cases, memory, file, elsewhere, busy, lapses, misled>>

\* getMessages answers a failed query with no messages.
ReadHistory(t) ==
    /\ At(t, "read")
    /\ \/ Moves(t, [Onto(t, "recall") EXCEPT !.seen = thread]) /\ UNCHANGED lapses
       \/ /\ lapses < MaxLapses /\ lapses' = lapses + 1
          /\ Moves(t, [Onto(t, "recall") EXCEPT !.seen = 0])
    /\ UNCHANGED <<breaker, thread, entered, cases, memory, file, elsewhere, busy, misled>>

\* What is not summarised yet: all, if the last summarised message is not
\* among those read.
Unsummarized(m, seen) ==
    IF m.upTo > seen THEN 1..seen ELSE (m.upTo + 1)..seen

\* getOrSummarize looks at its store and takes the conversation's lock in one go.
Recall(t) ==
    /\ At(t, "recall")
    /\ IF /\ Cardinality(Unsummarized(memory, turns[t].seen)) >= SummarizeAt
          /\ ~busy
       THEN /\ busy' = TRUE
            /\ Moves(t, [turns[t] EXCEPT !.at = "summary", !.had = memory])
       ELSE /\ UNCHANGED busy
            /\ Moves(t, Onto(t, "look"))
    /\ UNCHANGED <<breaker, thread, entered, cases, memory, file, elsewhere, lapses, misled>>

\* Mutant: the summary is said to reach the end of the thread.
SummaryToEnd(t) ==
    [upTo |-> thread,
     from |-> turns[t].had.from \cup Unsummarized(turns[t].had, turns[t].seen)]

\* The summary of the old memory and the messages read replaces both.
Summary(t) ==
    [upTo |-> turns[t].seen,
     from |-> turns[t].had.from \cup Unsummarized(turns[t].had, turns[t].seen)]

-----------------------------------------------------------------------------
(* Requests to PromptX through the breaker.                                *)

\* The steps that make one: the summary, the closing summary, the routing, the
\* support agent's answer, the diagnosis, and a tool served by PromptX.
Asks == {"summary", "close", "route", "support", "diagnose", "search"}
Sent(t) == turns[t].sent > 0

\* checkCooldown
Checked == IF breaker.state = "OPEN" /\ ~breaker.cooling
           THEN [breaker EXCEPT !.state = "HALF_OPEN"] ELSE breaker

Ok == [breaker EXCEPT !.fails = 0, !.state = "CLOSED", !.cooling = FALSE]

\* The count goes on while the breaker is open; Threshold stands for more.
Bad ==
    LET n == IF breaker.fails < Threshold THEN breaker.fails + 1 ELSE Threshold
    IN IF breaker.state # "OPEN" /\ n >= Threshold
       THEN [state |-> "OPEN", fails |-> n, cooling |-> TRUE]
       ELSE [breaker EXCEPT !.fails = n]

Cool ==
    /\ breaker.cooling
    /\ breaker' = [breaker EXCEPT !.cooling = FALSE]
    /\ UNCHANGED <<turns, thread, entered, cases, memory, file, elsewhere, busy, lapses, misled>>

Unreached == <<thread, entered, cases, elsewhere, lapses, misled>>

\* What the callers do with an answer, or with an error: every one of them is
\* caught, and only the tool router tries again.  Routing falls back on words,
\* support on a text of its own, the diagnosis on rules, the search on a case.
Routed(t) == {Onto(t, agent) : agent \in {"support", "knowledge", "ticket"}}
Supported(t) == {Onto(t, "reply")}
Diagnosed(t) == {Onto(t, "create")}
Searched(t) == {Onto(t, "reply"), Onto(t, "hand over")}

AfterAnswer(t) ==
    CASE At(t, "route") -> Routed(t)
      [] At(t, "support") -> Supported(t)
      [] At(t, "diagnose") -> Diagnosed(t)
      [] At(t, "search") -> Searched(t)
      [] At(t, "summary") -> {Onto(t, "look")}
      [] At(t, "close") -> {Ends(t, "answered")}

AfterError(t, again) ==
    IF At(t, "search")
    THEN IF again /\ turns[t].tries < ToolTries
         THEN {[turns[t] EXCEPT !.sent = 0, !.tries = @ + 1]} ELSE {Onto(t, "hand over")}
    ELSE AfterAnswer(t)

\* A summary that cannot be parsed, or did not come, leaves the memory alone.
\* The runtime then writes its whole store to the file.
Store(t, useful) ==
    /\ busy' = IF At(t, "summary") THEN FALSE ELSE busy
    /\ IF At(t, "summary") /\ useful
       THEN memory' = Summary(t) /\ file' = Summary(t)
       ELSE /\ UNCHANGED memory
            /\ file' = IF At(t, "close") /\ useful
                       THEN [upTo |-> turns[t].seen, from |-> 1..turns[t].seen] ELSE file

Request(t) ==
    /\ turns[t].at \in Asks /\ ~Sent(t)
    /\ breaker' = Checked
    /\ IF Checked.state = "OPEN"
       THEN \E new \in AfterError(t, FALSE) : Moves(t, new) /\ Store(t, FALSE)
       ELSE /\ Moves(t, [turns[t] EXCEPT !.sent = 1])
            /\ UNCHANGED <<memory, file, busy>>
    /\ UNCHANGED Unreached

Answered(t) ==
    /\ Sent(t)
    /\ breaker' = Ok
    /\ \E new \in AfterAnswer(t), useful \in BOOLEAN : Moves(t, new) /\ Store(t, useful)
    /\ UNCHANGED Unreached

\* 429: after a pause the request is sent again, whatever the breaker says now.
Resend(t) ==
    /\ Sent(t) /\ turns[t].sent <= Resends
    /\ Moves(t, [turns[t] EXCEPT !.sent = @ + 1])
    /\ UNCHANGED <<breaker, memory, file, busy, Unreached>>

Fails(t) ==
    /\ Sent(t)
    /\ breaker' = Bad
    /\ \E again \in BOOLEAN : \E new \in AfterError(t, again) : Moves(t, new)
    /\ Store(t, FALSE)
    /\ UNCHANGED Unreached

-----------------------------------------------------------------------------
(* Cases, agents and the reply.                                            *)

\* The latest ticket of the conversation, whatever its status: the query leaves
\* out 'Closed', which no status is called.  A failed query finds none.
LookUp(t) ==
    /\ At(t, "look")
    /\ \E blind \in BOOLEAN :
         /\ blind => lapses < MaxLapses
         /\ lapses' = IF blind THEN lapses + 1 ELSE lapses
         /\ IF (cases = {} \/ blind) /\ t \in Incident
            THEN /\ Moves(t, Onto(t, "escalate"))
                 /\ misled' = (misled \/ blind \/ \E u \in Turn : At(u, "escalate"))
            ELSE /\ Moves(t, Onto(t, "route"))
                 /\ UNCHANGED misled
    /\ UNCHANGED <<breaker, thread, entered, cases, memory, file, elsewhere, busy>>

Case(t, how) ==
    [of |-> t, how |-> how, nr |-> Cardinality({c \in cases : c.of = t /\ c.how = how})]

Again(t) == IF turns[t].run < TurnRuns THEN [Arrived EXCEPT !.run = turns[t].run + 1]
            ELSE Ends(t, "dropped")

\* createJitTicket looks for nothing.  Its event is a statement of its own, and
\* if that one fails the message is run again.
Escalate(t) ==
    /\ At(t, "escalate")
    /\ cases' = cases \cup {Case(t, "escalation")}
    /\ \/ Moves(t, Onto(t, "route")) /\ UNCHANGED lapses
       \/ lapses < MaxLapses /\ lapses' = lapses + 1 /\ Moves(t, Again(t))
    /\ UNCHANGED <<breaker, thread, entered, memory, file, elsewhere, busy, misled>>

\* A follow-up by its words goes to the ticket agent without a request.
RouteByWords(t) ==
    /\ At(t, "route") /\ ~Sent(t)
    /\ Moves(t, Onto(t, "ticket"))
    /\ UNCHANGED <<breaker, thread, entered, cases, memory, file, elsewhere, busy, lapses, misled>>

\* Mutant: the subject is not looked for.
OwnCaseUnseen(t) ==
    FALSE

OwnCase(t) == \E c \in cases : c.of = t /\ c.how = "tool"

\* The knowledge agent searches, here or by a tool of PromptX.  The ticket
\* agent opens a case, unless the message has one by its subject or asks for
\* something else.
Handle(t) ==
    /\ \/ /\ At(t, "knowledge")
          /\ \E step \in {"search", "reply", "hand over"} : Moves(t, Onto(t, step))
       \/ /\ At(t, "ticket")
          /\ \E step \in IF OwnCase(t) THEN {"reply"} ELSE {"reply", "diagnose"} :
               Moves(t, Onto(t, step))
    /\ UNCHANGED <<breaker, thread, entered, cases, memory, file, elsewhere, busy, lapses, misled>>

\* The handoff is a message of the thread without an external id.
HandOver(t) ==
    /\ At(t, "hand over")
    /\ thread' = thread + 1
    /\ Moves(t, Onto(t, "ticket"))
    /\ UNCHANGED <<breaker, entered, cases, memory, file, elsewhere, busy, lapses, misled>>

\* create_ticket returns a ticket of the same subject, or makes one; an error,
\* even one after COMMIT, is told to the customer and not tried again.  The
\* router's trace is written before and after: if that fails, the message is
\* run again.
Create(t) ==
    /\ At(t, "create")
    /\ \E made, failed, untraced \in BOOLEAN :
         /\ failed \/ untraced => lapses < MaxLapses
         /\ ~failed /\ ~untraced => made
         /\ lapses' = IF failed \/ untraced THEN lapses + 1 ELSE lapses
         /\ cases' = IF made /\ ~OwnCase(t)
                     THEN cases \cup {Case(t, "tool")}
                     ELSE cases
         /\ Moves(t, IF untraced THEN Again(t) ELSE Onto(t, "reply"))
    /\ UNCHANGED <<breaker, thread, entered, memory, file, elsewhere, busy, misled>>

Reply(t) ==
    /\ At(t, "reply")
    /\ Enter(<<"ai", t>>)
    /\ Moves(t, Ends(t, "answered"))
    /\ UNCHANGED <<breaker, cases, memory, file, elsewhere, busy, lapses, misled>>

-----------------------------------------------------------------------------
(* What goes wrong around them.                                            *)

\* A statement throws, a trace of the router's among them: the worker runs the
\* message again, from the start.
Throws(t) ==
    /\ turns[t].at \in {"log", "escalate", "knowledge", "hand over", "search", "reply"}
    /\ t \in Turn /\ ~Sent(t)
    /\ lapses < MaxLapses /\ lapses' = lapses + 1
    /\ Moves(t, Again(t))
    /\ UNCHANGED <<breaker, thread, entered, cases, memory, file, elsewhere, busy, misled>>

\* The process dies.  What was under way keeps its mark in Redis and is not run
\* again; breaker and memory start anew, the memory from the file.
Dies ==
    /\ lapses < MaxLapses /\ lapses' = lapses + 1
    /\ turns' = [t \in Chat |-> IF turns[t].at \in Finished \/ turns[t] = Arrived THEN turns[t]
                                ELSE Ends(t, "dropped")]
    /\ breaker' = Closed
    /\ memory' = file /\ busy' = FALSE
    /\ UNCHANGED <<thread, entered, cases, file, elsewhere, misled>>

\* A runtime of another conversation loads the file once, and later writes all
\* it loaded.
OtherLoads ==
    /\ elsewhere' = file
    /\ UNCHANGED <<breaker, turns, thread, entered, cases, memory, file, busy, lapses, misled>>

OtherStores ==
    /\ file' = elsewhere
    /\ UNCHANGED <<breaker, turns, thread, entered, cases, memory, elsewhere, busy, lapses, misled>>

\* The release of a conversation reads its messages for the closing summary.
HandBack(t) ==
    /\ t \in Closing /\ At(t, "log")
    /\ Moves(t, Onto(t, "read"))
    /\ UNCHANGED <<breaker, thread, entered, cases, memory, file, elsewhere, busy, lapses, misled>>

CloseCase(t) ==
    /\ t \in Closing /\ At(t, "recall")
    /\ Moves(t, [turns[t] EXCEPT !.at = "close"])
    /\ UNCHANGED <<breaker, thread, entered, cases, memory, file, elsewhere, busy, lapses, misled>>

-----------------------------------------------------------------------------
Proceeds(t) ==
    \/ LogMessage(t) \/ ReadHistory(t) \/ (t \in Turn /\ Recall(t)) \/ CloseCase(t) \/ LookUp(t)
    \/ Escalate(t) \/ RouteByWords(t) \/ Handle(t) \/ HandOver(t)
    \/ Create(t) \/ Reply(t)
    \/ Request(t) \/ Answered(t) \/ Resend(t) \/ Fails(t)

TurnsNext ==
    \/ \E t \in Chat : Proceeds(t) \/ Throws(t) \/ HandBack(t)
    \/ Cool \/ Dies \/ OtherLoads \/ OtherStores

TurnsSpec == TurnsInit /\ [][TurnsNext]_turnVars

TurnsTypeOK ==
    /\ breaker \in [state: {"CLOSED", "OPEN", "HALF_OPEN"}, fails: 0..Threshold,
                    cooling: BOOLEAN]
    /\ \A t \in Chat :
         /\ turns[t].sent \in 0..(Resends + 1) /\ turns[t].tries \in 1..ToolTries
         /\ turns[t].run \in 1..TurnRuns /\ turns[t].seen \in 0..thread
    /\ misled \in BOOLEAN /\ busy \in BOOLEAN
    /\ lapses \in 0..MaxLapses

\* A report that was answered has a case in its conversation; one opened on
\* sight is the only one of its kind unless two messages looked at once or a
\* query failed, and the agent's tool opens one at most for a message, however
\* often it is run again.
TurnCases ==
    /\ \A t \in Incident : At(t, "answered") => cases # {}
    /\ Cardinality({c \in cases : c.how = "escalation"}) <= 1 \/ misled
    /\ \A t \in Turn : Cardinality({c \in cases : c.of = t /\ c.how = "tool"}) <= 1

\* The breaker keeps requests back only after Threshold of them in a row have
\* failed, and lets them through until then, with old answers arriving late.
BreakerCounts == breaker.state = "CLOSED" <=> breaker.fails < Threshold

\* Both: no report without its case and no case twice, and no request kept back
\* without its failures, for messages answered at once and run again.
TurnsAccounted == TurnCases /\ BreakerCounts

\* The memory, in the store, in the file and in what other runtimes will write
\* over it, was made from every message up to the one it says.
MemoryComplete ==
    \A m \in {memory, file, elsewhere} : 1..m.upTo \subseteq m.from

-----------------------------------------------------------------------------
\* Every message is answered or given up, whatever PromptX does.
TurnsEnd == \A t \in Turn : turns[t].at # "log" ~> turns[t].at \in Finished
=============================================================================
