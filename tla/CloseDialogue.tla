----------------------------- MODULE CloseDialogue -----------------------------
(***************************************************************************)
(* The two-step close of CustomerConfirmationHandler.ts: what a message of *)
(* the customer means for the cases of one conversation.                   *)
(*                                                                         *)
(* Every inbound text is read against the open cases and the close         *)
(* question of the last half hour (backend's, in the notification ledger,  *)
(* or the AI's, in its last turn).  Two webhooks are handled at the same   *)
(* time; between a handler's reads and its hops through the state machine  *)
(* engineers, Plane and other handlers move the cases.                     *)
(***************************************************************************)
EXTENDS TicketLifecycle, Functions, FiniteSets

CONSTANTS
    Case,           \* tickets of the conversation
    NoCase,         \* no ticket number
    Reader,         \* inbound events handled at the same time
    BornAs,         \* statuses the cases begin in
    MaxTexts,       \* bound: messages of the customer
    MaxStirs        \* bound: moves of others, and handlers that die

ASSUME CloseAssumption ==
    /\ NoCase \notin Case /\ "none" \notin Case \cup {NoCase} /\ IsFiniteSet(Case)
    /\ BornAs \subseteq Status /\ {MaxTexts, MaxStirs} \subseteq Nat

VARIABLES
    state,      \* tickets.status
    place,      \* of each case, by the last lifecycle change, 1 the newest
    ledgerQ,    \* last close question in customer_notifications
    aiQ,        \* the AI's last turn, when it is a close question
    latest,     \* which of the two was asked last
    talk,       \* the handlers
    unread,     \* messages left to the AI and not answered yet
    texts,      \* messages so far
    stirs,      \* disturbances so far
    spoken,     \* ghost: cases the customer asked to close, or was asked about
    listed,     \* ghost: cases the "which case" lists showed
    ending      \* ghost: how the handler's last close came about

dialogueVars == <<state, place, ledgerQ, aiQ, latest, talk, unread, texts,
                  stirs, spoken, listed, ending>>

Number == Case \cup {NoCase}
Unasked == "none"
Question == {Unasked} \cup Number

\* What a text can be: the close confirmation, a close request, a number
\* alone, a short yes or no, "you can close it" (a yes, or without a question
\* a positive answer), the two answers to the delivery message, and the rest.
\* A yes or a no carries no number.
Text ==
    ({"confirm", "request", "works", "broken"} \X Number)
    \cup ({"number"} \X Case)
    \cup ({"yes", "no", "closeable", "chat"} \X {NoCase})

\* What a handler has read is in open, the open cases and their places, and
\* seen, their statuses.
IdleTalk == [at |-> "idle", text |-> <<"chat", NoCase>>, open |-> [c \in {} |-> 1],
             seen |-> [c \in {} |-> "NEW"], asked |-> Unasked, on |-> NoCase,
             goal |-> "none", route |-> <<>>]

Places == Injection(Case, 1..Cardinality(Case))

DialogueTypeOK ==
    /\ state \in [Case -> Status]
    /\ place \in Places
    /\ {ledgerQ, aiQ} \subseteq Question /\ latest \in {"ledger", "ai"}
    /\ \A h \in Reader :
         LET t == talk[h] IN
         /\ t.at \in {"idle", "load", "ask", "decide", "hop", "tell"}
         /\ t.text \in Text /\ t.asked \in Question /\ t.on \in Number
         /\ DOMAIN t.open \subseteq Case /\ DOMAIN t.seen = DOMAIN t.open
         /\ t.goal \in {"none", "close", "confirm", "decline", "reopen",
                        "which", "nothing"}
         /\ t.goal \in {"close", "confirm", "reopen"} => t.on # NoCase
    /\ texts \in 0..MaxTexts /\ unread \in 0..texts /\ stirs \in 0..MaxStirs
    /\ spoken \subseteq Case /\ listed \subseteq Case
    /\ ending \in [agreed: BOOLEAN, alone: BOOLEAN]

DialogueInit ==
    /\ state \in [Case -> BornAs]
    /\ place \in Places
    /\ ledgerQ = Unasked /\ aiQ = Unasked /\ latest = "ledger"
    /\ talk = [h \in Reader |-> IdleTalk]
    /\ unread = 0 /\ texts = 0 /\ stirs = 0
    /\ spoken = {} /\ listed = {}
    /\ ending = [agreed |-> TRUE, alone |-> FALSE]

-----------------------------------------------------------------------------
(* The reads, and what the text means.                                     *)

Talks(h, where) == talk[h].at = where

Receive(h, text) ==
    /\ Talks(h, "idle") /\ texts < MaxTexts
    /\ texts' = texts + 1
    /\ talk' = [talk EXCEPT ![h] = [@ EXCEPT !.at = "load", !.text = text]]
    /\ spoken' = IF text[1] \in {"confirm", "request", "number"}
                 THEN spoken \cup ({text[2]} \cap Case) ELSE spoken
    /\ UNCHANGED <<state, place, ledgerQ, aiQ, latest, unread, stirs, listed, ending>>

LoadOpenTickets(h) ==
    LET open == {c \in Case : state[c] \notin Finished}
    IN  /\ Talks(h, "load")
        /\ talk' = [talk EXCEPT ![h] =
              [@ EXCEPT !.at = IF open = {} THEN "decide" ELSE "ask",
                        !.open = [c \in open |-> place[c]],
                        !.seen = [c \in open |-> state[c]]]]
        /\ UNCHANGED <<state, place, ledgerQ, aiQ, latest, unread, texts, stirs, spoken,
                       listed, ending>>

\* A move of others, a race lost, or a handler that dies.
Stir == stirs < MaxStirs /\ stirs' = stirs + 1

\* The later of the two questions; the ledger's counts also when the AI has
\* said something else since.
PendingCloseQuestion(h) ==
    LET pending == CASE ledgerQ = Unasked -> aiQ
                     [] aiQ = Unasked -> ledgerQ
                     [] OTHER -> IF latest = "ai" THEN aiQ ELSE ledgerQ
    IN  /\ Talks(h, "ask")
        /\ talk' = [talk EXCEPT ![h] = [@ EXCEPT !.at = "decide", !.asked = pending]]
        /\ UNCHANGED <<state, place, ledgerQ, aiQ, latest, unread, texts, stirs, spoken,
                       listed, ending>>

CloseIntent(kind, pending) ==
    CASE kind = "confirm" -> "CONFIRM_CLOSE"
      [] kind = "request" -> "CLOSE_REQUEST"
      [] pending /\ kind = "no" -> "DECLINE_CLOSE"
      [] pending /\ kind \in {"yes", "closeable"} -> "CONFIRM_CLOSE"
      [] pending /\ kind = "number" -> "CLOSE_REQUEST"
      [] OTHER -> "NONE"

ConfirmationIntent(kind) ==
    CASE kind = "broken" -> "REJECTED"
      [] kind \in {"works", "closeable"} -> "CONFIRMED"
      [] OTHER -> "NONE"

\* byNumber: the open case of that number.
Opened(h) == DOMAIN talk[h].seen
ByNumber(h, n) == IF n \in Opened(h) THEN n ELSE NoCase
Found(n, else) == IF n # NoCase THEN n ELSE else

Confirmed(h) == {c \in Opened(h) : talk[h].seen[c] = "CUSTOMER_CONFIRMED"}
Only(cases) == IF \E c \in cases : cases = {c} THEN CHOOSE c \in cases : TRUE ELSE NoCase

\* awaiting[0]: the newest of some of the open cases.
Newest(h, cases) ==
    IF cases = {} THEN NoCase
    ELSE CHOOSE c \in cases : \A d \in cases : talk[h].open[c] <= talk[h].open[d]

\* Mutant: without a number the newest case is taken.
MeantNewest(h) ==
    LET n == talk[h].text[2]
    IN  IF n # NoCase THEN ByNumber(h, n)
        ELSE Newest(h, Opened(h))

\* The case a close confirmation means, NoCase when it has to be asked for.
Meant(h) ==
    LET n == talk[h].text[2]
        asked == talk[h].asked
    IN  IF n # NoCase THEN ByNumber(h, n)
        ELSE Found(ByNumber(h, asked),
                   Found(Only(Confirmed(h)),
                         IF asked # Unasked THEN Only(Opened(h)) ELSE NoCase))

Declined(h) ==
    Found(ByNumber(h, talk[h].asked), Found(Only(Confirmed(h)), Only(Opened(h))))

Requested(h) ==
    LET n == talk[h].text[2] IN IF n = NoCase THEN Only(Opened(h)) ELSE ByNumber(h, n)

\* The answer to the delivery message: the case named, or the newest.
Answered(h) ==
    LET awaiting == {c \in Opened(h) : talk[h].seen[c] \in Awaiting}
        n == talk[h].text[2]
    IN  IF n \in awaiting THEN n ELSE Newest(h, awaiting)

\* What remains to be done: the hops, then the notice.
Plan(goal, c, route) ==
    [at |-> IF route = <<>> THEN "tell" ELSE "hop", goal |-> goal, on |-> c, route |-> route]

\* The customer's part of a route are the hops after RESOLVED.
CloseRoute(status) == Walk(RouteToClosed(status), {"CUSTOMER_CONFIRMED", "CLOSED"})
Confirming(status) ==
    IF status = "RESOLVED" THEN Walk(<<"CUSTOMER_CONFIRMED">>, {"CUSTOMER_CONFIRMED"}) ELSE <<>>
Declining(h, c) ==
    IF c # NoCase /\ talk[h].seen[c] = "CUSTOMER_CONFIRMED"
    THEN Walk(<<"RESOLVED">>, {"RESOLVED"}) ELSE <<>>

\* No case: say so if none is open, else ask which.
Pick(h, c, plan) ==
    IF c # NoCase THEN plan
    ELSE Plan(IF Opened(h) = {} THEN "nothing" ELSE "which", NoCase, <<>>)

ToTheAI == [at |-> "idle", goal |-> "none", on |-> NoCase, route |-> <<>>]

Outcome(h) ==
    LET t == talk[h]
        intent == CloseIntent(t.text[1], t.asked # Unasked)
        said == ConfirmationIntent(t.text[1])
        c == CASE intent = "CONFIRM_CLOSE" -> Meant(h)
               [] intent = "DECLINE_CLOSE" -> Declined(h)
               [] intent = "CLOSE_REQUEST" -> Requested(h)
               [] OTHER -> Answered(h)
    IN  CASE intent = "CONFIRM_CLOSE" -> Pick(h, c, Plan("close", c, CloseRoute(t.seen[c])))
          [] intent = "DECLINE_CLOSE" -> Plan("decline", c, Declining(h, c))
          [] intent = "CLOSE_REQUEST" -> Pick(h, c, Plan("confirm", c, Confirming(t.seen[c])))
          [] OTHER -> IF c = NoCase \/ said = "NONE" THEN ToTheAI
                      ELSE IF said = "CONFIRMED" THEN Plan("confirm", c, Confirming(t.seen[c]))
                      ELSE Plan("reopen", c, Walk(<<"REOPENED", "IN_PROGRESS">>, {"REOPENED"}))

Leave(h, out) ==
    /\ talk' = [talk EXCEPT ![h] =
          IF out.at = "idle" THEN IdleTalk
          ELSE [@ EXCEPT !.at = out.at, !.goal = out.goal, !.on = out.on, !.route = out.route]]
    /\ unread' = unread + (IF out.at = "idle" THEN 1 ELSE 0)

Interpret(h) ==
    /\ Talks(h, "decide")
    /\ Leave(h, Outcome(h))
    /\ UNCHANGED <<state, place, ledgerQ, aiQ, latest, texts, stirs, spoken, listed, ending>>

-----------------------------------------------------------------------------
(* The hops and the notices.                                               *)

MoveTo(c, to) ==
    /\ state' = [state EXCEPT ![c] = to]
    /\ place' = [d \in Case |-> IF d = c THEN 1
                               ELSE IF place[d] < place[c] THEN place[d] + 1 ELSE place[d]]

\* The customer agreed to close a case when they named it, were asked about
\* it or shown it, or it was marked as confirmed; and the only one open also
\* when the question named none.
Agreed(h, c) ==
    \/ c \in spoken \cup listed
    \/ talk[h].seen[c] = "CUSTOMER_CONFIRMED"
    \/ talk[h].asked = NoCase /\ Opened(h) = {c}

CloseHop(h) ==
    LET t == talk[h]
        hop == Head(t.route)
        rest == Tail(t.route)
    IN  /\ Talks(h, "hop")
        /\ CanTransition(state[t.on], hop.to, hop.actor)
        /\ MoveTo(t.on, hop.to)
        /\ talk' = [talk EXCEPT ![h] =
              [@ EXCEPT !.route = rest, !.at = IF rest = <<>> THEN "tell" ELSE "hop"]]
        /\ ending' = IF hop.to = "CLOSED"
                     THEN [agreed |-> Agreed(h, t.on), alone |-> Opened(h) = {t.on}]
                     ELSE ending
        /\ UNCHANGED <<ledgerQ, aiQ, latest, unread, texts, stirs, spoken, listed>>

\* The state machine rejects the hop, or its UPDATE loses a race.  A close
\* gives up; so does a reopening, unless the case was already reopened.  The
\* two others say what they meant to say.
HopRejected(h) ==
    LET t == talk[h] IN
    /\ Talks(h, "hop")
    /\ \/ ~CanTransition(state[t.on], Head(t.route).to, Head(t.route).actor) /\ UNCHANGED stirs
       \/ Stir
    /\ IF t.goal = "close" \/ (t.goal = "reopen" /\ Len(t.route) = 2)
       THEN Leave(h, ToTheAI)
       ELSE Leave(h, Plan(t.goal, t.on, <<>>))
    /\ UNCHANGED <<state, place, ledgerQ, aiQ, latest, texts, spoken, listed, ending>>

\* The notice.  Only the close question and the list stay in the ledger as
\* questions; neither is withdrawn when it has been answered.
Notify(h) ==
    LET t == talk[h] IN
    /\ Talks(h, "tell")
    /\ CASE t.goal = "confirm" ->
              ledgerQ' = t.on /\ latest' = "ledger"
              /\ spoken' = spoken \cup {t.on} /\ UNCHANGED listed
         [] t.goal = "which" ->
              ledgerQ' = NoCase /\ latest' = "ledger"
              /\ listed' = listed \cup Opened(h) /\ UNCHANGED spoken
         [] OTHER -> UNCHANGED <<ledgerQ, latest, spoken, listed>>
    /\ talk' = [talk EXCEPT ![h] = IdleTalk]
    /\ UNCHANGED <<state, place, aiQ, unread, texts, stirs, ending>>

-----------------------------------------------------------------------------
(* Everybody else.                                                         *)

\* The AI answers a message left to it: with a close question naming an open
\* case or none, or anything else.
AITurn(q) ==
    /\ unread > 0
    /\ q \in Case => state[q] \notin Finished
    /\ unread' = unread - 1
    /\ aiQ' = q
    /\ latest' = IF q = Unasked THEN latest ELSE "ai"
    /\ spoken' = spoken \cup ({q} \cap Case)
    /\ UNCHANGED <<state, place, ledgerQ, talk, texts, stirs, listed, ending>>

\* The half hour ends.
QuestionsAge ==
    /\ ledgerQ # Unasked \/ aiQ # Unasked
    /\ ledgerQ' = Unasked /\ aiQ' = Unasked
    /\ spoken' = {} /\ listed' = {}
    /\ \A h \in Reader : Talks(h, "idle")
    /\ UNCHANGED <<state, place, latest, talk, unread, texts, stirs, ending>>

\* Engineers, Plane and the cadence move a case.
OthersMove(c, actor, to) ==
    /\ Stir
    /\ CanTransition(state[c], to, actor)
    /\ MoveTo(c, to)
    /\ UNCHANGED <<ledgerQ, aiQ, latest, talk, unread, texts, spoken, listed, ending>>

HandlerDies(h) ==
    /\ ~Talks(h, "idle")
    /\ Stir
    /\ talk' = [talk EXCEPT ![h] = IdleTalk]
    /\ UNCHANGED <<state, place, ledgerQ, aiQ, latest, unread, texts, spoken, listed, ending>>

Handle(h) ==
    \/ LoadOpenTickets(h) \/ PendingCloseQuestion(h) \/ Interpret(h)
    \/ CloseHop(h) \/ HopRejected(h) \/ Notify(h)

DialogueNext ==
    \/ \E h \in Reader :
         \/ \E text \in Text : Receive(h, text)
         \/ Handle(h) \/ HandlerDies(h)
    \/ \E q \in Question : AITurn(q)
    \/ QuestionsAge
    \/ \E c \in Case :
         \/ \E to \in {"RESOLVED", "REOPENED"} : OthersMove(c, "plane", to)
         \/ \E to \in {"CUSTOMER_CONFIRMED", "CLOSED"} : OthersMove(c, "system", to)

DialogueSpec == DialogueInit /\ [][DialogueNext]_dialogueVars

-----------------------------------------------------------------------------
\* "Ambiguity resolves to NONE": when the handler read more than one open
\* case, what it closes is a case the customer named, was asked about or
\* shown, or one marked as confirmed, whatever was asked, answered or moved
\* in between.
AmbiguityAsks == ending.agreed \/ ending.alone

\* "Closing a ticket the customer did not agree to close is the expensive
\* mistake": so too when it is the only open case left.
ClosesWhatWasAgreed == ending.agreed
=============================================================================
