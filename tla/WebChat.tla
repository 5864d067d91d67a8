-------------------------------- MODULE WebChat --------------------------------
(***************************************************************************)
(* WebChatGateway.ts and the worker of its messages (server.ts): the tabs  *)
(* of one customer, the rooms their sockets are in, what they send, and    *)
(* how the replies get to every tab.                                       *)
(*                                                                         *)
(* A socket's messages are handled at the same time, each by steps between *)
(* the awaits.  A reply is published through Redis to all processes, or    *)
(* shown by the publishing process alone when that fails; a tab keeps the  *)
(* ids it was sent.  What PromptX answers, and what operators do, is left  *)
(* open.                                                                   *)
(***************************************************************************)
EXTENDS Integers, FiniteSets

CONSTANTS
    Process,        \* API processes
    Tab,            \* sockets; a reconnecting tab is another one
    Home,           \* the process a socket is connected to
    Ticket,         \* the project in the ticket a socket connects with
    Conv,           \* conversations of the customer
    None,           \* no conversation, project, tab or message
    MessageId,      \* messages, by the id the client gave them
    ProjectId,      \* projects
    Unverified,     \* project 1, which stands for none
    Task,           \* messages handled at the same time
    MaxInputs,      \* bound: messages sent, and conversations moved, taken over, given back
    MaxReplies,     \* bound: payloads published
    MaxMishaps      \* bound: failing calls, lost payloads and restarts

ASSUME WebChatAssumption ==
    /\ Home \in [Tab -> Process] /\ Ticket \in [Tab -> ProjectId] /\ Unverified \in ProjectId
    /\ None \notin Conv \cup ProjectId \cup MessageId \cup Tab
    /\ {MaxInputs, MaxReplies, MaxMishaps} \subseteq Nat

VARIABLES
    tabs,           \* the sockets
    members,        \* activeConnections of all processes: rooms and sockets
    convs,          \* the project of each conversation there is
    withHuman,      \* conversations under human takeover
    tasks,          \* messages being handled
    rows,           \* customer messages stored
    queue,          \* jobs for the worker
    turn,           \* the job the worker is at
    wires,          \* payloads on their way from Redis to a process
    sends, replies, moves, mishaps,
    shown,          \* ghost: how often a tab was sent a message
    owed            \* ghost: the tabs a payload should reach

webVars == <<tabs, members, convs, withHuman, tasks, rows, queue, turn, wires, sends, replies,
             moves, mishaps, shown, owed>>

tallies == <<sends, replies, moves, mishaps>>
outgoing == <<replies, wires, shown, owed>>

ReplyId(n) == <<"reply", n>>
Ids == {ReplyId(n) : n \in 1..MaxReplies} \cup ((Conv \cup {None}) \X MessageId)
Recipient == "recipient"
SomeConv == CHOOSE c \in Conv : TRUE

NoTab == [at |-> "off", room |-> None, looking |-> FALSE, seen |-> {}]
NoTask == [at |-> "idle", tab |-> None, text |-> None, conv |-> None, human |-> FALSE,
           id |-> None]
NoTurn == [at |-> "idle", conv |-> None]

WebTypeOK ==
    /\ \A t \in Tab :
         /\ tabs[t].at \in {"off", "open", "gone"}
         /\ tabs[t].room \in Conv \cup {None} /\ tabs[t].seen \subseteq Ids
         /\ tabs[t].looking \in BOOLEAN
    /\ members \subseteq (Conv \cup {Recipient}) \X Tab
    /\ convs \in [Conv -> ProjectId \cup {None}] /\ withHuman \subseteq Conv
    /\ \A k \in Task : tasks[k].at \in {"idle", "find", "create", "code", "persist", "hand"}
    /\ rows \subseteq Conv \X MessageId /\ queue \subseteq Conv \X (1..MaxInputs)
    /\ turn.at \in {"idle", "post"}
    /\ sends \in 0..MaxInputs /\ replies \in 0..MaxReplies /\ moves \in 0..MaxInputs
    /\ mishaps \in 0..MaxMishaps
    /\ owed \in [1..MaxReplies -> SUBSET Tab]

WebInit ==
    /\ tabs = [t \in Tab |-> NoTab] /\ members = {}
    /\ convs \in {[c \in Conv |-> None]} \cup
                 {[c \in Conv |-> IF c = SomeConv THEN p ELSE None] : p \in ProjectId}
    /\ withHuman = {} /\ tasks = [k \in Task |-> NoTask]
    /\ rows = {} /\ queue = {} /\ turn = NoTurn /\ wires = {}
    /\ sends = 0 /\ replies = 0 /\ moves = 0 /\ mishaps = 0
    /\ shown = [t \in Tab |-> [i \in Ids |-> 0]]
    /\ owed = [n \in 1..MaxReplies |-> {}]

-----------------------------------------------------------------------------
(* Sockets and rooms.                                                      *)

Mishap == mishaps < MaxMishaps /\ mishaps' = mishaps + 1
Moved == sends + moves < MaxInputs /\ moves' = moves + 1
There == {c \in Conv : convs[c] # None}

\* The ticket is taken; the recipient's room is joined at once, the
\* conversation's after a look at the database.
Connect(t) ==
    /\ tabs[t].at = "off"
    /\ tabs' = [tabs EXCEPT ![t] = [@ EXCEPT !.at = "open", !.looking = TRUE]]
    /\ members' = members \cup {<<Recipient, t>>}
    /\ UNCHANGED <<convs, withHuman, tasks, rows, queue, turn, wires, tallies, shown, owed>>

\* findActiveByIdentity, or whatever conversation is open.
Active(p) == {c \in There : convs[c] = p}
SetUp(t) ==
    /\ tabs[t].looking
    /\ \E c \in IF There = {} THEN {None}
                ELSE IF Active(Ticket[t]) # {} THEN Active(Ticket[t]) ELSE There :
         /\ tabs' = [tabs EXCEPT ![t] = [tabs[t] EXCEPT
                 !.looking = FALSE, !.room = IF c = None THEN tabs[t].room ELSE c]]
         /\ members' = members \cup ({<<c, t>>} \ {<<None, t>>})
    /\ UNCHANGED <<convs, withHuman, tasks, rows, queue, turn, wires, tallies, shown, owed>>

\* Mutant: closing one tab empties its rooms.
CloseAll(t) ==
    /\ tabs[t].at = "open"
    /\ tabs' = [tabs EXCEPT ![t].at = "gone"]
    /\ members' = {m \in members : m[1] \notin {Recipient, tabs[t].room}}
    /\ UNCHANGED <<convs, withHuman, tasks, rows, queue, turn, wires, tallies, shown, owed>>

Close(t) ==
    /\ tabs[t].at = "open"
    /\ tabs' = [tabs EXCEPT ![t].at = "gone"]
    /\ members' = members \ {<<Recipient, t>>, <<tabs[t].room, t>>}
    /\ UNCHANGED <<convs, withHuman, tasks, rows, queue, turn, wires, tallies, shown, owed>>

\* broadcastToRooms at process q: once to a socket, however many of the
\* rooms it is in, and not if it was sent the id before.
Audience(q, c, skip) ==
    {t \in Tab \ skip : Home[t] = q /\ tabs[t].at = "open"
                        /\ members \cap {<<c, t>>, <<Recipient, t>>} # {}}
Broadcast(q, c, id, skip) ==
    LET new == {t \in Audience(q, c, skip) : id \notin tabs[t].seen}
    IN  /\ tabs' = [t \in Tab |-> IF t \in new THEN [tabs[t] EXCEPT !.seen = @ \cup {id}]
                                  ELSE tabs[t]]
        /\ shown' = [t \in Tab |-> IF t \in new THEN [shown[t] EXCEPT ![id] = @ + 1] ELSE shown[t]]

-----------------------------------------------------------------------------
(* A message of the customer.                                              *)

SendText(t, x, k) ==
    /\ tabs[t].at = "open" /\ tasks[k] = NoTask /\ sends + moves < MaxInputs
    /\ sends' = sends + 1
    /\ tasks' = [tasks EXCEPT ![k] = [@ EXCEPT !.at = "find", !.tab = t, !.text = x]]
    /\ UNCHANGED <<tabs, members, convs, withHuman, rows, queue, turn, outgoing, moves, mishaps>>

Step(k, stage) == tasks' = [tasks EXCEPT ![k].at = stage]
Done(k) == tasks' = [tasks EXCEPT ![k] = NoTask]

\* The socket enters the room of the conversation, and leaves no other.
Enter(k, c) ==
    /\ tasks' = [tasks EXCEPT ![k] = [@ EXCEPT !.at = "code", !.conv = c]]
    /\ tabs' = [tabs EXCEPT ![tasks[k].tab].room = c]
    /\ members' = members \cup {<<c, tasks[k].tab>>}

Find(k) ==
    /\ tasks[k].at = "find"
    /\ LET active == Active(Ticket[tasks[k].tab])
       IN  IF active = {} THEN Step(k, "create") /\ UNCHANGED <<tabs, members>>
           ELSE \E c \in active : Enter(k, c)
    /\ UNCHANGED <<convs, withHuman, rows, queue, turn, outgoing, sends, moves, mishaps>>

Create(k) ==
    /\ tasks[k].at = "create"
    /\ \E c \in Conv \ There :
         convs' = [convs EXCEPT ![c] = Ticket[tasks[k].tab]] /\ Enter(k, c)
    /\ UNCHANGED <<withHuman, rows, queue, turn, outgoing, sends, moves, mishaps>>

\* A message that is a join code moves the conversation, and ends here.
JoinCode(k, p) ==
    /\ tasks[k].at = "code" /\ Moved
    /\ convs' = [convs EXCEPT ![tasks[k].conv] = p]
    /\ Done(k)
    /\ UNCHANGED <<tabs, members, withHuman, rows, queue, turn, outgoing, sends, mishaps>>

\* Without a project the customer is asked for a code.  The takeover is read
\* here; a read that fails counts as none.
Gate(k) ==
    /\ tasks[k].at = "code"
    /\ IF convs[tasks[k].conv] = Unverified THEN Done(k) /\ UNCHANGED mishaps
       ELSE \/ /\ tasks' = [tasks EXCEPT ![k] = [@ EXCEPT !.at = "persist",
                                                          !.human = tasks[k].conv \in withHuman]]
               /\ UNCHANGED mishaps
            \/ Mishap /\ Step(k, "persist")
    /\ UNCHANGED <<tabs, members, convs, withHuman, rows, queue, turn, outgoing, sends, moves>>

\* The same message again finds its row; one that can not be stored goes on
\* under the client's id.
StoreMessage(k) ==
    /\ tasks[k].at = "persist"
    /\ \/ /\ rows' = rows \cup {<<tasks[k].conv, tasks[k].text>>}
          /\ tasks' = [tasks EXCEPT ![k] = [@ EXCEPT !.at = "hand",
                                                     !.id = <<tasks[k].conv, tasks[k].text>>]]
          /\ UNCHANGED mishaps
       \/ /\ Mishap
          /\ tasks' = [tasks EXCEPT ![k] = [@ EXCEPT !.at = "hand",
                                                     !.id = <<None, tasks[k].text>>]]
          /\ UNCHANGED rows
    /\ UNCHANGED <<tabs, members, convs, withHuman, queue, turn, outgoing, sends, moves>>

\* Shown to the other tabs at this process; then the AI's, unless a human
\* has the conversation.
Hand(k) ==
    /\ tasks[k].at = "hand"
    /\ Broadcast(Home[tasks[k].tab], tasks[k].conv, tasks[k].id, {tasks[k].tab})
    /\ queue' = IF tasks[k].human THEN queue
                ELSE queue \cup {<<tasks[k].conv, sends>>}
    /\ Done(k)
    /\ UNCHANGED <<members, convs, withHuman, rows, turn, wires, owed, tallies>>

-----------------------------------------------------------------------------
(* Replies.                                                                *)

Payload(q, c, n, what) == [to |-> q, conv |-> c, n |-> n, what |-> what]
Everywhere(c, what) == {Payload(q, c, replies + 1, what) : q \in Process}
OpenTabs == {t \in Tab : tabs[t].at = "open"}
NextReply == replies < MaxReplies /\ replies' = replies + 1
Owe(what, to) == owed' = [owed EXCEPT ![replies + 1] = IF what = "message" THEN to ELSE {}]

\* publishOutbound, at process q.  What it shows by itself it shows as a
\* message, a takeover_started too.
PublishOutbound(q, c, what) ==
    /\ NextReply
    /\ \/ /\ wires' = wires \cup Everywhere(c, what)
          /\ Owe(what, OpenTabs)
          /\ UNCHANGED <<tabs, shown, mishaps>>
       \/ /\ Mishap
          /\ wires' \in {wires, wires \cup Everywhere(c, what)}
          /\ Owe(what, IF wires' = wires THEN {t \in OpenTabs : Home[t] = q} ELSE OpenTabs)
          /\ Broadcast(q, c, ReplyId(replies + 1), {})

\* A takeover_started bears no id when it comes from Redis.
Delivered(w) ==
    /\ w \in wires
    /\ wires' = wires \ {w}
    /\ IF w.what = "message" THEN Broadcast(w.to, w.conv, ReplyId(w.n), {})
       ELSE UNCHANGED <<tabs, shown>>
    /\ UNCHANGED <<members, convs, withHuman, tasks, rows, queue, turn, tallies, owed>>

\* Redis keeps nothing for a subscriber that is not there.
SubscriberMisses(w) ==
    /\ w \in wires /\ Mishap
    /\ wires' = wires \ {w}
    /\ owed' = [owed EXCEPT ![w.n] = {t \in @ : Home[t] # w.to}]
    /\ UNCHANGED <<tabs, members, convs, withHuman, tasks, rows, queue, turn, sends, replies, moves,
                   shown>>

\* The worker, at process q: without a project it asks for a code, or else
\* posts to PromptX.  A job is not retried.
TakeJob(q, j) ==
    /\ turn = NoTurn /\ j \in queue
    /\ queue' = queue \ {j}
    /\ IF convs[j[1]] = Unverified
       THEN PublishOutbound(q, j[1], "message") /\ UNCHANGED turn
       ELSE turn' = [at |-> "post", conv |-> j[1]] /\ UNCHANGED <<tabs, outgoing, mishaps>>
    /\ UNCHANGED <<members, convs, withHuman, tasks, rows, sends, moves>>

WorkerReplies(q) ==
    /\ turn.at = "post"
    /\ \/ PublishOutbound(q, turn.conv, "message") /\ UNCHANGED withHuman
       \/ PublishOutbound(q, turn.conv, "takeover") /\ withHuman' = withHuman \cup {turn.conv}
    /\ turn' = NoTurn
    /\ UNCHANGED <<members, convs, tasks, rows, queue, sends, moves>>

\* Suppressed, or failed.
NoReply ==
    /\ turn.at = "post"
    /\ turn' = NoTurn
    /\ UNCHANGED <<tabs, members, convs, withHuman, tasks, rows, queue, outgoing, sends, moves,
                   mishaps>>

\* sendReply publishes by itself; if Redis fails, the operator is told so.
HumanReply(c) ==
    /\ c \in withHuman /\ NextReply
    /\ wires' = wires \cup Everywhere(c, "message")
    /\ Owe("message", OpenTabs)
    /\ UNCHANGED <<tabs, members, convs, withHuman, tasks, rows, queue, turn, sends, moves, mishaps,
                   shown>>

-----------------------------------------------------------------------------
(* Others.                                                                 *)

TakeOver(c) ==
    /\ c \in There /\ Moved
    /\ withHuman' = IF c \in withHuman THEN withHuman \ {c} ELSE withHuman \cup {c}
    /\ UNCHANGED <<tabs, members, convs, tasks, rows, queue, turn, outgoing, sends, mishaps>>

\* The portal's switch moves all conversations.
SwitchProject(p) ==
    /\ Moved
    /\ convs' = [c \in Conv |-> IF c \in There THEN p ELSE None]
    /\ UNCHANGED <<tabs, members, withHuman, tasks, rows, queue, turn, outgoing, sends, mishaps>>

Restart(q) ==
    /\ Mishap
    /\ tabs' = [t \in Tab |-> IF Home[t] = q /\ tabs[t].at = "open"
                              THEN [tabs[t] EXCEPT !.at = "gone", !.looking = FALSE]
                              ELSE tabs[t]]
    /\ members' = {m \in members : Home[m[2]] # q}
    /\ tasks' = [k \in Task |-> IF tasks[k] # NoTask /\ Home[tasks[k].tab] = q THEN NoTask
                                ELSE tasks[k]]
    /\ wires' = {w \in wires : w.to # q}
    /\ UNCHANGED <<convs, withHuman, rows, queue, turn, sends, replies, moves, shown, owed>>

HandleMessage(k) ==
    \/ Find(k) \/ Create(k) \/ Gate(k) \/ StoreMessage(k) \/ Hand(k)
    \/ \E p \in ProjectId \ {Unverified} : JoinCode(k, p)

WebNext ==
    \/ \E t \in Tab :
         \/ Connect(t) \/ SetUp(t) \/ Close(t)
         \/ \E x \in MessageId, k \in Task : SendText(t, x, k)
    \/ \E k \in Task : HandleMessage(k)
    \/ \E q \in Process :
         \/ \E j \in queue : TakeJob(q, j)
         \/ WorkerReplies(q) \/ Restart(q)
    \/ NoReply
    \/ \E w \in wires : Delivered(w) \/ SubscriberMisses(w)
    \/ \E c \in Conv : HumanReply(c) \/ TakeOver(c)
    \/ \E p \in ProjectId \ {Unverified} : SwitchProject(p)

WebSpec == WebInit /\ [][WebNext]_webVars

-----------------------------------------------------------------------------
\* A reply is shown once by every tab that was open when it was published and
\* still is: whichever rooms the tab is in or has been moved between, whether
\* other tabs close, and even if Redis delivered what it reported as failed.
\* No tab is sent a message twice, its own customer's included.
EveryTabOnce ==
    /\ \A t \in Tab, i \in Ids : shown[t][i] <= 1
    /\ \A n \in 1..replies :
         (\A w \in wires : w.n # n) =>
             \A t \in owed[n] : tabs[t].at = "open" => shown[t][ReplyId(n)] = 1
=============================================================================
