# ticket_codebase in TLA+

A verification project for the ticketing backend under `src/`: TLA+ modules for
its concurrent parts, TLC runs on small instances, and theorems checked by
TLAPS. Section 1 is the inventory of the system, 2 the order in which the
project was built and what it still lacks, 3 to 5 describe what exists: the
modules and the code they model, the runs, the proofs. Section 6 says what is
not modelled.

Paths below are relative to `src/src/` unless they start with `src/`.
`PROJECT.json` maps every definition to its lines.

## 1. Inventory

Customers write in LINE or in a web chat; a gateway runs an AI agent on each
message, unless a human has taken the conversation over; tickets are rows of
PostgreSQL, mirrored as work items in Plane, where engineers work. One Node.js
server holds the routes, worker loops and timers; during a rolling restart two
run at once. PostgreSQL and Redis are shared.

| component | state it keeps | operations | talks to | modules |
|---|---|---|---|---|
| **Agent session queue** `services/AgentSessionQueue{Service,Worker}.ts` | `agent_session_queue`, `agent_session_state`; in memory one loop per conversation | enqueue, claim, complete, fail, recover; watchdog, stop | fed by LINE batching and the admin routes; posts to the gateway | `AgentSessionQueue`, `SessionTurns`, `TurnDeadlines` |
| **LINE ingress and batching** `api/routes/lineWebhook.ts`, `services/LineMessageBatchingService.ts` | `line_webhook_events`; batches and timers in memory | claim, reply, store, batch, flush, shutdown | onboarding, the confirmation handler, the queue | `LineIngress` |
| **LINE project onboarding** `services/LineProjectOnboardingService.ts` | `line_onboarding_sessions`, `line_onboarding_requests`, `profile_projects`, conversations | one transaction per event; administrators resolve requests | ingress | `ProjectOnboarding` |
| **Web chat** `presentation/http/routes/WebChatGateway.ts`, `api/server.ts` | sockets and rooms in memory | connect, send, switch project, publish replies | Redis, the message worker, takeover | `WebChat` |
| **Human takeover** `human-takeover/`, `api/routes/admin.ts` | the lease in Redis, `conversations.handled_by` | take over, reply, escalate, release, list; monitor | ingress, web chat, SLA | `HumanTakeover` |
| **Ticket lifecycle and tools** `domain/ticket/`, `tools/ToolRegistry.ts`, `tools/TicketService.ts` | `tickets`, `ticket_events` | transition; create, update, assign, merge, reopen, close, restore | state machine, outbox, Plane | `TicketLifecycle`, `TicketSync`, `TicketTools` |
| **Plane synchronisation** `services/planeWebhookService.ts`, `planeService.ts`, migration 035 | `plane_last_seen_updated_at`, the link of a ticket to its work item | poll cycle, PATCH, promotion, images, deletion | trigger and outbox one way, poller the other | `TicketSync`, `WorkItemEvidence` |
| **Domain event outbox** `infrastructure/db/Outbox*.ts` | `outbox_events`, `isProcessing` | fetchPending, dispatch, markProcessed, scheduleRetry, deadLetter, requeue | filled by a trigger and by ticket creation; calls Plane and the job queue | `OutboxDelivery`, `TicketSync` |
| **Background jobs** `application/jobs/`, `infrastructure/queue/` | BullMQ jobs, `processed:<id>` keys, dead letters | add, take, guard, handle, mark, retry | the tickets, the outbox | `GuardedJobs`, `TicketTools` |
| **Customer confirmation and closing** `services/CustomerConfirmationHandler.ts` | none of its own: asks the ledger and the thread | confirm, decline, "still broken", close request | state machine, notifications | `CloseDialogue`, `TicketSync` |
| **Customer notifications** `services/CustomerNotificationService.ts` | `customer_notifications` | claim, push, settle, append to the thread | LINE | `CustomerNotices`, `OnceNotices` |
| **SLA cadence and calendar** `services/SLACadenceService.ts`, `BusinessCalendar.ts` | `sla_cadence_claims`, clocks on the ticket, an advisory lock | reminders, nudges, automatic close, console close and reset | state machine, notifications | `SlaCalendar`, `SlaReminders`, `SlaFollowUps` |
| **Agents, tools router and memory** `orchestrator/`, `agent/`, `mcp/`, `memory/ConversationMemoryService.ts` | messages and cases of a conversation; its memory in each runtime and one file; the circuit breaker of a process | store, read, summarise, escalate, route, hand over, reply; request, resend | the message worker runs it; PromptX, ticket tools, takeover | `AgentTurns` |
| Urgent alerts, policy, authentication, retrieval, diagnostics, git sync, caches, Plane administration, adapters, tracing, server | | | | section 6 |

What is hard to test, and what makes each part correct (`PROJECT.json`
"hazards" has each at its line):

- *Session queue.* Leases expire while loops run; recovery is three separate
  statements; a COMMIT can succeed and its reply be lost; a message can be
  stored while the loop is on its way out. Correct: one turn of a conversation
  at a time, in order, only the lease holder settles a row, every row leaves
  `processing`, no message is stranded.
- *Ingress.* An event is claimed, stored, asked about, batched in memory and
  queued by separate calls, any of which may fail; LINE sends events again.
  Correct: what was answered 200 is kept, and nothing is put to the agent twice.
- *Onboarding, web chat, takeover.* Rows that are not there cannot be locked;
  sockets close and change rooms while replies travel; lease and mark are
  written by separate calls. Correct: one conversation per project, one request;
  every tab shows a reply once; no conversation stays with nobody.
- *Tickets.* Five kinds of writers of the status, each reading first and writing
  later; whole-row saves of old copies; creations that race; the status echoes
  to Plane and back. Correct: moves are legal, Plane ends up showing the ticket,
  reports keep a ticket, committed history is kept.
- *Outbox and jobs.* At-least-once; two processes without row locks; guards that
  outlive the worker. Correct: no event marked that did not happen, none
  repeated without a cause, every row and job ends.
- *Agents.* Messages of one conversation at once, each run again after a
  failure; histories and memories read before a request and used after it;
  answers that arrive when the breaker has moved on. Correct: a report has its
  case, and one; the memory leaves no message out; requests are kept back only
  after failures; every message is answered or given up.
- *Notices and SLA.* A claim precedes the send, and passes act on what they read
  before. Correct: at most once, no slot missed, closed only after silence.

## 2. How the project grew, and what is left

1. `AgentSessionQueue`, its abstract specification `SessionTurns`, the clocks of
   one turn `TurnDeadlines`; proofs.
2. `TicketLifecycle` (tables), `TicketSync` (one ticket and its work item);
   proofs.
3. `OutboxDelivery`, `GuardedJobs`, `WorkItemEvidence`, `HumanTakeover`,
   composed in `MCDelivery`; proofs for the first two.
4. `CustomerNotices` with its abstract specification `OnceNotices`, the SLA
   modules, `CloseDialogue`; then `LineIngress`, `ProjectOnboarding` and
   `WebChat`; composed in `MCContact`; proofs for three of them.
5. `TicketTools`, composed with `TicketSync` in `MCTickets`.
6. `AgentTurns`, a further part of `MCDelivery`; proofs.
7. Proofs of the remaining safety properties of the runs: the queue's history
   and its refinement of `SessionTurns`, `TicketTools`, `WorkItemEvidence`,
   `WebChat`, the calendar with `SlaReminders` and `SlaFollowUps`, and
   `CloseDialogue`. For them the calendar's loops were stated as counts, and
   what a handler of `CloseDialogue` read as sets.
8. The bound on a human's session (`SessionsBounded`) with its proof; the
   remaining type invariants, and the compositions `MCDelivery` and `MCContact`,
   as theorems. For them the order in which `CloseDialogue` finds its cases
   became a function, `place`.

Next would be the deletion of work items (`planeDeletionService.ts`) and the
index of pushed files (`GitSyncService.ts`).

## 3. Modules and code

The components share tables, not variables of one process, and what one hands
to the next is a row that the next reads when it likes. So each module has the
other side's part of a shared table as an action of its own (`InsertRow` in
`OutboxDelivery`, `OthersMove` in `CloseDialogue`, `Edit` in `TicketSync`), and
`MCDelivery`, `MCContact` and `MCTickets` put modules side by side: a behaviour
is one of a single module, chosen by `part`, while the others rest. Parts
interact inside the modules: the poller, the trigger and the outbox in
`TicketSync`; webhook, confirmation handler, onboarding's verdict, batching and
queue in `LineIngress`; rooms, worker, Redis and operators in `WebChat`;
operators, escalation and monitor in `HumanTakeover`.

### AgentSessionQueue

Variables are the columns of the two tables (`status`, `token`, `attempts`,
`seq`; `active`, `held`), the clock as the set `live` of unexpired tokens, and
per process the entry points of the code: `kick` (a dispatch about to start),
`loop` (where the worker loop is, `idle` iff not in `activeDispatches`), `job`
(`currentItem` and its token), `recovery` (between which statements).

| action | code |
|---|---|
| `Enqueue`, `Dispatch` | `enqueue`; `dispatchConversation` up to its first await |
| `Claim`, `Continue`, `Post`, `Complete`, `Fail`, `Leave` | the worker loop and the transactions it calls |
| `StartRecovery`, `Requeue`, `ClearExpired`, `RecoveryFails` | the three statements of `recoverExpiredLeases`, for the watchdog or the admin route |
| `Expire`, `Stop`, `Exit`, `Start` | lease clock; shutdown, crash, restart |

A transaction of the service locks the state row first, so it is one step; the
continuation in JavaScript is another. `sequence_at, id` is the order of
insertion. The clocks of the process and of the database are taken as one. A
failing call (`DbFaults`) fails before its COMMIT or after it. Recoveries of one
process do not overlap (the watchdog's period is far above a recovery); those of
two processes do. What the gateway does is external: it may accept a turn and
the answer be lost. `waitForReply` never throws, so it is time that passes.

`SessionTurns` is the promise without leases, tokens or processes: at most one
running message per conversation, a bounded number of tries, what is settled
stays settled, one step may end a turn and begin the next.
`Abstract == INSTANCE SessionTurns WITH phase <- Phase` maps a row that is
processing to `running` or `lapsed` by its lease.

`TurnDeadlines` computes the two deadlines of one turn as the worker does and
lets ticks pass; it asks whether the watchdog can recover a turn in flight.

### LineIngress

One customer's events through overlapping webhook requests. `web` is where each
request's loop is and which events it has left; `claims` the rows of
`line_webhook_events`; `batch` the debounced batch in memory, `flights` the
batches whose INSERT is under way, `turns` the rows of the queue as the events
they carry. `Deliver` is LINE calling, first or again; `ProcessEvent` and
`Duplicate` the INSERT of the claim; `Reply`, `Media`, `Persist`, `Consume`,
`NotAnAnswer`, `Enqueue` the stages of the loop's body; `Release` its catch;
`Flush`, `FlushEnds`, `FlushFails`, `ShutDown`, `Exit`, `Crash` the batching
service. What is lost to a named trouble goes to `excused`: a crash or shutdown
that comes between, a flush that fails, a release that fails, and a claim
released after a redelivery of the same event was told 200 as a duplicate
(`lineWebhook.ts:1108`).

### ProjectOnboarding

One customer, one organisation, one destination. An event is a transaction:
`BeginTx` finds the conversation in use, `GetSession` locks the session row if
there is one, `ProcessClaimedEvent` decides from snapshots, `CommitTx` writes.
An administrator resolves or rejects a request, gives and revokes codes, without
that lock. `unlocked` counts the writers that had no row to lock. The touches of
`conversations.updated_at` by provisioning only postpone the takeover's monitor
and are left out of both modules.

### WebChat

Sockets (`tabs`), the rooms of all processes (`members`), messages being handled
(`tasks`), the worker's `queue` and `turn`, payloads under way from Redis
(`wires`). `Connect`, `SetUp`, `SendText`, `Enter`, `Find`, `Create`, `Gate`,
`StoreMessage`, `Hand` are the steps of one socket between its awaits;
`PublishOutbound`, `Delivered`, `SubscriberMisses` the way of a reply, or the
direct broadcast when Redis refuses; `shown` counts what a tab was sent.
Left out: that the set of ids a tab keeps is cut to 1000; that a takeover notice
which falls back to the direct broadcast is shown as an empty AI message; that
a customer's own message is echoed only by the process they are connected to.

### HumanTakeover

The lease in Redis (`lease`: status, time left, time the session may still be
prolonged), the mark `handledBy`, the time since `updated_at` (`idleFor`), and
operations as the sequences of steps they have left, so that every interleaving
and every break-off between two steps is a behaviour. Only the Redis branch of
`TakeoverManager` is modelled; the file-backed one serves development. The ghost
`activeFor` is how long the lease has been `ACTIVE_HUMAN` without a break:
`SessionsBounded` says that it and what the lease has left stay within
`HUMAN_MAX_SESSION_MINUTES`, although `acquireLease` writes an end it computed
from what it read, possibly before others wrote.

### TicketLifecycle and TicketSync

`TicketLifecycle` holds the tables: `Allowed`, `CustomerEdges`, `PlaneEdges`,
`CanTransition`, the mappings `ToPlane` (the state the outbox picks by name) and
`FromPlane` (the status a fetched state implies; "no change" is the status
itself), and the routes callers walk. States that read the same way (Done and
Close; Backlog, Open and Todo) are merged.

`TicketSync` is one linked ticket. `status` is the column, `outbox` the pending
update events, `remote` the work item's state, `fresh` whether its `updated_at`
is later than the recorded one, `call` where each caller of `transition` is and
which hops it has left, `poll` where the poller is, `copy` a worker's copy of
the row.

| action | code |
|---|---|
| `Load`, `Update` | `transition`: read and check; conditional UPDATE |
| `SetStatus` (in every writer) | an UPDATE with the trigger of migration 035 |
| `Confirm`, `ItWorks`, `Decline`, `StillBroken` | `CustomerConfirmationHandler` |
| `Portal`, `AutoClose`, `GiveUp` | portal route; `autoCloseTicket`; a caller that throws |
| `Select`, `Fetch`, `Apply`, `Record`, `PollFails` | one cycle of `syncLinkedTicketsFromPlane` for this ticket; `applyPlaneStatus` |
| `Dispatch`, `DispatchFails` | `OutboxProcessor`: PATCH and mark; retry or dead letter |
| `ReadRow`, `SaveRow` | `TicketSummaryWorker` and its like: `findById` ... `save` |
| `ConsoleClose`, `Restore` | writes without the state machine |
| `Edit` | an engineer in Plane (external) |

A walk of several hops is several calls of `transition`; it ends at the first
that is rejected. Each caller computes its route from the status it read before
the first hop. The outbox runs in one process (`isProcessing`), so fetching is
not a step. Whether a PATCH with the state the item already has renews
`updated_at` is left open. Time is left open too: any ticket that awaits the
customer may be closed automatically.

### TicketTools

The rows of one project and everything that writes them whole: `LookUp` and
`Insert` (`TicketService.createTicket`, one transaction for row and event, after
a look for an active ticket of the subject), `PortalRow` and `PortalEvent` (two
statements), `TakeLock`, `SaveSummary`, `SaveReopened` (the tools that read
`FOR UPDATE`), `Read`, `Scan`, `SaveCopy` (tools and workers that save the copy
they read), `MarkCancelled`, `RestoreRow` (console), `BreakOff` (a statement
fails or the process dies). A report is what a customer reports; `Topic` is what
creation compares (conversation and subject), `Title` what the duplicate worker
compares, over the whole project: it may cancel one customer's ticket for
another's. The tools' own PATCHes to Plane and the moves of status by the state
machine are `TicketSync`'s (`Edit`, `SaveRow`); a request to Plane can only fail
here. `merge_ticket` tests for a status `merged` that no row has, so a repeated
merge is refused as a move of a cancelled ticket.

### OutboxDelivery, GuardedJobs, WorkItemEvidence

`OutboxDelivery` is `processPendingEvents` in several processes: `Fetch` reads a
batch without locks, `Dispatch`, `MarkProcessed`, `ScheduleRetry`, `DeadLetter`
take its rows one by one with the attempts that were read with it; answers get
lost (`AnswerLost`), UPDATEs fail, processes crash, an operator requeues.

`GuardedJobs` is the shape the BullMQ workers share: `TryGuard` (SET NX),
`HandlerEnds`, `MarkDone`, `Release`, `Complete`, `FailJob`; workers die or
stall, guard writes fail, keys expire. BullMQ itself is external. Jobs for
ticket creation carry an integer id, which BullMQ refuses, so their outbox rows
end as dead letters (a final failure in `OutboxDelivery`).

`WorkItemEvidence` is the promotion of one ticket and the copying of its images:
the link is stored only after the pushes, a push replaces the description it
read, and images, engineers and other calls come in between.

### AgentTurns

One conversation's messages (`Turn`) and its releases by an operator
(`Closing`). `turns` says where each is and what it has read, `thread` how many
messages are stored, `cases` the tickets made for them.

| action | code |
|---|---|
| `LogMessage`, `ReadHistory`, `Reply` | `AgentRuntime.chat`; `saveMessage` (an upsert), `getMessages` (a failed query is an empty history) |
| `Recall`, `Store` | `getOrSummarize`: threshold, lock, the summary written to store and file |
| `LookUp`, `Escalate` | the latest ticket; `createJitTicket` for a report without one |
| `RouteByWords`, `Handle`, `HandOver`, `Create` | supervisor, agents, handoff loop, `create_ticket` through the router |
| `Request`, `Answered`, `Resend`, `Fails` | one request to PromptX under the breaker all of them share: summary, routing, support, diagnosis, search, closing summary |
| `Throws`, `Dies` | the job runs again, up to its attempts; the process starts anew with the file |
| `OtherLoads`, `OtherStores` | another conversation's runtime, which writes the whole file it once loaded |
| `HandBack`, `CloseCase` | the release route's closing summary, made by a service of its own |

What the code does here and a reader may not expect: the query for the latest
ticket leaves out `'Closed'`, which is no status, so a closed case still counts
and a new report in its conversation opens none on sight
(`PostgresAdapter.ts:262`); one message may get two tickets, one on sight and one
by the ticket agent, whose subjects differ; and with the default threshold of 8
and 6 recent messages, the oldest of seven unsummarised ones is in neither the
memory nor the prompt. A delayed history read may also replace a newer memory by
an older one. `MemoryComplete` therefore promises less: whatever message a
memory says it reaches, none before that is missing from it. It takes a message
as stored when it has its time; `created_at` orders the history, and an INSERT
that commits after a later one was read would fall before the mark.

### Notices, SLA, closing

`CustomerNotices` is `send`: `LookBack` (burst acknowledgements), `ClaimNotice`
(INSERT on conflict), `PushLine`, `Settle`, `AppendTurn`, with losses between
any two. `OnceNotices` is its promise; `Abstract == INSTANCE OnceNotices WITH
told <- pushed`.

`SlaCalendar` has the calendar's two loops: both step by whole days, so
`Counted` says what they have counted after so many steps, `Completes` where
`addBusinessDays` stops, and `businessDaysBetween` is the count of the whole
days between its arguments; `SlaReminders` the
cadence of one ticket in two engines under an advisory lock, with days of two
units and weekends; `SlaFollowUps` the nudge and automatic close of a delivered
ticket, hop by hop, against customers, Plane, humans and the console.

`CloseDialogue` is `CustomerConfirmationHandler` over several open cases: which
case a text means, the pending question in ledger and thread, the hops, two
handlers at once. `place` orders the cases as `openTickets` does, by their last
change of status; `Newest` is the first of those a handler has read.

## 4. Runs

| run | question | properties |
|---|---|---|
| `queue_safety` | two processes, two events of one conversation, overlapping watchdogs, expiring leases | `OneLiveLease`, `ExclusiveTurn`, `OnlyHolderSettles` |
| `queue_crash` | one process with two exits, failing calls, watchdog and administrator | `TypeOK`, `HonestOutcome`, `FirstTriesInOrder`, `ImplementsTurns` |
| `queue_liveness` | one exit, failing calls, fairness | `LeasesResolve`, `LoopsEnd` |
| `ticket_sync` | one ticket under two callers, the poller and one disturbance; or two rows under three calls of tools, workers and routes | `TicketsTypeOK`, `MirrorsWhenDrained`, `RefetchChangesNothing`, `MovesLegal`, `CasesAccounted`, `HistoryKept` |
| `delivery` | outbox, jobs, promotion and images, takeover, messages the AI answers | `DeliveryTypeOK`, `ProcessedTookEffect`, `BudgetNotCutShort`, `RepeatsHaveCause`, `HandledOnce`, `NoSilentDrop`, `UndisturbedIsWhole`, `SessionsBounded`, `TurnsAccounted`, `MemoryComplete`, `WorkEnds` |
| `contact` | ingress, onboarding, web chat, notices, reminders, follow-ups, close dialogue | `ContactTypeOK`, `AcceptedIsKept`, `InOneTurn`, `OnboardedOnce`, `EveryTabOnce`, `OneAckPerBurst`, `ThreadTellsAll`, `OnePerSlot`, `NoSlotMissed`, `OneNudgePerWait`, `ClosesOnlySilence`, `SilentTicketsEnd`, `AmbiguityAsks`, `ImplementsOnce` |
| `queue_drain` (violated) | no faults at all: is every message taken? | `ActiveLoopDrains` |
| `turn_deadlines` (violated) | the configured deadlines | `NotRecoveredInFlight` |
| `ticket_rejection` (violated) | does "still broken" survive the next poll? | `RejectionHeard` |
| `ticket_retry` (violated) | does Plane follow a close? | `ClosedShownInPlane` |
| `ticket_saves` (violated) | is every change of status a sanctioned move? | `SanctionedOnly` |
| `close_dialogue` (violated) | is every case closed one the customer agreed to close? | `ClosesWhatWasAgreed` |

What the violated runs show:

- `queue_drain`: a dispatch returns because a loop is active, and that loop ends
  (its last look was earlier, or its turn failed) without reading the queue
  again. The message waits for the conversation's next one.
- `turn_deadlines`: the POST may use 115 s of the 120 s lease before the 90 s
  wait begins, so a turn in flight is recovered and run again.
- `ticket_rejection`: the poller compares only `updated_at`. After a cycle that
  applied "Delivery to Customer" and failed before recording it, or after the
  outbox's own PATCH, it reads that state again once the customer has rejected
  the delivery, and resolves the ticket again before the outbox has pushed the
  reopening.
- `ticket_retry`: a failed event is retried behind later ones, and its older
  status is the last one PATCHed; a closed ticket is not polled, so it stays.
- `ticket_saves`: a worker's save of a stale copy moves a ticket back along an
  edge that no actor has.
- `close_dialogue`: a close question counts as pending for half an hour, also
  once answered; a second "it works" without a number is read against it, finds
  its case closed, and closes the only other one.

**What properties excuse.** Several promises of the code hold only but for named
events, and then the property counts those instead of assuming them away:
`RepeatsHaveCause` (crashes, lost answers, failed UPDATEs, overlapping reads),
`HandledOnce` (a "done" that was not written or expired), `OnboardedOnce`
(writers without the row's lock), `AcceptedIsKept` (the
troubles listed above), `CasesAccounted` (two creations that both looked first,
portal requests, reopenings; two duplicate checks that overlap; a portal request
cut between its statements), `TurnsAccounted` (two messages that both looked for
a case, a failed query), `HistoryKept` (an unlocked copy that was out, or a
language model's own version). A repetition or loss with any other cause
violates them; the mutants in `PROJECT.json` show one for each.

**Bounds.**

- Queue: two events suffice for order, overtaking and handing over; two
  processes for every pairwise race on a state row (a third would race with one
  of them in the same way, and the proofs cover any number); `MaxAttempts = 2`
  has a retry and a limit; two exits allow a crash during recovery from a crash.
  Conversations share nothing but the recovery's statements, so the runs take
  one; again the proofs take any.
- `TicketSync`: two callers, because each statement of one can fall between two
  of the other, and one disturbance (`MaxEvents = 1`) of any kind. `MaxTries = 2`
  lets an event fail, wait and fail again.
- `TicketTools`: two rows and three calls (a creation, a second creation or
  worker, and something that reopens, closes or saves late), two reports with
  one title of two customers, one failure. With three reports it passes too.
  The whole run has 2.0 million states.
- `delivery`: two rows in one process or one row in two, two attempts, one
  trouble; one job in two slots, two stalls, one Redis failure; two promotions
  and one late call over two images and one edit; two operations on a takeover
  whose lease, cap and idle limit differ; one message, a release, the file's other
  writers and one failure, or two messages at once without; a summary of two
  messages, a breaker that opens at two failures, one resend, two tries of a tool
  and of a job. 162 thousand states.
- `contact`: two LINE events (alone or together) in two overlapping requests;
  three onboarding events in two transactions, with one change by an
  administrator; two tabs, two conversations, two processes, one reply and one
  mishap; three senders of three notices; two engines over sixteen units (a
  weekend included) with an hourly and a daily interval; three waits of a
  delivered ticket; two cases and two messages (three in `close_dialogue`). The
  cases begin alike, so the run fixes which of them changed last at first.
  1.8 million states.
- Symmetry is used for processes and callers in runs without liveness.

**Deadlock** is not checked: the system rests when no messages arrive, and the
bounds on arrivals, exits, edits and faults end behaviours of the model.

**Fairness.** A call that was started returns (Node.js runs every continuation;
every HTTP and database call has a timeout), intervals fire, leases run out with
time, a process told to stop exits and Docker restarts it
(`restart: unless-stopped`). Arrivals, crashes, faults and what people do have
none. In `queue_liveness` and `queue_drain` the second and third statement of a
recovery have strong fairness: a database that is tried again and again does not
fail for ever. In `delivery`: the outbox pass goes on (`Work`), processes
restart, backoffs fall due; a slot goes on with its job (`RunnerStep`); time
passes, begun operations go on, and the inactivity monitor finds a conversation
that stays overdue; a message under way goes on to its next step, because every
request to PromptX has a timeout. BullMQ gives a lost job back, which is what its stalled-job
check does.

## 5. Proofs

All are for any values of the constants that satisfy the named assumptions: any
number of processes, events, calls and faults.

`AgentSessionQueueProofs` (`QueueAssumption`): `TypeCorrect`, `Invariance`,
`LeaseIsUnique`, `TurnsExclusive`, `HolderSettles`. `OneLiveLease` alone is not
inductive: a late `Complete` is harmless only because the token of a loop is held
by no other loop and by no row it does not work on. `LeaseInv` adds: a loop that
drives a turn has a named item (`JobsNamed`), tokens were issued before
`nextToken` (`TokensIssued`) and are not shared between loops (`TokensUnshared`),
and an unexpired job is backed by its row (`JobsBacked`). Every transaction is
one of three shapes: it leases, it clears, or it leaves the state row alone; the
lemmas `LeaseStep`, `ClearStep`, `MoveLease` and `TableLease` are about those, so
that each action only has to be classified. `HolderSettles` reads from the
invariant who can take a row out of `processing`. `OutcomesHonest` and
`OrderKept` need the history as well (`HistoryInv`): how many attempts a row in
each status may have, that a loop past its POST has a turn, that rows are
numbered as they were stored, and that a row which was never tried has none
later than it tried. `TurnsImplemented` is the refinement of `SessionTurns`, the
initial states and, action by action, every step.

`TicketProofs` (`SyncAssumption`, `ToolsAssumption`): `TypeCorrect`;
`AllMovesLegal`, whose invariant (`CallInv`) says that between the check and the
UPDATE a caller's hop is one its actor may make from the status it read, which
the UPDATE's condition makes the status of the row; `PlaneMirrors`, whose
strengthening (`Untried`) says that without a failed dispatch no event has been
tried, so events leave at the head and the last one keeps the latest status
until it is dispatched. `RefetchQuiet` must say what
the poller knows at each of its steps (`SeenInv`): with nothing dispatched since
an engineer's edit and nothing to dispatch, the ticket has not moved, so a
timestamp it may record belongs to a state it has tried or found to be settled;
and nobody moves a ticket to `OPEN`, whose Plane state would ask for another
status (`OpenInv`).
`Accounted` and `HistoriesKept` rest on `ToolsInv`: a
copy read under the lock is the row (`LocksHold`), a creation that found nothing
is alone with its topic (`CreationsSee`), the ticket a duplicate check found
stays open (`FindsStay`, `FindsApart`), and every copy that is out contains the
details that must not be lost (`CopiesTell`). `SideBySide` shows
that the composition `TicketsSpec` implements both modules, so that every
theorem of either holds in the run's specification; `BothTyped` is one of them.

`OutboxDeliveryProofs` (`OutboxAssumption`): `AtLeastOnce`, `FullBudget`,
`RepeatsAccounted`. For the last, each row's past effects and the ones its
readers may still cause (a process that holds the row undispatched, a row that
is pending and can be fetched) are together at most one more than the excuses:
the invariant bounds what may still happen, not only what has.

`JobProofs` (`JobsAssumption`, `EvidenceAssumption`): `RunOnce`: at most one slot
is between the guard and its outcome, and while the guard is free the runs are
at most the remarks. `NothingDropped` assumes that the listener's three attempts
are within the job's (`DlqAt <= JobAttempts`): a job with `maxRetry` 0 gets no
dead letter. `LeftWhole` is about calls that end, so its invariant `WholeInv`
says what the only call under way has done so far (`Halfway`): what it read is
still the description, and the work item shows everything but the images it has
yet to add.

`ContactProofs` (`NoticesAssumption`, `CalendarAssumption`,
`RemindersAssumption`, `FollowUpsAssumption`, `CloseAssumption`, and for the
composition those of `IngressProofs`): `OneAck`, `ThreadComplete`, `Once`. The
invariant gives every claimed row one owner, the call whose INSERT made it; `Once` is the refinement of `OnceNotices`, initial
states and every step.

The reminders and follow-ups rest on lemmas about the calendar: any three
days have a business day (`CountedThree`), so `addBusinessDays` stops, and a time
is past the nth business day after another exactly if `businessDaysBetween` has
counted n (`CalendarAgrees`, `AddedExact`). `OneReminder`: a pass at work holds the
lock and is about the current slot, and what was told is still claimed
(`RemindersInv`). `SlotsKept`: while nothing fails, what is claimed was told or is
about to be, and a pass that is over has told the slot that has begun
(`PromptInv`). `OneNudge`, `SilenceOnly`: a pass acts in the unit of time it read
its row in, on a wait that was (`FollowUpsInv`). `SilenceEnds`: while nothing is
upset, a pass that is over leaves no wait that is due (`RowInv`, `ClaimsInv`).
`Asks`: what a handler has read was said or asked before (`Fit`), also when the
case has moved since, and only a close of an agreed case, or of the only one
open, has a hop to `CLOSED` on its route; the half hour ends only between talks.

`DialogueTypes` also says that a handler has chosen a case wherever its next step
needs one, and that the texts being read and those left to the AI are no more
than were received. `ContactSideBySide`: a behaviour of the composition is one of
each of its seven modules; with it `ContactTyped`, and `ContactKeeps`, all their
safety invariants at once.

`IngressProofs` (`IngressAssumption`, `OnboardingAssumption`,
`WebChatAssumption`): `KeepsAccepted`, `OneTurnEach`. Every
claimed event is in one place: in the request that claimed it, in the batch, in
one flight or in one turn (`PlaceInv`, `AloneInv`), and only its holder moves it
on. `ConversationIsOne`, `RequestIsOne`, together `Onboards`: what onboarding
decides under the row lock stays true until the commit, and the transactions
that opened or asked without it are counted by their number, which the ghost
`unlocked` keeps.
`EveryTab`: an open tab is in the room of its recipient (`TabsInv`), so a payload
reaches it whichever conversation it looks at, and what it is owed it was shown
or is on its way to its process (`OwedInv`). `IngressTypes`, `OnboardingTypes`
and `WebTypes` are the type invariants; those with counters in them (accepted
events, transactions begun, copies shown) need the invariants above.

`DeliveryProofs` (`TakeoverAssumption`, and those of the other four modules):
`SessionsEnd`. That a held lease ends in time is not inductive, because an
operation may have computed a later end and not written it yet. `SessionInv`
therefore bounds the computed leases as well: the age of the session and the cap
of any active lease, held or about to be written, are together at most
`MaxSession`. Time ages them all alike, and `acquireLease` gives a running session
the end it read. `DeliverySideBySide`, `DeliveryTyped` and `DeliveryKeeps` are the
composition's; the last assumes `DlqAt <= JobAttempts`, as `NothingDropped` does.

`AgentTurnsProofs` (`TurnsAssumption`): `TurnsAccountedAlways`,
`MemoryCompleteAlways`, `TurnsTyped`. Three parts of the invariant do the work.
A case opened on sight can be told from the others by the one turn that may
still open it: without two looks at once or a failed query, at most one turn is
about to escalate, and then no escalation exists yet (`CasesInv`). What a turn
has read of the memory is whole like the memory itself (`MemoryInv`), so a
summary that arrives late still covers all it says. And a request waits only in
a step that makes one, a release never in a message's steps (`Paths`). Each step
is first shown to move one message to a place of a known kind (`Landing`), then
every part is preserved by that.

Every invariant and action property of the passing runs, and both refinements,
are theorems. Only model-checked: liveness (`LeasesResolve`, `LoopsEnd`,
`WorkEnds`, the takeover's part of it included), which is beyond TLAPS; and the
violated runs, whose counterexamples are the result.

## 6. Not modelled

- Queue: read-only statistics; the text of messages; retention.
- Ingress: the typing indicator, cards and wordings.
- Tickets: priority, comments, `plane_status` (a label nothing decides on),
  titles and assignees; parameter mapping and remote discovery of tools; deletion
  (a 404 of the work item deletes the ticket); Plane's webhooks, which do not
  arrive (`CustomerConfirmationHandler.ts:231-232`).
- The skip flag of the trigger is set by code that never writes the status
  (`syncTicketFromPlane` is called for the priority only), so every change of
  status is queued, also one that came from Plane. That such an echo may
  overwrite an engineer's newer edit is listed as a hazard and covered by no
  property: `MirrorsWhenDrained` excepts tickets an engineer edits.
- SLA: due dates and breaches (`SLAMatrixService`) and the console's queries,
  computed for display; its clock shift and forced sends, for tests.
- `RedisJobQueue` and `RedisLockService` are used by nothing;
  `InMemoryJobQueue` is for development.
- Urgent alerts: one claim in `sla_cadence_claims` and one post, with the
  statements `SlaReminders` models. Plane administration: reads and
  configuration. Git synchronisation: an index apart from the rest, DELETE and
  INSERT per file without a transaction, so overlapping or reordered pushes may
  leave an older or a second copy.
- Agents: what prompts and models say, which has no specification to check;
  intent and policy as functions of a text; a guest's first contact and the
  mention gate of groups; the loop and depth checks of handoffs, which nothing
  reaches (only the knowledge agent hands over, to the ticket agent, which does
  not).
- Issue sessions are flags of one request; the slot engine is used by a
  command-line test only.
- Authentication and tenancy: checks within one request.
- Adapters, caches, tracing, server wiring, shutdown order: no protocol of
  their own beyond what the modules above use of them.
