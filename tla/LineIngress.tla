------------------------------ MODULE LineIngress ------------------------------
(***************************************************************************)
(* From LINE's webhook to the agent's queue: the loop over the events of a *)
(* request (lineWebhook.ts), the claim of an event, and the debounced      *)
(* batches of LineMessageBatchingService.ts, of one customer.              *)
(*                                                                         *)
(* Requests are handled at the same time, and LINE sends an event again    *)
(* when it got no 200, or for no reason.  What a decision of the           *)
(* onboarding, of the confirmation handler and of the small talk filter    *)
(* is, is left open; so are the notices, which nothing here waits for.     *)
(***************************************************************************)
EXTENDS Integers, Sequences, SequencesExt, FiniteSets

CONSTANTS
    Event,          \* webhookEventIds of the customer
    Request,        \* webhook requests handled at the same time
    MaxRequests,    \* bound: requests LINE makes
    MaxTrouble      \* bound: failing calls, crashes and shutdowns

ASSUME IngressAssumption == {MaxRequests, MaxTrouble} \subseteq Nat

VARIABLES
    batching,   \* LINE_BATCH_ENABLED
    kind,       \* what the events are
    claims,     \* line_webhook_events
    web,        \* the requests in progress
    stored,     \* texts and images in messages
    waiting,    \* images whose ten seconds have not passed
    asking,     \* images with awaitingCaseConfirm
    batch,      \* events of the debounced batch, in memory
    flights,    \* batches whose flush waits for its INSERT
    awaited,    \* those the shutdown waits for
    turns,      \* agent_session_queue, each row as the events it carries
    up,         \* running, or draining the batches before exit
    made,       \* requests so far
    trouble,    \* troubles so far
    settled,    \* ghost: events answered, or consumed as an answer
    accepted,   \* ghost: events a 200 was given for
    excused     \* ghost: events that troubles or late batches have lost

ingressVars == <<batching, kind, claims, web, stored, waiting, asking, batch, flights,
                 awaited, turns, up, made, trouble, settled, accepted, excused>>

given == <<batching, kind>>
images == <<stored, waiting, asking>>
handover == <<batch, flights, awaited, turns>>
ghosts == <<settled, accepted, excused>>

EventKind == {"text", "image", "file", "menu", "group", "unsend"}
\* What a request can carry.
Carried == {<<e>> : e \in Event} \cup {s \in Event \X Event : s[1] # s[2]}

NoRequest == [at |-> "idle", all |-> <<>>, todo |-> <<>>]

IngressTypeOK ==
    /\ batching \in BOOLEAN /\ kind \in [Event -> EventKind]
    /\ {claims, stored, waiting, asking, settled, accepted, excused} \subseteq SUBSET Event
    /\ \A r \in Request :
         /\ web[r].at \in {"idle", "next", "reply", "media", "persist", "answer", "hand",
                           "release"}
         /\ web[r].all \in Carried \cup {<<>>} /\ IsSuffix(web[r].todo, web[r].all)
    /\ ToSet(batch) \subseteq Event
    /\ \A b \in flights \cup turns : b # <<>> /\ ToSet(b) \subseteq Event
    /\ awaited \subseteq flights /\ up \in {"running", "draining"}
    /\ made \in 0..MaxRequests /\ trouble \in 0..MaxTrouble

IngressInit ==
    /\ batching \in BOOLEAN /\ kind \in [Event -> EventKind]
    /\ claims = {} /\ stored = {} /\ waiting = {} /\ asking = {}
    /\ web = [r \in Request |-> NoRequest]
    /\ batch = <<>> /\ flights = {} /\ awaited = {} /\ turns = {}
    /\ up = "running" /\ made = 0 /\ trouble = 0
    /\ settled = {} /\ accepted = {} /\ excused = {}

-----------------------------------------------------------------------------
(* The loop over the events.                                               *)

On(r, stage) == web[r].at = stage
Present(r) == Head(web[r].todo)
Move(r, stage) == web' = [web EXCEPT ![r].at = stage]
\* "processed += 1; continue"
Processed(r) == web' = [web EXCEPT ![r].at = "next", ![r].todo = Tail(@)]
Trouble == trouble < MaxTrouble /\ trouble' = trouble + 1

\* Answered 503: LINE may send the events again.
Refused(r) == web' = [web EXCEPT ![r] = NoRequest]

Deliver(r, seq) ==
    /\ On(r, "idle") /\ up = "running" /\ made < MaxRequests
    /\ made' = made + 1
    /\ web' = [web EXCEPT ![r] = [at |-> "next", all |-> seq, todo |-> seq]]
    /\ UNCHANGED <<given, claims, images, handover, up, trouble, ghosts>>

\* Answered 200.
Accept(r) ==
    /\ On(r, "next") /\ web[r].todo = <<>>
    /\ accepted' = accepted \cup ToSet(web[r].all)
    /\ web' = [web EXCEPT ![r] = NoRequest]
    /\ UNCHANGED <<given, claims, images, handover, up, made, trouble, settled, excused>>

\* A message taken back is deleted with its attachments, whatever became of
\* its event.
Unsend(r) ==
    /\ On(r, "next") /\ web[r].todo # <<>> /\ kind[Present(r)] = "unsend"
    /\ \E e \in Event :
         stored' = stored \ {e} /\ asking' = asking \ {e}
    /\ settled' = settled \cup {Present(r)}
    /\ Processed(r)
    /\ UNCHANGED <<given, claims, waiting, handover, up, made, trouble, accepted, excused>>

\* Events of a group go to the gateway unclaimed; a failure ends the request.
ForwardGroup(r) ==
    /\ On(r, "next") /\ web[r].todo # <<>> /\ kind[Present(r)] = "group"
    /\ \/ Processed(r) /\ settled' = settled \cup {Present(r)} /\ UNCHANGED trouble
       \/ Trouble /\ Refused(r) /\ UNCHANGED settled
    /\ UNCHANGED <<given, claims, images, handover, up, made, accepted, excused>>

Direct(r) == On(r, "next") /\ web[r].todo # <<>> /\ kind[Present(r)] \notin {"unsend", "group"}

\* Mutant: an event whose claim was made but not yet processed is taken again.
DuplicateRetried(r) ==
    /\ Direct(r) /\ Present(r) \in claims
    /\ IF Present(r) \in settled THEN Processed(r) ELSE Move(r, "hand")
    /\ UNCHANGED <<given, claims, images, handover, up, made, trouble, ghosts>>

\* processEvent: the claim and the decision are one transaction; a claim
\* somebody has makes the event a duplicate.
Duplicate(r) ==
    /\ Direct(r) /\ Present(r) \in claims
    /\ Processed(r)
    /\ UNCHANGED <<given, claims, images, handover, up, made, trouble, ghosts>>

ProcessEvent(r) ==
    /\ Direct(r) /\ Present(r) \notin claims
    /\ claims' = claims \cup {Present(r)}
    /\ \/ Processed(r) /\ settled' = settled \cup {Present(r)}
       \/ Move(r, "reply") /\ UNCHANGED settled
       \/ /\ kind[Present(r)] # "menu"
          /\ Move(r, IF kind[Present(r)] = "text" THEN "persist" ELSE "media")
          /\ UNCHANGED settled
    /\ UNCHANGED <<given, images, handover, up, made, trouble, accepted, excused>>

\* Its transaction fails: rolled back, and the request ends.
ProcessEventFails(r) ==
    /\ Direct(r) /\ Trouble
    /\ Refused(r)
    /\ UNCHANGED <<given, claims, images, handover, up, made, ghosts>>

\* A canned reply, or the confirmation handler for the close menu.
Reply(r) ==
    /\ On(r, "reply")
    /\ \/ Processed(r) /\ settled' = settled \cup {Present(r)} /\ UNCHANGED trouble
       \/ Trouble /\ Move(r, "release") /\ UNCHANGED settled
    /\ UNCHANGED <<given, claims, images, handover, up, made, accepted, excused>>

\* An ingested image waits for a text; other media are turned away.  An image
\* that could not be fetched goes on like a text.
Media(r) ==
    /\ On(r, "media")
    /\ \/ /\ Processed(r) /\ settled' = settled \cup {Present(r)}
          /\ IF kind[Present(r)] = "image"
             THEN stored' = stored \cup {Present(r)} /\ waiting' = waiting \cup {Present(r)}
             ELSE UNCHANGED <<stored, waiting>>
          /\ UNCHANGED trouble
       \/ /\ kind[Present(r)] = "image" /\ Trouble
          /\ Move(r, "hand")
          /\ UNCHANGED <<stored, waiting, settled>>
    /\ UNCHANGED <<given, claims, asking, handover, up, made, accepted, excused>>

\* Ten seconds later: without a recent text the image is asked about.
ImageAlone(e) ==
    /\ e \in waiting
    /\ waiting' = waiting \ {e}
    /\ asking' = asking \cup
         IF e \in stored /\ \A t \in stored : kind[t] # "text" THEN {e} ELSE {}
    /\ UNCHANGED <<given, claims, web, stored, handover, up, made, trouble, ghosts>>

\* A text that cannot be stored goes on.
Persist(r) ==
    /\ On(r, "persist")
    /\ \/ stored' = stored \cup {Present(r)} /\ UNCHANGED trouble
       \/ Trouble /\ UNCHANGED stored
    /\ Move(r, "answer")
    /\ UNCHANGED <<given, claims, waiting, asking, handover, up, made, ghosts>>

\* Answers to a close question and small talk end here; so does the answer to
\* an image, which attaches the image, or keeps the question open.
\* Anything else withdraws that question and goes to the AI.
Consume(r) ==
    /\ On(r, "answer")
    /\ Processed(r)
    /\ asking' \in {asking, {}}
    /\ settled' = settled \cup {Present(r)}
    /\ UNCHANGED <<given, claims, stored, waiting, handover, up, made, trouble, accepted, excused>>

NotAnAnswer(r) ==
    /\ On(r, "answer")
    /\ Move(r, "hand")
    /\ asking' = {}
    /\ UNCHANGED <<given, claims, stored, waiting, handover, up, made, trouble, ghosts>>

-----------------------------------------------------------------------------
(* The hand-over.                                                          *)

\* Into the batch, in memory and without a wait; it can not fail.
Enqueue(r) ==
    /\ On(r, "hand") /\ batching
    /\ batch' = Append(batch, Present(r))
    /\ Processed(r)
    /\ UNCHANGED <<given, claims, images, flights, awaited, turns, up, made, trouble, ghosts>>

\* Without batching, into the queue under the event's id.
EnqueueAlone(r) ==
    /\ On(r, "hand") /\ ~batching
    /\ \/ Processed(r) /\ UNCHANGED trouble
          /\ turns' = turns \cup {<<Present(r)>>}
       \/ Trouble /\ Move(r, "release")
          /\ turns' \in {turns, turns \cup {<<Present(r)>>}}
    /\ UNCHANGED <<given, claims, images, batch, flights, awaited, up, made, ghosts>>

\* releaseWebhookEventForRetry, then 503.  A request that came for the same
\* event meanwhile has been told 200, and LINE need not send it again.
Release(r) ==
    /\ On(r, "release")
    /\ \/ claims' = claims \ {Present(r)} /\ UNCHANGED trouble
          /\ excused' = excused \cup (accepted \cap {Present(r)})
                                \cup {e \in {Present(r)} : \E q \in Request \ {r} :
                                        e \in ToSet(web[q].all) \ ToSet(web[q].todo)}
       \/ Trouble /\ UNCHANGED claims /\ excused' = excused \cup {Present(r)}
    /\ Refused(r)
    /\ UNCHANGED <<given, images, handover, up, made, settled, accepted>>

\* The timer of the batch ran out: it leaves the map before anything is
\* awaited.
Flush ==
    /\ batch # <<>>
    /\ flights' = flights \cup {batch}
    /\ batch' = <<>>
    /\ UNCHANGED <<given, claims, web, images, awaited, turns, up, made, trouble, ghosts>>

\* Mutant: the map's entry is deleted after the INSERT, with what came meanwhile.
FlushEndsDeletesLate(b) ==
    /\ b \in flights
    /\ flights' = flights \ {b} /\ awaited' = awaited \ {b}
    /\ turns' = turns \cup {b}
    /\ batch' = <<>>
    /\ UNCHANGED <<given, claims, web, images, up, made, trouble, ghosts>>

\* Under the hash of its events' ids.
FlushEnds(b) ==
    /\ b \in flights
    /\ flights' = flights \ {b} /\ awaited' = awaited \ {b}
    /\ turns' = turns \cup {b}
    /\ UNCHANGED <<given, claims, web, images, batch, up, made, trouble, ghosts>>

\* Only logged.
FlushFails(b) ==
    /\ b \in flights
    /\ Trouble
    /\ flights' = flights \ {b} /\ awaited' = awaited \ {b}
    /\ turns' \in {turns, turns \cup {b}}
    /\ excused' = excused \cup ToSet(b)
    /\ UNCHANGED <<given, claims, web, images, batch, up, made, settled, accepted>>

-----------------------------------------------------------------------------
(* The process.                                                            *)

\* onClose: flushAll takes the batches there are, and waits for them.
\* Requests are refused from now on; those in progress go on.
ShutDown ==
    /\ up = "running" /\ Trouble
    /\ up' = "draining"
    /\ awaited' = {batch} \ {<<>>}
    /\ flights' = flights \cup awaited'
    /\ batch' = <<>>
    /\ UNCHANGED <<given, claims, web, images, turns, made, ghosts>>

\* The process ends, and another one runs.  What was only in memory is gone,
\* an INSERT under way may have been made, claims stay.
Ends ==
    /\ up' = "running"
    /\ web' = [r \in Request |-> NoRequest]
    /\ batch' = <<>> /\ flights' = {} /\ awaited' = {} /\ waiting' = {}
    /\ turns' \in {turns \cup some : some \in SUBSET flights}
    /\ excused' = excused \cup ToSet(batch) \cup (UNION {ToSet(b) : b \in flights})
                          \cup (UNION {claims \cap ToSet(web[r].todo) : r \in Request})
    /\ UNCHANGED <<given, claims, stored, asking, made, settled, accepted>>

Exit ==
    /\ up = "draining"
    /\ awaited = {} /\ \A r \in Request : On(r, "idle")
    /\ Ends
    /\ UNCHANGED trouble

Crash == Trouble /\ Ends

Loop(r) ==
    \/ Accept(r) \/ Unsend(r) \/ ForwardGroup(r) \/ Duplicate(r) \/ ProcessEvent(r)
    \/ ProcessEventFails(r) \/ Reply(r) \/ Media(r) \/ Persist(r) \/ Consume(r)
    \/ NotAnAnswer(r) \/ Enqueue(r) \/ EnqueueAlone(r) \/ Release(r)

IngressNext ==
    \/ \E r \in Request : Loop(r) \/ \E seq \in Carried : Deliver(r, seq)
    \/ \E e \in Event : ImageAlone(e)
    \/ Flush \/ \E b \in flights : FlushEnds(b) \/ FlushFails(b)
    \/ ShutDown \/ Exit \/ Crash

IngressSpec == IngressInit /\ [][IngressNext]_ingressVars

-----------------------------------------------------------------------------
\* The events a request has claimed and not finished.
InHand == UNION {{Present(r)} : r \in {q \in Request : web[q].at \notin {"idle", "next"}}}

\* An event LINE was told 200 for was answered, or is on its way to a turn or
\* in one: whatever the order in which requests, redeliveries, batches and
\* flushes overlap, only the named troubles lose it (a crash, a flush or a
\* release that failed, a batch begun after the last flush, and a hand-over
\* that failed after a duplicate was accepted).
AcceptedIsKept ==
    accepted \subseteq settled \cup excused \cup InHand \cup ToSet(batch)
                       \cup UNION {ToSet(b) : b \in flights \cup turns}

\* No event is put to the agent twice, however often LINE sends it, and
\* whatever fails in between.
InOneTurn ==
    \A e \in Event :
      Cardinality({b \in turns : e \in ToSet(b)}) + Cardinality({b \in flights : e \in ToSet(b)})
        + Cardinality({i \in DOMAIN batch : batch[i] = e}) <= 1
=============================================================================
