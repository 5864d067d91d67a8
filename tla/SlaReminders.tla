----------------------------- MODULE SlaReminders -----------------------------
(***************************************************************************)
(* The reminder cadence of one open ticket: SLACadenceService's timer in   *)
(* several processes, the advisory lock that lets one pass run, the slots  *)
(* claimed in sla_cadence_claims, and what reaches the developers ("dev",  *)
(* a POST to the notification flow) or the customer ("user", a notice).    *)
(***************************************************************************)
EXTENDS SlaCalendar, FiniteSets

CONSTANTS
    Engine,         \* processes with an SLACadenceService
    CreatedAt,      \* when the ticket may have been created
    Interval,       \* the intervals of CADENCE_RULES
    Grace,          \* catchUpGraceMs
    MaxFaults       \* bound: crashes and calls that fail

ASSUME RemindersAssumption ==
    /\ "none" \notin Engine
    /\ CreatedAt \subseteq Time
    /\ Interval \subseteq [every: Nat \ {0}, unit: {"hours", "businessDays"}]
    /\ Grace \in Nat
    /\ MaxFaults \in Nat

VARIABLES
    now,        \* the clock
    ticket,     \* when it was created, its interval, its leg and whether it is open
    human,      \* handled_by is not "ai", or a takeover is under way
    lock,       \* who holds the advisory lock
    pass,       \* each engine: where it is, and the slot and owner it read
    slots,      \* slot numbers claimed for this leg
    noticed,    \* slots with a row in customer_notifications
    received,   \* ghost: how many messages arrived, by slot, and when
    faults,     \* faults so far
    ran,        \* ghost: whether a pass ended in this unit of time
    gaps        \* ghost: a unit of time without one, a fault, a human or a reset

reminderVars == <<now, ticket, human, lock, pass, slots, noticed, received, faults, ran, gaps>>

Slot == 0..Horizon
Idle == [at |-> "idle", slot |-> 0, human |-> FALSE]

RemindersTypeOK ==
    /\ now \in Time
    /\ ticket \in [created: CreatedAt, interval: Interval, leg: {"dev", "user"},
                   open: BOOLEAN]
    /\ {human, ran, gaps} \subseteq BOOLEAN
    /\ lock \in {"none"} \cup Engine
    /\ pass \in [Engine -> [at: {"idle", "claim", "send", "end", "down"},
                            slot: Slot, human: BOOLEAN]]
    /\ slots \subseteq Slot
    /\ noticed \subseteq Slot
    /\ received \in [Slot -> 0..Cardinality(Slot)]
    /\ faults \in 0..MaxFaults

RemindersInit ==
    /\ ticket \in [created: CreatedAt, interval: Interval, leg: {"dev", "user"},
                   open: {TRUE}]
    /\ now = ticket.created
    /\ human = FALSE
    /\ lock = "none"
    /\ pass = [e \in Engine |-> Idle]
    /\ slots = {}
    /\ noticed = {}
    /\ received = [s \in Slot |-> 0]
    /\ faults = 0
    /\ ran = FALSE
    /\ gaps = FALSE

Boundary(s) == SlotStartedAt(ticket.created, s, ticket.interval)
CurrentSlot == CadenceSlot(ticket.created, now, ticket.interval)
IsSlotFresh(s) == now - Boundary(s) <= Grace
Fault == faults < MaxFaults /\ faults' = faults + 1 /\ gaps' = TRUE
Goto(e, where) == pass' = [pass EXCEPT ![e].at = where]

-----------------------------------------------------------------------------
(* evaluateOpenTickets in engine e.                                        *)

\* Not while isProcessing, and only with the advisory lock.  The open ticket
\* is loaded with its owner; a slot that has begun and is fresh is due.
BeginPass(e) ==
    /\ pass[e].at = "idle"
    /\ lock = "none"
    /\ lock' = e
    /\ pass' = [pass EXCEPT ![e] =
          [at |-> IF ticket.open /\ CurrentSlot >= 1 /\ IsSlotFresh(CurrentSlot)
                  THEN "claim" ELSE "end",
           slot |-> CurrentSlot, human |-> human]]
    /\ UNCHANGED <<now, ticket, human, slots, noticed, received, faults, ran, gaps>>

\* Mutant: the key of a claim lacks the slot.
ClaimTicket(e) ==
    /\ pass[e].at = "claim"
    /\ IF slots # {} \/ (ticket.leg = "user" /\ pass[e].human)
       THEN Goto(e, "end") /\ UNCHANGED slots
       ELSE Goto(e, "send") /\ slots' = slots \cup {pass[e].slot}
    /\ UNCHANGED <<now, ticket, human, lock, noticed, received, faults, ran, gaps>>

\* A report to the customer is left out while a human owns the thread.
ClaimSlot(e) ==
    /\ pass[e].at = "claim"
    /\ IF pass[e].slot \in slots \/ (ticket.leg = "user" /\ pass[e].human)
       THEN Goto(e, "end") /\ UNCHANGED slots
       ELSE Goto(e, "send") /\ slots' = slots \cup {pass[e].slot}
    /\ UNCHANGED <<now, ticket, human, lock, noticed, received, faults, ran, gaps>>

\* A notice is sent once for its key; the flow is asked whenever the slot
\* was claimed.
Send(e) ==
    LET s == pass[e].slot IN
    /\ pass[e].at = "send"
    /\ IF ticket.leg = "user" /\ s \in noticed THEN UNCHANGED <<noticed, received>>
       ELSE /\ received' = [received EXCEPT ![s] = @ + 1]
            /\ noticed' = IF ticket.leg = "user" THEN noticed \cup {s} ELSE noticed
    /\ Goto(e, "end")
    /\ UNCHANGED <<now, ticket, human, lock, slots, faults, ran, gaps>>

\* The request did not leave, or the notice could not be claimed: the slot is
\* released.
SendRefused(e) ==
    /\ pass[e].at = "send"
    /\ Fault
    /\ slots' = slots \ {pass[e].slot}
    /\ Goto(e, "end")
    /\ UNCHANGED <<now, ticket, human, lock, noticed, received, ran>>

\* Mutant: a slot whose answer was lost is released.
SendUncertainReleases(e) ==
    LET s == pass[e].slot IN
    /\ pass[e].at = "send"
    /\ ~(ticket.leg = "user" /\ s \in noticed)
    /\ Fault
    /\ \/ received' = [received EXCEPT ![s] = @ + 1]
       \/ UNCHANGED received
    /\ noticed' = IF ticket.leg = "user" THEN noticed \cup {s} ELSE noticed
    /\ slots' = slots \ {s}
    /\ Goto(e, "end")
    /\ UNCHANGED <<now, ticket, human, lock, ran>>

\* It was transmitted and its answer is an error or lost: the slot stays
\* claimed, whether the message arrived or not.
SendUncertain(e) ==
    LET s == pass[e].slot IN
    /\ pass[e].at = "send"
    /\ ~(ticket.leg = "user" /\ s \in noticed)
    /\ Fault
    /\ \/ received' = [received EXCEPT ![s] = @ + 1]
       \/ UNCHANGED received
    /\ noticed' = IF ticket.leg = "user" THEN noticed \cup {s} ELSE noticed
    /\ Goto(e, "end")
    /\ UNCHANGED <<now, ticket, human, lock, slots, ran>>

EndPass(e) ==
    /\ pass[e].at = "end"
    /\ lock' = "none"
    /\ pass' = [pass EXCEPT ![e] = Idle]
    /\ ran' = TRUE
    /\ UNCHANGED <<now, ticket, human, slots, noticed, received, faults, gaps>>

\* The connection that holds the lock ends with the process.
EngineDies(e) ==
    /\ pass[e].at \notin {"idle", "down"}
    /\ Fault
    /\ pass' = [pass EXCEPT ![e] = [Idle EXCEPT !.at = "down"]]
    /\ lock' = "none"
    /\ UNCHANGED <<now, ticket, human, slots, noticed, received, ran>>

EngineStarts(e) ==
    /\ pass[e].at = "down"
    /\ Goto(e, "idle")
    /\ UNCHANGED <<now, ticket, human, lock, slots, noticed, received, faults, ran, gaps>>

-----------------------------------------------------------------------------
(* Everybody else.                                                         *)

\* A pass is over long before the next unit of time is.
ClockTicks ==
    /\ now < Horizon
    /\ \A e \in Engine : pass[e].at \in {"idle", "down"}
    /\ now' = now + 1
    /\ gaps' = (gaps \/ ~ran)
    /\ ran' = FALSE
    /\ UNCHANGED <<ticket, human, lock, pass, slots, noticed, received, faults>>

\* TakeoverManager.take and its end.
HumanComesOrGoes ==
    /\ human' = ~human
    /\ gaps' = TRUE
    /\ UNCHANGED <<now, ticket, lock, pass, slots, noticed, received, faults, ran>>

TicketDelivered ==
    /\ ticket.open
    /\ ticket' = [ticket EXCEPT !.open = FALSE]
    /\ gaps' = TRUE
    /\ UNCHANGED <<now, human, lock, pass, slots, noticed, received, faults, ran>>

RemindersNext ==
    \/ \E e \in Engine :
          \/ BeginPass(e) \/ ClaimSlot(e) \/ Send(e) \/ SendRefused(e)
          \/ SendUncertain(e) \/ EndPass(e) \/ EngineDies(e) \/ EngineStarts(e)
    \/ ClockTicks \/ HumanComesOrGoes \/ TicketDelivered

RemindersSpec == RemindersInit /\ [][RemindersNext]_reminderVars

-----------------------------------------------------------------------------
\* "A retry, a second instance, or an evaluation that fires a little late all
\* claim the same row": no slot is told twice, whatever crashes, is released
\* or is answered too late, and none is told before it begins.
OnePerSlot ==
    \A s \in Slot : received[s] <= 1 /\ (received[s] > 0 => s >= 1 /\ Boundary(s) <= now)

\* "A slot is never missed": with a pass in every unit of time and nothing
\* failing, every slot whose grace is over was told.
NoSlotMissed ==
    ~gaps => \A s \in 1..CurrentSlot : Boundary(s) + Grace < now => received[s] = 1
=============================================================================
