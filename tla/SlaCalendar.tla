------------------------------ MODULE SlaCalendar ------------------------------
(***************************************************************************)
(* BusinessCalendar.ts and the intervals of SLACadenceService.ts, over a   *)
(* time of whole units that starts on a Monday: the loops step by whole    *)
(* days, so only the day of a time and its place within the day matter.    *)
(***************************************************************************)
EXTENDS Naturals, FiniteSets

CONSTANTS
    DayLen,     \* units in a day
    Horizon     \* bound: the last time considered

ASSUME CalendarAssumption ==
    /\ DayLen \in Nat \ {0}
    /\ Horizon \in Nat

Time == 0..Horizon
Day(t) == t \div DayLen
IsBusinessDay(day) == day % 7 < 5

\* How many of the n days after a time are business days: what the loops of
\* both functions count when they have stepped n times.
Counted(from, n) == Cardinality({k \in 1..n : IsBusinessDay(Day(from) + k)})

\* The loop of addBusinessDays stops after the day that completes the count,
\* or at once when there is nothing to count.
Completes(base, days, n) ==
    Counted(base, n) = days /\ (n = 0 \/ IsBusinessDay(Day(base) + n))

AddBusinessDays(base, days) ==
    base + DayLen * (CHOOSE n \in 0..(3 * days) : Completes(base, days, n))

\* The loop of businessDaysBetween stops before the day that goes beyond to.
BusinessDaysBetween(from, to) ==
    IF to <= from THEN 0 ELSE Counted(from, (to - from) \div DayLen)

-----------------------------------------------------------------------------
(* An interval is a number of units, or of business days.                  *)

Hours(n) == [every |-> n, unit |-> "hours"]
BusinessDays(n) == [every |-> n, unit |-> "businessDays"]

CadenceSlot(created, t, interval) ==
    (IF interval.unit = "businessDays" THEN BusinessDaysBetween(created, t) ELSE t - created)
        \div interval.every

SlotStartedAt(created, slot, interval) ==
    IF interval.unit = "businessDays"
    THEN AddBusinessDays(created, slot * interval.every)
    ELSE created + slot * interval.every
=============================================================================
