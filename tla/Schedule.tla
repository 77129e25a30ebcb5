------------------------------- MODULE Schedule -------------------------------
(***************************************************************************)
(* The release pattern of one series (schedule.util.ts), learned from the  *)
(* times new episodes were first seen.                                     *)
(*                                                                         *)
(* Time is counted in minutes since the epoch, or in coarser units; a day  *)
(* has DAY of them and Vietnam is VN_OFFSET ahead of UTC.                  *)
(***************************************************************************)
EXTENDS Integers, FiniteSets, Functions

CONSTANTS
    DAY, VN_OFFSET,
    LOOKBACK,       \* how long a sighting is used
    LastMinute,     \* bound on the clock
    MaxSightings    \* bound on releases

ASSUME ScheduleAssumption ==
    /\ DAY \in Nat \ {0} /\ VN_OFFSET \in 0..DAY - 1
    /\ {LOOKBACK, LastMinute, MaxSightings} \subseteq Nat

VARIABLES clock, sightings

scheduleVars == <<clock, sightings>>

ScheduleInit == clock = 0 /\ sightings = {}

\* A new episode is seen now: one event of eventsFor.
Sight ==
    /\ Cardinality(sightings) < MaxSightings
    /\ clock \notin sightings
    /\ sightings' = sightings \cup {clock}
    /\ UNCHANGED clock

PassTime == clock < LastMinute /\ clock' = clock + 1 /\ UNCHANGED sightings

ScheduleNext == Sight \/ PassTime

ScheduleSpec == ScheduleInit /\ [][ScheduleNext]_scheduleVars

-----------------------------------------------------------------------------
(* vnParts: the epoch was a Thursday.                                      *)

Weekday(t) == ((t + VN_OFFSET) \div DAY + 4) % 7
Minute(t) == (t + VN_OFFSET) % DAY
DayStart(t) == t - Minute(t)

Earliest(times) == CHOOSE t \in times : \A u \in times : t <= u

\* The k-th smallest value.
Ranked(value, k) ==
    CHOOSE v \in Range(value) :
        /\ Cardinality({d \in DOMAIN value : value[d] < v}) < k
        /\ Cardinality({d \in DOMAIN value : value[d] <= v}) >= k

\* Of an even number of values the middle two are averaged, half up.
Median(value) ==
    LET n == Cardinality(DOMAIN value) IN
    IF n % 2 = 1 THEN Ranked(value, n \div 2 + 1)
    ELSE (Ranked(value, n \div 2) + Ranked(value, n \div 2 + 1) + 1) \div 2

\* Several episodes seen the same day count once, at the earliest minute.
Days(seen) == {DayStart(t) : t \in seen}
MinuteOf(seen, day) == Minute(Earliest({t \in seen : DayStart(t) = day}))

\* Variant: the same weekday of the next week is not tried.
DaysTriedWithinWeek == 0..6

DaysTried == 0..7

NoRelease == -1

PredictRelease(seen, at) ==
    LET weekdays == {Weekday(d + DAY \div 2) : d \in Days(seen)}
        minuteOfDay == Median([day \in Days(seen) |-> MinuteOf(seen, day)])
        next == {i \in DaysTried :
                   LET day == DayStart(at) + i * DAY IN
                   Weekday(day + DAY \div 2) \in weekdays /\ day + minuteOfDay > at}
    IN [weekdays    |-> weekdays,
        minuteOfDay |-> minuteOfDay,
        nextAt      |-> IF next = {} THEN NoRelease
                        ELSE DayStart(at) + Earliest(next) * DAY + minuteOfDay,
        confidence  |-> IF Cardinality(Days(seen)) >= 3 THEN "learned" ELSE "guess"]

-----------------------------------------------------------------------------
(* Properties.                                                             *)

Used == {t \in sightings : t >= clock - LOOKBACK}

Expected(p, t) == Weekday(t) \in p.weekdays /\ Minute(t) = p.minuteOfDay

\* Any observation gives a pattern, and the pattern a next release: the first
\* moment after now on a weekday a release was seen, at a time of day between
\* the earliest and the latest one seen.  It lies at most a week ahead, also when
\* today is the only weekday and its time has just passed, and whatever day it is
\* in UTC.
PredictsTheNextRelease ==
    Used # {} =>
        LET p == PredictRelease(Used, clock) IN
        /\ p.nextAt \in clock + 1..clock + 7 * DAY
        /\ Expected(p, p.nextAt)
        /\ \A t \in clock + 1..p.nextAt - 1 : ~Expected(p, t)
        /\ p.weekdays = {Weekday(t) : t \in Used}
        /\ \E t \in Used : Minute(t) <= p.minuteOfDay
        /\ \E t \in Used : Minute(t) >= p.minuteOfDay
        /\ p.confidence = "learned" => Cardinality(Used) >= 3

=============================================================================
