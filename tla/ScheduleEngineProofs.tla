------------------------ MODULE ScheduleEngineProofs ------------------------
(***************************************************************************)
(* The decision of the engine is that of the calendar, for every length of *)
(* a day and a week and every offset of a zone.                            *)
(***************************************************************************)
EXTENDS ScheduleEngine, TLAPS

(* Quotient and remainder: what they are, and that no others will do.      *)
LEMMA DivMod ==
    ASSUME NEW a \in Int, NEW b \in Nat \ {0}
    PROVE  /\ a \div b \in Int /\ a % b \in 0..(b - 1)
           /\ a = ((a \div b) * b) + (a % b)
BY SMT

LEMMA DayNumber ==
    ASSUME NEW b \in Nat \ {0}, NEW a \in Int, NEW d \in Int,
           d * b <= a, a < (d * b) + b
    PROVE  d = a \div b
<1>1. PICK q \in Int, m \in 0..(b - 1) : q = a \div b /\ m = a % b /\ a = (q * b) + m
  BY DivMod
<1>2. CASE d < q
  <2>1. (d * b) + b <= q * b
    BY <1>2, SMT
  <2> QED BY <1>1, <2>1
<1>3. CASE q < d
  <2>1. (q * b) + b <= d * b
    BY <1>3, SMT
  <2> QED BY <1>1, <2>1
<1> QED BY <1>1, <1>2, <1>3

(* The minute hand of a timer.                                             *)
LEMMA NextRemainder ==
    ASSUME NEW n \in Nat, NEW b \in Nat \ {0}
    PROVE  (n + 1) % b = IF (n % b) + 1 = b THEN 0 ELSE (n % b) + 1
<1>1. PICK q \in Int, m \in 0..(b - 1) : q = n \div b /\ m = n % b /\ n = (q * b) + m
  BY DivMod
<1>2. PICK k \in Int : k = n + 1
  OBVIOUS
<1>3. PICK p \in Int, j \in 0..(b - 1) : p = k \div b /\ j = k % b /\ k = (p * b) + j
  BY DivMod
<1>4. (q * b) + (m + 1) = (p * b) + j
  BY <1>1, <1>2, <1>3
<1>5. j = IF m + 1 = b THEN 0 ELSE m + 1
  BY <1>4, SMT
<1> QED BY <1>1, <1>2, <1>3, <1>5

-----------------------------------------------------------------------------
(* The copy of a window that covers a minute is that of the minute's day.  *)
LEMMA TheDay ==
    ASSUME NEW local \in Int, NEW day \in Days(local), NEW start \in Minutes, NEW stop \in Int,
           stop <= Day
    PROVE  /\ day \in Int
           /\ (day * Day) + start <= local /\ local < (day * Day) + stop
                <=> day = local \div Day /\ start <= local % Day /\ local % Day < stop
<1>1. Day \in Nat \ {0}
  BY DayAssumption
<1>2. PICK q \in Int, m \in 0..(Day - 1) :
        q = local \div Day /\ m = local % Day /\ local = (q * Day) + m
  BY <1>1, DivMod
<1>3. day \in Int
  BY <1>2 DEF Days
<1>4. ASSUME (day * Day) + start <= local, local < (day * Day) + stop PROVE day = q
  <2>1. day * Day \in Int /\ start \in Nat
    BY <1>1, <1>3 DEF Minutes
  <2>2. day * Day <= local /\ local < (day * Day) + Day
    BY <1>1, <1>4, <2>1
  <2> QED BY <1>1, <1>2, <1>3, <2>2, DayNumber
<1>5. q * Day \in Int
  BY <1>1, <1>2
<1> QED BY <1>2, <1>3, <1>4, <1>5 DEF Minutes

(* The engine agrees with the calendar: what it skips is what the calendar *)
(* skips, and among the rest it starts what a window covers.  Weekday,     *)
(* remainder and half-open window of ScheduleEngine.evaluate come to the   *)
(* same as windows laid out day by day on the local time line.             *)
THEOREM EngineFollowsCalendar ==
    ASSUME NEW schedule, schedule.periods \subseteq Period, NEW zone, NEW instant,
           LocalTime(zone, instant) \in Int
    PROVE  Decide(schedule, zone, instant) =
             IF Skipped(schedule, LocalTime(zone, instant)) THEN "SKIP"
             ELSE IF Covered(schedule, LocalTime(zone, instant)) THEN "START" ELSE "STOP"
<1> DEFINE local == LocalTime(zone, instant)
           today == local \div Day
<1>1. today \in Days(local) /\ Day \in Nat \ {0} /\ today \in Int
  BY DayAssumption, DivMod DEF Days
<1>2. Skipped(schedule, local) <=> ~Worked(schedule, today)
  <2>1. \A day \in Days(local) : (day + 1) * Day = (day * Day) + Day /\ (day * Day) \in Int
    BY <1>1 DEF Days
  <2>2. \A day \in Days(local) :
          day * Day <= local /\ local < (day + 1) * Day <=> day = today
    <3> TAKE day \in Days(local)
    <3>1. 0 \in Minutes /\ local % Day \in Minutes /\ Day \in Int
      BY <1>1, DivMod DEF Minutes
    <3>2. (day * Day) + 0 <= local /\ local < (day * Day) + Day
            <=> day = today /\ 0 <= local % Day /\ local % Day < Day
      BY <3>1, TheDay
    <3> QED BY <2>1, <3>1, <3>2 DEF Minutes
  <2> QED BY <1>1, <2>2 DEF Skipped
<1>3. ~Skipped(schedule, local) =>
        (Covered(schedule, local) <=> \E period \in schedule.periods : InPeriod(period, local))
  <2>1. \A day \in Days(local), period \in schedule.periods :
          (day * Day) + period.start <= local /\ local < (day * Day) + period.stop
          <=> day = today /\ InPeriod(period, local)
    BY <1>1, TheDay DEF Period, Minutes, InPeriod
  <2> QED BY <1>1, <1>2, <2>1 DEF Covered
<1> QED BY <1>2, <1>3 DEF Decide, Worked, WeekdayOf

(* What the HH:MM of a window cannot say (_hhmm_to_minutes,                *)
(* table_entities.py:128): a window that stops at or before the minute it  *)
(* starts at, 22:00-06:00, is never open, on no day and in no zone; and as *)
(* no window can stop after the last minute of a day, no schedule covers   *)
(* that minute, so that a night cannot be had by two windows either.       *)
THEOREM NothingOpenOverMidnight ==
    ASSUME NEW schedule, schedule.periods \subseteq Period, NEW zone, NEW instant,
           LocalTime(zone, instant) \in Int
    PROVE  /\ (\A period \in schedule.periods : period.stop <= period.start) =>
                Decide(schedule, zone, instant) # "START"
           /\ LocalTime(zone, instant) % Day = Day - 1 =>
                Decide(schedule, zone, instant) # "START"
<1> DEFINE minute == LocalTime(zone, instant) % Day
<1>1. minute \in Int /\ Day \in Int
  BY DayAssumption, DivMod
<1>2. \A period \in schedule.periods :
        period.start \in Int /\ period.stop \in Int /\ period.stop <= Day - 1
  BY DayAssumption DEF Period, Minutes
<1> HIDE DEF minute
<1>3. ASSUME NEW period \in schedule.periods, period.stop <= period.start \/ minute = Day - 1
      PROVE  ~(period.start <= minute /\ minute < period.stop)
  BY <1>1, <1>2, <1>3
<1> QED BY <1>3 DEF Decide, InPeriod, minute
=============================================================================
