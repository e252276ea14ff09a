--------------------------- MODULE ScheduleEngine ---------------------------
(***************************************************************************)
(* The decision the cycle takes for a resource at an instant:              *)
(* src/scheduler/engine.py (ScheduleEngine) and the scopes of              *)
(* src/scheduler/models.py.  Instants and minutes are integers; a calendar *)
(* is a zone's offset at an instant, so that clocks can be put forward and *)
(* back.                                                                   *)
(***************************************************************************)
EXTENDS Integers, Sequences

CONSTANTS
    Day,            \* the minutes in a day
    Weekdays,       \* the names of the days of a week, in order
    Zones,          \* the names ZoneInfo knows
    OffsetAt(_, _), \* external: what a zone adds to an instant
    Canonical(_),   \* what a spelling of an id is normalised to; "" if empty
    Absent          \* a tag the resource does not have

ASSUME DayAssumption == Day \in Nat \ {0}
ASSUME WeekdaysAssumption == Weekdays \in Seq(STRING) /\ Weekdays # <<>>

Minutes == 0..(Day - 1)
Period == [start: Minutes, stop: Minutes]

(* ScheduleScope.from_values() keeps the ids it is given in one spelling.  *)
Ids(spellings) == {Canonical(s) : s \in spellings} \ {""}

(* Mutant: a scope that includes subscriptions only counts as one without  *)
(* inclusions.                                                             *)
MatchesByGroupsOnly(scope, subscription, groups) ==
    /\ Canonical(subscription) \notin Ids(scope.exclude_subscriptions)
    /\ Ids(groups) \intersect Ids(scope.exclude_management_groups) = {}
    /\ \/ Ids(scope.include_management_groups) = {}
       \/ Canonical(subscription) \in Ids(scope.include_subscriptions)
       \/ Ids(groups) \intersect Ids(scope.include_management_groups) # {}

Matches(scope, subscription, groups) ==
    /\ Canonical(subscription) \notin Ids(scope.exclude_subscriptions)
    /\ Ids(groups) \intersect Ids(scope.exclude_management_groups) = {}
    /\ \/ Ids(scope.include_subscriptions) \union Ids(scope.include_management_groups) = {}
       \/ Canonical(subscription) \in Ids(scope.include_subscriptions)
       \/ Ids(groups) \intersect Ids(scope.include_management_groups) # {}

InScope(schedules, resource) ==
    /\ resource.schedule \in DOMAIN schedules
    /\ Matches(schedules[resource.schedule].scope, resource.subscription, resource.groups)

ZoneOf(resource, default_timezone) ==
    IF resource.timezone = Absent THEN default_timezone ELSE resource.timezone

LocalTime(zone, instant) == instant + OffsetAt(zone, instant)
WeekdayOf(local) == Weekdays[((local \div Day) % Len(Weekdays)) + 1]

InPeriod(period, local) == period.start <= local % Day /\ local % Day < period.stop

(* The clock of a resource its schedule reaches.                           *)
(* Mutant: the weekday is that of UTC.                                     *)
DecideOnUtcDay(schedule, zone, instant) ==
    LET local == LocalTime(zone, instant) IN
    IF WeekdayOf(instant) \in schedule.skip_days THEN "SKIP"
    ELSE IF \E period \in schedule.periods : InPeriod(period, local) THEN "START"
    ELSE "STOP"

Decide(schedule, zone, instant) ==
    LET local == LocalTime(zone, instant) IN
    IF WeekdayOf(local) \in schedule.skip_days THEN "SKIP"
    ELSE IF \E period \in schedule.periods : InPeriod(period, local) THEN "START"
    ELSE "STOP"

Evaluate(schedules, default_timezone, resource, instant) ==
    LET zone == ZoneOf(resource, default_timezone) IN
    IF InScope(schedules, resource) /\ zone \in Zones
    THEN Decide(schedules[resource.schedule], zone, instant)
    ELSE "SKIP"

-----------------------------------------------------------------------------
(* The same decision, told from the calendar: the windows of a schedule    *)
(* are laid out on the local time line, one copy per day that it does not  *)
(* skip.  Days is a set of day numbers that contains those of interest.    *)
Days(local) == {local \div Day - 1, local \div Day, local \div Day + 1}

Worked(schedule, day) == Weekdays[(day % Len(Weekdays)) + 1] \notin schedule.skip_days

Covered(schedule, local) ==
    \E day \in Days(local), period \in schedule.periods :
        /\ Worked(schedule, day)
        /\ day * Day + period.start <= local
        /\ local < day * Day + period.stop

Skipped(schedule, local) ==
    \E day \in Days(local) :
        ~Worked(schedule, day) /\ day * Day <= local /\ local < (day + 1) * Day
=============================================================================
