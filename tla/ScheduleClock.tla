--------------------------- MODULE ScheduleClock ---------------------------
(***************************************************************************)
(* A resource, the clock, and the timer that runs the cycle every so many  *)
(* minutes (TIMER_SCHEDULE): what a schedule does to a VM over days that   *)
(* are worked or skipped, in a zone whose clocks may change, whatever its  *)
(* operators do.  The cycle is the one of a configuration without dry run  *)
(* and without retain options, and takes less than a minute.               *)
(***************************************************************************)
EXTENDS ScheduleEngine

CONSTANTS
    Setups,         \* the schedules and the resource, as operators write them
    DefaultZone,    \* DEFAULT_TIMEZONE, a valid zone
    TimerPeriod,    \* the minutes between two executions
    Horizon         \* the last instant looked at

ASSUME DefaultZoneAssumption == DefaultZone \in Zones
ASSUME OffsetAssumption ==
    \A zone \in Zones, instant \in 0..Horizon : OffsetAt(zone, instant) \in Int
(* What the stores load and discovery finds: times of day, no blank ids.   *)
ASSUME SetupsAssumption ==
    \A s \in Setups :
        /\ \A name \in DOMAIN s.schedules : s.schedules[name].periods \subseteq Period
        /\ Canonical(s.resource.subscription) # ""
        /\ \A group \in s.resource.groups : Canonical(group) # ""
ASSUME TimerAssumption == TimerPeriod \in Nat \ {0} /\ Horizon \in Nat

VARIABLES
    now,        \* the instant, in minutes
    setup,      \* the schedules in force and the resource
    due,        \* the timer has fired and the cycle has not run yet
    power,      \* the state of the VM
    astray      \* for how many minutes the VM has not been as scheduled

cvars == <<now, setup, due, power, astray>>

TypeOK ==
    /\ now \in 0..Horizon
    /\ setup \in Setups
    /\ due \in BOOLEAN
    /\ power \in {"running", "stopped"}
    /\ astray \in Nat

(* What the calendar wants of the VM.                                      *)
Reached == /\ InScope(setup.schedules, setup.resource)
           /\ ZoneOf(setup.resource, DefaultZone) \in Zones

Wanted(instant) ==
    LET local == LocalTime(ZoneOf(setup.resource, DefaultZone), instant)
        schedule == setup.schedules[setup.resource.schedule]
    IN  IF ~Reached \/ Skipped(schedule, local) THEN {"running", "stopped"}
        ELSE IF Covered(schedule, local) THEN {"running"}
        ELSE {"stopped"}

Init ==
    /\ now = 0
    /\ setup \in Setups
    /\ due = TRUE
    /\ power \in {"running", "stopped"}
    /\ astray = 0

(* A minute goes by; a cycle that is due has run before it is over.        *)
Tick ==
    /\ now < Horizon
    /\ ~due
    /\ now' = now + 1
    /\ due' = ((now + 1) % TimerPeriod = 0)
    /\ astray' = IF power \in Wanted(now) THEN 0 ELSE astray + 1
    /\ UNCHANGED <<setup, power>>

(* Mutant: the decision is taken for the state it leads to.                *)
AppliedRaw(decision) == decision

Applied(decision) ==
    CASE decision = "START" -> "running"
      [] decision = "STOP"  -> "stopped"
      [] OTHER              -> power

Cycle ==
    /\ due
    /\ due' = FALSE
    /\ power' = Applied(Evaluate(setup.schedules, DefaultZone, setup.resource, now))
    /\ astray' = IF power' \in Wanted(now) THEN 0 ELSE astray
    /\ UNCHANGED <<now, setup>>

(* Somebody else starts or stops the VM.                                   *)
Operate ==
    /\ power' \in {"running", "stopped"} \ {power}
    /\ astray' = IF power' \in Wanted(now) THEN 0 ELSE astray
    /\ UNCHANGED <<now, setup, due>>

Next == Tick \/ Cycle \/ Operate

Spec == Init /\ [][Next]_cvars

-----------------------------------------------------------------------------
(* Over any mixture of worked and skipped days, in any zone and across     *)
(* clock changes, a VM is never the other way round from what the calendar *)
(* wants for longer than the timer takes to come by: windows open and      *)
(* close on local time, the closing minute is out, a window that would end *)
(* before it begins is never open, and a skipped day ends the wish to stop *)
(* as well as the wish to start.  (ScheduleEngine.evaluate)                *)
NeverAstrayForLong == astray <= TimerPeriod

(* A resource outside the scope of its schedule, by an exclusion or for    *)
(* want of an inclusion, and one whose schedule or zone is unknown, is not *)
(* touched by any cycle; nor is any on a day that it skips.  A resource is *)
(* named by a list that has its subscription, or one of its groups, in     *)
(* some spelling.                                                          *)
NamedBy(subscriptions, groups, resource) ==
    \/ \E other \in subscriptions : Canonical(other) = Canonical(resource.subscription)
    \/ \E other \in groups, group \in resource.groups : Canonical(other) = Canonical(group)

Excluded(scope, resource) ==
    NamedBy(scope.exclude_subscriptions, scope.exclude_management_groups, resource)

(* Blank entries ask for nothing; one that is not asks for everything else *)
(* to stay out, be it in the list of subscriptions or in that of groups.   *)
NotIncluded(scope, resource) ==
    /\ \E other \in scope.include_subscriptions \union scope.include_management_groups :
          Canonical(other) # ""
    /\ ~NamedBy(scope.include_subscriptions, scope.include_management_groups, resource)

LeftAlone ==
    LET resource == setup.resource
        zone == ZoneOf(resource, DefaultZone)
    IN  \/ resource.schedule \notin DOMAIN setup.schedules
        \/ Excluded(setup.schedules[resource.schedule].scope, resource)
        \/ NotIncluded(setup.schedules[resource.schedule].scope, resource)
        \/ zone \notin Zones
        \/ Skipped(setup.schedules[resource.schedule], LocalTime(zone, now))

CyclesLeaveAlone == [][due /\ ~due' /\ LeftAlone => power' = power]_cvars
=============================================================================
