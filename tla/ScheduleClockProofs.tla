------------------------ MODULE ScheduleClockProofs ------------------------
(***************************************************************************)
(* The cycles keep a VM to its calendar, and leave alone what is not       *)
(* theirs: for every timetable, scope, zone, length of a day and a week    *)
(* and period of the timer.                                                *)
(***************************************************************************)
EXTENDS ScheduleClock, ScheduleEngineProofs

(* The minutes since the timer last fired.                                 *)
SinceTimer == now % TimerPeriod

(* The inductive invariant: a VM has not been astray since before the last *)
(* cycle, unless that cycle is still due.                                  *)
CInv ==
    /\ TypeOK
    /\ IF due THEN astray <= TimerPeriod ELSE astray <= SinceTimer

(* What the engine is given of a resource that is reached.                 *)
LEMMA SetupTypes ==
    ASSUME TypeOK, Reached
    PROVE  /\ setup.schedules[setup.resource.schedule].periods \subseteq Period
           /\ LocalTime(ZoneOf(setup.resource, DefaultZone), now) \in Int
<1>1. setup.resource.schedule \in DOMAIN setup.schedules
  BY DEF Reached, InScope
<1>2. setup.schedules[setup.resource.schedule].periods \subseteq Period
  BY <1>1, SetupsAssumption DEF TypeOK
<1>3. PICK zone \in Zones : zone = ZoneOf(setup.resource, DefaultZone)
  BY DEF Reached
<1>4. OffsetAt(zone, now) \in Int /\ now \in Int
  BY OffsetAssumption, TimerAssumption DEF TypeOK
<1> QED BY <1>2, <1>3, <1>4 DEF LocalTime

(* A cycle brings a VM to where the calendar wants it.                     *)
LEMMA CycleObeys ==
    ASSUME TypeOK, Cycle
    PROVE  power' \in Wanted(now) /\ power' \in {"running", "stopped"}
<1> DEFINE zone == ZoneOf(setup.resource, DefaultZone)
           schedule == setup.schedules[setup.resource.schedule]
           decision == Evaluate(setup.schedules, DefaultZone, setup.resource, now)
<1>1. power' = Applied(decision) /\ power \in {"running", "stopped"}
  BY DEF Cycle, TypeOK
<1>2. CASE Reached
  <2>1. schedule.periods \subseteq Period /\ LocalTime(zone, now) \in Int
    BY <1>2, SetupTypes
  <2>2. decision = Decide(schedule, zone, now)
    BY <1>2 DEF Reached, Evaluate
  <2>3. decision = IF Skipped(schedule, LocalTime(zone, now)) THEN "SKIP"
                   ELSE IF Covered(schedule, LocalTime(zone, now)) THEN "START" ELSE "STOP"
    BY <2>1, <2>2, EngineFollowsCalendar
  <2> HIDE DEF decision
  <2> QED BY <1>1, <1>2, <2>3 DEF Wanted, Applied
<1>3. CASE ~Reached
  <2>1. decision = "SKIP"
    BY <1>3 DEF Reached, Evaluate
  <2> QED BY <1>1, <1>3, <2>1 DEF Wanted, Applied
<1> QED BY <1>2, <1>3

LEMMA ClockInit == Init => CInv
<1>1. 0 \in 0..Horizon /\ 0 <= TimerPeriod
  BY TimerAssumption
<1> QED BY <1>1 DEF Init, CInv, TypeOK

LEMMA ClockStep == ASSUME CInv, [Next]_cvars PROVE CInv'
<1>1. TimerPeriod \in Nat \ {0} /\ Horizon \in Nat /\ now \in 0..Horizon /\ astray \in Nat
  BY TimerAssumption DEF CInv, TypeOK
<1>2. SinceTimer \in 0..(TimerPeriod - 1)
  BY <1>1, DivMod DEF SinceTimer
<1>3. CASE Tick
  <2>1. now' = now + 1 /\ now' \in 0..Horizon
    BY <1>1, <1>3 DEF Tick
  <2>2. SinceTimer' = IF SinceTimer + 1 = TimerPeriod THEN 0 ELSE SinceTimer + 1
    <3>1. now \in Nat
      BY <1>1
    <3>2. (now + 1) % TimerPeriod =
            IF (now % TimerPeriod) + 1 = TimerPeriod THEN 0 ELSE (now % TimerPeriod) + 1
      BY <1>1, <3>1, NextRemainder
    <3> QED BY <2>1, <3>2 DEF SinceTimer
  <2>3. astray <= SinceTimer /\ astray' \in {0, astray + 1}
    BY <1>3 DEF Tick, CInv
  <2>4. due' = (SinceTimer' = 0)
    BY <1>3, <2>1 DEF Tick, SinceTimer
  <2>5. TypeOK'
    BY <1>1, <1>3, <2>1, <2>3, <2>4 DEF Tick, CInv, TypeOK
  <2>6. IF due' THEN astray' <= TimerPeriod ELSE astray' <= SinceTimer'
    <3>1. CASE SinceTimer' = 0
      <4>1. due'
        BY <2>4, <3>1
      <4>2. astray' <= TimerPeriod
        BY <1>1, <1>2, <2>3
      <4> QED BY <4>1, <4>2
    <3>2. CASE SinceTimer' # 0
      BY <1>1, <1>2, <2>2, <2>3, <2>4, <3>2
    <3> QED BY <3>1, <3>2
  <2> QED BY <1>1, <2>5, <2>6 DEF CInv
<1>4. CASE Cycle
  <2>1. power' \in Wanted(now) /\ power' \in {"running", "stopped"}
    BY <1>4, CycleObeys DEF CInv
  <2>2. astray' = 0 /\ due' = FALSE /\ UNCHANGED <<now, setup>>
    BY <1>4, <2>1 DEF Cycle
  <2>3. SinceTimer' = SinceTimer
    BY <2>2 DEF SinceTimer
  <2>4. TypeOK'
    BY <2>1, <2>2 DEF CInv, TypeOK
  <2> QED BY <1>2, <2>2, <2>3, <2>4 DEF CInv
<1>5. CASE Operate
  <2>1. astray' \in {0, astray} /\ UNCHANGED <<now, setup, due>>
    BY <1>5 DEF Operate
  <2> QED BY <1>1, <1>2, <1>5, <2>1 DEF Operate, CInv, TypeOK, SinceTimer
<1>6. CASE UNCHANGED cvars
  BY <1>6 DEF cvars, CInv, TypeOK, SinceTimer
<1> QED BY <1>3, <1>4, <1>5, <1>6 DEF Next

(* The inductive invariant holds in every reachable state.                 *)
THEOREM ClockInvariant == Spec => []CInv
BY ClockInit, ClockStep, PTL DEF Spec

(* The clock, the setup and the VM keep their types.                       *)
THEOREM ClockTypes == Spec => []TypeOK
<1>1. CInv => TypeOK
  BY DEF CInv
<1> QED BY <1>1, ClockInvariant, PTL

(* Whatever operators do, a VM is never other than the calendar wants it   *)
(* for longer than a timer period: for any timetable, scope, zone with its *)
(* clock changes, length of day and week, and period of the timer.         *)
THEOREM KeptToCalendar == Spec => []NeverAstrayForLong
<1>1. CInv => NeverAstrayForLong
  <2> SUFFICES ASSUME CInv PROVE astray <= TimerPeriod
    BY DEF NeverAstrayForLong
  <2>1. TimerPeriod \in Nat \ {0} /\ now \in Int /\ astray \in Nat
    BY TimerAssumption DEF CInv, TypeOK
  <2>2. SinceTimer \in 0..(TimerPeriod - 1)
    BY <2>1, DivMod DEF SinceTimer
  <2> QED BY <2>1, <2>2 DEF CInv
<1> QED BY <1>1, ClockInvariant, PTL

(* Of a resource without blank ids: to be named by two lists, in whatever  *)
(* spelling, is to have an id in one of them as the scope keeps it.        *)
LEMMA NamedByIds ==
    ASSUME NEW resource, Canonical(resource.subscription) # "",
           \A group \in resource.groups : Canonical(group) # "",
           NEW subscriptions, NEW groups
    PROVE  NamedBy(subscriptions, groups, resource) <=>
             \/ Canonical(resource.subscription) \in Ids(subscriptions)
             \/ Ids(resource.groups) \intersect Ids(groups) # {}
<1>1. (\E other \in subscriptions : Canonical(other) = Canonical(resource.subscription)) <=>
        Canonical(resource.subscription) \in Ids(subscriptions)
  BY DEF Ids
<1>2. (\E other \in groups, group \in resource.groups : Canonical(other) = Canonical(group)) <=>
        Ids(resource.groups) \intersect Ids(groups) # {}
  BY DEF Ids
<1> QED BY <1>1, <1>2 DEF NamedBy

(* No cycle touches a resource outside the scope of its schedule, named by *)
(* an exclusion or by no inclusion where there are some, without a         *)
(* schedule or zone, or on a day that it skips, in whatever spelling its   *)
(* ids and those of the scope are (ScheduleScope.matches).                 *)
THEOREM OthersLeftAlone == Spec => CyclesLeaveAlone
<1>1. ASSUME CInv, [Next]_cvars, due, ~due', LeftAlone PROVE power' = power
  <2> DEFINE resource == setup.resource
             zone == ZoneOf(resource, DefaultZone)
             schedule == setup.schedules[resource.schedule]
             decision == Evaluate(setup.schedules, DefaultZone, resource, now)
  <2>1. Cycle
    BY <1>1 DEF Next, Tick, Operate, cvars
  <2>2. CASE Reached
    <3>1. schedule.periods \subseteq Period /\ LocalTime(zone, now) \in Int
      BY <1>1, <2>2, SetupTypes DEF CInv
    <3>2. Canonical(resource.subscription) # "" /\ \A group \in resource.groups : Canonical(group) # ""
      BY <1>1, SetupsAssumption DEF CInv, TypeOK
    <3>3. ~Excluded(schedule.scope, resource) /\ ~NotIncluded(schedule.scope, resource)
      <4> DEFINE scope == schedule.scope
      <4>1. Matches(scope, resource.subscription, resource.groups)
        BY <2>2 DEF Reached, InScope
      <4>2. \A subscriptions, groups :
              NamedBy(subscriptions, groups, resource) <=>
                \/ Canonical(resource.subscription) \in Ids(subscriptions)
                \/ Ids(resource.groups) \intersect Ids(groups) # {}
        BY <3>2, NamedByIds
      <4>3. ~Excluded(scope, resource)
        BY <4>1, <4>2 DEF Matches, Excluded
      <4>4. ~NotIncluded(scope, resource)
        <5>1. CASE NamedBy(scope.include_subscriptions, scope.include_management_groups, resource)
          BY <5>1 DEF NotIncluded
        <5>2. CASE Ids(scope.include_subscriptions) \union
                     Ids(scope.include_management_groups) = {}
          <6>1. \A list, other :
                  other \in list /\ Canonical(other) # "" => Canonical(other) \in Ids(list)
            BY DEF Ids
          <6> QED BY <5>2, <6>1 DEF NotIncluded
        <5> QED BY <4>1, <4>2, <5>1, <5>2 DEF Matches
      <4> QED BY <4>3, <4>4
    <3>4. Skipped(schedule, LocalTime(zone, now))
      BY <1>1, <2>2, <3>3 DEF LeftAlone, Reached, InScope
    <3>5. decision = "SKIP"
      BY <2>2, <3>1, <3>4, EngineFollowsCalendar DEF Reached, Evaluate
    <3> QED BY <2>1, <3>5 DEF Cycle, Applied
  <2>3. CASE ~Reached
    BY <2>1, <2>3 DEF Reached, Evaluate, Cycle, Applied
  <2> QED BY <2>2, <2>3
<1>2. CInv /\ [Next]_cvars => [due /\ ~due' /\ LeftAlone => power' = power]_cvars
  BY <1>1
<1> QED BY <1>2, ClockInvariant, PTL DEF Spec, CyclesLeaveAlone
=============================================================================
