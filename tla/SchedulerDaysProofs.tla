------------------------ MODULE SchedulerDaysProofs ------------------------
(***************************************************************************)
(* The retain options seen from the calendar: what is switched on by hand  *)
(* runs until its next window is over, and what is switched off stays off, *)
(* for any timetables, zones without clock changes, lengths of a day and a *)
(* week, timer periods and numbers of VMs.                                 *)
(***************************************************************************)
EXTENDS SchedulerDays, RetainHistoryProofs

Calendar == INSTANCE ScheduleEngineProofs

(* What the engine decides of a VM that its schedule reaches.              *)
ByCalendar(window) ==
    IF window = "skipped" THEN "SKIP" ELSE IF window = "open" THEN "START" ELSE "STOP"

(* A worker carries out the decision of this minute, on a VM that is as it *)
(* has seen it: the clock and the operators wait for the cycle.            *)
Timely(r, v) ==
    /\ phase[r] = "processing" /\ task[r][v].at \in {"observe", "recall", "command", "poll"} =>
         task[r][v].decision = ByCalendar(Window(v, now))
    /\ At(r, v, "recall") \/ At(r, v, "command") => task[r][v].seen = PowerState(code[v])
    /\ At(r, v, "command") /\ task[r][v].decision = "START" => task[r][v].seen # "running"

(* Where a VM that was switched on or off by hand has come to.             *)
StageSound(r, v) ==
    /\ stage[v] = "closed" => Window(v, now) # "open" /\ touched[v] \in {"none", "STOP"}
    /\ stage[v] = "open" => Window(v, now) = "open"
    /\ stage[v] # "no" => PowerState(code[v]) = "running" \/ At(r, v, "poll")
    /\ parked[v] => /\ touched[v] # "STOP"
                    /\ PowerState(code[v]) = "stopped" \/ At(r, v, "poll")

DaysType ==
    /\ now \in 0..(Week - 1) /\ due \in BOOLEAN
    /\ stage \in [Resources -> Stages]
    /\ noticed \in [Resources -> BOOLEAN]
    /\ parked \in [Resources -> BOOLEAN]
    /\ overdue \in [Resources -> 0..(TimerPeriod + 1)]

DInv ==
    /\ HInv /\ DaysType
    /\ \A r \in Runs, v \in Resources : Timely(r, v) /\ StageSound(r, v)

-----------------------------------------------------------------------------
(* The calendar.                                                           *)

LEMMA WeekType == Week \in Nat \ {0} /\ TimerPeriod \in 1..Week
<1>1. Len(Weekdays) \in Nat \ {0} /\ Day \in Nat \ {0}
  BY WeekAssumption
<1>2. \A a, b \in Nat \ {0} : a * b \in Nat \ {0}
  BY SMT
<1> QED BY <1>1, <1>2, WeekAssumption DEF Week

(* The calendar of the proofs is that of the module.                       *)
LEMMA SameCalendar ==
    ASSUME NEW schedule, NEW zone, NEW instant, NEW local
    PROVE  /\ Engine!Decide(schedule, zone, instant) = Calendar!Decide(schedule, zone, instant)
           /\ Engine!LocalTime(zone, instant) = Calendar!LocalTime(zone, instant)
           /\ Engine!Skipped(schedule, local) <=> Calendar!Skipped(schedule, local)
           /\ Engine!Covered(schedule, local) <=> Calendar!Covered(schedule, local)
           /\ Engine!Period = Calendar!Period
<1>1. Engine!LocalTime(zone, instant) = Calendar!LocalTime(zone, instant)
  BY DEF Engine!LocalTime, Calendar!LocalTime
<1>2. Engine!Decide(schedule, zone, instant) = Calendar!Decide(schedule, zone, instant)
  BY DEF Engine!Decide, Calendar!Decide, Engine!LocalTime, Calendar!LocalTime,
         Engine!WeekdayOf, Calendar!WeekdayOf, Engine!InPeriod, Calendar!InPeriod
<1>3. Engine!Skipped(schedule, local) <=> Calendar!Skipped(schedule, local)
  BY DEF Engine!Skipped, Calendar!Skipped, Engine!Days, Calendar!Days,
         Engine!Worked, Calendar!Worked
<1>4. Engine!Covered(schedule, local) <=> Calendar!Covered(schedule, local)
  BY DEF Engine!Covered, Calendar!Covered, Engine!Days, Calendar!Days,
         Engine!Worked, Calendar!Worked
<1>5. Engine!Period = Calendar!Period
  BY DEF Engine!Period, Calendar!Period, Engine!Minutes, Calendar!Minutes
<1> QED BY <1>1, <1>2, <1>3, <1>4, <1>5

LEMMA DecidedByCalendar ==
    ASSUME NEW v \in Resources, NEW instant \in 0..(Week - 1)
    PROVE  Engine!Evaluate(Schedules, DefaultZone, Tags[v], instant)
             = ByCalendar(Window(v, instant))
<1>1. PICK zone, schedule, local :
        /\ zone = Engine!ZoneOf(Tags[v], DefaultZone)
        /\ schedule = Schedules[Tags[v].schedule]
        /\ local = Engine!LocalTime(zone, instant)
  OBVIOUS
<1>2. zone \in Zones /\ Tags[v].schedule \in DOMAIN Schedules
  BY <1>1, ReachedAssumption DEF Engine!InScope
<1>3. schedule.periods \subseteq Calendar!Period
  BY <1>1, <1>2, TimetableAssumption, SameCalendar
<1>4. local \in Int /\ Calendar!LocalTime(zone, instant) = local
  <2>1. OffsetAt(zone, instant) \in Int /\ instant \in Int
    BY <1>2, WeekType, TimetableAssumption
  <2> QED BY <1>1, <2>1, SameCalendar DEF Engine!LocalTime
<1>5. Calendar!Decide(schedule, zone, instant) =
        IF Calendar!Skipped(schedule, local) THEN "SKIP"
        ELSE IF Calendar!Covered(schedule, local) THEN "START" ELSE "STOP"
  BY <1>3, <1>4, WeekAssumption, Calendar!EngineFollowsCalendar
<1>6. Engine!Decide(schedule, zone, instant) =
        IF Engine!Skipped(schedule, local) THEN "SKIP"
        ELSE IF Engine!Covered(schedule, local) THEN "START" ELSE "STOP"
  BY <1>5, SameCalendar
<1>7. Engine!Evaluate(Schedules, DefaultZone, Tags[v], instant)
        = Engine!Decide(schedule, zone, instant)
  BY <1>1, <1>2, ReachedAssumption DEF Engine!Evaluate
<1> QED BY <1>1, <1>6, <1>7 DEF Window, ByCalendar

LEMMA Verdicts ==
    ASSUME NEW v, NEW instant
    PROVE  /\ Window(v, instant) \in {"skipped", "open", "closed"}
           /\ ByCalendar(Window(v, instant)) = "START" <=> Window(v, instant) = "open"
           /\ ByCalendar(Window(v, instant)) = "STOP" <=> Window(v, instant) = "closed"
BY DEF Window, ByCalendar

-----------------------------------------------------------------------------
(* On the calendar, the service takes the steps it takes with a memory.    *)
LEMMA DaysAddNothing == [NextD]_dvars => [NextH]_allvars
<1> SUFFICES ASSUME [NextD]_dvars PROVE [NextH]_allvars
  OBVIOUS
<1>1. CASE UNCHANGED dvars \/ Tick
  BY <1>1 DEF dvars, Tick
<1>2. ASSUME NEW r \in Runs, Fire(r) \/ DiscoverAll(r) \/ ReportD(r) PROVE NextH
  BY <1>2 DEF Fire, DiscoverAll, ReportD, NextH, MainH, Main
<1>3. ASSUME NEW r \in Runs, NEW v \in Resources,
             EvaluateNow(r, v) \/ RetainRunningD(r, v) \/ PollD(r, v) \/ StepD(r, v)
      PROVE  NextH
  BY <1>3 DEF EvaluateNow, RetainRunningD, PollD, StepD, NextH, RestH
<1>4. ASSUME NEW v \in Resources, SwitchOn(v) \/ SwitchOff(v) \/ ForgetD(v) PROVE NextH
  BY <1>4 DEF SwitchOn, SwitchOff, ForgetD, NextH
<1> QED BY <1>1, <1>2, <1>3, <1>4 DEF NextD

-----------------------------------------------------------------------------
(* The types of the clock and of the history.                              *)

LEMMA MinOfTwo ==
    ASSUME NEW a \in Int, NEW b \in Int
    PROVE  Min({a, b}) = IF a <= b THEN a ELSE b
<1>1. PICK m \in {a, b} : \A x \in {a, b} : m <= x
  OBVIOUS
<1>2. Min({a, b}) \in {a, b} /\ \A x \in {a, b} : Min({a, b}) <= x
  BY <1>1 DEF Min
<1> QED BY <1>2

LEMMA NextMinute ==
    ASSUME NEW n \in 0..(Week - 1)
    PROVE  (n + 1) % Week = IF n + 1 = Week THEN 0 ELSE n + 1
BY WeekType, Calendar!DivMod, SMT

LEMMA DaysTypeInit == InitD => DaysType
BY WeekType DEF InitD, DaysType, Stages

LEMMA DaysTypeStep == ASSUME DaysType, [NextD]_dvars PROVE DaysType'
<1>0. TimerPeriod \in Nat \ {0} /\ Week \in Nat \ {0}
  BY WeekType
<1>1. CASE Tick
  <2>1. now' \in 0..(Week - 1) /\ due' \in BOOLEAN
    BY <1>0, <1>1, NextMinute DEF Tick, DaysType
  <2>2. stage' \in [Resources -> Stages]
    BY <1>1 DEF Tick, NextStage, DaysType, Stages
  <2>3. \A v \in Resources : Min({overdue[v] + 1, TimerPeriod + 1}) \in 0..(TimerPeriod + 1)
    BY <1>0, MinOfTwo DEF DaysType
  <2>4. overdue' \in [Resources -> 0..(TimerPeriod + 1)]
    BY <1>0, <1>1, <2>3 DEF Tick
  <2> QED BY <1>1, <2>1, <2>2, <2>4 DEF Tick, DaysType
<1>2. ASSUME NEW r \in Runs, Fire(r) \/ DiscoverAll(r) \/ ReportD(r) PROVE DaysType'
  BY <1>2 DEF Fire, DiscoverAll, ReportD, DaysType, days, moods
<1>3. ASSUME NEW r \in Runs, NEW v \in Resources, EvaluateNow(r, v) \/ StepD(r, v)
      PROVE  DaysType'
  BY <1>3 DEF EvaluateNow, StepD, DaysType, days, moods
<1>4. ASSUME NEW r \in Runs, NEW v \in Resources, RetainRunningD(r, v) PROVE DaysType'
  <2>1. \A b \in BOOLEAN : (b \/ stage[v] = "closed") \in BOOLEAN
    OBVIOUS
  <2> QED BY <1>4, <2>1 DEF RetainRunningD, DaysType, days
<1>5. ASSUME NEW r \in Runs, NEW v \in Resources, PollD(r, v) PROVE DaysType'
  BY <1>0, <1>5 DEF PollD, Forgiven, DaysType, Stages, days
<1>6. ASSUME NEW v \in Resources, SwitchOn(v) PROVE DaysType'
  BY <1>0, <1>6 DEF SwitchOn, DaysType, Stages, days
<1>7. ASSUME NEW v \in Resources, SwitchOff(v) PROVE DaysType'
  <2>1. (Window(v, now) = "open" /\ touched[v] # "STOP") \in BOOLEAN
    OBVIOUS
  <2> QED BY <1>0, <1>7, <2>1 DEF SwitchOff, Forgiven, DaysType, Stages, days
<1>8. ASSUME NEW v \in Resources, ForgetD(v) PROVE DaysType'
  BY <1>8 DEF ForgetD, DaysType, days
<1>9. CASE UNCHANGED dvars
  BY <1>9 DEF dvars, DaysType, days, moods
<1> QED BY <1>1, <1>2, <1>3, <1>4, <1>5, <1>6, <1>7, <1>8, <1>9 DEF NextD

-----------------------------------------------------------------------------
(* Between two cycles: the clock and the operators.                        *)

Sound(r) == \A w \in Resources : Timely(r, w) /\ StageSound(r, w)

LEMMA AtRest ==
    ASSUME DInv, Resting, NEW r \in Runs, UNCHANGED <<phase, task>>
    PROVE  /\ \A w \in Resources : Timely(r, w)'
           /\ \A w \in Resources, point \in Points : ~At(r, w, point) /\ ~At(r, w, point)'
           /\ \A w \in Resources : stage[w] # "no" => PowerState(code[w]) = "running"
           /\ \A w \in Resources : parked[w] => PowerState(code[w]) = "stopped"
<1>1. phase[r] # "processing" /\ phase'[r] # "processing"
  BY DEF Resting, Over
<1>2. \A w \in Resources : Timely(r, w)'
  BY <1>1 DEF Timely, At
<1> QED BY <1>1, <1>2 DEF DInv, StageSound, At

LEMMA TickSound == ASSUME DInv, Tick, NEW r \in Runs PROVE Sound(r)'
<1>1. /\ UNCHANGED <<phase, task, code, touched, parked>> /\ Resting
      /\ stage' = [w \in Resources |-> NextStage(w, now')]
  BY DEF Tick, allvars, vars, hvars
<1>2. ASSUME NEW w \in Resources PROVE StageSound(r, w)'
  <2>1. stage'[w] = NextStage(w, now') /\ stage[w] \in Stages
    BY <1>1 DEF DInv, DaysType
  <2>2. stage'[w] = "closed" =>
          /\ stage[w] = "closed" /\ Window(w, now') # "open" /\ touched[w] \in {"none", "STOP"}
    BY <2>1 DEF NextStage, Stages, DInv, StageSound
  <2>3. stage'[w] = "open" => Window(w, now') = "open"
    BY <2>1 DEF NextStage, Stages
  <2>4. stage'[w] # "no" => stage[w] # "no"
    BY <2>1 DEF NextStage
  <2>5. /\ stage[w] # "no" => PowerState(code[w]) = "running"
        /\ parked[w] => PowerState(code[w]) = "stopped" /\ touched[w] # "STOP"
    BY <1>1, AtRest DEF DInv, StageSound
  <2> QED BY <1>1, <2>2, <2>3, <2>4, <2>5 DEF StageSound
<1> QED BY <1>1, <1>2, AtRest DEF Sound

(* What somebody does to one VM concerns no other.                         *)
LEMMA OperatorSound ==
    ASSUME DInv, Resting, NEW r \in Runs, NEW v \in Resources,
           UNCHANGED <<phase, task, touched, now>>,
           \A w \in Resources \ {v} :
               code'[w] = code[w] /\ stage'[w] = stage[w] /\ parked'[w] = parked[w],
           StageSound(r, v)'
    PROVE  Sound(r)'
<1>1. ASSUME NEW w \in Resources \ {v} PROVE StageSound(r, w)'
  <2>1. /\ stage[w] # "no" => PowerState(code[w]) = "running"
        /\ parked[w] => PowerState(code[w]) = "stopped"
    BY AtRest
  <2> QED BY <2>1 DEF DInv, StageSound
<1> QED BY <1>1, AtRest DEF Sound

LEMMA SwitchSound ==
    ASSUME DInv, NEW r \in Runs, NEW v \in Resources, SwitchOn(v) \/ SwitchOff(v) \/ ForgetD(v)
    PROVE  Sound(r)'
<1>0. /\ Resting /\ UNCHANGED <<phase, task, touched, now>>
      /\ stage \in [Resources -> Stages] /\ parked \in [Resources -> BOOLEAN]
      /\ code \in [Resources -> Codes]
  BY DEF SwitchOn, SwitchOff, ForgetD, OutsideH, Outside, StateDeleteH, StateDelete, hvars,
         days, DInv, DaysType, HInv, IInv, TypeOK
<1>1. CASE SwitchOn(v)
  <2>1. /\ \A w \in Resources \ {v} :
               code'[w] = code[w] /\ stage'[w] = stage[w] /\ parked'[w] = parked[w]
        /\ ~parked'[v]
        /\ PowerState(code'[v]) = "running"
        /\ stage'[v] = IF Window(v, now) = "closed" /\ touched[v] \in {"none", "STOP"}
                       THEN "closed" ELSE "no"
    BY <1>0, <1>1 DEF SwitchOn, OutsideH, Outside
  <2>2. StageSound(r, v)'
    BY <1>0, <2>1 DEF StageSound
  <2> QED BY <1>0, <2>1, <2>2, OperatorSound
<1>2. CASE SwitchOff(v)
  <2>1. /\ \A w \in Resources \ {v} :
               code'[w] = code[w] /\ stage'[w] = stage[w] /\ parked'[w] = parked[w]
        /\ stage'[v] = "no"
        /\ PowerState(code'[v]) = "stopped"
        /\ parked'[v] = (Window(v, now) = "open" /\ touched[v] # "STOP")
    BY <1>0, <1>2 DEF SwitchOff, Forgiven, OutsideH, Outside
  <2>2. StageSound(r, v)'
    BY <1>0, <2>1 DEF StageSound
  <2> QED BY <1>0, <2>1, <2>2, OperatorSound
<1>3. CASE ForgetD(v)
  <2>1. UNCHANGED <<code, stage, parked>>
    BY <1>3 DEF ForgetD, StateDeleteH, StateDelete
  <2>2. StageSound(r, v)'
    BY <1>0, <2>1, AtRest DEF DInv, StageSound
  <2> QED BY <1>0, <2>1, <2>2, OperatorSound
<1> QED BY <1>1, <1>2, <1>3

(* main(): no worker is at work when a run begins, looks, and reports.     *)
LEMMA MainSound ==
    ASSUME DInv, NEW r \in Runs, Fire(r) \/ DiscoverAll(r) \/ ReportD(r)
    PROVE  Sound(r)'
<1>0. /\ UNCHANGED <<code, touched, stage, parked, now>>
      /\ task \in [Runs -> [Resources -> Task]] /\ phase \in [Runs -> Phases]
  BY DEF Fire, DiscoverAll, ReportD, Trigger, Discover, Report, world, hvars, moods, days,
         DInv, HInv, IInv, TypeOK
<1>1. \A w \in Resources : ~At(r, w, "poll")
  BY DEF Fire, DiscoverAll, ReportD, Trigger, Discover, Report, Over, At, DInv, HInv, IInv,
         Assigned
<1>2. \A w \in Resources :
        phase'[r] = "processing" => task'[r][w].at \in {"evaluate", "none"}
  <2>1. CASE DiscoverAll(r)
    BY <1>0, <2>1 DEF DiscoverAll, Discover, Blank
  <2>2. CASE Fire(r) \/ ReportD(r)
    BY <1>0, <2>2 DEF Fire, ReportD, Trigger, Report
  <2> QED BY <2>1, <2>2
<1> QED BY <1>0, <1>1, <1>2 DEF Sound, DInv, Timely, StageSound, At

-----------------------------------------------------------------------------
(* The steps of a worker: what it does to its VM concerns no other.        *)

Elsewhere(v) ==
    \A w \in Resources \ {v} :
        /\ code'[w] = code[w] /\ touched'[w] = touched[w]
        /\ stage'[w] = stage[w] /\ parked'[w] = parked[w]

LEMMA WorkerSound ==
    ASSUME DInv, NEW r \in Runs, NEW v \in Resources, NEW t, Moves(r, v, t), now' = now,
           Elsewhere(v), Timely(r, v)', StageSound(r, v)'
    PROVE  Sound(r)'
<1>1. \A w \in Resources \ {v} : task'[r][w] = task[r][w]
  BY DEF DInv, HInv, IInv, TypeOK, Moves
<1> QED BY <1>1 DEF Sound, DInv, Timely, StageSound, At, Moves, Elsewhere

(* One that gives no command, and is not in the middle of one.             *)
LEMMA QuietSound ==
    ASSUME DInv, NEW r \in Runs, NEW v \in Resources, NEW t, Moves(r, v, t),
           t.at \in {"save", "done", "collected"}, task[r][v].at # "poll",
           UNCHANGED <<now, code, stage, parked>>, Elsewhere(v),
           \/ touched'[v] = touched[v]
           \/ touched'[v] = "ADOPT" /\ Window(v, now) = "open"
    PROVE  Sound(r)'
<1>1. task'[r][v] = t
  BY DEF DInv, HInv, IInv, TypeOK, Moves
<1>2. Timely(r, v)'
  BY <1>1 DEF Timely, At
<1>3. StageSound(r, v)'
  BY DEF DInv, StageSound, At
<1> QED BY <1>2, <1>3, WorkerSound

LEMMA EvaluateSound ==
    ASSUME DInv, NEW r \in Runs, NEW v \in Resources, EvaluateNow(r, v)
    PROVE  Sound(r)'
<1>0. /\ task \in [Runs -> [Resources -> Task]] /\ task[r][v] \in Task
      /\ UNCHANGED <<now, code, touched, stage, parked>>
      /\ task[r][v].at = "evaluate" /\ now \in 0..(Week - 1)
  BY DEF DInv, DaysType, HInv, IInv, TypeOK, EvaluateNow, Evaluate, At, world, hvars, days, moods
<1>1. PICK decision \in Decisions :
        IF decision = "SKIP" \/ v \notin Handled THEN Done(r, v, Skipped(decision))
        ELSE IF cfg[r].dry_run THEN Done(r, v, Performed(decision, "DRY_RUN"))
        ELSE Become(r, v, [task[r][v] EXCEPT !.at = "observe", !.decision = decision])
  BY DEF EvaluateNow, Evaluate
<1>2. ASSUME NEW o, Done(r, v, o) PROVE Sound(r)'
  <2>1. PICK t : t = [Blank EXCEPT !.at = "done", !.outcome = o]
    OBVIOUS
  <2>2. Moves(r, v, t) /\ t.at = "done"
    BY <1>2, <2>1, BecomeMoves DEF Done, Blank
  <2> QED BY <1>0, <2>2, QuietSound DEF Elsewhere
<1>3. ASSUME Become(r, v, [task[r][v] EXCEPT !.at = "observe", !.decision = decision])
      PROVE  Sound(r)'
  <2>1. PICK t : t = [task[r][v] EXCEPT !.at = "observe", !.decision = decision]
    OBVIOUS
  <2>2. Moves(r, v, t) /\ t.at = "observe" /\ t.decision = decision /\ task'[r][v] = t
    BY <1>0, <1>3, <2>1, BecomeMoves DEF Task, Become
  <2>3. decision = ByCalendar(Window(v, now))
    BY <1>0, <2>2, DecidedByCalendar DEF EvaluateNow, Decision
  <2>4. Timely(r, v)'
    BY <1>0, <2>2, <2>3 DEF Timely, At
  <2>5. StageSound(r, v)'
    BY <1>0, <2>2 DEF DInv, StageSound, At
  <2> QED BY <1>0, <2>2, <2>4, <2>5, WorkerSound DEF Elsewhere
<1> QED BY <1>1, <1>2, <1>3

LEMMA ObserveSound ==
    ASSUME DInv, NEW r \in Runs, NEW v \in Resources, Observe(r, v),
           UNCHANGED <<now, touched, stage, parked>>
    PROVE  Sound(r)'
<1>0. /\ task \in [Runs -> [Resources -> Task]] /\ task[r][v] \in Task
      /\ UNCHANGED code /\ task[r][v].at = "observe" /\ phase[r] = "processing"
  BY DEF DInv, HInv, IInv, TypeOK, Observe, At, world
<1>1. PICK t : t = [task[r][v] EXCEPT !.at = "recall", !.seen = PowerState(code[v])]
  OBVIOUS
<1>2. /\ Moves(r, v, t) /\ task'[r][v] = t
      /\ t.at = "recall" /\ t.seen = PowerState(code[v]) /\ t.decision = task[r][v].decision
  BY <1>0, <1>1, BecomeMoves DEF Observe, Task, Become
<1>3. Timely(r, v)'
  BY <1>0, <1>2 DEF DInv, Timely, At
<1>4. StageSound(r, v)'
  BY <1>0, <1>2 DEF DInv, StageSound, At
<1> QED BY <1>0, <1>2, <1>3, <1>4, WorkerSound DEF Elsewhere

(* The branches that write, and the write itself.                          *)
LEMMA WriteSound ==
    ASSUME DInv, NEW r \in Runs, NEW v \in Resources,
           \/ RetainStopped(r, v) \/ RetainRunning(r, v) \/ AlreadyStopped(r, v)
           \/ Save(r, v) \/ Collect(r, v),
           UNCHANGED <<now, touched, stage, parked>>
    PROVE  Sound(r)'
<1>0. task \in [Runs -> [Resources -> Task]] /\ task[r][v] \in Task
  BY DEF DInv, HInv, IInv, TypeOK
<1>1. UNCHANGED code /\ task[r][v].at # "poll"
  BY DEF RetainStopped, RetainRunning, AlreadyStopped, Save, Collect, Recalling, At, world
<1>2. \E t : Moves(r, v, t) /\ t.at \in {"save", "done", "collected"}
  <2>1. \A entry, outcome :
          ToSave(r, v, entry, outcome) => \E t : Moves(r, v, t) /\ t.at = "save"
    <3> SUFFICES ASSUME NEW entry, NEW outcome, ToSave(r, v, entry, outcome)
                 PROVE  \E t : Moves(r, v, t) /\ t.at = "save"
      OBVIOUS
    <3>1. PICK t : t = [Blank EXCEPT !.at = "save", !.entry = entry, !.outcome = outcome]
      OBVIOUS
    <3>2. Become(r, v, t) /\ t.at = "save"
      BY <3>1 DEF ToSave, Blank
    <3> QED BY <3>2, BecomeMoves
  <2>2. CASE RetainStopped(r, v) \/ RetainRunning(r, v) \/ AlreadyStopped(r, v)
    BY <2>1, <2>2 DEF RetainStopped, RetainRunning, AlreadyStopped
  <2>3. CASE Save(r, v)
    <3>1. PICK t : t = [Blank EXCEPT !.at = "done", !.outcome = task[r][v].outcome]
      OBVIOUS
    <3>2. Become(r, v, t) /\ t.at = "done"
      BY <2>3, <3>1 DEF Save, Done, Blank
    <3> QED BY <3>2, BecomeMoves
  <2>4. CASE Collect(r, v)
    <3>1. PICK t : t = [task[r][v] EXCEPT !.at = "collected"]
      OBVIOUS
    <3>2. Moves(r, v, t) /\ t.at = "collected"
      BY <1>0, <2>4, <3>1 DEF Collect, Moves, Task
    <3> QED BY <3>2
  <2> QED BY <2>2, <2>3, <2>4
<1> QED BY <1>1, <1>2, QuietSound DEF Elsewhere

LEMMA AdoptSound ==
    ASSUME DInv, NEW r \in Runs, NEW v \in Resources, AlreadyRunningH(r, v),
           UNCHANGED <<now, stage, parked>>
    PROVE  Sound(r)'
<1>1. PICK entry :
        /\ ToSave(r, v, entry, Skipped("START")) /\ UNCHANGED code
        /\ task[r][v].at = "recall" /\ phase[r] = "processing"
        /\ task[r][v].decision = "START"
  BY DEF AlreadyRunningH, AlreadyRunning, Recalling, At
<1>2. PICK t : t = [Blank EXCEPT !.at = "save", !.entry = entry, !.outcome = Skipped("START")]
  OBVIOUS
<1>3. Moves(r, v, t) /\ t.at = "save"
  BY <1>1, <1>2, BecomeMoves DEF ToSave, Blank
<1>4. Window(v, now) = "open"
  BY <1>1, Verdicts DEF DInv, Timely
<1>5. /\ \A w \in Resources \ {v} : touched'[w] = touched[w]
      /\ touched'[v] = touched[v] \/ touched'[v] = "ADOPT"
  BY DEF AlreadyRunningH, Touch, DInv, HInv, HistoryType
<1> QED BY <1>1, <1>3, <1>4, <1>5, QuietSound DEF Elsewhere

LEMMA GoSound ==
    ASSUME DInv, NEW r \in Runs, NEW v \in Resources, GoStart(r, v) \/ GoStop(r, v),
           UNCHANGED <<now, touched, stage, parked>>
    PROVE  Sound(r)'
<1>0. /\ task \in [Runs -> [Resources -> Task]] /\ task[r][v] \in Task
      /\ UNCHANGED code /\ task[r][v].at = "recall" /\ phase[r] = "processing"
  BY DEF DInv, HInv, IInv, TypeOK, GoStart, GoStop, Recalling, ToCommand, At, world
<1>1. PICK t : t = [task[r][v] EXCEPT !.at = "command"]
  OBVIOUS
<1>2. /\ Moves(r, v, t) /\ task'[r][v] = t
      /\ t.at = "command" /\ t.seen = task[r][v].seen /\ t.decision = task[r][v].decision
  <2>1. Become(r, v, t)
    BY <1>1 DEF GoStart, GoStop, ToCommand
  <2> QED BY <1>0, <1>1, <2>1, BecomeMoves DEF Task, Become
<1>3. t.decision = "START" => t.seen # "running"
  BY <1>2 DEF GoStart, GoStop, Recalling
<1>4. Timely(r, v)'
  BY <1>0, <1>2, <1>3 DEF DInv, Timely, At
<1>5. StageSound(r, v)'
  BY <1>0, <1>2 DEF DInv, StageSound, At
<1> QED BY <1>0, <1>2, <1>4, <1>5, WorkerSound DEF Elsewhere

LEMMA CommandSound ==
    ASSUME DInv, NEW r \in Runs, NEW v \in Resources, Command(r, v),
           UNCHANGED <<now, touched, stage, parked>>
    PROVE  Sound(r)'
<1>0. /\ task \in [Runs -> [Resources -> Task]] /\ task[r][v] \in Task
      /\ task[r][v].at = "command" /\ phase[r] = "processing"
      /\ \A w \in Resources \ {v} : code'[w] = code[w]
  BY DEF DInv, HInv, IInv, TypeOK, Command, At
<1>1. PICK t : t = [task[r][v] EXCEPT !.at = "poll"]
  OBVIOUS
<1>2. /\ Moves(r, v, t) /\ task'[r][v] = t
      /\ t.at = "poll" /\ t.decision = task[r][v].decision
  BY <1>0, <1>1, BecomeMoves DEF Command, Task, Become
<1>3. Timely(r, v)'
  BY <1>0, <1>2 DEF DInv, Timely, At
<1>4. StageSound(r, v)'
  BY <1>0, <1>2 DEF DInv, StageSound, At, Moves
<1> QED BY <1>0, <1>2, <1>3, <1>4, WorkerSound DEF Elsewhere

(* A command that comes to its end ends what the history knows of the VM.  *)
LEMMA PollSound ==
    ASSUME DInv, NEW r \in Runs, NEW v \in Resources, PollD(r, v)
    PROVE  Sound(r)'
<1>1. PICK entry, outcome : ToSave(r, v, entry, outcome)
  BY DEF PollD, PollH, Poll
<1>2. PICK t : t = [Blank EXCEPT !.at = "save", !.entry = entry, !.outcome = outcome]
  OBVIOUS
<1>3. Moves(r, v, t) /\ t.at = "save" /\ now' = now
  BY <1>1, <1>2, BecomeMoves DEF ToSave, Blank, PollD, days
<1>4. /\ Elsewhere(v) /\ stage'[v] = "no" /\ parked'[v] = FALSE /\ task'[r][v] = t
  BY <1>3 DEF PollD, PollH, Poll, Touch, Forgiven, Elsewhere, Moves, DInv, DaysType, HInv, IInv,
              TypeOK, HistoryType
<1>5. Timely(r, v)' /\ StageSound(r, v)'
  BY <1>3, <1>4 DEF Timely, StageSound, At
<1> QED BY <1>3, <1>4, <1>5, WorkerSound

-----------------------------------------------------------------------------
LEMMA DaysInit == InitD => DInv
<1> SUFFICES ASSUME InitD PROVE DInv
  OBVIOUS
<1>1. HInv /\ DaysType
  BY HistoryInit, DaysTypeInit DEF InitD
<1>2. \A r \in Runs, v \in Resources : Timely(r, v) /\ StageSound(r, v)
  BY DEF InitD, InitH, Init, Timely, StageSound, At
<1> QED BY <1>1, <1>2 DEF DInv

LEMMA DaysStep == ASSUME Sequential, DInv, [NextD]_dvars PROVE DInv'
<1>1. HInv' /\ DaysType'
  BY DaysAddNothing, HistoryStep, DaysTypeStep DEF DInv
<1>2. PICK r \in Runs : Runs = {r}
  BY DEF Sequential
<1>3. ASSUME NEW v \in Resources, StepD(r, v) PROVE Sound(r)'
  <2>1. UNCHANGED <<now, stage, parked>>
    BY <1>3 DEF StepD, days, moods
  <2>2. CASE AlreadyRunningH(r, v)
    BY <2>1, <2>2, AdoptSound
  <2>3. CASE ObserveH(r, v)
    BY <2>1, <2>3, ObserveSound DEF ObserveH
  <2>4. CASE UNCHANGED touched /\ (GoStart(r, v) \/ GoStop(r, v) \/ Command(r, v))
    BY <2>1, <2>4, GoSound, CommandSound
  <2>5. CASE UNCHANGED touched /\ (\/ RetainStopped(r, v) \/ AlreadyStopped(r, v)
                                  \/ Save(r, v) \/ Collect(r, v))
    BY <2>1, <2>5, WriteSound
  <2> QED BY <1>3, <2>2, <2>3, <2>4, <2>5 DEF StepD, hvars
<1>4. ASSUME NEW v \in Resources, RetainRunningD(r, v) PROVE Sound(r)'
  BY <1>4, WriteSound DEF RetainRunningD, hvars, days
<1>5. ASSUME NEW v \in Resources, EvaluateNow(r, v) \/ PollD(r, v) PROVE Sound(r)'
  BY <1>5, EvaluateSound, PollSound
<1>6. ASSUME Tick \/ Fire(r) \/ DiscoverAll(r) \/ ReportD(r) PROVE Sound(r)'
  BY <1>6, TickSound, MainSound DEF DInv
<1>7. ASSUME NEW v \in Resources, SwitchOn(v) \/ SwitchOff(v) \/ ForgetD(v) PROVE Sound(r)'
  BY <1>7, SwitchSound
<1>8. CASE UNCHANGED dvars
  <2>1. UNCHANGED <<code, phase, cfg, task, touched, now, stage, parked>>
    BY <1>8 DEF dvars, allvars, vars, hvars, days, moods
  <2> QED BY <1>1, <2>1 DEF DInv, Timely, StageSound, At
<1>9. CASE NextD
  <2>1. Sound(r)'
    BY <1>2, <1>3, <1>4, <1>5, <1>6, <1>7, <1>9 DEF NextD
  <2> QED BY <1>1, <1>2, <2>1 DEF DInv, Sound
<1> QED BY <1>8, <1>9

(* On the calendar the service does nothing that it would not do without:  *)
(* a decision that the engine takes is one of those that the service is    *)
(* modelled to be handed, and the timer is one of its triggers.  What is   *)
(* proved of the service for any decisions holds on the calendar.          *)
THEOREM DaysImplementHistory == SpecD => SpecH
<1>1. InitD => InitH
  BY DEF InitD
<1> QED BY <1>1, DaysAddNothing, PTL DEF SpecD, SpecH

THEOREM DaysImplementService == SpecD => Spec
BY DaysImplementHistory, HistoryImplementsService

(* The inductive invariant holds in every reachable state.                 *)
THEOREM DaysInvariant == ASSUME Sequential PROVE SpecD => []DInv
<1>1. DInv /\ [NextD]_dvars => DInv'
  BY DaysStep
<1> QED BY <1>1, DaysInit, PTL DEF SpecD

(* The clock and the history of the VMs keep their types.                  *)
THEOREM DaysTyped == ASSUME Sequential PROVE SpecD => []TypeOKD
<1>1. DInv => TypeOKD
  BY DEF DInv, DaysType, HInv, IInv, HistoryType, TypeOKH, TypeOKD
<1> QED BY <1>1, DaysInvariant, PTL

(* With retain_running, a VM that was switched on by hand outside its      *)
(* window is not stopped before its next window is over                    *)
(* (_handle_stop_decision; docs/architecture.md:252), for any timetable,   *)
(* however many skipped days are in between and whatever retain_stopped is *)
(* set to from one cycle to the next.                                      *)
THEOREM KeptUntilWindowIsOver == ASSUME Sequential PROVE SpecD => KeptUntilCrossed
<1>1. ASSUME DInv, NEW r \in Runs, NEW v \in Resources, At(r, v, "command"),
             task[r][v].decision = "STOP", cfg[r].retain_running
      PROVE  stage[v] \notin {"closed", "open"}
  <2>1. Window(v, now) = "closed"
    BY <1>1, Verdicts DEF DInv, Timely, At
  <2>2. stage[v] # "open"
    BY <1>1, <2>1 DEF DInv, StageSound
  <2>3. ASSUME stage[v] = "closed" PROVE FALSE
    <3>1. task[r][v].seen = "running"
      BY <1>1, <2>3 DEF DInv, Timely, StageSound, At
    <3>2. touched[v] \in {"START", "ADOPT"}
      BY <1>1, <3>1 DEF DInv, HInv, Told
    <3> QED BY <1>1, <2>3, <3>2 DEF DInv, StageSound
  <2> QED BY <2>2, <2>3
<1>2. DInv /\ [NextD]_dvars =>
        [\A r \in Runs, v \in Resources :
           Stops(r, v) /\ cfg[r].retain_running => stage[v] \notin {"closed", "open"}]_dvars
  BY <1>1 DEF Stops
<1> QED BY <1>2, DaysInvariant, PTL DEF SpecD, KeptUntilCrossed

(* With retain_stopped, a VM that was switched off by hand in its window   *)
(* is not started until somebody switches it on (_handle_start_decision;   *)
(* docs/architecture.md:253), through any number of windows and weeks.     *)
THEOREM ParkedIsLeftOff == ASSUME Sequential PROVE SpecD => ParkedStays
<1>1. ASSUME DInv, NEW r \in Runs, NEW v \in Resources, At(r, v, "command"),
             task[r][v].decision = "START", cfg[r].retain_stopped
      PROVE  ~parked[v]
  <2> SUFFICES ASSUME parked[v] PROVE FALSE
    OBVIOUS
  <2>1. task[r][v].seen = "stopped" /\ touched[v] # "STOP"
    BY <1>1 DEF DInv, Timely, StageSound, At
  <2> QED BY <1>1, <2>1 DEF DInv, HInv, Told
<1>2. DInv /\ [NextD]_dvars =>
        [\A r \in Runs, v \in Resources :
           Starts(r, v) /\ cfg[r].retain_stopped => ~parked[v]]_dvars
  BY <1>1 DEF Starts
<1> QED BY <1>2, DaysInvariant, PTL DEF SpecD, ParkedStays

-----------------------------------------------------------------------------
(* The end of an override.  It rests on the options that make the promise, *)
(* on a handler for every VM, and on windows that the timer meets.         *)

Overriding ==
    /\ \A c \in Configs : c.retain_running /\ ~c.dry_run
    /\ Handled = Resources /\ WindowsMet

(* The row of a VM that was left running, and waits for its window.        *)
Marked(entry) == entry # None /\ ~entry.started /\ entry.last_action = "SKIP_RETAIN_RUNNING"

(* What the table says, or is about to.                                    *)
Pen(r, v) == IF At(r, v, "save") THEN task[r][v].entry ELSE row[v]

Processed(r, v) == phase[r] = "processing" /\ task[r][v].at \in {"save", "done", "collected"}

(* The mark stays until the window opens; the first cycle in the window    *)
(* replaces it by the scheduler's own; and after the window the first      *)
(* cycle outside finds that and stops the VM.                              *)
Adopted(r, v) ==
    /\ stage[v] # "no"
    /\ stage[v] = "closed" => Marked(Pen(r, v))
    /\ stage[v] = "open" => Marked(Pen(r, v)) \/ StartedByScheduler(Pen(r, v))
    /\ stage[v] = "open" /\ (Processed(r, v) \/ (Over(r) /\ ~due /\ OpenFor(v, now))) =>
         StartedByScheduler(Pen(r, v))
    /\ stage[v] = "crossed" => StartedByScheduler(Pen(r, v))

OnTime(r, v) ==
    /\ Late(v) => ~Processed(r, v) /\ (Over(r) /\ ~due => overdue[v] < now % TimerPeriod)
    /\ overdue[v] <= TimerPeriod

Ending(r, v) ==
    /\ stage[v] # "crossed" => overdue[v] = 0
    /\ noticed[v] => Adopted(r, v) /\ OnTime(r, v)

Loaded(r) ==
    /\ phase[r] \in {"loaded", "processing"} => cfg[r] \in Configs
    /\ phase[r] = "processing" => targets[r] = Resources

EInv ==
    /\ DInv
    /\ \A r \in Runs : Loaded(r) /\ \A v \in Resources : Ending(r, v)

(* The timer, minute by minute.                                            *)
LEMMA TimerMinute ==
    ASSUME NEW n \in 0..(Week - 1)
    PROVE  /\ n % TimerPeriod \in 0..(TimerPeriod - 1)
           /\ LET m == (n + 1) % Week IN
              m % TimerPeriod # 0 => m = n + 1 /\ m % TimerPeriod = (n % TimerPeriod) + 1
<1>1. TimerPeriod \in Nat \ {0} /\ Week \in Nat \ {0} /\ n \in Nat
  BY WeekType
<1>2. n % TimerPeriod \in 0..(TimerPeriod - 1) /\ 0 % TimerPeriod = 0
  BY <1>1, Calendar!DivMod, SMT
<1>3. (n + 1) % TimerPeriod =
        IF (n % TimerPeriod) + 1 = TimerPeriod THEN 0 ELSE (n % TimerPeriod) + 1
  BY <1>1, WeekAssumption, Calendar!NextRemainder
<1> QED BY <1>2, <1>3, NextMinute

LEMMA TickEnding ==
    ASSUME EInv, Tick, NEW r \in Runs, NEW v \in Resources, WindowsMet
    PROVE  Ending(r, v)'
<1>0. /\ UNCHANGED <<phase, task, row, noticed>> /\ Over(r) /\ ~due /\ phase[r] # "processing"
      /\ now \in 0..(Week - 1) /\ now' = (now + 1) % Week
      /\ (~due)' => now' % TimerPeriod # 0
      /\ stage'[v] = NextStage(v, now') /\ stage[v] \in Stages
      /\ overdue[v] \in Nat /\ TimerPeriod \in Nat \ {0}
      /\ stage[v] = "closed" => Window(v, now) # "open"
      /\ stage[v] = "open" => Window(v, now) = "open"
      /\ Ending(r, v)
  <2>1. /\ UNCHANGED <<phase, task, row, noticed>> /\ Over(r) /\ ~due
        /\ now' = (now + 1) % Week /\ due' = (now' % TimerPeriod = 0)
        /\ stage' = [w \in Resources |-> NextStage(w, now')]
    BY DEF Tick, Resting, allvars, vars
  <2>2. /\ now \in 0..(Week - 1) /\ stage[v] \in Stages
        /\ overdue[v] \in Nat /\ TimerPeriod \in Nat \ {0}
    BY WeekType DEF EInv, DInv, DaysType
  <2>3. /\ stage[v] = "closed" => Window(v, now) # "open"
        /\ stage[v] = "open" => Window(v, now) = "open"
        /\ Ending(r, v)
    BY DEF EInv, DInv, StageSound
  <2>4. phase[r] # "processing"
    BY <2>1 DEF Over
  <2> QED BY <2>1, <2>2, <2>3, <2>4
<1>1. Pen(r, v)' = Pen(r, v) /\ Pen(r, v) = row[v] /\ ~Processed(r, v)'
  BY <1>0 DEF Pen, Processed, At
<1>2. overdue'[v] = IF Late(v) THEN IF overdue[v] < TimerPeriod THEN overdue[v] + 1
                                     ELSE TimerPeriod + 1
                    ELSE 0
  BY <1>0, MinOfTwo DEF Tick
<1>3. /\ now % TimerPeriod \in 0..(TimerPeriod - 1)
      /\ (~due)' => now' = now + 1 /\ now' % TimerPeriod = (now % TimerPeriod) + 1
  BY <1>0, TimerMinute
<1>4. stage'[v] # "crossed" => overdue'[v] = 0
  BY <1>0, <1>2 DEF Late, NextStage
<1>5. (~due)' /\ OpenFor(v, now)' => Window(v, now) = "open" /\ OpenFor(v, now)
  BY <1>0, <1>3 DEF OpenFor
<1>6. ASSUME noticed[v] PROVE Adopted(r, v)'
  <2>1. stage'[v] # "no"
    BY <1>0, <1>6 DEF Ending, Adopted, NextStage
  <2>2. CASE stage[v] = "closed"
    BY <1>0, <1>1, <1>5, <1>6, <2>1, <2>2
       DEF Ending, Adopted, NextStage, Marked, StartedByScheduler
  <2>3. CASE stage[v] = "open"
    <3>1. Window(v, now') # "open" => OpenFor(v, now)
      BY <1>0, <2>3 DEF WindowsMet
    <3>2. OpenFor(v, now) => StartedByScheduler(row[v])
      BY <1>0, <1>1, <1>6, <2>3 DEF Ending, Adopted
    <3>3. Marked(row[v]) \/ StartedByScheduler(row[v])
      BY <1>0, <1>1, <1>6, <2>3 DEF Ending, Adopted
    <3>4. stage'[v] = IF Window(v, now') # "open" THEN "crossed" ELSE "open"
      BY <1>0, <2>3 DEF NextStage
    <3> QED BY <1>0, <1>1, <1>5, <3>1, <3>2, <3>3, <3>4
            DEF Adopted, Marked, StartedByScheduler
  <2>4. CASE stage[v] = "crossed"
    BY <1>0, <1>1, <1>6, <2>4 DEF Ending, Adopted, NextStage, StartedByScheduler
  <2> QED BY <1>0, <2>2, <2>3, <2>4, <1>6 DEF Stages, Ending, Adopted
<1>7. ASSUME noticed[v] PROVE OnTime(r, v)'
  <2>1. Late(v) => overdue[v] < now % TimerPeriod
    BY <1>0, <1>7 DEF Ending, OnTime
  <2> QED BY <1>0, <1>1, <1>2, <1>3, <2>1 DEF OnTime
<1> QED BY <1>0, <1>4, <1>6, <1>7 DEF Ending

(* An operator's step ends the story of one VM, or does not touch it.      *)
LEMMA OperatorEnding ==
    ASSUME EInv, NEW r \in Runs, NEW v \in Resources, SwitchOn(v) \/ SwitchOff(v) \/ ForgetD(v)
    PROVE  \A w \in Resources : Ending(r, w)'
<1>1. /\ UNCHANGED <<phase, task, now, due>>
      /\ \A w \in Resources \ {v} :
           /\ row'[w] = row[w] /\ stage'[w] = stage[w]
           /\ noticed'[w] = noticed[w] /\ overdue'[w] = overdue[w]
      /\ ~noticed'[v]
      /\ overdue'[v] = 0 \/ (overdue'[v] = overdue[v] /\ stage'[v] = stage[v])
  BY DEF SwitchOn, SwitchOff, ForgetD, Forgiven, OutsideH, Outside, StateDeleteH, StateDelete,
         days, EInv, DInv, DaysType, HInv, IInv, TypeOK
<1>2. ASSUME NEW w \in Resources \ {v} PROVE Ending(r, w)'
  BY <1>1 DEF EInv, Ending, Adopted, OnTime, Late, OpenFor, Processed, Pen, Marked,
              StartedByScheduler, At, Over
<1>3. Ending(r, v)'
  BY <1>1 DEF EInv, Ending
<1> QED BY <1>2, <1>3

(* main(): a run begins, looks, and reports once all are processed.        *)
LEMMA MainEnding ==
    ASSUME EInv, Overriding, NEW r \in Runs, Fire(r) \/ DiscoverAll(r) \/ ReportD(r)
    PROVE  Loaded(r)' /\ \A w \in Resources : Ending(r, w)'
<1>0. /\ UNCHANGED <<row, stage, noticed, overdue, now>>
      /\ task \in [Runs -> [Resources -> Task]] /\ phase \in [Runs -> Phases]
      /\ cfg \in [Runs -> Config] /\ targets \in [Runs -> SUBSET Resources]
      /\ Loaded(r)
  BY DEF Fire, DiscoverAll, ReportD, Trigger, Discover, Report, world, moods, days,
         EInv, DInv, HInv, IInv, TypeOK
<1>1. \A w \in Resources : ~At(r, w, "save")
  BY DEF Fire, DiscoverAll, ReportD, Trigger, Discover, Report, Over, At, EInv, DInv, HInv, IInv,
         Assigned
<1>2. CASE Fire(r)
  <2>1. phase'[r] = "loaded" /\ cfg'[r] \in Configs
    BY <1>0, <1>2 DEF Fire, Trigger
  <2>2. \A w \in Resources : Ending(r, w)'
    BY <1>0, <1>1, <2>1 DEF EInv, Ending, Adopted, OnTime, Late, Processed, Pen, Marked,
                            StartedByScheduler, At, Over
  <2> QED BY <2>1, <2>2 DEF Loaded
<1>3. CASE DiscoverAll(r)
  <2>1. /\ targets'[r] = Resources /\ UNCHANGED cfg /\ phase[r] = "loaded"
        /\ phase'[r] = IF Resources = {} THEN "reported" ELSE "processing"
        /\ \A w \in Resources : task'[r][w].at \in {"evaluate", "none"}
    BY <1>0, <1>3 DEF DiscoverAll, Discover, Blank
  <2>2. \A w \in Resources : Ending(r, w)'
    BY <1>0, <1>1, <2>1 DEF EInv, Ending, Adopted, OnTime, Late, Processed, Pen, Marked,
                            StartedByScheduler, At, Over
  <2> QED BY <1>0, <2>1, <2>2 DEF Loaded
<1>4. CASE ReportD(r)
  <2>1. /\ phase[r] = "processing" /\ phase'[r] = "reported" /\ UNCHANGED <<cfg, targets, task>>
        /\ \A w \in Resources : task[r][w].at = "collected"
    BY <1>0, <1>4 DEF ReportD, Report, Loaded
  <2>2. \A w \in Resources : Processed(r, w) /\ Pen(r, w) = row[w] /\ Pen(r, w)' = row[w]
    BY <1>0, <2>1 DEF Processed, Pen, At
  <2>3. \A w \in Resources : Ending(r, w)'
    BY <1>0, <2>1, <2>2 DEF EInv, Ending, Adopted, OnTime, Late, Processed, Marked,
                            StartedByScheduler
  <2> QED BY <2>1, <2>3 DEF Loaded
<1> QED BY <1>2, <1>3, <1>4

-----------------------------------------------------------------------------
(* The steps of a worker.                                                  *)

LEMMA WorkerEnding ==
    ASSUME EInv, NEW r \in Runs, NEW v \in Resources, NEW t, Moves(r, v, t),
           UNCHANGED <<now, due, targets>>,
           \A w \in Resources \ {v} :
               /\ row'[w] = row[w] /\ stage'[w] = stage[w]
               /\ noticed'[w] = noticed[w] /\ overdue'[w] = overdue[w],
           Ending(r, v)'
    PROVE  Loaded(r)' /\ \A w \in Resources : Ending(r, w)'
<1>1. \A w \in Resources \ {v} : task'[r][w] = task[r][w]
  BY DEF EInv, DInv, HInv, IInv, TypeOK, Moves
<1>2. Loaded(r)'
  BY DEF EInv, Loaded, Moves
<1> QED BY <1>1, <1>2 DEF EInv, Ending, Adopted, OnTime, Late, OpenFor, Processed, Pen, Marked,
                          StartedByScheduler, At, Over, Moves

(* One on the way to a decision, or to a command.                          *)
LEMMA UnderWayEnding ==
    ASSUME EInv, NEW r \in Runs, NEW v \in Resources, NEW t, Moves(r, v, t),
           phase[r] = "processing", t.at \in {"observe", "recall", "command", "poll"},
           task[r][v].at \notin {"save", "done", "collected"},
           UNCHANGED <<row, targets, days, moods, overdue>>
    PROVE  Loaded(r)' /\ \A w \in Resources : Ending(r, w)'
<1>1. task'[r][v] = t
  BY DEF EInv, DInv, HInv, IInv, TypeOK, Moves
<1>2. Ending(r, v)'
  BY <1>1 DEF EInv, Ending, Adopted, OnTime, Late, OpenFor, Processed, Pen, Marked,
              StartedByScheduler, At, Over, Moves, days, moods
<1> QED BY <1>2, WorkerEnding DEF days, moods

(* One that has come to an entry, by way of what the row says.             *)
LEMMA EntryEnding ==
    ASSUME EInv, NEW r \in Runs, NEW v \in Resources, NEW entry, NEW outcome,
           ToSave(r, v, entry, outcome), phase[r] = "processing",
           UNCHANGED <<row, now, due, stage, overdue>>,
           \A w \in Resources \ {v} : noticed'[w] = noticed[w],
           noticed'[v] => /\ stage[v] # "no" /\ overdue[v] <= TimerPeriod /\ ~Late(v)
                          /\ stage[v] = "closed" => Marked(entry)
                          /\ stage[v] # "closed" => StartedByScheduler(entry)
    PROVE  Loaded(r)' /\ \A w \in Resources : Ending(r, w)'
<1>1. PICK t : t = [Blank EXCEPT !.at = "save", !.entry = entry, !.outcome = outcome]
  OBVIOUS
<1>2. /\ Moves(r, v, t) /\ UNCHANGED targets /\ task'[r][v] = t
      /\ t.at = "save" /\ t.entry = entry
  BY <1>1 DEF ToSave, Become, Moves, Blank, EInv, DInv, HInv, IInv, TypeOK
<1>3. Pen(r, v)' = entry
  BY <1>2 DEF Pen, At, Moves
<1>4. Adopted(r, v)' \/ ~noticed'[v]
  BY <1>3 DEF Adopted, Marked, StartedByScheduler
<1>5. OnTime(r, v)' \/ ~noticed'[v]
  BY WeekType DEF OnTime, Late
<1>6. Ending(r, v)'
  BY <1>4, <1>5 DEF EInv, Ending
<1> QED BY <1>2, <1>6, WorkerEnding

(* What a worker knows when it has read the row.                           *)
LEMMA Recalled ==
    ASSUME EInv, Overriding, NEW r \in Runs, NEW v \in Resources, At(r, v, "recall")
    PROVE  /\ phase[r] = "processing" /\ cfg[r].retain_running
           /\ Stored(r, v) = row[v] /\ Pen(r, v) = row[v]
           /\ StartedByScheduler(row[v]) \in BOOLEAN /\ StoppedByScheduler(row[v]) \in BOOLEAN
           /\ task[r][v].decision = ByCalendar(Window(v, now))
           /\ stage[v] # "no" => task[r][v].seen = "running"
<1>1. phase[r] = "processing" /\ cfg[r].retain_running
  BY DEF At, EInv, Loaded, Overriding
<1>2. Stored(r, v) = row[v] /\ Pen(r, v) = row[v]
  BY <1>1 DEF Stored, UsesTable, Pen, At
<1>3. StartedByScheduler(row[v]) \in BOOLEAN /\ StoppedByScheduler(row[v]) \in BOOLEAN
  BY <1>2, StoredType DEF EInv, DInv, HInv, IInv
<1>4. /\ task[r][v].decision = ByCalendar(Window(v, now))
      /\ stage[v] # "no" => task[r][v].seen = "running"
  BY DEF EInv, DInv, Timely, StageSound, At
<1> QED BY <1>1, <1>2, <1>3, <1>4

(* In the window: the mark of a VM that was left running is used up.       *)
LEMMA AdoptEnding ==
    ASSUME EInv, Overriding, NEW r \in Runs, NEW v \in Resources, AlreadyRunningH(r, v),
           UNCHANGED <<days, moods, overdue>>
    PROVE  Loaded(r)' /\ \A w \in Resources : Ending(r, w)'
<1>1. /\ At(r, v, "recall") /\ task[r][v].decision = "START" /\ UNCHANGED row
      /\ \E adopts : /\ adopts = Consumes(r, Stored(r, v))
                     /\ ToSave(r, v, RunningEntry(adopts, Stored(r, v)), Skipped("START"))
  BY DEF AlreadyRunningH, AlreadyRunning, Recalling
<1>2. PICK adopts, entry :
        /\ adopts = Consumes(r, row[v]) /\ entry = RunningEntry(adopts, row[v])
        /\ ToSave(r, v, entry, Skipped("START"))
  BY <1>1, Recalled
<1>3. StartedByScheduler(entry) = (adopts \/ StartedByScheduler(row[v]))
  <2>1. /\ adopts \in BOOLEAN
        /\ StartedByScheduler(row[v]) \in BOOLEAN /\ StoppedByScheduler(row[v]) \in BOOLEAN
    BY <1>1, <1>2, Recalled, StoredType DEF EInv, DInv, HInv, IInv
  <2> QED BY <1>2, <2>1, EntryTells DEF RunningEntry, LastActions
<1>4. Window(v, now) = "open" /\ stage[v] # "closed"
  <2>1. Window(v, now) = "open"
    BY <1>1, Recalled, Verdicts
  <2> QED BY <2>1 DEF EInv, DInv, StageSound
<1>5. ASSUME noticed[v] PROVE StartedByScheduler(entry)
  <2>1. Marked(row[v]) \/ StartedByScheduler(row[v])
    BY <1>1, <1>4, <1>5, Recalled DEF EInv, Ending, Adopted, DInv, DaysType, Stages
  <2>2. Marked(row[v]) => adopts
    BY <1>1, <1>2, Recalled DEF Marked, Consumes, StartedByScheduler
  <2> QED BY <1>3, <2>1, <2>2
<1>6. noticed[v] => stage[v] # "no" /\ overdue[v] <= TimerPeriod
  BY DEF EInv, Ending, Adopted, OnTime
<1>7. phase[r] = "processing" /\ ~Late(v)
  BY <1>1, <1>4 DEF At, Late
<1> QED BY <1>1, <1>2, <1>4, <1>5, <1>6, <1>7, EntryEnding DEF days, moods

(* Outside the window: it is left running, and marked.                     *)
LEMMA LeaveEnding ==
    ASSUME EInv, Overriding, NEW r \in Runs, NEW v \in Resources, RetainRunningD(r, v)
    PROVE  Loaded(r)' /\ \A w \in Resources : Ending(r, w)'
<1>1. /\ At(r, v, "recall") /\ task[r][v].decision = "STOP" /\ UNCHANGED row
      /\ ~StartedByScheduler(Stored(r, v))
      /\ ToSave(r, v, Entry(FALSE, StoppedByScheduler(Stored(r, v)), "SKIP_RETAIN_RUNNING"),
                Skipped("STOP"))
  BY DEF RetainRunningD, RetainRunning, Recalling, KeepsRunning, world
<1>2. PICK entry : entry = Entry(FALSE, StoppedByScheduler(row[v]), "SKIP_RETAIN_RUNNING")
  OBVIOUS
<1>3. ToSave(r, v, entry, Skipped("STOP")) /\ ~StartedByScheduler(row[v])
  BY <1>1, <1>2, Recalled
<1>4. Marked(entry)
  <2>1. entry \in Row
    BY <1>1, <1>2, Recalled, EntryType DEF LastActions
  <2> QED BY <1>2, <2>1, NoRowAssumption DEF Marked, Entry
<1>5. stage[v] # "open"
  <2>1. Window(v, now) = "closed"
    BY <1>1, Recalled, Verdicts
  <2> QED BY <2>1 DEF EInv, DInv, StageSound
<1>6. noticed[v] => stage[v] = "closed"
  BY <1>1, <1>3, <1>5, Recalled DEF EInv, Ending, Adopted, DInv, DaysType, Stages
<1>7. /\ \A w \in Resources \ {v} : noticed'[w] = noticed[w]
      /\ noticed'[v] => stage[v] = "closed"
      /\ UNCHANGED <<now, due, stage, overdue>>
  BY <1>6 DEF RetainRunningD, days, EInv, DInv, DaysType
<1>8. stage[v] = "closed" => overdue[v] <= TimerPeriod /\ ~Late(v)
  BY WeekType DEF EInv, Ending, Late
<1> QED BY <1>1, <1>3, <1>4, <1>7, <1>8, EntryEnding DEF At

(* A VM that is seen stopped is not one that was left running.             *)
LEMMA StoppedEnding ==
    ASSUME EInv, Overriding, NEW r \in Runs, NEW v \in Resources,
           RetainStopped(r, v) \/ AlreadyStopped(r, v),
           UNCHANGED <<hvars, days, moods, overdue>>
    PROVE  Loaded(r)' /\ \A w \in Resources : Ending(r, w)'
<1>1. /\ At(r, v, "recall") /\ task[r][v].seen = "stopped" /\ UNCHANGED row
      /\ \E entry, outcome : ToSave(r, v, entry, outcome)
  BY DEF RetainStopped, AlreadyStopped, Recalling, KeepsStopped, world
<1>2. ~noticed[v]
  BY <1>1, Recalled DEF EInv, Ending, Adopted
<1> QED BY <1>1, <1>2, EntryEnding DEF days, moods, At

(* Between the calls that lead to a command nothing is written.            *)
LEMMA GoEnding ==
    ASSUME EInv, NEW r \in Runs, NEW v \in Resources,
           Observe(r, v) \/ GoStart(r, v) \/ GoStop(r, v) \/ Command(r, v),
           UNCHANGED <<days, moods, overdue>>
    PROVE  Loaded(r)' /\ \A w \in Resources : Ending(r, w)'
<1>0. /\ task[r][v] \in Task /\ phase[r] = "processing" /\ UNCHANGED <<row, targets>>
      /\ task[r][v].at \in {"observe", "recall", "command"}
  BY DEF EInv, DInv, HInv, IInv, TypeOK, Observe, GoStart, GoStop, Command, Recalling, ToCommand,
         At, Become, world
<1>1. \E t : Moves(r, v, t) /\ t.at \in {"recall", "command", "poll"}
  <2>1. CASE Observe(r, v)
    <3>1. PICK t : t = [task[r][v] EXCEPT !.at = "recall", !.seen = PowerState(code[v])]
      OBVIOUS
    <3>2. Become(r, v, t)
      BY <2>1, <3>1 DEF Observe
    <3>3. t.at = "recall"
      BY <1>0, <3>1 DEF Task
    <3> QED BY <3>2, <3>3, BecomeMoves
  <2>2. CASE GoStart(r, v) \/ GoStop(r, v)
    <3>1. PICK t : t = [task[r][v] EXCEPT !.at = "command"]
      OBVIOUS
    <3> QED BY <1>0, <2>2, <3>1, BecomeMoves DEF GoStart, GoStop, ToCommand, Task
  <2>3. CASE Command(r, v)
    <3>1. PICK t : t = [task[r][v] EXCEPT !.at = "poll"]
      OBVIOUS
    <3> QED BY <1>0, <2>3, <3>1, BecomeMoves DEF Command, Task
  <2> QED BY <2>1, <2>2, <2>3
<1> QED BY <1>0, <1>1, UnderWayEnding

(* Only what is skipped is done without a look at the VM, and no day that  *)
(* is skipped is in a window, or out of one.                               *)
LEMMA EvaluateEnding ==
    ASSUME EInv, Overriding, NEW r \in Runs, NEW v \in Resources, EvaluateNow(r, v)
    PROVE  Loaded(r)' /\ \A w \in Resources : Ending(r, w)'
<1>0. /\ task \in [Runs -> [Resources -> Task]] /\ task[r][v] \in Task /\ now \in 0..(Week - 1)
      /\ phase[r] = "processing" /\ task[r][v].at = "evaluate" /\ UNCHANGED row
      /\ v \in Handled /\ ~cfg[r].dry_run
      /\ UNCHANGED <<days, moods, overdue>>
  BY DEF EInv, Loaded, DInv, DaysType, HInv, IInv, TypeOK, EvaluateNow, Evaluate, At, world,
         Overriding
<1>1. PICK decision \in Decisions :
        IF decision = "SKIP" THEN Done(r, v, Skipped(decision))
        ELSE Become(r, v, [task[r][v] EXCEPT !.at = "observe", !.decision = decision])
  BY <1>0 DEF EvaluateNow, Evaluate
<1>2. CASE decision = "SKIP"
  <2>1. PICK t : t = [Blank EXCEPT !.at = "done", !.outcome = Skipped(decision)]
    OBVIOUS
  <2>2. /\ Moves(r, v, t) /\ UNCHANGED targets /\ task'[r][v] = t
        /\ t.at = "done" /\ t.outcome.action = "SKIP"
    BY <1>0, <1>1, <1>2, <2>1 DEF Done, Become, Moves, Blank, Skipped
  <2>3. Window(v, now) = "skipped"
    BY <1>0, <2>2, DecidedByCalendar DEF EvaluateNow, Decision, ByCalendar
  <2>4. stage[v] # "open" /\ ~Late(v)
    BY <2>3 DEF EInv, DInv, StageSound, Late
  <2>5. Ending(r, v)'
    BY <1>0, <2>2, <2>4 DEF EInv, Ending, Adopted, OnTime, Late, Pen, Marked,
                            StartedByScheduler, At, Moves, days, moods
  <2> QED BY <1>0, <2>2, <2>5, WorkerEnding DEF days, moods
<1>3. CASE decision # "SKIP"
  <2>1. PICK t : t = [task[r][v] EXCEPT !.at = "observe", !.decision = decision]
    OBVIOUS
  <2>2. Moves(r, v, t) /\ UNCHANGED targets
    BY <1>1, <1>3, <2>1 DEF Become, Moves
  <2> QED BY <1>0, <2>1, <2>2, UnderWayEnding DEF Task
<1> QED BY <1>2, <1>3

LEMMA PollEnding ==
    ASSUME EInv, NEW r \in Runs, NEW v \in Resources, PollD(r, v)
    PROVE  Loaded(r)' /\ \A w \in Resources : Ending(r, w)'
<1>1. PICK entry, outcome : ToSave(r, v, entry, outcome)
  BY DEF PollD, PollH, Poll
<1>2. PICK t : t = [Blank EXCEPT !.at = "save", !.entry = entry, !.outcome = outcome]
  OBVIOUS
<1>3. Moves(r, v, t) /\ UNCHANGED <<now, due, row, targets>>
  BY <1>1, <1>2 DEF ToSave, Become, Moves, PollD, PollH, Poll, days
<1>4. /\ \A w \in Resources \ {v} :
           stage'[w] = stage[w] /\ noticed'[w] = noticed[w] /\ overdue'[w] = overdue[w]
      /\ ~noticed'[v] /\ overdue'[v] = 0
  BY DEF PollD, Forgiven, EInv, DInv, DaysType
<1> QED BY <1>3, <1>4, WorkerEnding DEF Ending

(* What was to be written is written, and a future handed over.            *)
LEMMA WrittenEnding ==
    ASSUME EInv, Overriding, NEW r \in Runs, NEW v \in Resources, Save(r, v) \/ Collect(r, v),
           UNCHANGED <<days, moods, overdue>>
    PROVE  Loaded(r)' /\ \A w \in Resources : Ending(r, w)'
<1>0. /\ task \in [Runs -> [Resources -> Task]] /\ task[r][v] \in Task
      /\ row \in [Resources -> Row \union {None}]
      /\ phase[r] = "processing" /\ cfg[r].retain_running
  BY DEF EInv, Loaded, DInv, HInv, IInv, TypeOK, Save, Collect, At, Overriding
<1>1. PICK t :
        /\ Moves(r, v, t) /\ t.at \in {"done", "collected"} /\ UNCHANGED targets
        /\ Processed(r, v) /\ row'[v] = Pen(r, v)
        /\ \A w \in Resources \ {v} : row'[w] = row[w]
  <2>1. CASE Save(r, v)
    <3>1. PICK t : t = [Blank EXCEPT !.at = "done", !.outcome = task[r][v].outcome]
      OBVIOUS
    <3>2. Moves(r, v, t) /\ t.at = "done" /\ UNCHANGED targets
      BY <2>1, <3>1 DEF Save, Done, Become, Moves, Blank
    <3>3. Processed(r, v) /\ row' = [row EXCEPT ![v] = Pen(r, v)]
      BY <1>0, <2>1 DEF Save, Written, UsesTable, Pen, Processed, At
    <3> QED BY <1>0, <3>2, <3>3
  <2>2. CASE Collect(r, v)
    <3>1. PICK t : t = [task[r][v] EXCEPT !.at = "collected"]
      OBVIOUS
    <3>2. Moves(r, v, t) /\ t.at = "collected" /\ UNCHANGED <<targets, row>>
      BY <1>0, <2>2, <3>1 DEF Collect, Moves, Task, world
    <3>3. Processed(r, v) /\ Pen(r, v) = row[v]
      BY <2>2 DEF Collect, Pen, Processed, At
    <3> QED BY <3>2, <3>3
  <2> QED BY <2>1, <2>2
<1>2. Pen(r, v)' = Pen(r, v) /\ UNCHANGED phase
  BY <1>0, <1>1 DEF Pen, At, Moves
<1>3. Ending(r, v)'
  BY <1>1, <1>2 DEF EInv, Ending, Adopted, OnTime, Late, OpenFor, Processed, Marked,
                    StartedByScheduler, Over, days, moods
<1> QED BY <1>1, <1>3, WorkerEnding DEF days, moods

-----------------------------------------------------------------------------
LEMMA EndingInit == InitD => EInv
<1> SUFFICES ASSUME InitD PROVE EInv
  OBVIOUS
<1>1. DInv
  BY DaysInit
<1>2. \A r \in Runs : Loaded(r) /\ \A v \in Resources : Ending(r, v)
  BY DEF InitD, InitH, Init, Loaded, Ending
<1> QED BY <1>1, <1>2 DEF EInv

LEMMA EndingStep == ASSUME Sequential, Overriding, EInv, [NextD]_dvars PROVE EInv'
<1> DEFINE Kept(r) == Loaded(r)' /\ \A w \in Resources : Ending(r, w)'
<1>1. DInv'
  BY DaysStep DEF EInv
<1>2. ASSUME NEW r \in Runs, Tick PROVE Kept(r)
  <2>1. UNCHANGED <<phase, cfg, targets>>
    BY <1>2 DEF Tick, allvars, vars
  <2> QED BY <1>2, <2>1, TickEnding DEF Overriding, EInv, Loaded
<1>3. ASSUME NEW r \in Runs, Fire(r) \/ DiscoverAll(r) \/ ReportD(r) PROVE Kept(r)
  BY <1>3, MainEnding
<1>4. ASSUME NEW r \in Runs, NEW v \in Resources, StepD(r, v) PROVE Kept(r)
  <2>1. UNCHANGED <<days, moods, overdue>>
    BY <1>4 DEF StepD
  <2>2. CASE AlreadyRunningH(r, v)
    BY <2>1, <2>2, AdoptEnding
  <2>3. CASE ObserveH(r, v) \/ GoStart(r, v) \/ GoStop(r, v) \/ Command(r, v)
    BY <2>1, <2>3, GoEnding DEF ObserveH
  <2>4. CASE UNCHANGED hvars /\ (RetainStopped(r, v) \/ AlreadyStopped(r, v))
    BY <2>1, <2>4, StoppedEnding
  <2>5. CASE Save(r, v) \/ Collect(r, v)
    BY <2>1, <2>5, WrittenEnding
  <2> QED BY <1>4, <2>2, <2>3, <2>4, <2>5 DEF StepD
<1>5. ASSUME NEW r \in Runs, NEW v \in Resources,
             EvaluateNow(r, v) \/ RetainRunningD(r, v) \/ PollD(r, v)
      PROVE  Kept(r)
  BY <1>5, EvaluateEnding, LeaveEnding, PollEnding
<1>6. ASSUME NEW r \in Runs, NEW v \in Resources, SwitchOn(v) \/ SwitchOff(v) \/ ForgetD(v)
      PROVE  Kept(r)
  <2>1. UNCHANGED <<phase, cfg, targets>>
    BY <1>6 DEF SwitchOn, SwitchOff, ForgetD, OutsideH, Outside, StateDeleteH, StateDelete
  <2> QED BY <1>6, <2>1, OperatorEnding DEF EInv, Loaded
<1>7. ASSUME NEW r \in Runs, UNCHANGED dvars PROVE Kept(r)
  BY <1>7 DEF dvars, allvars, vars, days, moods, EInv, Loaded, Ending, Adopted, OnTime, Late,
              OpenFor, Processed, Pen, Marked, StartedByScheduler, At, Over
<1>8. PICK r \in Runs : Runs = {r}
  BY DEF Sequential
<1>9. Kept(r)
  BY <1>2, <1>3, <1>4, <1>5, <1>6, <1>7, <1>8 DEF NextD
<1> QED BY <1>1, <1>8, <1>9 DEF EInv

(* With retain_running, the override of a VM that was left running is over *)
(* within one period of the timer after its window, whatever operators do  *)
(* to other VMs and rows, however many skipped days come in between        *)
(* (_should_consume_manual_override and the branches around it).           *)
THEOREM OverrideIsUsedUp ==
    ASSUME Sequential, Overriding PROVE SpecD => []OverrideEnds
<1>1. EInv /\ [NextD]_dvars => EInv'
  BY EndingStep
<1>2. EInv => OverrideEnds
  <2> SUFFICES ASSUME EInv, NEW v \in Resources, noticed[v] PROVE overdue[v] <= TimerPeriod
    BY DEF OverrideEnds
  <2>1. PICK r \in Runs : Runs = {r}
    BY DEF Sequential
  <2> QED BY <2>1 DEF EInv, Ending, OnTime
<1> QED BY <1>1, <1>2, EndingInit, PTL DEF SpecD

-----------------------------------------------------------------------------
(* What a cycle leaves behind.                                             *)

(* A worker that has dealt with its VM leaves it as scheduled; and while   *)
(* it waits for a command, the platform is carrying that one out.          *)
Heeded(r, v) ==
    /\ At(r, v, "poll") => code[v] = Accepted(task[r][v].decision)
    /\ Processed(r, v) /\ ~cfg[r].dry_run /\ v \in Handled => AsScheduled(r, v)

Complete(r) == phase[r] = "processing" => targets[r] = Resources

AllHeeded(r) == Complete(r) /\ \A w \in Resources : Heeded(r, w)

LInv == DInv /\ \A r \in Runs : AllHeeded(r)

(* Between two cycles, and when one begins or ends, no worker is at work.  *)
LEMMA IdleHeeded ==
    ASSUME NEW r \in Runs, phase'[r] # "processing"
    PROVE  AllHeeded(r)'
BY DEF AllHeeded, Complete, Heeded, Processed, At

LEMMA MainHeeded ==
    ASSUME LInv, NEW r \in Runs, Fire(r) \/ DiscoverAll(r) \/ ReportD(r)
    PROVE  AllHeeded(r)'
<1>0. task \in [Runs -> [Resources -> Task]] /\ phase \in [Runs -> Phases]
      /\ targets \in [Runs -> SUBSET Resources]
  BY DEF LInv, DInv, HInv, IInv, TypeOK
<1>1. CASE Fire(r) \/ ReportD(r)
  BY <1>0, <1>1, IdleHeeded DEF Fire, ReportD, Trigger, Report
<1>2. CASE DiscoverAll(r)
  <2>1. targets'[r] = Resources /\ \A w \in Resources : task'[r][w].at \in {"evaluate", "none"}
    BY <1>0, <1>2 DEF DiscoverAll, Discover, Blank
  <2> QED BY <2>1 DEF AllHeeded, Complete, Heeded, Processed, At
<1> QED BY <1>1, <1>2

-----------------------------------------------------------------------------
(* The steps of a worker: what it does to its VM concerns no other.        *)
LEMMA WorkerHeeded ==
    ASSUME LInv, NEW r \in Runs, NEW v \in Resources, NEW t, Moves(r, v, t),
           UNCHANGED <<now, targets>>,
           \A w \in Resources \ {v} : /\ code'[w] = code[w] /\ touched'[w] = touched[w]
                                      /\ forgotten'[w] = forgotten[w],
           t.at = "poll" => code'[v] = Accepted(t.decision),
           t.at \in {"save", "done", "collected"} /\ ~cfg[r].dry_run /\ v \in Handled
             => AsScheduled(r, v)'
    PROVE  AllHeeded(r)'
<1>1. task'[r][v] = t /\ \A w \in Resources \ {v} : task'[r][w] = task[r][w]
  BY DEF LInv, DInv, HInv, IInv, TypeOK, Moves
<1>2. Heeded(r, v)'
  BY <1>1 DEF Heeded, Processed, At, Moves
<1>3. \A w \in Resources \ {v} : Heeded(r, w)'
  BY <1>1 DEF LInv, AllHeeded, Heeded, Processed, AsScheduled, At, Moves
<1> QED BY <1>2, <1>3 DEF LInv, AllHeeded, Complete, Moves

(* One that ends on a VM which is as scheduled, and stays like that.       *)
LEMMA SettledHeeded ==
    ASSUME LInv, NEW r \in Runs, NEW v \in Resources, NEW entry, NEW outcome,
           ToSave(r, v, entry, outcome), now' = now,
           \A w \in Resources \ {v} : /\ code'[w] = code[w] /\ touched'[w] = touched[w]
                                      /\ forgotten'[w] = forgotten[w],
           AsScheduled(r, v)'
    PROVE  AllHeeded(r)'
<1>1. PICK t : t = [Blank EXCEPT !.at = "save", !.entry = entry, !.outcome = outcome]
  OBVIOUS
<1>2. Moves(r, v, t) /\ t.at = "save" /\ UNCHANGED targets
  BY <1>1 DEF ToSave, Become, Moves, Blank
<1> QED BY <1>2, WorkerHeeded

(* What a worker knows when it has read the row.                           *)
LEMMA RecalledDays ==
    ASSUME LInv, NEW r \in Runs, NEW v \in Resources, At(r, v, "recall")
    PROVE  /\ Stored(r, v) = row[v] /\ Tells(v, row[v])
           /\ task[r][v].seen = PowerState(code[v])
           /\ task[r][v].decision = "START" => Window(v, now) = "open"
           /\ task[r][v].decision = "STOP" => Window(v, now) = "closed"
<1>1. Stored(r, v) = row[v] /\ Tells(v, row[v])
  BY RecalledRow DEF LInv, DInv
<1>2. /\ task[r][v].seen = PowerState(code[v])
      /\ task[r][v].decision = ByCalendar(Window(v, now))
  BY DEF LInv, DInv, Timely, At
<1> QED BY <1>1, <1>2, Verdicts

(* The branches that give no command.                                      *)
LEMMA BranchHeeded ==
    ASSUME LInv, NEW r \in Runs, NEW v \in Resources, now' = now,
           \/ AlreadyRunningH(r, v)
           \/ /\ RetainStopped(r, v) \/ RetainRunning(r, v) \/ AlreadyStopped(r, v)
              /\ UNCHANGED hvars
    PROVE  AllHeeded(r)'
<1>0. /\ At(r, v, "recall") /\ UNCHANGED code
      /\ \E entry, outcome : ToSave(r, v, entry, outcome)
  BY DEF AlreadyRunningH, AlreadyRunning, RetainStopped, RetainRunning, AlreadyStopped,
         Recalling, world
<1>1. /\ At(r, v, "recall") /\ UNCHANGED <<code, cfg>>
      /\ \E entry, outcome : ToSave(r, v, entry, outcome)
  BY <1>0 DEF ToSave, Become
<1>2. \A w \in Resources \ {v} : touched'[w] = touched[w] /\ forgotten'[w] = forgotten[w]
  BY DEF AlreadyRunningH, Touch, hvars, LInv, DInv, HInv, HistoryType
<1>3. CASE AlreadyRunningH(r, v)
  <2>1. Window(v, now) = "open" /\ PowerState(code[v]) = "running"
    BY <1>1, <1>3, RecalledDays DEF AlreadyRunningH, AlreadyRunning, Recalling
  <2> QED BY <1>1, <1>2, <2>1, SettledHeeded DEF AsScheduled
<1>4. CASE RetainStopped(r, v) /\ UNCHANGED hvars
  <2>1. /\ Window(v, now) = "open" /\ PowerState(code[v]) = "stopped" /\ cfg[r].retain_stopped
        /\ ~StoppedByScheduler(row[v]) /\ Tells(v, row[v])
    BY <1>1, <1>4, RecalledDays DEF RetainStopped, Recalling, KeepsStopped
  <2>2. touched[v] # "STOP" \/ forgotten[v]
    BY <2>1 DEF Tells
  <2>3. AsScheduled(r, v)'
    BY <1>1, <1>4, <2>1, <2>2 DEF AsScheduled, hvars
  <2> QED BY <1>1, <1>2, <2>3, SettledHeeded
<1>5. CASE RetainRunning(r, v) /\ UNCHANGED hvars
  <2>1. /\ Window(v, now) = "closed" /\ PowerState(code[v]) = "running" /\ cfg[r].retain_running
        /\ ~StartedByScheduler(row[v]) /\ Tells(v, row[v])
    BY <1>1, <1>5, RecalledDays DEF RetainRunning, Recalling, KeepsRunning
  <2>2. touched[v] \notin {"START", "ADOPT"} \/ forgotten[v]
    BY <2>1 DEF Tells
  <2>3. AsScheduled(r, v)'
    BY <1>1, <1>5, <2>1, <2>2 DEF AsScheduled, hvars
  <2> QED BY <1>1, <1>2, <2>3, SettledHeeded
<1>6. CASE AlreadyStopped(r, v)
  <2>1. Window(v, now) = "closed" /\ PowerState(code[v]) = "stopped"
    BY <1>1, <1>6, RecalledDays DEF AlreadyStopped, Recalling
  <2> QED BY <1>1, <1>2, <2>1, SettledHeeded DEF AsScheduled
<1> QED BY <1>3, <1>4, <1>5, <1>6

(* A command that comes to its end has brought the VM where it was to go.  *)
LEMMA PollHeeded ==
    ASSUME LInv, NEW r \in Runs, NEW v \in Resources, PollD(r, v)
    PROVE  AllHeeded(r)'
<1>0. code \in [Resources -> Codes] /\ touched \in [Resources -> {"none", "START", "STOP", "ADOPT"}]
      /\ forgotten \in [Resources -> BOOLEAN]
  BY DEF LInv, DInv, HInv, IInv, TypeOK, HistoryType
<1>1. /\ At(r, v, "poll") /\ now' = now
      /\ code' = [code EXCEPT ![v] = Settled(code[v])]
      /\ touched' = [touched EXCEPT ![v] = task[r][v].decision]
      /\ forgotten' = [forgotten EXCEPT ![v] = FALSE]
      /\ \E entry, outcome : ToSave(r, v, entry, outcome)
  BY DEF PollD, PollH, Poll, Touch, days
<1>2. PICK decision : decision = task[r][v].decision
  OBVIOUS
<1>3. /\ decision \in {"START", "STOP"} /\ code[v] = Accepted(decision)
      /\ decision = ByCalendar(Window(v, now))
  BY <1>1, <1>2 DEF LInv, AllHeeded, Heeded, DInv, HInv, IInv, Decided, Timely, At
<1>4. code'[v] = IF decision = "START" THEN "running" ELSE "deallocated"
  BY <1>0, <1>1, <1>3 DEF Accepted, Settled
<1>5. PowerState(code'[v]) = IF decision = "START" THEN "running" ELSE "stopped"
  BY <1>4 DEF PowerState, RunningCodes, StoppedCodes
<1>6. AsScheduled(r, v)'
  <2>1. UNCHANGED <<now, cfg>>
    BY <1>1 DEF ToSave, Become
  <2> QED BY <2>1, <1>3, <1>5, Verdicts DEF AsScheduled
<1> QED BY <1>0, <1>1, <1>6, SettledHeeded

(* A command is accepted, or a call made on the way to one.                *)
LEMMA GoHeeded ==
    ASSUME LInv, NEW r \in Runs, NEW v \in Resources,
           Observe(r, v) \/ GoStart(r, v) \/ GoStop(r, v) \/ Command(r, v),
           UNCHANGED <<now, touched, forgotten>>
    PROVE  AllHeeded(r)'
<1>0. task[r][v] \in Task /\ code \in [Resources -> Codes]
  BY DEF LInv, DInv, HInv, IInv, TypeOK
<1>1. CASE Observe(r, v)
  <2>1. PICK t : t = [task[r][v] EXCEPT !.at = "recall", !.seen = PowerState(code[v])]
    OBVIOUS
  <2>2. Moves(r, v, t) /\ t.at = "recall" /\ UNCHANGED <<targets, code>>
    BY <1>0, <1>1, <2>1 DEF Observe, Become, Moves, Task, world
  <2> QED BY <2>2, WorkerHeeded
<1>2. CASE GoStart(r, v) \/ GoStop(r, v)
  <2>1. PICK t : t = [task[r][v] EXCEPT !.at = "command"]
    OBVIOUS
  <2>2. Become(r, v, t) /\ UNCHANGED code
    BY <1>2, <2>1 DEF GoStart, GoStop, ToCommand, world
  <2>3. Moves(r, v, t) /\ t.at = "command" /\ UNCHANGED targets
    BY <1>0, <2>1, <2>2 DEF Become, Moves, Task
  <2> QED BY <2>2, <2>3, WorkerHeeded
<1>3. CASE Command(r, v)
  <2>1. PICK t : t = [task[r][v] EXCEPT !.at = "poll"]
    OBVIOUS
  <2>2. Become(r, v, t) /\ code' = [code EXCEPT ![v] = Accepted(task[r][v].decision)]
    BY <1>3, <2>1 DEF Command
  <2>3. /\ Moves(r, v, t) /\ t.at = "poll" /\ t.decision = task[r][v].decision
        /\ UNCHANGED targets
    BY <1>0, <2>1, <2>2 DEF Become, Moves, Task
  <2>4. code'[v] = Accepted(t.decision) /\ \A w \in Resources \ {v} : code'[w] = code[w]
    BY <1>0, <2>2, <2>3
  <2> QED BY <2>3, <2>4, WorkerHeeded
<1> QED BY <1>1, <1>2, <1>3

(* What is done without a look at the VM is skipped, not handled, or a dry *)
(* run.                                                                    *)
LEMMA EvaluateHeeded ==
    ASSUME LInv, NEW r \in Runs, NEW v \in Resources, EvaluateNow(r, v)
    PROVE  AllHeeded(r)'
<1>0. /\ task \in [Runs -> [Resources -> Task]] /\ task[r][v] \in Task
      /\ now \in 0..(Week - 1)
      /\ UNCHANGED <<now, code, touched, forgotten>>
  BY DEF LInv, DInv, DaysType, HInv, IInv, TypeOK, EvaluateNow, Evaluate, world, hvars, days
<1>1. PICK decision \in Decisions :
        IF decision = "SKIP" \/ v \notin Handled THEN Done(r, v, Skipped(decision))
        ELSE IF cfg[r].dry_run THEN Done(r, v, Performed(decision, "DRY_RUN"))
        ELSE Become(r, v, [task[r][v] EXCEPT !.at = "observe", !.decision = decision])
  BY DEF EvaluateNow, Evaluate
<1>2. ASSUME NEW o, Done(r, v, o), o.action = "SKIP" \/ v \notin Handled \/ cfg[r].dry_run
      PROVE  AllHeeded(r)'
  <2>1. PICK t : t = [Blank EXCEPT !.at = "done", !.outcome = o]
    OBVIOUS
  <2>2. /\ Moves(r, v, t) /\ t.at = "done" /\ t.outcome = o /\ task'[r][v] = t
        /\ UNCHANGED <<targets, cfg>>
    BY <1>0, <1>2, <2>1 DEF Done, Become, Moves, Blank
  <2>3. o.action = "SKIP" => Window(v, now) = "skipped"
    BY <1>0, <2>2, DecidedByCalendar DEF EvaluateNow, Decision, ByCalendar
  <2> QED BY <1>0, <1>2, <2>2, <2>3, WorkerHeeded DEF AsScheduled
<1>3. ASSUME Become(r, v, [task[r][v] EXCEPT !.at = "observe", !.decision = decision])
      PROVE  AllHeeded(r)'
  <2>1. PICK t : t = [task[r][v] EXCEPT !.at = "observe", !.decision = decision]
    OBVIOUS
  <2>2. Moves(r, v, t) /\ t.at = "observe" /\ UNCHANGED targets
    BY <1>0, <1>3, <2>1 DEF Become, Moves, Task
  <2> QED BY <1>0, <2>2, WorkerHeeded
<1>4. Skipped("SKIP").action = "SKIP"
  BY DEF Skipped
<1> QED BY <1>1, <1>2, <1>3, <1>4

(* What was to be written is written, and a future handed over.            *)
LEMMA WrittenHeeded ==
    ASSUME LInv, NEW r \in Runs, NEW v \in Resources, Save(r, v) \/ Collect(r, v),
           UNCHANGED <<now, touched, forgotten>>
    PROVE  AllHeeded(r)'
<1>0. task[r][v] \in Task
  BY DEF LInv, DInv, HInv, IInv, TypeOK
<1>1. UNCHANGED <<code, cfg, targets>> /\ Processed(r, v)
  BY DEF Save, Collect, Done, Become, Processed, At, world
<1>2. ~cfg[r].dry_run /\ v \in Handled => AsScheduled(r, v)'
  BY <1>1 DEF LInv, AllHeeded, Heeded, AsScheduled
<1>3. \E t : Moves(r, v, t) /\ t.at \in {"done", "collected"}
  <2>1. CASE Save(r, v)
    <3>1. PICK t : t = [Blank EXCEPT !.at = "done", !.outcome = task[r][v].outcome]
      OBVIOUS
    <3>2. Moves(r, v, t) /\ t.at = "done"
      BY <2>1, <3>1 DEF Save, Done, Become, Moves, Blank
    <3> QED BY <3>2
  <2>2. CASE Collect(r, v)
    <3>1. PICK t : t = [task[r][v] EXCEPT !.at = "collected"]
      OBVIOUS
    <3>2. Moves(r, v, t) /\ t.at = "collected"
      BY <1>0, <2>2, <3>1 DEF Collect, Moves, Task
    <3> QED BY <3>2
  <2> QED BY <2>1, <2>2
<1> QED BY <1>1, <1>2, <1>3, WorkerHeeded

-----------------------------------------------------------------------------
LEMMA HeededInit == InitD => LInv
<1> SUFFICES ASSUME InitD PROVE LInv
  OBVIOUS
<1>1. DInv
  BY DaysInit
<1>2. \A r \in Runs : phase[r] = "idle"
  BY DEF InitD, InitH, Init
<1>3. \A r \in Runs : AllHeeded(r)
  BY <1>2 DEF AllHeeded, Complete, Heeded, Processed, At
<1> QED BY <1>1, <1>3 DEF LInv

LEMMA HeededStep == ASSUME Sequential, LInv, [NextD]_dvars PROVE LInv'
<1>1. DInv'
  BY DaysStep DEF LInv
<1>2. PICK r \in Runs : Runs = {r}
  BY DEF Sequential
<1>3. ASSUME NEW v \in Resources, StepD(r, v) PROVE AllHeeded(r)'
  <2>1. now' = now
    BY <1>3 DEF StepD, days
  <2>2. CASE AlreadyRunningH(r, v)
    BY <2>1, <2>2, BranchHeeded
  <2>3. CASE ObserveH(r, v)
    BY <2>1, <2>3, GoHeeded DEF ObserveH
  <2>4. CASE UNCHANGED hvars /\ (GoStart(r, v) \/ GoStop(r, v) \/ Command(r, v))
    BY <2>1, <2>4, GoHeeded DEF hvars
  <2>5. CASE UNCHANGED hvars /\ (RetainStopped(r, v) \/ AlreadyStopped(r, v))
    BY <2>1, <2>5, BranchHeeded
  <2>6. CASE UNCHANGED hvars /\ (Save(r, v) \/ Collect(r, v))
    BY <2>1, <2>6, WrittenHeeded DEF hvars
  <2> QED BY <1>3, <2>2, <2>3, <2>4, <2>5, <2>6 DEF StepD
<1>4. ASSUME NEW v \in Resources, EvaluateNow(r, v) \/ RetainRunningD(r, v) \/ PollD(r, v)
      PROVE  AllHeeded(r)'
  BY <1>4, EvaluateHeeded, BranchHeeded, PollHeeded DEF RetainRunningD, days
<1>5. ASSUME Fire(r) \/ DiscoverAll(r) \/ ReportD(r) PROVE AllHeeded(r)'
  BY <1>5, MainHeeded
<1>6. ASSUME NEW v \in Resources, Tick \/ SwitchOn(v) \/ SwitchOff(v) \/ ForgetD(v)
      PROVE  AllHeeded(r)'
  <2>1. Resting /\ UNCHANGED phase
    BY <1>6 DEF Tick, SwitchOn, SwitchOff, ForgetD, OutsideH, Outside, StateDeleteH,
                StateDelete, allvars, vars
  <2> QED BY <2>1, IdleHeeded DEF Resting, Over
<1>7. ASSUME Tick PROVE AllHeeded(r)'
  <2>1. Resting /\ UNCHANGED phase
    BY <1>7 DEF Tick, allvars, vars
  <2> QED BY <2>1, IdleHeeded DEF Resting, Over
<1>8. CASE UNCHANGED dvars
  <2>1. UNCHANGED <<code, phase, cfg, targets, task, touched, forgotten, now>>
    BY <1>8 DEF dvars, allvars, vars, hvars, days
  <2>2. AllHeeded(r)'
    BY <2>1 DEF LInv, AllHeeded, Complete, Heeded, Processed, AsScheduled, At
  <2> QED BY <1>1, <1>2, <2>2 DEF LInv
<1>9. CASE NextD
  <2>1. AllHeeded(r)'
    BY <1>2, <1>3, <1>4, <1>5, <1>6, <1>7, <1>9 DEF NextD
  <2> QED BY <1>1, <1>2, <2>1 DEF LInv
<1> QED BY <1>8, <1>9

(* When a cycle reports, every VM with a handler is on in its window and   *)
(* off outside it, unless a retain option leaves it in a state the         *)
(* scheduler was not the last to bring it into (run, _process_resource and *)
(* the two _handle_..._decision of service.py): for any timetables, timer  *)
(* periods and numbers of VMs, whatever operators did between cycles.      *)
THEOREM CyclesLeaveAsScheduled ==
    ASSUME Sequential PROVE SpecD => CycleLeavesAsScheduled
<1>1. LInv /\ [NextD]_dvars => LInv'
  BY HeededStep
<1>2. ASSUME LInv, NextD, NEW r \in Runs, phase[r] = "processing", phase'[r] = "reported",
             ~cfg[r].dry_run, NEW v \in Handled
      PROVE  AsScheduled(r, v)
  <2>0. v \in Resources /\ phase \in [Runs -> Phases]
    BY <1>2, HandledAssumption DEF LInv, DInv, HInv, IInv, TypeOK
  <2>1. PICK s \in Runs : ReportD(s)
    <3>1. Tick => UNCHANGED phase
      BY DEF Tick, allvars, vars
    <3>2. ASSUME NEW w \in Resources, SwitchOn(w) \/ SwitchOff(w) \/ ForgetD(w)
          PROVE  UNCHANGED phase
      BY <3>2 DEF SwitchOn, SwitchOff, OutsideH, Outside, ForgetD, StateDeleteH, StateDelete
    <3>3. ASSUME NEW s \in Runs, NEW w \in Resources,
                 EvaluateNow(s, w) \/ RetainRunningD(s, w) \/ PollD(s, w) \/ StepD(s, w)
          PROVE  UNCHANGED phase
      BY <3>3 DEF EvaluateNow, Evaluate, RetainRunningD, RetainRunning, PollD, PollH, Poll, StepD,
                  AlreadyRunningH, AlreadyRunning, ObserveH, Observe, RetainStopped, GoStart,
                  AlreadyStopped, GoStop, Command, Save, Collect, ToCommand, ToSave, Done, Become
    <3>4. ASSUME NEW s \in Runs, Fire(s) \/ DiscoverAll(s) PROVE FALSE
      BY <1>2, <2>0, <3>4 DEF Fire, Trigger, DiscoverAll, Discover, Resting, Over
    <3> QED BY <1>2, <3>1, <3>2, <3>3, <3>4 DEF NextD
  <2>2. s = r
    BY <1>2, <2>0, <2>1 DEF ReportD, Report
  <2>3. Processed(r, v)
    BY <1>2, <2>0, <2>1, <2>2 DEF ReportD, Report, Processed, LInv, AllHeeded, Complete
  <2> QED BY <1>2, <2>0, <2>3 DEF LInv, AllHeeded, Heeded
<1>3. LInv /\ [NextD]_dvars =>
        [\A r \in Runs :
           phase[r] = "processing" /\ phase'[r] = "reported" /\ ~cfg[r].dry_run
           => \A v \in Handled : AsScheduled(r, v)]_dvars
  BY <1>2
<1> QED BY <1>1, <1>3, HeededInit, PTL DEF SpecD, CycleLeavesAsScheduled
=============================================================================
