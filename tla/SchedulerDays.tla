--------------------------- MODULE SchedulerDays ---------------------------
(***************************************************************************)
(* The scheduling cycle put together with the engine and a clock that goes *)
(* round from week to week: the retain options seen from the calendar.     *)
(* Every decision is the engine's for the instant of the cycle, every      *)
(* cycle is the timer's, and finds all the resources.  A cycle is over     *)
(* before the next minute and operators act between cycles: what happens   *)
(* within a slow or failing one is the matter of SchedulerService.         *)
(***************************************************************************)
EXTENDS RetainHistory, Sequences

CONSTANTS
    Day, Weekdays, Zones, OffsetAt(_, _), Canonical(_), Absent,
    Schedules,      \* the schedules in force
    Tags,           \* the resource as the engine sees it, per VM
    DefaultZone,
    TimerPeriod     \* the minutes between two executions

Engine == INSTANCE ScheduleEngine

Week == Day * Len(Weekdays)

ASSUME WeekAssumption ==
    /\ Day \in Nat \ {0} /\ Weekdays \in Seq(STRING) /\ Weekdays # <<>>
    /\ TimerPeriod \in 1..Week
ASSUME TimetableAssumption ==
    /\ \A name \in DOMAIN Schedules : Schedules[name].periods \subseteq Engine!Period
    /\ \A zone \in Zones, instant \in 0..(Week - 1) : OffsetAt(zone, instant) \in Int
ASSUME SteadyAssumption ==     \* so that one week is like the next
    \A zone \in Zones, instant \in 0..(Week - 1) : OffsetAt(zone, instant) = OffsetAt(zone, 0)

VARIABLES
    now,        \* the minute of the week
    due,        \* the timer has fired
    stage,      \* history: how far a VM switched on by hand, while its
                \* window was closed, has come
    noticed,    \* history: and a cycle left it running before that window
    parked,     \* history: a VM was switched off by hand in its window
    overdue     \* history: for how long it has run since its window

days == <<now, due>>
moods == <<stage, noticed, parked>>
dvars == <<allvars, days, moods, overdue>>

Stages == {"no", "closed", "open", "crossed"}

TypeOKD ==
    /\ TypeOKH
    /\ now \in 0..(Week - 1) /\ due \in BOOLEAN
    /\ stage \in [Resources -> Stages]
    /\ noticed \in [Resources -> BOOLEAN]
    /\ parked \in [Resources -> BOOLEAN]
    /\ overdue \in [Resources -> 0..(TimerPeriod + 1)]

(* What the calendar says of a VM at an instant.                           *)
Window(v, instant) ==
    LET zone == Engine!ZoneOf(Tags[v], DefaultZone)
        schedule == Schedules[Tags[v].schedule]
        local == Engine!LocalTime(zone, instant)
    IN  IF Engine!Skipped(schedule, local) THEN "skipped"
        ELSE IF Engine!Covered(schedule, local) THEN "open" ELSE "closed"

ASSUME ReachedAssumption ==
    \A v \in Resources :
        Engine!InScope(Schedules, Tags[v]) /\ Engine!ZoneOf(Tags[v], DefaultZone) \in Zones

InitD ==
    /\ InitH
    /\ now = 0 /\ due = TRUE
    /\ stage = [v \in Resources |-> "no"]
    /\ noticed = [v \in Resources |-> FALSE]
    /\ parked = [v \in Resources |-> FALSE]
    /\ overdue = [v \in Resources |-> 0]

-----------------------------------------------------------------------------
(* The clock and the timer.                                                *)
Resting == \A r \in Runs : Over(r)

NextStage(v, instant) ==
    CASE stage[v] = "closed" /\ Window(v, instant) = "open" -> "open"
      [] stage[v] = "open" /\ Window(v, instant) # "open"   -> "crossed"
      [] OTHER -> stage[v]

Late(v) == stage[v] = "crossed" /\ Window(v, now) = "closed"

Tick ==
    /\ Resting /\ ~due
    /\ now' = (now + 1) % Week
    /\ due' = (now' % TimerPeriod = 0)
    /\ stage' = [v \in Resources |-> NextStage(v, now')]
    /\ overdue' = [v \in Resources |->
                     IF Late(v) THEN Min({overdue[v] + 1, TimerPeriod + 1}) ELSE 0]
    /\ UNCHANGED <<allvars, noticed, parked>>

Fire(r) ==
    /\ due /\ Resting
    /\ due' = FALSE
    /\ Trigger(r)
    /\ UNCHANGED <<hvars, now, moods, overdue>>

DiscoverAll(r) ==
    /\ Discover(r)
    /\ targets'[r] = Resources
    /\ UNCHANGED <<hvars, days, moods, overdue>>

ReportD(r) == Report(r) /\ UNCHANGED <<hvars, days, moods, overdue>>

-----------------------------------------------------------------------------
(* The cycle.                                                              *)
Decision(t) == IF t.at = "done" THEN t.outcome.action ELSE t.decision

EvaluateNow(r, v) ==
    /\ Evaluate(r, v)
    /\ Decision(task'[r][v]) = Engine!Evaluate(Schedules, DefaultZone, Tags[v], now)
    /\ UNCHANGED <<hvars, days, moods, overdue>>

RetainRunningD(r, v) ==
    /\ RetainRunning(r, v)
    /\ noticed' = [noticed EXCEPT ![v] = @ \/ stage[v] = "closed"]
    /\ UNCHANGED <<hvars, days, stage, parked, overdue>>

Forgiven(v) ==
    /\ stage' = [stage EXCEPT ![v] = "no"]
    /\ noticed' = [noticed EXCEPT ![v] = FALSE]
    /\ overdue' = [overdue EXCEPT ![v] = 0]

PollD(r, v) ==
    /\ PollH(r, v)
    /\ Forgiven(v)
    /\ parked' = [parked EXCEPT ![v] = FALSE]
    /\ UNCHANGED days

StepD(r, v) ==
    /\ \/ AlreadyRunningH(r, v) \/ ObserveH(r, v)
       \/ /\ \/ RetainStopped(r, v) \/ GoStart(r, v) \/ AlreadyStopped(r, v)
             \/ GoStop(r, v) \/ Command(r, v) \/ Save(r, v) \/ Collect(r, v)
          /\ UNCHANGED hvars
    /\ UNCHANGED <<days, moods, overdue>>

-----------------------------------------------------------------------------
(* Operators.  A VM that the scheduler started last is its own to stop,    *)
(* whoever switched it off and on again since; and the other way round.    *)
SwitchOn(v) ==
    /\ Resting
    /\ PowerState(code[v]) = "stopped" /\ OutsideH(v) /\ PowerState(code'[v]) = "running"
    /\ stage' = [stage EXCEPT ![v] =
                   IF Window(v, now) = "closed" /\ touched[v] \in {"none", "STOP"}
                   THEN "closed" ELSE "no"]
    /\ parked' = [parked EXCEPT ![v] = FALSE]
    /\ noticed' = [noticed EXCEPT ![v] = FALSE]
    /\ overdue' = [overdue EXCEPT ![v] = 0]
    /\ UNCHANGED days

SwitchOff(v) ==
    /\ Resting
    /\ PowerState(code[v]) = "running" /\ OutsideH(v) /\ PowerState(code'[v]) = "stopped"
    /\ parked' = [parked EXCEPT ![v] = Window(v, now) = "open" /\ touched[v] # "STOP"]
    /\ Forgiven(v)
    /\ UNCHANGED days

(* Without its row a VM is one that no cycle has left running.             *)
ForgetD(v) ==
    /\ Resting
    /\ StateDeleteH(v)
    /\ noticed' = [noticed EXCEPT ![v] = FALSE]
    /\ UNCHANGED <<days, stage, parked, overdue>>

NextD ==
    \/ Tick
    \/ \E r \in Runs : Fire(r) \/ DiscoverAll(r) \/ ReportD(r)
    \/ \E r \in Runs, v \in Resources :
         EvaluateNow(r, v) \/ RetainRunningD(r, v) \/ PollD(r, v) \/ StepD(r, v)
    \/ \E v \in Resources : SwitchOn(v) \/ SwitchOff(v) \/ ForgetD(v)

SpecD == InitD /\ [][NextD]_dvars

-----------------------------------------------------------------------------
Stops(r, v) == At(r, v, "command") /\ At(r, v, "poll")' /\ task[r][v].decision = "STOP"
Starts(r, v) == At(r, v, "command") /\ At(r, v, "poll")' /\ task[r][v].decision = "START"

(* docs/architecture.md:252, "ate atravessar a proxima janela valida": with*)
(* retain_running, a VM that was switched on by hand while its window was  *)
(* closed is not stopped before its next window has come and gone, however *)
(* many skipped days are in between and whatever retain_stopped is set to. *)
KeptUntilCrossed ==
    [][\A r \in Runs, v \in Resources :
         Stops(r, v) /\ cfg[r].retain_running => stage[v] \notin {"closed", "open"}]_dvars

(* There is an execution in every window, between its opening (or that of  *)
(* the one that goes before without a gap) and its last minute.            *)
OpenFor(v, instant) ==
    \A m \in (instant - (instant % TimerPeriod))..instant : Window(v, m) = "open"

WindowsMet ==
    \A v \in Resources, n \in 0..(Week - 1) :
        Window(v, n) = "open" /\ Window(v, (n + 1) % Week) # "open" => OpenFor(v, n)

(* And if a cycle has left it running before that window opens, the        *)
(* override is used up by the window: within one timer period of its end   *)
(* the VM is stopped.                                                      *)
OverrideEnds == \A v \in Resources : noticed[v] => overdue[v] <= TimerPeriod

(* docs/architecture.md:253: with retain_stopped, a VM that was switched   *)
(* off by hand in its window stays off, through this window and all others,*)
(* until somebody switches it on.                                          *)
ParkedStays ==
    [][\A r \in Runs, v \in Resources :
         Starts(r, v) /\ cfg[r].retain_stopped => ~parked[v]]_dvars

(* The engine wants a VM on in its window and off outside it.  A retain    *)
(* option leaves a VM in the other state, but only one that the scheduler  *)
(* was not the last to bring into that state, or whose row is gone.        *)
AsScheduled(r, v) ==
    /\ Window(v, now) = "open" =>
         \/ PowerState(code[v]) = "running"
         \/ /\ cfg[r].retain_stopped /\ PowerState(code[v]) = "stopped"
            /\ touched[v] # "STOP" \/ forgotten[v]
    /\ Window(v, now) = "closed" =>
         \/ PowerState(code[v]) = "stopped"
         \/ /\ cfg[r].retain_running /\ PowerState(code[v]) = "running"
            /\ touched[v] \notin {"START", "ADOPT"} \/ forgotten[v]

(* What a cycle is for: when it reports (and is not a dry run), every VM   *)
(* with a handler is as the engine wants it, or is retained with cause.  A *)
(* VM whose view had no power state is not left like that.  From run and   *)
(* _process_resource to the handler, every branch has its part in it.      *)
CycleLeavesAsScheduled ==
    [][\A r \in Runs :
         phase[r] = "processing" /\ phase'[r] = "reported" /\ ~cfg[r].dry_run
         => \A v \in Handled : AsScheduled(r, v)]_dvars

(* docs/operator-guide.md:252-253: a resource that somebody switched on    *)
(* outside its window "volta ao ciclo normal" once it has crossed a valid  *)
(* window, noticed by a cycle before that window or not.                   *)
EveryOverrideEnds == \A v \in Resources : overdue[v] <= TimerPeriod
=============================================================================
