----------------------- MODULE SchedulerServiceProofs -----------------------
(***************************************************************************)
(* Theorems about SchedulerService, for any resources, runs, workers,      *)
(* configurations and faults.                                              *)
(***************************************************************************)
EXTENDS SchedulerService, FiniteSetTheorems, TLAPS

-----------------------------------------------------------------------------
(* The values that workers pass on.                                        *)

LEMMA EntryType ==
    ASSUME NEW a \in BOOLEAN, NEW b \in BOOLEAN, NEW act \in LastActions
    PROVE  Entry(a, b, act) \in Row
BY DEF Entry, Row

LEMMA OutcomeType ==
    /\ Failed \in Outcome
    /\ \A d \in Decisions : Skipped(d) \in Outcome
    /\ \A d \in {"START", "STOP"}, res \in {"EXECUTED", "DRY_RUN"} : Performed(d, res) \in Outcome
BY DEF Failed, Skipped, Performed, Outcome, Decisions

LEMMA BlankType == Blank \in Task
BY OutcomeType DEF Blank, Task, Points, Decisions, PowerStates

LEMMA PowerStateType == \A c : PowerState(c) \in PowerStates
BY DEF PowerState, PowerStates

(* A worker step changes one task and nothing of what main() keeps.        *)
LEMMA BecomeType ==
    ASSUME TypeOK, NEW r \in Runs, NEW v \in Resources, NEW t \in Task, Become(r, v, t)
    PROVE  /\ task' \in [Runs -> [Resources -> Task]]
           /\ UNCHANGED <<phase, cfg, targets, summary>>
BY DEF TypeOK, Become

LEMMA DoneType ==
    ASSUME TypeOK, NEW r \in Runs, NEW v \in Resources, NEW o \in Outcome, Done(r, v, o)
    PROVE  /\ task' \in [Runs -> [Resources -> Task]]
           /\ UNCHANGED <<phase, cfg, targets, summary>>
<1>1. [Blank EXCEPT !.at = "done", !.outcome = o] \in Task
  BY BlankType DEF Task, Points
<1> QED BY <1>1, BecomeType DEF Done

LEMMA ToSaveType ==
    ASSUME TypeOK, NEW r \in Runs, NEW v \in Resources,
           NEW e \in Row, NEW o \in Outcome, ToSave(r, v, e, o)
    PROVE  /\ task' \in [Runs -> [Resources -> Task]]
           /\ UNCHANGED <<phase, cfg, targets, summary>>
<1>1. [Blank EXCEPT !.at = "save", !.entry = e, !.outcome = o] \in Task
  BY BlankType DEF Task, Points
<1> QED BY <1>1, BecomeType DEF ToSave

LEMMA WipeType ==
    ASSUME TypeOK, NEW r \in Runs, Wipe(r)
    PROVE  /\ targets' \in [Runs -> SUBSET Resources]
           /\ task' \in [Runs -> [Resources -> Task]]
           /\ summary' \in [Runs -> Summary]
BY BlankType DEF TypeOK, Wipe, Zero, Summary

LEMMA StoredType ==
    ASSUME TypeOK, NEW r \in Runs, NEW v \in Resources
    PROVE  /\ Stored(r, v) \in Row \union {None}
           /\ StartedByScheduler(Stored(r, v)) \in BOOLEAN
           /\ StoppedByScheduler(Stored(r, v)) \in BOOLEAN
           /\ Consumes(r, Stored(r, v)) \in BOOLEAN
BY DEF TypeOK, Stored, StartedByScheduler, StoppedByScheduler, Consumes
-----------------------------------------------------------------------------
(* Type correctness, action by action.                                     *)

LEMMA CardinalityType == \A S \in SUBSET Resources : Cardinality(S) \in Nat
BY ResourcesFinite, FS_Subset, FS_CardinalityType

LEMMA InitType == Init => TypeOK
BY BlankType, OutsideCodesAssumption
   DEF Init, TypeOK, Phases, Config, DefaultConfig, Summary, Zero

LEMMA MainType ==
    ASSUME TypeOK, NEW r \in Runs, Main(r)
    PROVE  TypeOK'
<1>1. CASE Trigger(r)
  BY <1>1, WipeType, ConfigsAssumption DEF Trigger, TypeOK, Phases, world
<1>2. CASE LoadFails(r)
  BY <1>2, WipeType DEF LoadFails, TypeOK, Phases, world
<1>3. CASE Discover(r)
  <2>1. PICK found \in SUBSET Resources :
          /\ targets' = [targets EXCEPT ![r] = found]
          /\ task' = [task EXCEPT ![r] =
                       [v \in Resources |-> [Blank EXCEPT
                            !.at = IF v \in found THEN "evaluate" ELSE "none"]]]
          /\ summary' = [summary EXCEPT ![r].total = Cardinality(found)]
          /\ phase' = [phase EXCEPT ![r] =
                        IF found = {} THEN "reported" ELSE "processing"]
    BY <1>3 DEF Discover
  <2>2. \A v \in Resources :
          [Blank EXCEPT !.at = IF v \in found THEN "evaluate" ELSE "none"] \in Task
    BY BlankType DEF Task, Points
  <2>3. task' \in [Runs -> [Resources -> Task]]
    BY <2>1, <2>2 DEF TypeOK
  <2>4. summary' \in [Runs -> Summary]
    BY <2>1, CardinalityType DEF TypeOK, Summary
  <2> QED BY <1>3, <2>1, <2>3, <2>4 DEF Discover, TypeOK, Phases, world
<1>4. CASE DiscoverFails(r)
  BY <1>4 DEF DiscoverFails, TypeOK, Phases, world
<1>5. CASE Report(r)
  BY <1>5 DEF Report, TypeOK, Phases, world
<1>6. CASE Crash(r)
  BY <1>6, WipeType DEF Crash, TypeOK, Phases, world
<1> QED BY <1>1, <1>2, <1>3, <1>4, <1>5, <1>6 DEF Main

LEMMA AdvanceType ==
    ASSUME TypeOK, NEW r \in Runs, NEW v \in Resources, NEW point \in Points,
           Become(r, v, [task[r][v] EXCEPT !.at = point])
    PROVE  /\ task' \in [Runs -> [Resources -> Task]]
           /\ UNCHANGED <<phase, cfg, targets, summary>>
<1>1. [task[r][v] EXCEPT !.at = point] \in Task
  <2>1. task[r][v] \in Task
    BY DEF TypeOK
  <2> QED BY <2>1 DEF Task
<1> QED BY <1>1, BecomeType

LEMMA ToCommandType ==
    ASSUME TypeOK, NEW r \in Runs, NEW v \in Resources, ToCommand(r, v)
    PROVE  TypeOK'
<1>1. "command" \in Points
  BY DEF Points
<1> QED BY <1>1, AdvanceType DEF ToCommand, TypeOK, world

LEMMA BranchType ==
    ASSUME TypeOK, NEW r \in Runs, NEW v \in Resources, Branch(r, v)
    PROVE  TypeOK'
<1> DEFINE stored == Stored(r, v)
<1>0. /\ StartedByScheduler(stored) \in BOOLEAN
      /\ StoppedByScheduler(stored) \in BOOLEAN
      /\ Consumes(r, stored) \in BOOLEAN
  BY StoredType
<1>1. CASE AlreadyRunning(r, v)
  <2>1. RunningEntry(Consumes(r, stored), stored) \in Row
    BY <1>0, EntryType DEF LastActions, RunningEntry
  <2>2. Skipped("START") \in Outcome
    BY OutcomeType DEF Decisions
  <2> QED BY <1>1, <2>1, <2>2, ToSaveType DEF AlreadyRunning, TypeOK
<1>2. CASE RetainStopped(r, v)
  <2>1. Entry(StartedByScheduler(stored), FALSE, "SKIP_RETAIN_STOPPED") \in Row
    BY <1>0, EntryType DEF LastActions
  <2>2. Skipped("START") \in Outcome
    BY OutcomeType DEF Decisions
  <2> QED BY <1>2, <2>1, <2>2, ToSaveType DEF RetainStopped, TypeOK, world
<1>3. CASE GoStart(r, v)
  BY <1>3, ToCommandType DEF GoStart
<1>4. CASE RetainRunning(r, v)
  <2>1. Entry(FALSE, StoppedByScheduler(stored), "SKIP_RETAIN_RUNNING") \in Row
    BY <1>0, EntryType DEF LastActions
  <2>2. Skipped("STOP") \in Outcome
    BY OutcomeType DEF Decisions
  <2> QED BY <1>4, <2>1, <2>2, ToSaveType DEF RetainRunning, TypeOK, world
<1>5. CASE AlreadyStopped(r, v)
  <2>1. Entry(StartedByScheduler(stored), StoppedByScheduler(stored),
              "SKIP_ALREADY_STOPPED") \in Row
    BY <1>0, EntryType DEF LastActions
  <2>2. Skipped("STOP") \in Outcome
    BY OutcomeType DEF Decisions
  <2> QED BY <1>5, <2>1, <2>2, ToSaveType DEF AlreadyStopped, TypeOK, world
<1>6. CASE GoStop(r, v)
  BY <1>6, ToCommandType DEF GoStop
<1> QED BY <1>1, <1>2, <1>3, <1>4, <1>5, <1>6 DEF Branch
LEMMA WorkType ==
    ASSUME TypeOK, Decided, NEW r \in Runs, NEW v \in Resources, Work(r, v)
    PROVE  TypeOK'
<1>0. task[r][v] \in Task
  BY DEF TypeOK
<1>1. CASE Evaluate(r, v)
  <2>1. PICK decision \in Decisions :
          IF decision = "SKIP" \/ v \notin Handled THEN Done(r, v, Skipped(decision))
          ELSE IF cfg[r].dry_run THEN Done(r, v, Performed(decision, "DRY_RUN"))
          ELSE Become(r, v, [task[r][v] EXCEPT !.at = "observe", !.decision = decision])
    BY <1>1 DEF Evaluate
  <2>2. Skipped(decision) \in Outcome
    BY OutcomeType
  <2>3. decision # "SKIP" => Performed(decision, "DRY_RUN") \in Outcome
    BY OutcomeType DEF Decisions
  <2>4. [task[r][v] EXCEPT !.at = "observe", !.decision = decision] \in Task
    BY <1>0 DEF Task, Points
  <2>5. /\ task' \in [Runs -> [Resources -> Task]]
        /\ UNCHANGED <<phase, cfg, targets, summary>>
    BY <2>1, <2>2, <2>3, <2>4, DoneType, BecomeType
  <2> QED BY <1>1, <2>5 DEF Evaluate, TypeOK, world
<1>2. CASE Observe(r, v)
  <2>1. [task[r][v] EXCEPT !.at = "recall", !.seen = PowerState(code[v])] \in Task
    BY <1>0, PowerStateType DEF Task, Points
  <2> QED BY <1>2, <2>1, BecomeType DEF Observe, TypeOK, world
<1>3. CASE Branch(r, v)
  BY <1>3, BranchType
<1>4. CASE Command(r, v)
  <2>1. Accepted(task[r][v].decision) \in Codes
    BY DEF Accepted, Codes, RunningCodes, StoppedCodes
  <2>2. "poll" \in Points
    BY DEF Points
  <2> QED BY <1>4, <2>1, <2>2, AdvanceType DEF Command, TypeOK
<1>5. CASE Poll(r, v)
  <2> DEFINE decision == task[r][v].decision
  <2>1. decision \in {"START", "STOP"}
    BY <1>5 DEF Poll, At, Decided
  <2>2. Entry(decision = "START", decision = "STOP", decision) \in Row
    BY <2>1, EntryType DEF LastActions
  <2>3. Performed(decision, "EXECUTED") \in Outcome
    BY <2>1, OutcomeType
  <2>4. \A c \in Codes : Settled(c) \in Codes
    BY DEF Settled, Codes, RunningCodes, StoppedCodes
  <2>5. Goal(decision) \in {"running", "stopped"}
    BY DEF Goal
  <2> QED BY <1>5, <2>2, <2>3, <2>4, <2>5, ToSaveType DEF Poll, TypeOK
<1>6. CASE Save(r, v)
  <2>1. task[r][v].outcome \in Outcome
    BY <1>0 DEF Task
  <2>2. Written(r, v) \in Row \union {None}
    BY <1>0 DEF TypeOK, Written, Task
  <2> QED BY <1>6, <2>1, <2>2, DoneType DEF Save, TypeOK
<1>7. CASE Raise(r, v)
  <2>1. Written(r, v) \in Row \union {None}
    BY <1>0 DEF TypeOK, Written, Task
  <2>2. row' \in [Resources -> Row \union {None}]
    <3>1. row' = row \/ row' = [row EXCEPT ![v] = Written(r, v)]
      BY <1>7 DEF Raise
    <3> QED BY <3>1, <2>1 DEF TypeOK
  <2> QED BY <1>7, <2>2, OutcomeType, DoneType DEF Raise, TypeOK
<1>8. CASE Collect(r, v)
  <2>1. task[r][v].outcome \in Outcome
    BY <1>0 DEF Task
  <2>2. summary' \in [Runs -> Summary]
    <3>1. summary[r] \in Summary
      BY DEF TypeOK
    <3>2. \A field \in {"started", "stopped", "skipped"} : task[r][v].outcome[field] \in Nat
      BY <2>1 DEF Outcome
    <3>3. Plus(summary[r], task[r][v].outcome) \in Summary
      BY <3>1, <3>2 DEF Plus, Summary
    <3> QED BY <1>8, <3>3 DEF Collect, TypeOK
  <2>3. [task[r][v] EXCEPT !.at = "collected"] \in Task
    BY <1>0 DEF Task, Points
  <2>4. task' \in [Runs -> [Resources -> Task]]
    BY <1>8, <2>3 DEF Collect, TypeOK
  <2> QED BY <1>8, <2>2, <2>4 DEF Collect, TypeOK, world
<1> QED BY <1>1, <1>2, <1>3, <1>4, <1>5, <1>6, <1>7, <1>8 DEF Work
LEMMA OutsideType ==
    ASSUME TypeOK, NEW v \in Resources, Outside(v) \/ StateDelete(v)
    PROVE  TypeOK'
<1>1. CASE Outside(v)
  BY <1>1, OutsideCodesAssumption DEF Outside, TypeOK
<1>2. CASE StateDelete(v)
  BY <1>2 DEF StateDelete, TypeOK
<1> QED BY <1>1, <1>2

-----------------------------------------------------------------------------
(* A step of a worker replaces its task by one that is as good, and leaves *)
(* everything else alone but the row, the claims and the code of its VM.   *)

Good(c, claims, t) ==
    /\ t.at \in {"observe", "recall", "command", "poll"} => t.decision \in {"START", "STOP"}
    /\ t.entry # None => /\ ~(t.entry.started /\ t.entry.stopped)
                         /\ t.entry.started => "running" \in claims
                         /\ t.entry.stopped => "stopped" \in claims
    /\ t.at = "command" => /\ t.decision = "STOP" /\ t.seen = "running" /\ c.retain_running
                               => "running" \in claims
                           /\ t.decision = "START" /\ t.seen = "stopped" /\ c.retain_stopped
                               => "stopped" \in claims

Replaces(r, v, t) ==
    /\ task' = [task EXCEPT ![r][v] = t]
    /\ task[r][v].at # "none" /\ t.at # "none"
    /\ phase[r] = "processing"
    /\ UNCHANGED <<phase, cfg, targets>>
    /\ claimed' = claimed \/ \E S \in SUBSET {"running", "stopped"} :
                                claimed' = [claimed EXCEPT ![v] = @ \union S]
    /\ row' = row \/ row' = [row EXCEPT ![v] = task[r][v].entry]
    /\ Good(cfg[r], claimed'[v], t)

LEMMA GoodNow ==
    ASSUME IInv, NEW r \in Runs, NEW v \in Resources, phase[r] = "processing"
    PROVE  Good(cfg[r], claimed[v], task[r][v])
BY DEF IInv, Good, Decided, FlagsGrounded, Grounds, FlagsExclusive, Exclusive,
       NoForeignStop, NoForeignStart, At

LEMMA GoodDone ==
    ASSUME NEW c, NEW claims, NEW o \in Outcome
    PROVE  /\ Good(c, claims, [Blank EXCEPT !.at = "done", !.outcome = o])
           /\ [Blank EXCEPT !.at = "done", !.outcome = o].at = "done"
BY DEF Good, Blank

LEMMA GoodSave ==
    ASSUME NEW c, NEW claims, NEW o, NEW e,
           ~(e.started /\ e.stopped),
           e.started => "running" \in claims,
           e.stopped => "stopped" \in claims
    PROVE  /\ Good(c, claims, [Blank EXCEPT !.at = "save", !.entry = e, !.outcome = o])
           /\ [Blank EXCEPT !.at = "save", !.entry = e, !.outcome = o].at = "save"
BY DEF Good, Blank

(* What the flags of the row a worker has read stand for.                  *)
LEMMA StoredGood ==
    ASSUME IInv, NEW r \in Runs, NEW v \in Resources
    PROVE  LET stored == Stored(r, v) IN
           /\ ~(StartedByScheduler(stored) /\ StoppedByScheduler(stored))
           /\ StartedByScheduler(stored) => "running" \in claimed[v]
           /\ StoppedByScheduler(stored) => "stopped" \in claimed[v]
BY DEF IInv, Stored, StartedByScheduler, StoppedByScheduler, FlagsGrounded, Grounds,
       FlagsExclusive, Exclusive

LEMMA BranchReplaces ==
    ASSUME IInv, NEW r \in Runs, NEW v \in Resources, Branch(r, v)
    PROVE  \E t : Replaces(r, v, t)
<1> DEFINE stored == Stored(r, v)
           T(t) == [task EXCEPT ![r][v] = t]
           saving(e, o) == [Blank EXCEPT !.at = "save", !.entry = e, !.outcome = o]
           going == [task[r][v] EXCEPT !.at = "command"]
<1>0. /\ StartedByScheduler(stored) \in BOOLEAN
      /\ StoppedByScheduler(stored) \in BOOLEAN
      /\ Consumes(r, stored) \in BOOLEAN
      /\ task[r][v] \in Task
  BY StoredType DEF IInv, TypeOK
<1>c. /\ ~(StartedByScheduler(stored) /\ StoppedByScheduler(stored))
      /\ StartedByScheduler(stored) => "running" \in claimed[v]
      /\ StoppedByScheduler(stored) => "stopped" \in claimed[v]
  BY StoredGood
<1> HIDE DEF stored
<1>a. task[r][v].at = "recall" /\ phase[r] = "processing"
  BY DEF Branch, AlreadyRunning, RetainStopped, GoStart, RetainRunning, AlreadyStopped,
         GoStop, Recalling, At
<1>b. Good(cfg[r], claimed[v], task[r][v])
  BY <1>a, GoodNow
<1>1. CASE AlreadyRunning(r, v)
  <2> DEFINE adopts == Consumes(r, stored)
             e == RunningEntry(adopts, stored)
             t == saving(e, Skipped("START"))
  <2>1. claimed' = [claimed EXCEPT ![v] = @ \union IF adopts THEN {"running"} ELSE {}]
    BY <1>1 DEF stored, AlreadyRunning
  <2>2. /\ ~(e.started /\ e.stopped)
        /\ e.started => "running" \in claimed'[v]
        /\ e.stopped => "stopped" \in claimed'[v]
    BY <1>0, <2>1, <1>c DEF IInv, TypeOK, RunningEntry, Entry
  <2>3. Good(cfg[r], claimed'[v], t) /\ t.at = "save"
    <3> HIDE DEF e
    <3> QED BY <2>2, GoodSave
  <2>4. \E S \in SUBSET {"running", "stopped"} : claimed' = [claimed EXCEPT ![v] = @ \union S]
    BY <2>1
  <2>5. task' = T(t) /\ UNCHANGED <<phase, cfg, targets, row>>
    BY <1>1 DEF stored, AlreadyRunning, ToSave, Become
  <2> HIDE DEF t
  <2> QED BY <1>a, <2>3, <2>4, <2>5 DEF Replaces
<1>2. CASE RetainStopped(r, v)
  <2> DEFINE e == Entry(StartedByScheduler(stored), FALSE, "SKIP_RETAIN_STOPPED")
             t == saving(e, Skipped("START"))
  <2>0. /\ ~(e.started /\ e.stopped)
        /\ e.started => "running" \in claimed[v]
        /\ e.stopped => "stopped" \in claimed[v]
    BY <1>0, <1>c DEF Entry
  <2>1. Good(cfg[r], claimed[v], t) /\ t.at = "save"
    <3> HIDE DEF e
    <3> QED BY <2>0, GoodSave
  <2>2. task' = T(t) /\ UNCHANGED <<phase, cfg, targets, row, claimed>>
    BY <1>2 DEF stored, RetainStopped, ToSave, Become, world
  <2> HIDE DEF t
  <2> QED BY <1>a, <2>1, <2>2 DEF Replaces
<1>3. CASE GoStart(r, v)
  <2>1. Good(cfg[r], claimed[v], going) /\ going.at = "command"
    <3>1. cfg[r].retain_stopped /\ task[r][v].seen = "stopped" => "stopped" \in claimed[v]
      BY <1>3, <1>c DEF stored, GoStart, KeepsStopped
    <3> QED BY <1>0, <1>3, <1>a, <1>b, <3>1 DEF Good, GoStart, Recalling, Task
  <2>2. task' = T(going) /\ UNCHANGED <<phase, cfg, targets, row, claimed>>
    BY <1>3 DEF GoStart, ToCommand, Become, world
  <2> HIDE DEF going
  <2> QED BY <1>a, <2>1, <2>2 DEF Replaces
<1>4. CASE RetainRunning(r, v)
  <2> DEFINE e == Entry(FALSE, StoppedByScheduler(stored), "SKIP_RETAIN_RUNNING")
             t == saving(e, Skipped("STOP"))
  <2>0. /\ ~(e.started /\ e.stopped)
        /\ e.started => "running" \in claimed[v]
        /\ e.stopped => "stopped" \in claimed[v]
    BY <1>0, <1>c DEF Entry
  <2>1. Good(cfg[r], claimed[v], t) /\ t.at = "save"
    <3> HIDE DEF e
    <3> QED BY <2>0, GoodSave
  <2>2. task' = T(t) /\ UNCHANGED <<phase, cfg, targets, row, claimed>>
    BY <1>4 DEF stored, RetainRunning, ToSave, Become, world
  <2> HIDE DEF t
  <2> QED BY <1>a, <2>1, <2>2 DEF Replaces
<1>5. CASE AlreadyStopped(r, v)
  <2> DEFINE e == Entry(StartedByScheduler(stored), StoppedByScheduler(stored),
                      "SKIP_ALREADY_STOPPED")
             t == saving(e, Skipped("STOP"))
  <2>0. /\ ~(e.started /\ e.stopped)
        /\ e.started => "running" \in claimed[v]
        /\ e.stopped => "stopped" \in claimed[v]
    BY <1>0, <1>c DEF Entry
  <2>1. Good(cfg[r], claimed[v], t) /\ t.at = "save"
    <3> HIDE DEF e
    <3> QED BY <2>0, GoodSave
  <2>2. task' = T(t) /\ UNCHANGED <<phase, cfg, targets, row, claimed>>
    BY <1>5 DEF stored, AlreadyStopped, ToSave, Become, world
  <2> HIDE DEF t
  <2> QED BY <1>a, <2>1, <2>2 DEF Replaces
<1>6. CASE GoStop(r, v)
  <2>1. Good(cfg[r], claimed[v], going) /\ going.at = "command"
    <3>1. cfg[r].retain_running /\ task[r][v].seen = "running" => "running" \in claimed[v]
      BY <1>6, <1>c DEF stored, GoStop, KeepsRunning
    <3> QED BY <1>0, <1>6, <1>a, <1>b, <3>1 DEF Good, GoStop, Recalling, Task
  <2>2. task' = T(going) /\ UNCHANGED <<phase, cfg, targets, row, claimed>>
    BY <1>6 DEF GoStop, ToCommand, Become, world
  <2> HIDE DEF going
  <2> QED BY <1>a, <2>1, <2>2 DEF Replaces
<1> QED BY <1>1, <1>2, <1>3, <1>4, <1>5, <1>6 DEF Branch
LEMMA WorkReplaces ==
    ASSUME IInv, NEW r \in Runs, NEW v \in Resources, Work(r, v)
    PROVE  \E t : Replaces(r, v, t)
<1> DEFINE ended(o) == [Blank EXCEPT !.at = "done", !.outcome = o]
<1>0. task[r][v] \in Task /\ TypeOK /\ Decided
  BY DEF IInv, TypeOK
<1>a. phase[r] = "processing" /\ task[r][v].at # "none"
  BY DEF Work, Evaluate, Observe, Branch, AlreadyRunning, RetainStopped, GoStart,
         RetainRunning, AlreadyStopped, GoStop, Recalling, Command, Poll, Save, Raise,
         Collect, At
<1>b. Good(cfg[r], claimed[v], task[r][v])
  BY <1>a, GoodNow
<1>d. ASSUME NEW o \in Outcome, Done(r, v, o), UNCHANGED claimed,
             row' = row \/ row' = [row EXCEPT ![v] = task[r][v].entry]
      PROVE  Replaces(r, v, ended(o))
  <2>1. Good(cfg[r], claimed[v], ended(o)) /\ ended(o).at = "done"
    BY GoodDone
  <2>2. task' = [task EXCEPT ![r][v] = ended(o)] /\ UNCHANGED <<phase, cfg, targets>>
    BY <1>d DEF Done, Become
  <2> HIDE DEF ended
  <2> QED BY <1>a, <1>d, <2>1, <2>2 DEF Replaces
<1>1. CASE Evaluate(r, v)
  <2>1. PICK decision \in Decisions :
          IF decision = "SKIP" \/ v \notin Handled THEN Done(r, v, Skipped(decision))
          ELSE IF cfg[r].dry_run THEN Done(r, v, Performed(decision, "DRY_RUN"))
          ELSE Become(r, v, [task[r][v] EXCEPT !.at = "observe", !.decision = decision])
    BY <1>1 DEF Evaluate
  <2>2. UNCHANGED <<row, claimed>>
    BY <1>1 DEF Evaluate, world
  <2>3. CASE Done(r, v, Skipped(decision))
    BY <2>2, <2>3, <1>d, OutcomeType
  <2>4. CASE decision # "SKIP" /\ Done(r, v, Performed(decision, "DRY_RUN"))
    BY <2>2, <2>4, <1>d, OutcomeType DEF Decisions
  <2>5. CASE /\ decision # "SKIP"
             /\ Become(r, v, [task[r][v] EXCEPT !.at = "observe", !.decision = decision])
    <3> DEFINE t == [task[r][v] EXCEPT !.at = "observe", !.decision = decision]
    <3>1. Good(cfg[r], claimed[v], t) /\ t.at = "observe"
      BY <1>0, <1>b, <2>5 DEF Good, Task, Decisions
    <3>2. task' = [task EXCEPT ![r][v] = t] /\ UNCHANGED <<phase, cfg, targets>>
      BY <2>5 DEF Become
    <3> HIDE DEF t
    <3> QED BY <1>a, <2>2, <3>1, <3>2 DEF Replaces
  <2> QED BY <2>1, <2>3, <2>4, <2>5
<1>2. CASE Observe(r, v)
  <2> DEFINE t == [task[r][v] EXCEPT !.at = "recall", !.seen = PowerState(code[v])]
  <2>1. Good(cfg[r], claimed[v], t) /\ t.at = "recall"
    BY <1>0, <1>b, <1>2 DEF Good, Task, Observe, At
  <2>2. task' = [task EXCEPT ![r][v] = t] /\ UNCHANGED <<phase, cfg, targets, row, claimed>>
    BY <1>2 DEF Observe, Become, world
  <2> HIDE DEF t
  <2> QED BY <1>a, <2>1, <2>2 DEF Replaces
<1>3. CASE Branch(r, v)
  BY <1>3, BranchReplaces
<1>4. CASE Command(r, v)
  <2> DEFINE t == [task[r][v] EXCEPT !.at = "poll"]
  <2>1. Good(cfg[r], claimed[v], t) /\ t.at = "poll"
    BY <1>0, <1>b, <1>4 DEF Good, Task, Command, At
  <2>2. task' = [task EXCEPT ![r][v] = t] /\ UNCHANGED <<phase, cfg, targets, row, claimed>>
    BY <1>4 DEF Command, Become
  <2> HIDE DEF t
  <2> QED BY <1>a, <2>1, <2>2 DEF Replaces
<1>5. CASE Poll(r, v)
  <2> DEFINE decision == task[r][v].decision
             e == Entry(decision = "START", decision = "STOP", decision)
             t == [Blank EXCEPT !.at = "save", !.entry = e,
                                !.outcome = Performed(decision, "EXECUTED")]
  <2>1. decision \in {"START", "STOP"}
    BY <1>0, <1>5 DEF Decided, Poll, At
  <2>2. claimed' = [claimed EXCEPT ![v] = @ \union {Goal(decision)}]
    BY <1>5 DEF Poll
  <2>3. {Goal(decision)} \in SUBSET {"running", "stopped"}
    BY DEF Goal
  <2>4. /\ ~(e.started /\ e.stopped)
        /\ e.started => "running" \in claimed'[v]
        /\ e.stopped => "stopped" \in claimed'[v]
    BY <1>0, <2>1, <2>2 DEF TypeOK, Entry, Goal
  <2>5. Good(cfg[r], claimed'[v], t) /\ t.at = "save"
    <3> HIDE DEF e
    <3> QED BY <2>4, GoodSave
  <2>6. task' = [task EXCEPT ![r][v] = t] /\ UNCHANGED <<phase, cfg, targets, row>>
    BY <1>5 DEF Poll, ToSave, Become
  <2> HIDE DEF t, decision
  <2> QED BY <1>a, <2>2, <2>3, <2>5, <2>6 DEF Replaces
<1>6. CASE Save(r, v)
  <2>1. task[r][v].outcome \in Outcome
    BY <1>0 DEF Task
  <2>2. row' = row \/ row' = [row EXCEPT ![v] = task[r][v].entry]
    <3>1. CASE UsesTable(r)
      BY <1>6, <3>1 DEF Save, Written
    <3>2. CASE ~UsesTable(r)
      BY <1>0, <1>6, <3>2 DEF Save, Written, TypeOK
    <3> QED BY <3>1, <3>2
  <2> QED BY <1>6, <2>1, <2>2, <1>d DEF Save
<1>7. CASE Raise(r, v)
  <2>1. row' = row \/ row' = [row EXCEPT ![v] = task[r][v].entry]
    <3>1. row' = row \/ row' = [row EXCEPT ![v] = Written(r, v)]
      BY <1>7 DEF Raise
    <3> QED BY <1>0, <3>1 DEF Written, TypeOK
  <2> QED BY <1>7, <2>1, <1>d, OutcomeType DEF Raise
<1>8. CASE Collect(r, v)
  <2> DEFINE t == [task[r][v] EXCEPT !.at = "collected"]
  <2>1. Good(cfg[r], claimed[v], t) /\ t.at = "collected"
    BY <1>0, <1>b, <1>8 DEF Good, Task, Collect, At
  <2>2. task' = [task EXCEPT ![r][v] = t] /\ UNCHANGED <<phase, cfg, targets, row, claimed>>
    BY <1>8 DEF Collect, world
  <2> HIDE DEF t
  <2> QED BY <1>a, <2>1, <2>2 DEF Replaces
<1> QED BY <1>1, <1>2, <1>3, <1>4, <1>5, <1>6, <1>7, <1>8 DEF Work
-----------------------------------------------------------------------------
(* The inductive invariant.                                                *)

LEMMA InitIInv == Init => IInv
<1> SUFFICES ASSUME Init PROVE IInv
  OBVIOUS
<1>1. TypeOK
  BY InitType
<1>2. \A r \in Runs, v \in Resources :
        task[r][v] = Blank /\ Blank.at = "none" /\ Blank.entry = None
  BY DEF Init, Blank
<1>3. Decided /\ Assigned /\ FlagsGrounded /\ FlagsExclusive
  BY <1>2 DEF Init, Decided, Assigned, FlagsGrounded, Grounds, FlagsExclusive, Exclusive
<1>4. NoForeignStop /\ NoForeignStart
  BY <1>2 DEF NoForeignStop, NoForeignStart, At
<1> QED BY <1>1, <1>3, <1>4 DEF IInv

(* A run that begins, ends or dies has either kept its workers as they     *)
(* were or has only blank and fresh ones.                                  *)
LEMMA MainIInv ==
    ASSUME IInv, NEW r \in Runs, Main(r)
    PROVE  IInv'
<1>0. TypeOK /\ TypeOK'
  BY MainType DEF IInv
<1>1. UNCHANGED <<row, claimed>>
  BY DEF Main, Trigger, LoadFails, Discover, DiscoverFails, Report, Crash, world
<1>2. \A v \in Resources : \/ task'[r][v] = task[r][v]
                           \/ /\ task'[r][v].at \in {"none", "evaluate"}
                              /\ task'[r][v].entry = None
  <2>1. CASE Wipe(r)
    BY <1>0, <2>1 DEF Wipe, Blank, TypeOK
  <2>2. CASE Discover(r)
    BY <1>0, <2>2 DEF Discover, Blank, TypeOK
  <2>3. CASE task' = task
    BY <2>3
  <2> QED BY <2>1, <2>2, <2>3 DEF Main, Trigger, LoadFails, DiscoverFails, Report, Crash
<1>3. \A q \in Runs \ {r} : /\ phase'[q] = phase[q] /\ cfg'[q] = cfg[q]
                            /\ targets'[q] = targets[q] /\ task'[q] = task[q]
  BY <1>0 DEF Main, Trigger, LoadFails, Discover, DiscoverFails, Report, Crash, Wipe, TypeOK
<1>4. Decided'
  BY <1>2, <1>3 DEF IInv, Decided
<1>5. Assigned'
  <2>1. CASE Wipe(r) /\ phase'[r] # "processing"
    BY <1>0, <1>3, <2>1 DEF IInv, Assigned, Wipe, Blank, TypeOK
  <2>2. CASE Discover(r)
    <3>1. \A v \in Resources : task'[r][v].at # "none" <=> v \in targets'[r]
      BY <1>0, <2>2 DEF Discover, Blank, TypeOK
    <3>2. phase'[r] \in {"reported", "processing"}
      BY <1>0, <2>2 DEF Discover, TypeOK
    <3> QED BY <1>3, <3>1, <3>2 DEF IInv, Assigned
  <2>3. CASE DiscoverFails(r)
    BY <1>0, <1>3, <2>3 DEF IInv, Assigned, DiscoverFails, TypeOK
  <2>4. CASE Report(r)
    BY <1>0, <1>3, <2>4 DEF IInv, Assigned, Report, TypeOK
  <2>5. Trigger(r) \/ LoadFails(r) \/ Crash(r) => Wipe(r) /\ phase'[r] # "processing"
    BY <1>0 DEF Trigger, LoadFails, Crash, TypeOK
  <2> QED BY <2>1, <2>2, <2>3, <2>4, <2>5 DEF Main
<1>6. FlagsGrounded' /\ FlagsExclusive'
  BY <1>1, <1>2, <1>3 DEF IInv, FlagsGrounded, Grounds, FlagsExclusive, Exclusive
<1>7. NoForeignStop' /\ NoForeignStart'
  <2>1. \A v \in Resources : ~At(r, v, "command")'
    <3>1. phase'[r] = "processing" => Discover(r)
      BY <1>0 DEF Main, Trigger, LoadFails, Discover, DiscoverFails, Report, Crash, TypeOK
    <3>2. Discover(r) => \A v \in Resources : task'[r][v].at \in {"none", "evaluate"}
      BY <1>0 DEF Discover, Blank, TypeOK
    <3> QED BY <3>1, <3>2 DEF At
  <2> QED BY <1>1, <1>3, <2>1 DEF IInv, NoForeignStop, NoForeignStart, At
<1> QED BY <1>0, <1>4, <1>5, <1>6, <1>7 DEF IInv

LEMMA WorkIInv ==
    ASSUME IInv, NEW r \in Runs, NEW v \in Resources, Work(r, v)
    PROVE  IInv'
<1>0. TypeOK /\ TypeOK'
  BY WorkType DEF IInv
<1>1. PICK t : Replaces(r, v, t)
  BY WorkReplaces
<1>2. /\ task'[r][v] = t
      /\ \A q \in Runs, w \in Resources : q # r \/ w # v => task'[q][w] = task[q][w]
      /\ UNCHANGED <<phase, cfg, targets>>
  BY <1>0, <1>1 DEF Replaces, TypeOK
<1>3. \A w \in Resources : claimed[w] \subseteq claimed'[w]
  <2>1. CASE claimed' = claimed
    BY <2>1
  <2>2. ASSUME NEW S, claimed' = [claimed EXCEPT ![v] = @ \union S]
        PROVE  \A w \in Resources : claimed[w] \subseteq claimed'[w]
    <3>1. claimed \in [Resources -> SUBSET {"running", "stopped"}]
      BY <1>0 DEF TypeOK
    <3>2. claimed'[v] = claimed[v] \union S
      BY <2>2, <3>1
    <3>3. \A w \in Resources \ {v} : claimed'[w] = claimed[w]
      BY <2>2, <3>1
    <3> QED BY <3>2, <3>3
  <2> QED BY <1>1, <2>1, <2>2 DEF Replaces
<1>4. Good(cfg[r], claimed'[v], t)
  BY <1>1 DEF Replaces
<1>5. Decided'
  BY <1>2, <1>4 DEF IInv, Decided, Good
<1>6. Assigned'
  BY <1>1, <1>2 DEF IInv, Assigned, Replaces
<1>7. \A w \in Resources : row'[w] = row[w] \/ (w = v /\ row'[w] = task[r][v].entry)
  BY <1>0, <1>1 DEF Replaces, TypeOK
<1>8. FlagsGrounded'
  BY <1>2, <1>3, <1>4, <1>7 DEF IInv, FlagsGrounded, Grounds, Good
<1>9. FlagsExclusive'
  BY <1>2, <1>4, <1>7 DEF IInv, FlagsExclusive, Exclusive, Good
<1>10. NoForeignStop' /\ NoForeignStart'
  BY <1>2, <1>3, <1>4 DEF IInv, NoForeignStop, NoForeignStart, At, Good
<1> QED BY <1>0, <1>5, <1>6, <1>8, <1>9, <1>10 DEF IInv

LEMMA OutsideIInv ==
    ASSUME IInv, NEW v \in Resources, Outside(v) \/ StateDelete(v)
    PROVE  IInv'
<1>0. TypeOK /\ TypeOK'
  BY OutsideType DEF IInv
<1>1. UNCHANGED <<phase, cfg, targets, task, claimed>>
  BY DEF Outside, StateDelete
<1>2. \A w \in Resources : row'[w] = row[w] \/ row'[w] = None
  BY <1>0 DEF Outside, StateDelete, TypeOK
<1> QED BY <1>0, <1>1, <1>2 DEF IInv, Decided, Assigned, FlagsGrounded, Grounds,
        FlagsExclusive, Exclusive, NoForeignStop, NoForeignStart, At

LEMMA NextIInv == IInv /\ [Next]_vars => IInv'
<1> SUFFICES ASSUME IInv, [Next]_vars PROVE IInv'
  OBVIOUS
<1>1. ASSUME NEW r \in Runs, Main(r) PROVE IInv'
  BY <1>1, MainIInv
<1>2. ASSUME NEW r \in Runs, NEW v \in Resources, Work(r, v) PROVE IInv'
  BY <1>2, WorkIInv
<1>3. ASSUME NEW v \in Resources, Outside(v) \/ StateDelete(v) PROVE IInv'
  BY <1>3, OutsideIInv
<1>4. CASE UNCHANGED vars
  BY <1>4 DEF vars, IInv, TypeOK, Decided, Assigned, FlagsGrounded, Grounds,
        FlagsExclusive, Exclusive, NoForeignStop, NoForeignStart, At
<1> QED BY <1>1, <1>2, <1>3, <1>4 DEF Next

(* In every reachable state the types are right, every worker has a        *)
(* resource and a decision, every flag has a ground.                       *)
THEOREM Invariance == Spec => []IInv
<1>1. Init => IInv
  BY InitIInv
<1>2. IInv /\ [Next]_vars => IInv'
  BY NextIInv
<1> QED BY <1>1, <1>2, PTL DEF Spec

(* The state table and every write on its way there claim at most one of   *)
(* "started" and "stopped", under any interleaving of any number of runs.  *)
THEOREM ExclusiveFlags == Spec => []FlagsExclusive
<1>1. IInv => FlagsExclusive
  BY DEF IInv
<1> QED BY <1>1, Invariance, PTL

(* With retain_running, no run is ever about to stop a VM it has seen      *)
(* running that the scheduler neither started nor adopted.                 *)
THEOREM NeverStopsForeign == Spec => []NoForeignStop
<1>1. IInv => NoForeignStop
  BY DEF IInv
<1> QED BY <1>1, Invariance, PTL

(* With retain_stopped, no run is ever about to start a VM it has seen     *)
(* stopped that the scheduler never stopped.                               *)
THEOREM NeverStartsForeign == Spec => []NoForeignStart
<1>1. IInv => NoForeignStart
  BY DEF IInv
<1> QED BY <1>1, Invariance, PTL

-----------------------------------------------------------------------------
(* How a run comes to its end.                                             *)

(* How far a worker has come.                                              *)
Passed ==
    [point \in Points |->
        CASE point = "none" -> 0
          [] point = "evaluate" -> 1
          [] point = "observe" -> 2
          [] point = "recall" -> 3
          [] point = "command" -> 4
          [] point = "poll" -> 5
          [] point = "save" -> 6
          [] point = "done" -> 7
          [] point = "collected" -> 8]

Further(r, v) == Passed[task[r][v].at] < Passed[task'[r][v].at]

LEMMA BranchForward ==
    ASSUME TypeOK, NEW r \in Runs, NEW v \in Resources, Branch(r, v)
    PROVE  Further(r, v)
<1>1. task[r][v].at = "recall"
  BY DEF Branch, AlreadyRunning, RetainStopped, GoStart, RetainRunning, AlreadyStopped,
         GoStop, Recalling, At
<1>2. task'[r][v].at \in {"save", "command"}
  <2>1. ASSUME NEW entry, NEW outcome, ToSave(r, v, entry, outcome)
        PROVE  task'[r][v].at = "save"
    BY <2>1 DEF ToSave, Become, TypeOK, Blank
  <2>2. ASSUME ToCommand(r, v) PROVE task'[r][v].at = "command"
    BY <2>2 DEF ToCommand, Become, TypeOK, Task
  <2> QED
    BY <2>1, <2>2 DEF Branch, AlreadyRunning, RetainStopped, GoStart, RetainRunning,
                      AlreadyStopped, GoStop
<1> QED BY <1>1, <1>2 DEF Further, Passed, Points

LEMMA WorkForward ==
    ASSUME TypeOK, NEW r \in Runs, NEW v \in Resources, Work(r, v)
    PROVE  Further(r, v)
<1> USE DEF Further, Passed, Points
<1>1. ASSUME NEW outcome, Done(r, v, outcome) PROVE task'[r][v].at = "done"
  BY <1>1 DEF Done, Become, TypeOK, Blank
<1>2. ASSUME NEW point \in Points, Become(r, v, [task[r][v] EXCEPT !.at = point])
      PROVE  task'[r][v].at = point
  BY <1>2 DEF Become, TypeOK, Task
<1>3. CASE Evaluate(r, v)
  <2>1. task[r][v].at = "evaluate"
    BY <1>3 DEF Evaluate, At
  <2>2. task'[r][v].at \in {"done", "observe"}
    <3>1. ASSUME NEW decision,
                 Become(r, v, [task[r][v] EXCEPT !.at = "observe", !.decision = decision])
          PROVE  task'[r][v].at = "observe"
      BY <3>1 DEF Become, TypeOK, Task
    <3> QED BY <1>1, <1>3, <3>1 DEF Evaluate
  <2> QED BY <2>1, <2>2
<1>4. CASE Observe(r, v)
  BY <1>4 DEF Observe, At, Become, TypeOK, Task
<1>5. CASE Command(r, v)
  BY <1>2, <1>5 DEF Command, At
<1>6. CASE Poll(r, v)
  BY <1>6 DEF Poll, At, ToSave, Become, TypeOK, Blank
<1>7. CASE Save(r, v)
  BY <1>1, <1>7 DEF Save, At
<1>8. CASE Raise(r, v)
  BY <1>1, <1>8 DEF Raise, At
<1>9. CASE Collect(r, v)
  BY <1>9 DEF Collect, At, TypeOK, Task
<1> QED BY <1>3, <1>4, <1>5, <1>6, <1>7, <1>8, <1>9, BranchForward DEF Work

(* main() goes through its phases in order, and a worker through its calls *)
(* in order (_process_resource): whatever fails and whatever others do, a  *)
(* run takes a worker at most once through a command, a poll or a save,    *)
(* repeats nothing, and has a bounded number of steps.                     *)
OnlyForward(r) ==
    /\ phase'[r] # phase[r] =>
         Over(r) \/ Over(r)' \/ (phase[r] = "loaded" /\ phase'[r] = "processing")
    /\ phase[r] = "processing" /\ phase'[r] = "processing" =>
         \A v \in Resources : task'[r][v] # task[r][v] => Further(r, v)
    /\ \A v \in Resources : Work(r, v) => phase'[r] = phase[r] /\ Further(r, v)

THEOREM RunsGoForward == Spec => [][\A r \in Runs : OnlyForward(r)]_vars
<1>1. ASSUME IInv, [Next]_vars, NEW r \in Runs PROVE OnlyForward(r)
  <2>0. TypeOK
    BY <1>1 DEF IInv
  <2>1. ASSUME NEW q \in Runs, NEW w \in Resources, Work(q, w)
        PROVE  /\ UNCHANGED phase
               /\ Further(q, w)
               /\ \A v \in Resources : r # q \/ v # w => task'[r][v] = task[r][v]
    <3>1. PICK t : Replaces(q, w, t)
      BY <1>1, <2>1, WorkReplaces
    <3>2. \A v \in Resources : r # q \/ v # w => task'[r][v] = task[r][v]
      BY <2>0, <3>1 DEF Replaces, TypeOK
    <3> QED BY <2>0, <2>1, <3>1, <3>2, WorkForward DEF Replaces
  <2>2. \A v \in Resources : Work(r, v) => phase'[r] = phase[r] /\ Further(r, v)
    BY <2>1
  <2>3. ASSUME NEW q \in Runs, Main(q)
        PROVE  /\ phase'[r] # phase[r] =>
                    Over(r) \/ Over(r)' \/ (phase[r] = "loaded" /\ phase'[r] = "processing")
               /\ phase[r] = "processing" /\ phase'[r] = "processing" => task'[r] = task[r]
    BY <2>0, <2>3 DEF Main, Trigger, LoadFails, Discover, DiscoverFails, Report, Crash,
                      Over, Wipe, TypeOK
  <2>4. CASE UNCHANGED vars
    BY <2>2, <2>4 DEF OnlyForward, vars
  <2>5. CASE \E q \in Runs : Main(q)
    BY <2>2, <2>3, <2>5 DEF OnlyForward
  <2>6. CASE \E q \in Runs, w \in Resources : Work(q, w)
    BY <2>1, <2>2, <2>6 DEF OnlyForward
  <2>7. CASE \E v \in Resources : Outside(v) \/ StateDelete(v)
    BY <2>2, <2>7 DEF Outside, StateDelete, OnlyForward
  <2> QED BY <1>1, <2>4, <2>5, <2>6, <2>7 DEF Next
<1>2. IInv /\ [Next]_vars => \A r \in Runs : OnlyForward(r)
  BY <1>1
<1> QED BY <1>2, Invariance, PTL DEF Spec

(* A run that is under way never waits for nothing: if it cannot report    *)
(* yet then one of its workers has a call to make, or a future to hand     *)
(* over, or there is room for one in the pool.                             *)
CanGoOn(r, v) ==
    \/ task[r][v].at = "evaluate" /\ Cardinality(Busy(r)) < Workers(r)
    \/ task[r][v].at = "recall" /\ task[r][v].decision \in {"START", "STOP"}
    \/ task[r][v].at \in {"observe", "command", "poll", "save", "done"}

NoStall ==
    \A r \in Runs : phase[r] = "processing" =>
        \/ \A v \in targets[r] : task[r][v].at = "collected"
        \/ \E v \in targets[r] : CanGoOn(r, v)

LEMMA WorkersFor ==
    ASSUME NEW S \in SUBSET Resources
    PROVE  LET workers == Min({Max({1, MaxWorkers}), Cardinality(S)})
           IN  workers \in Nat /\ (S # {} => 0 < workers)
<1> DEFINE count == Cardinality(S)
           atLeast == Max({1, MaxWorkers})
<1>1. count \in Nat /\ (S # {} => 0 < count)
  <2>1. IsFiniteSet(S)
    BY ResourcesFinite, FS_Subset
  <2> QED BY <2>1, FS_CardinalityType, FS_EmptySet
<1>2. atLeast \in Int /\ 1 <= atLeast
  <2>1. PICK m \in {1, MaxWorkers} : \A x \in {1, MaxWorkers} : x <= m
    BY MaxWorkersAssumption
  <2>2. atLeast \in {1, MaxWorkers} /\ \A x \in {1, MaxWorkers} : x <= atLeast
    BY <2>1 DEF Max
  <2> QED BY <2>2, MaxWorkersAssumption
<1> HIDE DEF count, atLeast
<1>3. Min({atLeast, count}) \in {atLeast, count}
  <2>1. PICK m \in {atLeast, count} : \A x \in {atLeast, count} : m <= x
    BY <1>1, <1>2
  <2> QED BY <2>1 DEF Min
<1> QED BY <1>1, <1>2, <1>3 DEF count, atLeast

(* However small MAX_WORKERS is, and below one too, whatever has failed    *)
(* and whatever others have done, no run comes to a standstill (run,       *)
(* service.py:100).                                                        *)
THEOREM RunsNeverStall == Spec => []NoStall
<1>1. IInv => NoStall
  <2> SUFFICES ASSUME IInv, NEW r \in Runs, phase[r] = "processing",
                      NEW v \in targets[r], task[r][v].at # "collected"
               PROVE  \E w \in targets[r] : CanGoOn(r, w)
    BY DEF NoStall
  <2>1. TypeOK /\ v \in Resources /\ targets[r] \subseteq Resources
    BY DEF IInv, TypeOK
  <2>2. CASE Busy(r) = {}
    <3>1. task[r][v].at \in {"evaluate", "done"}
      BY <2>1, <2>2 DEF IInv, Assigned, Busy, TypeOK, Task, Points
    <3>2. Cardinality(Busy(r)) < Workers(r)
      BY <2>1, <2>2, WorkersFor, FS_EmptySet DEF Workers
    <3> QED BY <3>1, <3>2 DEF CanGoOn
  <2>3. CASE Busy(r) # {}
    <3>1. PICK w \in targets[r] :
            task[r][w].at \in {"observe", "recall", "command", "poll", "save"}
      BY <2>3 DEF Busy
    <3> QED BY <2>1, <3>1 DEF IInv, Decided, CanGoOn
  <2> QED BY <2>2, <2>3
<1> QED BY <1>1, Invariance, PTL

(* The pool never has more resources under way than MAX_WORKERS allows,    *)
(* however the calls of the workers of this and of other runs interleave.  *)
PoolBounded == \A r \in Runs : Cardinality(Busy(r)) <= Workers(r)

LEMMA BusyFinite ==
    ASSUME TypeOK, NEW r \in Runs
    PROVE  IsFiniteSet(Busy(r)) /\ Cardinality(Busy(r)) \in Nat
<1>1. Busy(r) \subseteq Resources
  BY DEF Busy, TypeOK
<1> QED BY <1>1, ResourcesFinite, FS_Subset, FS_CardinalityType

(* Only a worker that has just been given its resource is one more.        *)
LEMMA BusyGrows ==
    ASSUME IInv, NEW r \in Runs, NEW v \in Resources, Work(r, v)
    PROVE  /\ Busy(r)' \subseteq Busy(r) \union {v}
           /\ ~Evaluate(r, v) => Busy(r)' \subseteq Busy(r)
<1>0. TypeOK /\ task[r][v] \in Task /\ v \in targets[r]
  <2>1. PICK t : Replaces(r, v, t)
    BY WorkReplaces
  <2> QED BY <2>1 DEF IInv, TypeOK, Assigned, Replaces
<1>1. PICK t : Replaces(r, v, t)
  BY WorkReplaces
<1>2. targets' = targets /\ \A w \in Resources \ {v} : task'[r][w] = task[r][w]
  BY <1>0, <1>1 DEF Replaces, TypeOK
<1>3. Busy(r)' \subseteq Busy(r) \union {v}
  BY <1>0, <1>2 DEF Busy, TypeOK
<1>4. ASSUME ~Evaluate(r, v), v \in Busy(r)' PROVE v \in Busy(r)
  <2>1. task'[r][v].at \in {"observe", "recall", "command", "poll", "save"}
    BY <1>4 DEF Busy
  <2>2. task[r][v].at # "evaluate"
    <3>1. ASSUME Raise(r, v) PROVE task'[r][v].at = "done"
      BY <1>0, <3>1 DEF Raise, Done, Become, TypeOK, Blank
    <3>2. task[r][v].at = "evaluate" => Raise(r, v)
      BY <1>4 DEF Work, Observe, Branch, AlreadyRunning, RetainStopped, GoStart, RetainRunning,
                  AlreadyStopped, GoStop, Recalling, Command, Poll, Save, Collect, At
    <3> QED BY <2>1, <3>1, <3>2
  <2>3. Further(r, v) /\ task[r][v].at # "none"
    BY <1>0, <1>1, WorkForward DEF Replaces
  <2>4. task[r][v].at \in Points
    BY <1>0 DEF Task
  <2>5. task[r][v].at \notin {"done", "collected"}
    BY <2>1, <2>3 DEF Further, Passed, Points
  <2> QED BY <1>0, <2>2, <2>3, <2>4, <2>5 DEF Busy, Points
<1> QED BY <1>3, <1>4

THEOREM PoolStaysBounded == Spec => []PoolBounded
<1>1. Init => PoolBounded
  <2> SUFFICES ASSUME Init, NEW r \in Runs PROVE Cardinality(Busy(r)) <= Workers(r)
    BY DEF PoolBounded
  <2>1. Busy(r) = {}
    BY DEF Init, Busy
  <2>2. Workers(r) \in Nat
    BY InitType, WorkersFor DEF Workers, TypeOK
  <2>3. Cardinality(Busy(r)) = 0
    BY <2>1, FS_EmptySet
  <2> QED BY <2>2, <2>3
<1>2. ASSUME IInv, IInv', PoolBounded, [Next]_vars, NEW r \in Runs
      PROVE  Cardinality(Busy(r)') <= Workers(r)'
  <2>0. TypeOK /\ TypeOK'
    BY <1>2 DEF IInv
  <2>1. /\ Cardinality(Busy(r)) <= Workers(r)
        /\ Workers(r) \in Nat /\ Workers(r)' \in Nat
    BY <1>2, <2>0, WorkersFor DEF PoolBounded, Workers, TypeOK
  <2>2. CASE targets'[r] = targets[r] /\ task'[r] = task[r]
    <3>1. Busy(r)' = Busy(r) /\ Workers(r)' = Workers(r)
      BY <2>2 DEF Busy, Workers
    <3> QED BY <2>1, <3>1
  <2>3. CASE Busy(r)' = {}
    BY <2>1, <2>3, FS_EmptySet
  <2>4. ASSUME NEW v \in Resources, Work(r, v)
        PROVE  Cardinality(Busy(r)') <= Workers(r)'
    <3>1. targets' = targets
      BY <1>2, <2>4, WorkReplaces DEF Replaces
    <3>2. Workers(r)' = Workers(r)
      BY <3>1 DEF Workers
    <3>3. CASE Busy(r)' \subseteq Busy(r)
      <4>1. Cardinality(Busy(r)') <= Cardinality(Busy(r))
        BY <2>0, <3>3, BusyFinite, FS_Subset
      <4>2. Cardinality(Busy(r)) \in Nat /\ Cardinality(Busy(r)') \in Nat
        BY <2>0, <3>3, BusyFinite, FS_Subset, FS_CardinalityType
      <4> QED BY <2>1, <3>2, <4>1, <4>2
    <3>4. CASE Evaluate(r, v)
      <4> DEFINE more == Busy(r) \union {v}
      <4>1. Cardinality(Busy(r)) < Workers(r)
        BY <3>4 DEF Evaluate
      <4>2. IsFiniteSet(more) /\ Cardinality(more) <= Cardinality(Busy(r)) + 1
        <5>1. IsFiniteSet(Busy(r)) /\ Cardinality(Busy(r)) \in Nat
          BY <2>0, BusyFinite
        <5>2. IsFiniteSet(more) /\ Cardinality(more) =
                IF v \in Busy(r) THEN Cardinality(Busy(r)) ELSE Cardinality(Busy(r)) + 1
          BY <5>1, FS_AddElement
        <5> QED BY <5>1, <5>2
      <4>3. IsFiniteSet(Busy(r)') /\ Cardinality(Busy(r)') <= Cardinality(more)
        BY <1>2, <2>4, <4>2, BusyGrows, FS_Subset
      <4>4. /\ Cardinality(Busy(r)) \in Nat /\ Cardinality(more) \in Nat
            /\ Cardinality(Busy(r)') \in Nat
        BY <2>0, <4>2, <4>3, BusyFinite, FS_CardinalityType
      <4> QED BY <2>1, <3>2, <4>1, <4>2, <4>3, <4>4
    <3> QED BY <1>2, <2>4, <3>3, <3>4, BusyGrows
  <2>5. ASSUME NEW q \in Runs, NEW v \in Resources, Work(q, v), q # r
        PROVE  targets'[r] = targets[r] /\ task'[r] = task[r]
    <3>1. PICK t : Replaces(q, v, t)
      BY <1>2, <2>5, WorkReplaces
    <3> QED BY <2>0, <2>5, <3>1 DEF Replaces, TypeOK
  <2>6. ASSUME NEW q \in Runs, Main(q)
        PROVE  (targets'[r] = targets[r] /\ task'[r] = task[r]) \/ Busy(r)' = {}
    <3>1. CASE q # r
      BY <2>0, <2>6, <3>1 DEF Main, Trigger, LoadFails, Discover, DiscoverFails, Report, Crash,
                              Wipe, TypeOK
    <3>2. ASSUME q = r, Wipe(r) PROVE Busy(r)' = {}
      BY <2>0, <3>2 DEF Wipe, Busy, TypeOK
    <3>3. ASSUME q = r, Discover(r) PROVE Busy(r)' = {}
      <4>1. \A v \in Resources : task'[r][v].at \in {"none", "evaluate"}
        BY <2>0, <3>3 DEF Discover, Blank, TypeOK
      <4> QED BY <2>0, <4>1 DEF Busy, TypeOK
    <3>4. CASE DiscoverFails(q) \/ Report(q)
      BY <3>4 DEF DiscoverFails, Report
    <3> QED BY <2>6, <3>1, <3>2, <3>3, <3>4 DEF Main, Trigger, LoadFails, Crash
  <2>7. CASE UNCHANGED <<targets, task>>
    BY <2>2, <2>7
  <2> QED
    BY <1>2, <2>2, <2>3, <2>4, <2>5, <2>6, <2>7 DEF Next, vars, Outside, StateDelete
<1>3. IInv /\ IInv' /\ PoolBounded /\ [Next]_vars => PoolBounded'
  BY <1>2 DEF PoolBounded
<1> QED BY <1>1, <1>3, Invariance, PTL DEF Spec
=============================================================================
