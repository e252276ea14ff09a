-------------------------- MODULE SchedulerService --------------------------
(***************************************************************************)
(* The scheduling cycle: src/function/OffHoursTimer/__init__.py (main) and *)
(* src/src/scheduler/service.py (SchedulerService), over the state table   *)
(* of src/src/persistence/state_store.py and the VM handler.               *)
(*                                                                         *)
(* A run is one execution of main().  It loads the configuration once,     *)
(* discovers the tagged resources, and processes every one of them on a    *)
(* pool of worker threads.  Each worker is a sequence of remote calls, and *)
(* between two calls anything may happen: another worker's step, a step of *)
(* another run (the timer is a singleton, a manual trigger is not), an     *)
(* operator who powers a VM on or off or deletes a row, a call that fails, *)
(* the host that dies.                                                     *)
(***************************************************************************)
EXTENDS VmHandler, Integers, FiniteSets, FiniteSetsExt

CONSTANTS
    Resources,      \* the resources that can carry the schedule tag
    Handled,        \* those whose type has a handler in the registry
    Runs,           \* the executions of main() that can overlap
    MaxWorkers,     \* the MAX_WORKERS setting
    Configs,        \* the global configurations an operator applies
    OutsideCodes,   \* the power codes others than the scheduler lead to
    Faults,         \* the steps that can raise (see Raise) and "crash"
    None            \* no row in the state table, or no outcome yet

Config == [dry_run: BOOLEAN, retain_running: BOOLEAN, retain_stopped: BOOLEAN]

ASSUME ResourcesFinite == IsFiniteSet(Resources)
ASSUME HandledAssumption == Handled \subseteq Resources
ASSUME MaxWorkersAssumption == MaxWorkers \in Int
ASSUME ConfigsAssumption == Configs \subseteq Config
ASSUME OutsideCodesAssumption == OutsideCodes \subseteq Codes

Decisions == {"START", "STOP", "SKIP"}

(* What a worker reports of its resource (ActionOutcome).                  *)
Outcome == {o \in [action: Decisions \union {"ERROR"},
                   result: {"EXECUTED", "SKIPPED", "DRY_RUN", "FAILED"},
                   started: 0..1, stopped: 0..1, skipped: 0..1] :
              o.started + o.stopped + o.skipped = 1}

ASSUME NoneAssumption == None \notin Outcome

Skipped(action) == [action |-> action, result |-> "SKIPPED",
                    started |-> 0, stopped |-> 0, skipped |-> 1]

Failed == [action |-> "ERROR", result |-> "FAILED",
           started |-> 0, stopped |-> 0, skipped |-> 1]

Performed(decision, result) ==
    [action |-> decision, result |-> result,
     started |-> IF decision = "START" THEN 1 ELSE 0,
     stopped |-> IF decision = "START" THEN 0 ELSE 1,
     skipped |-> 0]

(* A row of the state table.  LastObservedState and UpdatedAtUtc are never *)
(* read back and are left out.                                             *)
LastActions == {"SKIP_ALREADY_RUNNING", "SKIP_RETAIN_STOPPED", "START",
                "SKIP_RETAIN_RUNNING", "SKIP_ALREADY_STOPPED", "STOP"}

Row == [started: BOOLEAN, stopped: BOOLEAN, last_action: LastActions]

ASSUME NoRowAssumption == None \notin Row

Entry(started, stopped, last_action) ==
    [started |-> started, stopped |-> stopped, last_action |-> last_action]

(* A worker: the call it is about to make, and the locals it still needs.  *)
Points == {"none", "evaluate", "observe", "recall", "command", "poll", "save",
           "done", "collected"}

Task == [at: Points, decision: Decisions, seen: PowerStates,
         entry: Row \union {None}, outcome: Outcome]

Blank == [at |-> "none", decision |-> "SKIP", seen |-> "unknown",
          entry |-> None, outcome |-> Skipped("SKIP")]

Summary == [total: Nat, started: Nat, stopped: Nat, skipped: Nat]
Zero == [total |-> 0, started |-> 0, stopped |-> 0, skipped |-> 0]

(* The constructor defaults of SchedulerService, until main() loads.       *)
DefaultConfig ==
    [dry_run |-> TRUE, retain_running |-> FALSE, retain_stopped |-> FALSE]

Phases == {"idle", "loaded", "processing", "reported", "failed"}

VARIABLES
    code,       \* the platform's power code of each resource
    row,        \* the state table
    phase,      \* where main() is, per run
    cfg,        \* the configuration a run loaded
    targets,    \* the resources a run discovered
    task,       \* the worker of a run on a resource
    summary,    \* the counters of a run
    claimed     \* history: the power states the scheduler ever brought a
                \* resource to, or adopted as its own

vars == <<code, row, phase, cfg, targets, task, summary, claimed>>
world == <<code, row, claimed>>

TypeOK ==
    /\ code \in [Resources -> Codes]
    /\ row \in [Resources -> Row \union {None}]
    /\ phase \in [Runs -> Phases]
    /\ cfg \in [Runs -> Config]
    /\ targets \in [Runs -> SUBSET Resources]
    /\ task \in [Runs -> [Resources -> Task]]
    /\ summary \in [Runs -> Summary]
    /\ claimed \in [Resources -> SUBSET {"running", "stopped"}]

Init ==
    /\ code \in [Resources -> OutsideCodes]
    /\ row = [v \in Resources |-> None]
    /\ phase = [r \in Runs |-> "idle"]
    /\ cfg = [r \in Runs |-> DefaultConfig]
    /\ targets = [r \in Runs |-> {}]
    /\ task = [r \in Runs |-> [v \in Resources |-> Blank]]
    /\ summary = [r \in Runs |-> Zero]
    /\ claimed = [v \in Resources |-> {}]

-----------------------------------------------------------------------------
(* main(): settings, configuration and schedules, then discovery.          *)

Wipe(r) ==
    /\ targets' = [targets EXCEPT ![r] = {}]
    /\ task' = [task EXCEPT ![r] = [v \in Resources |-> Blank]]
    /\ summary' = [summary EXCEPT ![r] = Zero]

Over(r) == phase[r] \in {"idle", "reported", "failed"}

(* A trigger, by the timer or by hand.  Every run reads the configuration  *)
(* afresh, so a change applied between two runs shows up here.             *)
Trigger(r) ==
    /\ Over(r)
    /\ \E c \in Configs : cfg' = [cfg EXCEPT ![r] = c]
    /\ phase' = [phase EXCEPT ![r] = "loaded"]
    /\ Wipe(r)
    /\ UNCHANGED world

(* No configuration row, or a malformed one, or a malformed schedule: the  *)
(* exception leaves main() before anything is looked at.                   *)
LoadFails(r) ==
    /\ Over(r)
    /\ "load" \in Faults
    /\ phase' = [phase EXCEPT ![r] = "failed"]
    /\ Wipe(r)
    /\ UNCHANGED <<cfg, world>>

(* find_scheduled_resources(): the index may lag behind the platform, so   *)
(* any set of resources can come back.  None at all ends the run.          *)
Discover(r) ==
    /\ phase[r] = "loaded"
    /\ \E found \in SUBSET Resources :
         /\ targets' = [targets EXCEPT ![r] = found]
         /\ task' = [task EXCEPT ![r] =
                       [v \in Resources |-> [Blank EXCEPT
                            !.at = IF v \in found THEN "evaluate" ELSE "none"]]]
         /\ summary' = [summary EXCEPT ![r].total = Cardinality(found)]
         /\ phase' = [phase EXCEPT ![r] =
                        IF found = {} THEN "reported" ELSE "processing"]
    /\ UNCHANGED <<cfg, world>>

DiscoverFails(r) ==
    /\ phase[r] = "loaded"
    /\ "discover" \in Faults
    /\ phase' = [phase EXCEPT ![r] = "failed"]
    /\ UNCHANGED <<cfg, targets, task, summary, world>>

-----------------------------------------------------------------------------
(* _process_resource() on a worker of the pool.                            *)

At(r, v, point) == phase[r] = "processing" /\ task[r][v].at = point

Become(r, v, t) ==
    /\ task' = [task EXCEPT ![r][v] = t]
    /\ UNCHANGED <<phase, cfg, targets, summary>>

Done(r, v, outcome) == Become(r, v, [Blank EXCEPT !.at = "done", !.outcome = outcome])

Busy(r) == {v \in targets[r] : task[r][v].at \in {"observe", "recall", "command", "poll", "save"}}

(* Mutant: MAX_WORKERS is taken as it is.                                  *)
WorkersAsSet(r) == Min({MaxWorkers, Cardinality(targets[r])})

Workers(r) == Min({Max({1, MaxWorkers}), Cardinality(targets[r])})

(* The pool picks a queued resource; the engine decides, from the clock    *)
(* and the schedules, START, STOP or SKIP.                                 *)
Evaluate(r, v) ==
    /\ At(r, v, "evaluate")
    /\ Cardinality(Busy(r)) < Workers(r)
    /\ \E decision \in Decisions :
         IF decision = "SKIP" \/ v \notin Handled THEN Done(r, v, Skipped(decision))
         ELSE IF cfg[r].dry_run THEN Done(r, v, Performed(decision, "DRY_RUN"))
         ELSE Become(r, v, [task[r][v] EXCEPT !.at = "observe", !.decision = decision])
    /\ UNCHANGED world

(* handler.get_state()                                                     *)
Observe(r, v) ==
    /\ At(r, v, "observe")
    /\ Become(r, v, [task[r][v] EXCEPT !.at = "recall", !.seen = PowerState(code[v])])
    /\ UNCHANGED world

(* main() gives the service a table store only when a retain option is on. *)
UsesTable(r) == cfg[r].retain_running \/ cfg[r].retain_stopped

Stored(r, v) == IF UsesTable(r) THEN row[v] ELSE None

(* Mutant: a VM without a row counts as started by the scheduler.          *)
StartedUnlessTold(stored) == stored = None \/ stored.started

StartedByScheduler(stored) == stored # None /\ stored.started
StoppedByScheduler(stored) == stored # None /\ stored.stopped

(* state_store.get_state() and the choice of a branch, for one decision.   *)
Recalling(r, v, decision) == At(r, v, "recall") /\ task[r][v].decision = decision

ToSave(r, v, entry, outcome) ==
    Become(r, v, [Blank EXCEPT !.at = "save", !.entry = entry, !.outcome = outcome])

ToCommand(r, v) ==
    /\ Become(r, v, [task[r][v] EXCEPT !.at = "command"])
    /\ UNCHANGED world

(* A VM the scheduler left alone outside its window has reached a window:  *)
(* from here on the scheduler counts it as started by itself.              *)
Consumes(r, stored) ==
    /\ cfg[r].retain_running
    /\ ~StartedByScheduler(stored)
    /\ stored # None
    /\ stored.last_action = "SKIP_RETAIN_RUNNING"

(* Mutants: the flags are not carried over; the VM is marked as started    *)
(* whether adopted or not; the other flag survives an adoption.            *)
RunningEntryForgets(adopts, stored) == Entry(adopts, FALSE, "SKIP_ALREADY_RUNNING")
RunningEntryClaims(adopts, stored) == Entry(TRUE, FALSE, "SKIP_ALREADY_RUNNING")
RunningEntryKeepsBoth(adopts, stored) ==
    Entry(adopts \/ StartedByScheduler(stored), StoppedByScheduler(stored),
          "SKIP_ALREADY_RUNNING")

RunningEntry(adopts, stored) ==
    Entry(adopts \/ StartedByScheduler(stored), ~adopts /\ StoppedByScheduler(stored),
          "SKIP_ALREADY_RUNNING")

AlreadyRunning(r, v) ==
    LET stored == Stored(r, v) IN
    /\ Recalling(r, v, "START")
    /\ task[r][v].seen = "running"
    /\ ToSave(r, v, RunningEntry(Consumes(r, stored), stored), Skipped("START"))
    /\ claimed' = [claimed EXCEPT ![v] =
                     @ \union IF Consumes(r, stored) THEN {"running"} ELSE {}]
    /\ UNCHANGED <<code, row>>

(* Mutants: no flag is asked, or the wrong one.                            *)
KeepsStoppedAlways(r, v) == cfg[r].retain_stopped /\ task[r][v].seen = "stopped"

KeepsStoppedIfStarted(r, v) ==
    /\ cfg[r].retain_stopped
    /\ task[r][v].seen = "stopped"
    /\ StartedByScheduler(Stored(r, v))

KeepsStopped(r, v) ==
    /\ cfg[r].retain_stopped
    /\ task[r][v].seen = "stopped"
    /\ ~StoppedByScheduler(Stored(r, v))

RetainStopped(r, v) ==
    /\ Recalling(r, v, "START")
    /\ KeepsStopped(r, v)
    /\ ToSave(r, v,
              Entry(StartedByScheduler(Stored(r, v)), FALSE, "SKIP_RETAIN_STOPPED"),
              Skipped("START"))
    /\ UNCHANGED world

GoStart(r, v) ==
    /\ Recalling(r, v, "START")
    /\ task[r][v].seen # "running"
    /\ ~KeepsStopped(r, v)
    /\ ToCommand(r, v)

KeepsRunning(r, v) ==
    /\ cfg[r].retain_running
    /\ task[r][v].seen = "running"
    /\ ~StartedByScheduler(Stored(r, v))

RetainRunning(r, v) ==
    /\ Recalling(r, v, "STOP")
    /\ KeepsRunning(r, v)
    /\ ToSave(r, v,
              Entry(FALSE, StoppedByScheduler(Stored(r, v)), "SKIP_RETAIN_RUNNING"),
              Skipped("STOP"))
    /\ UNCHANGED world

AlreadyStopped(r, v) ==
    LET stored == Stored(r, v) IN
    /\ Recalling(r, v, "STOP")
    /\ task[r][v].seen = "stopped"
    /\ ToSave(r, v,
              Entry(StartedByScheduler(stored), StoppedByScheduler(stored),
                    "SKIP_ALREADY_STOPPED"),
              Skipped("STOP"))
    /\ UNCHANGED world

GoStop(r, v) ==
    /\ Recalling(r, v, "STOP")
    /\ task[r][v].seen # "stopped"
    /\ ~KeepsRunning(r, v)
    /\ ToCommand(r, v)

(* begin_start() or begin_deallocate() is accepted ...                     *)
Command(r, v) ==
    /\ At(r, v, "command")
    /\ Become(r, v, [task[r][v] EXCEPT !.at = "poll"])
    /\ code' = [code EXCEPT ![v] = Accepted(task[r][v].decision)]
    /\ UNCHANGED <<row, claimed>>

(* ... and poller.result() returns.                                        *)
Poll(r, v) ==
    LET decision == task[r][v].decision IN
    /\ At(r, v, "poll")
    /\ ToSave(r, v, Entry(decision = "START", decision = "STOP", decision),
              Performed(decision, "EXECUTED"))
    /\ code' = [code EXCEPT ![v] = Settled(@)]
    /\ claimed' = [claimed EXCEPT ![v] = @ \union {Goal(decision)}]
    /\ UNCHANGED row

Written(r, v) == IF UsesTable(r) THEN task[r][v].entry ELSE row[v]

(* state_store.save_state()                                                *)
Save(r, v) ==
    /\ At(r, v, "save")
    /\ Done(r, v, task[r][v].outcome)
    /\ row' = [row EXCEPT ![v] = Written(r, v)]
    /\ UNCHANGED <<code, claimed>>

(* Any of the calls raises and the worker reports FAILED.  A write whose   *)
(* answer is lost may have reached the table all the same; that a command  *)
(* may have reached the platform is a step of Outside.  The store that is  *)
(* switched off does not fail.                                             *)
Raise(r, v) ==
    /\ \E point \in Faults \intersect
                   {"evaluate", "observe", "recall", "command", "poll", "save"} :
         /\ At(r, v, point)
         /\ point = "evaluate" => Cardinality(Busy(r)) < Workers(r)
         /\ point \in {"recall", "save"} => UsesTable(r)
         /\ row' \in {row} \union
              (IF point = "save" THEN {[row EXCEPT ![v] = Written(r, v)]} ELSE {})
    /\ Done(r, v, Failed)
    /\ UNCHANGED <<code, claimed>>

-----------------------------------------------------------------------------
(* run(): as_completed() hands over the finished futures one by one.       *)
(* Mutant: what was skipped is not added up.                               *)
PlusExecuted(counters, o) ==
    [counters EXCEPT !.started = @ + o.started, !.stopped = @ + o.stopped]

Plus(counters, o) ==
    [total   |-> counters.total,
     started |-> counters.started + o.started,
     stopped |-> counters.stopped + o.stopped,
     skipped |-> counters.skipped + o.skipped]

Collect(r, v) ==
    /\ At(r, v, "done")
    /\ task' = [task EXCEPT ![r][v].at = "collected"]
    /\ summary' = [summary EXCEPT ![r] = Plus(@, task[r][v].outcome)]
    /\ UNCHANGED <<phase, cfg, targets, world>>

(* Mutant: the first outcome is enough.                                    *)
ReportEarly(r) ==
    /\ phase[r] = "processing"
    /\ \E v \in targets[r] : task[r][v].at = "collected"
    /\ phase' = [phase EXCEPT ![r] = "reported"]
    /\ UNCHANGED <<cfg, targets, task, summary, world>>

Report(r) ==
    /\ phase[r] = "processing"
    /\ \A v \in targets[r] : task[r][v].at = "collected"
    /\ phase' = [phase EXCEPT ![r] = "reported"]
    /\ UNCHANGED <<cfg, targets, task, summary, world>>

(* The host kills the execution (a restart, or the function timeout): the  *)
(* workers are gone, the table and the platform keep what reached them.    *)
Crash(r) ==
    /\ "crash" \in Faults
    /\ phase[r] \in {"loaded", "processing"}
    /\ phase' = [phase EXCEPT ![r] = "idle"]
    /\ Wipe(r)
    /\ UNCHANGED <<cfg, world>>

-----------------------------------------------------------------------------
(* Everybody else.                                                         *)

(* An operator, the guest or the platform changes the power of a VM.       *)
Outside(v) ==
    /\ \E c \in OutsideCodes \ {code[v]} : code' = [code EXCEPT ![v] = c]
    /\ UNCHANGED <<row, phase, cfg, targets, task, summary, claimed>>

(* offhours state delete                                                   *)
StateDelete(v) ==
    /\ row[v] # None
    /\ row' = [row EXCEPT ![v] = None]
    /\ UNCHANGED <<code, phase, cfg, targets, task, summary, claimed>>

-----------------------------------------------------------------------------
Branch(r, v) ==
    \/ AlreadyRunning(r, v) \/ RetainStopped(r, v) \/ GoStart(r, v)
    \/ RetainRunning(r, v) \/ AlreadyStopped(r, v) \/ GoStop(r, v)

Work(r, v) ==
    \/ Evaluate(r, v) \/ Observe(r, v) \/ Branch(r, v) \/ Command(r, v)
    \/ Poll(r, v) \/ Save(r, v) \/ Raise(r, v) \/ Collect(r, v)

Main(r) ==
    \/ Trigger(r) \/ LoadFails(r) \/ Discover(r) \/ DiscoverFails(r)
    \/ Report(r) \/ Crash(r)

Next ==
    \/ \E r \in Runs : Main(r) \/ \E v \in Resources : Work(r, v)
    \/ \E v \in Resources : Outside(v) \/ StateDelete(v)

Spec == Init /\ [][Next]_vars

(* A run that has begun goes on: main() is sequential, every worker thread *)
(* makes its calls, and each call returns or raises.  Nothing forces a     *)
(* trigger, an operator, a fault or a crash.                               *)
Progress ==
    \A r \in Runs :
        /\ WF_vars(Discover(r))
        /\ WF_vars(Report(r))
        /\ \A v \in Resources : WF_vars(Work(r, v))

FairSpec == Spec /\ Progress

-----------------------------------------------------------------------------
(* What the invariants further down rest on.                               *)

(* A worker that goes on to make calls has a START or a STOP to carry out. *)
Decided ==
    \A r \in Runs, v \in Resources :
        task[r][v].at \in {"observe", "recall", "command", "poll"}
        => task[r][v].decision \in {"START", "STOP"}

(* There is a worker for each resource found and for no other, and a run   *)
(* that has not looked yet has found nothing.                              *)
Assigned ==
    \A r \in Runs :
        /\ \A v \in Resources : task[r][v].at # "none" <=> v \in targets[r]
        /\ phase[r] \in {"idle", "loaded", "failed"} => targets[r] = {}

(* A flag that is in the table, or on its way there, stands for something  *)
(* the scheduler has done.                                                 *)
Grounds(v, entry) ==
    entry # None => /\ entry.started => "running" \in claimed[v]
                    /\ entry.stopped => "stopped" \in claimed[v]

FlagsGrounded ==
    /\ \A v \in Resources : Grounds(v, row[v])
    /\ \A r \in Runs, v \in Resources : Grounds(v, task[r][v].entry)

-----------------------------------------------------------------------------
(* The scheduler never claims to have both started and stopped a VM: not   *)
(* in the table, and not in a write that is still under way.  The branches *)
(* of _handle_start_decision and _handle_stop_decision each keep one flag  *)
(* of the row they read and set the other, and the reads and the writes of *)
(* overlapping runs interleave.                                            *)
Exclusive(entry) == entry = None \/ ~(entry.started /\ entry.stopped)

FlagsExclusive ==
    /\ \A v \in Resources : Exclusive(row[v])
    /\ \A r \in Runs, v \in Resources : Exclusive(task[r][v].entry)

(* With retain_running on, a worker that has seen the VM running is about  *)
(* to stop it only if the scheduler once started that VM, or adopted it    *)
(* when it crossed a window: whatever runs, crashes, lost answers and row  *)
(* deletions came before, a VM it never touched is left running.           *)
NoForeignStop ==
    \A r \in Runs, v \in Resources :
        At(r, v, "command") /\ task[r][v].decision = "STOP"
            /\ task[r][v].seen = "running" /\ cfg[r].retain_running
        => "running" \in claimed[v]

(* The mirror image: with retain_stopped on, a VM seen stopped is started  *)
(* only if the scheduler once stopped it.                                  *)
NoForeignStart ==
    \A r \in Runs, v \in Resources :
        At(r, v, "command") /\ task[r][v].decision = "START"
            /\ task[r][v].seen = "stopped" /\ cfg[r].retain_stopped
        => "stopped" \in claimed[v]

(* The inductive invariant.                                                *)
IInv ==
    /\ TypeOK /\ Decided /\ Assigned /\ FlagsGrounded
    /\ FlagsExclusive /\ NoForeignStop /\ NoForeignStart

(* The counters of a run, added up one future at a time, are at every      *)
(* moment those of the outcomes handed over so far, in whatever order the  *)
(* workers finish and whichever of them fail; a published report is        *)
(* therefore complete.                                                     *)
Gathered(r, field) ==
    {v \in targets[r] : task[r][v].at = "collected" /\ task[r][v].outcome[field] = 1}

CountersTally ==
    \A r \in Runs :
        summary[r] = [total   |-> Cardinality(targets[r]),
                      started |-> Cardinality(Gathered(r, "started")),
                      stopped |-> Cardinality(Gathered(r, "stopped")),
                      skipped |-> Cardinality(Gathered(r, "skipped"))]

(* A cycle that has begun comes to an end, however few workers MAX_WORKERS *)
(* allows, whatever fails and whatever others do to the VMs.               *)
CycleEnds == \A r \in Runs : phase[r] = "loaded" ~> Over(r)

-----------------------------------------------------------------------------
(* What the reader of the reports can see of a run.                        *)
Pending == None

Visible(r) == IF phase[r] \in {"processing", "reported"} THEN phase[r] ELSE "idle"

VisibleOutcome(r, v) ==
    IF task[r][v].at \in {"done", "collected"} THEN task[r][v].outcome ELSE Pending

VisibleReport(r) == IF phase[r] = "reported" THEN summary[r] ELSE Zero

Contract == INSTANCE CycleContract WITH
    Outcomes <- Outcome,
    phase <- [r \in Runs |-> Visible(r)],
    outcome <- [r \in Runs |-> [v \in Resources |-> VisibleOutcome(r, v)]],
    report <- [r \in Runs |-> VisibleReport(r)]

(* Every step of the service is a step of CycleContract or invisible in    *)
(* it: a resource found is resolved once, no report is published before    *)
(* all of them are, and its counters are those of the outcomes (run, lines *)
(* 100 to 133).                                                            *)
ImplementsSafety == Contract!Safety

(* And with the fairness of Progress the report does appear.               *)
ImplementsContract == Contract!Contract
=============================================================================
