------------------------ MODULE RetainHistoryProofs ------------------------
(***************************************************************************)
(* What the rows say is what happened, for any number of resources and     *)
(* workers, as long as cycles follow one another, the table is in use and  *)
(* no write to it and no run is lost.                                      *)
(***************************************************************************)
EXTENDS RetainHistory, SchedulerServiceProofs

(* The timer alone; some retain option at all times; and neither a write   *)
(* whose answer is lost nor a host that dies.                              *)
Sequential ==
    /\ \E r \in Runs : Runs = {r}
    /\ \A c \in Configs : c.retain_running \/ c.retain_stopped
    /\ Faults \intersect {"save", "crash"} = {}

HistoryType ==
    /\ touched \in [Resources -> {"none", "START", "STOP", "ADOPT"}]
    /\ forgotten \in [Resources -> BOOLEAN]
    /\ witnessed \in [Resources -> SUBSET PowerStates]

(* An entry says of a VM what the scheduler last did to it, or less if the *)
(* row was deleted since.                                                  *)
Tells(v, entry) ==
    /\ StartedByScheduler(entry) => touched[v] \in {"START", "ADOPT"}
    /\ StoppedByScheduler(entry) => touched[v] = "STOP"
    /\ ~forgotten[v] => /\ touched[v] \in {"START", "ADOPT"} => StartedByScheduler(entry)
                        /\ touched[v] = "STOP" => StoppedByScheduler(entry)

(* While a worker has an entry to write, the row is yet to catch up.  And  *)
(* a worker about to give a command has read what entitles it to that.     *)
Told(r, v) ==
    /\ IF At(r, v, "save") THEN Tells(v, task[r][v].entry) ELSE Tells(v, row[v])
    /\ At(r, v, "command") /\ task[r][v].decision = "STOP"
         /\ task[r][v].seen = "running" /\ cfg[r].retain_running
         => touched[v] \in {"START", "ADOPT"}
    /\ At(r, v, "command") /\ task[r][v].decision = "START"
         /\ task[r][v].seen = "stopped" /\ cfg[r].retain_stopped => touched[v] = "STOP"

HInv ==
    /\ IInv /\ HistoryType
    /\ \A r \in Runs : phase[r] \in {"loaded", "processing"} => UsesTable(r)
    /\ \A r \in Runs, v \in Resources : Told(r, v)

-----------------------------------------------------------------------------
(* With a memory, the service takes the steps it takes without.            *)
LEMMA HistoryAddsNothing == [NextH]_allvars => [Next]_vars
BY DEF NextH, PollH, AlreadyRunningH, ObserveH, StateDeleteH, OutsideH, RestH, MainH,
       Next, Work, Branch, allvars

LEMMA HistoryTypeStep ==
    ASSUME IInv, HistoryType, NextH
    PROVE  HistoryType'
<1>1. ASSUME NEW r \in Runs, NEW v \in Resources, PollH(r, v) PROVE HistoryType'
  <2>1. task[r][v].decision \in {"START", "STOP"}
    BY <1>1 DEF PollH, Poll, At, IInv, Decided
  <2> QED BY <1>1, <2>1 DEF PollH, Touch, HistoryType
<1>2. ASSUME NEW r \in Runs, NEW v \in Resources, AlreadyRunningH(r, v) PROVE HistoryType'
  BY <1>2 DEF AlreadyRunningH, Touch, HistoryType
<1>3. ASSUME NEW r \in Runs, NEW v \in Resources, ObserveH(r, v) PROVE HistoryType'
  BY <1>3, PowerStateType DEF ObserveH, HistoryType
<1>4. ASSUME NEW v \in Resources, StateDeleteH(v) PROVE HistoryType'
  BY <1>4 DEF StateDeleteH, HistoryType
<1>5. CASE UNCHANGED hvars
  BY <1>5 DEF hvars, HistoryType
<1> QED BY <1>1, <1>2, <1>3, <1>4, <1>5 DEF NextH, RestH, MainH, OutsideH

-----------------------------------------------------------------------------
Moves(r, v, t) == task' = [task EXCEPT ![r][v] = t] /\ UNCHANGED <<phase, cfg>>

LEMMA BecomeMoves ==
    ASSUME NEW r, NEW v, NEW t, Become(r, v, t)
    PROVE  Moves(r, v, t)
BY DEF Become, Moves

(* A step of a worker concerns its own resource.                           *)
LEMMA OthersTold ==
    ASSUME HInv, NEW r \in Runs, NEW v \in Resources, NEW t, Moves(r, v, t),
           \A w \in Resources \ {v} :
               row'[w] = row[w] /\ touched'[w] = touched[w] /\ forgotten'[w] = forgotten[w],
           Told(r, v)'
    PROVE  \A w \in Resources : Told(r, w)'
<1>1. task \in [Runs -> [Resources -> Task]]
  BY DEF HInv, IInv, TypeOK
<1>2. \A w \in Resources \ {v} : task'[r][w] = task[r][w]
  BY <1>1 DEF Moves
<1> QED BY <1>2 DEF HInv, Told, Tells, At, Moves

(* One that neither saves nor is about to, nor about to give a command,    *)
(* and one that touches nothing, have nothing to tell.                     *)
LEMMA QuietStep ==
    ASSUME HInv, NEW r \in Runs, NEW v \in Resources, NEW t, Moves(r, v, t),
           phase[r] = "processing", task[r][v].at # "save",
           t.at \notin {"save", "command"}, UNCHANGED <<row, touched, forgotten>>
    PROVE  \A w \in Resources : Told(r, w)'
<1>1. task'[r][v] = t
  BY DEF HInv, IInv, TypeOK, Moves
<1>2. Told(r, v)'
  BY <1>1 DEF HInv, Told, Tells, At, Moves
<1> QED BY <1>2, OthersTold

(* A worker that is about to save an entry.                                *)
LEMMA SavingStep ==
    ASSUME HInv, NEW r \in Runs, NEW v \in Resources, NEW entry, NEW outcome,
           ToSave(r, v, entry, outcome), phase[r] = "processing",
           \A w \in Resources \ {v} :
               row'[w] = row[w] /\ touched'[w] = touched[w] /\ forgotten'[w] = forgotten[w],
           Tells(v, entry)'
    PROVE  \A w \in Resources : Told(r, w)'
<1> DEFINE t == [Blank EXCEPT !.at = "save", !.entry = entry, !.outcome = outcome]
<1>1. Become(r, v, t)
  BY DEF ToSave
<1>2. t.at = "save" /\ t.entry = entry
  BY DEF Blank
<1>3. task'[r][v] = t /\ phase'[r] = "processing"
  BY <1>1 DEF HInv, IInv, TypeOK, Become
<1> HIDE DEF t
<1>4. Told(r, v)'
  BY <1>2, <1>3 DEF Told, Tells, At, StartedByScheduler, StoppedByScheduler
<1> QED BY <1>1, <1>4, BecomeMoves, OthersTold

-----------------------------------------------------------------------------
(* The branches: each carries on what the row tells.                       *)
LEMMA RecalledRow ==
    ASSUME HInv, NEW r \in Runs, NEW v \in Resources, At(r, v, "recall")
    PROVE  /\ Stored(r, v) = row[v] /\ Tells(v, row[v])
           /\ task[r][v].at # "save" /\ phase[r] = "processing"
BY DEF HInv, Told, At, Stored

LEMMA EntryTells ==
    ASSUME NEW started \in BOOLEAN, NEW stopped \in BOOLEAN, NEW last_action \in LastActions
    PROVE  LET entry == Entry(started, stopped, last_action) IN
             StartedByScheduler(entry) = started /\ StoppedByScheduler(entry) = stopped
<1>1. Entry(started, stopped, last_action) # None
  BY EntryType, NoRowAssumption
<1> QED BY <1>1 DEF Entry, StartedByScheduler, StoppedByScheduler

LEMMA AlreadyRunningStep ==
    ASSUME HInv, NEW r \in Runs, NEW v \in Resources, AlreadyRunningH(r, v)
    PROVE  \A w \in Resources : Told(r, w)'
<1>1. AlreadyRunning(r, v) /\ At(r, v, "recall")
  BY DEF AlreadyRunningH, AlreadyRunning, Recalling
<1>2. /\ Stored(r, v) = row[v] /\ Tells(v, row[v])
      /\ phase[r] = "processing"
  BY <1>1, RecalledRow
<1>3. /\ Consumes(r, row[v]) \in BOOLEAN /\ StartedByScheduler(row[v]) \in BOOLEAN
      /\ StoppedByScheduler(row[v]) \in BOOLEAN
  BY <1>2, StoredType DEF HInv, IInv
<1>4. PICK adopts, entry :
        adopts = Consumes(r, row[v]) /\ entry = RunningEntry(adopts, row[v])
  OBVIOUS
<1>5. /\ StartedByScheduler(entry) = (adopts \/ StartedByScheduler(row[v]))
      /\ StoppedByScheduler(entry) = (~adopts /\ StoppedByScheduler(row[v]))
  BY <1>3, <1>4, EntryTells DEF RunningEntry, LastActions
<1>6. /\ ToSave(r, v, entry, Skipped("START")) /\ UNCHANGED row
      /\ IF adopts THEN Touch(v, "ADOPT") ELSE UNCHANGED <<touched, forgotten>>
  BY <1>1, <1>2, <1>4 DEF AlreadyRunningH, AlreadyRunning
<1>7. /\ \A w \in Resources \ {v} : touched'[w] = touched[w] /\ forgotten'[w] = forgotten[w]
      /\ adopts => touched'[v] = "ADOPT" /\ ~forgotten'[v]
  BY <1>6 DEF Touch, HInv, HistoryType
<1>8. Tells(v, entry)'
  <2>1. CASE adopts
    BY <2>1, <1>5, <1>7 DEF Tells, StartedByScheduler, StoppedByScheduler
  <2>2. CASE ~adopts
    BY <2>2, <1>2, <1>5, <1>6 DEF Tells, StartedByScheduler, StoppedByScheduler
  <2> QED BY <2>1, <2>2
<1> QED BY <1>2, <1>6, <1>7, <1>8, SavingStep

(* The other branches that write: a flag is dropped only when it is not    *)
(* there.                                                                  *)
LEMMA CarryStep ==
    ASSUME HInv, NEW r \in Runs, NEW v \in Resources,
           RetainStopped(r, v) \/ RetainRunning(r, v) \/ AlreadyStopped(r, v),
           UNCHANGED hvars
    PROVE  \A w \in Resources : Told(r, w)'
<1>1. At(r, v, "recall") /\ UNCHANGED row
  BY DEF RetainStopped, RetainRunning, AlreadyStopped, Recalling, world
<1>2. /\ Stored(r, v) = row[v] /\ Tells(v, row[v])
      /\ phase[r] = "processing"
  BY <1>1, RecalledRow
<1>3. /\ StartedByScheduler(row[v]) \in BOOLEAN
      /\ StoppedByScheduler(row[v]) \in BOOLEAN
  BY <1>2, StoredType DEF HInv, IInv
<1> DEFINE carried(last_action) ==
             Entry(StartedByScheduler(row[v]), StoppedByScheduler(row[v]), last_action)
<1>4. PICK last_action \in LastActions, decision \in Decisions :
        ToSave(r, v, carried(last_action), Skipped(decision))
  <2>1. CASE RetainStopped(r, v)
    <3>1. StoppedByScheduler(row[v]) = FALSE
      BY <1>2, <1>3, <2>1 DEF RetainStopped, KeepsStopped
    <3>2. ToSave(r, v, carried("SKIP_RETAIN_STOPPED"), Skipped("START"))
      BY <1>2, <2>1, <3>1 DEF RetainStopped
    <3> HIDE DEF carried
    <3> QED BY <3>2 DEF LastActions, Decisions
  <2>2. CASE RetainRunning(r, v)
    <3>1. StartedByScheduler(row[v]) = FALSE
      BY <1>2, <1>3, <2>2 DEF RetainRunning, KeepsRunning
    <3>2. ToSave(r, v, carried("SKIP_RETAIN_RUNNING"), Skipped("STOP"))
      BY <1>2, <2>2, <3>1 DEF RetainRunning
    <3> HIDE DEF carried
    <3> QED BY <3>2 DEF LastActions, Decisions
  <2>3. CASE AlreadyStopped(r, v)
    <3>1. ToSave(r, v, carried("SKIP_ALREADY_STOPPED"), Skipped("STOP"))
      BY <1>2, <2>3 DEF AlreadyStopped
    <3> HIDE DEF carried
    <3> QED BY <3>1 DEF LastActions, Decisions
  <2> QED BY <2>1, <2>2, <2>3
<1>5. PICK entry : entry = carried(last_action)
  OBVIOUS
<1>6. /\ StartedByScheduler(entry) = StartedByScheduler(row[v])
      /\ StoppedByScheduler(entry) = StoppedByScheduler(row[v])
  BY <1>3, <1>5, EntryTells
<1>7. Tells(v, entry)'
  BY <1>1, <1>2, <1>6 DEF Tells, hvars, StartedByScheduler, StoppedByScheduler
<1> QED BY <1>1, <1>2, <1>4, <1>5, <1>7, SavingStep DEF hvars

-----------------------------------------------------------------------------
(* A worker goes on to a command; to stop a VM that it has seen running it *)
(* must have read that the scheduler started it, and the other way round.  *)
LEMMA GoStep ==
    ASSUME HInv, NEW r \in Runs, NEW v \in Resources, GoStart(r, v) \/ GoStop(r, v),
           UNCHANGED hvars
    PROVE  \A w \in Resources : Told(r, w)'
<1>0. task[r][v] \in Task /\ task \in [Runs -> [Resources -> Task]]
  BY DEF HInv, IInv, TypeOK
<1>1. At(r, v, "recall") /\ UNCHANGED row
  BY DEF GoStart, GoStop, Recalling, ToCommand, world
<1>2. /\ Stored(r, v) = row[v] /\ Tells(v, row[v])
      /\ phase[r] = "processing"
  BY <1>1, RecalledRow
<1>3. PICK t : t = [task[r][v] EXCEPT !.at = "command"]
  OBVIOUS
<1>4. Become(r, v, t)
  BY <1>3 DEF GoStart, GoStop, ToCommand
<1>5. /\ t.at = "command" /\ t.decision = task[r][v].decision /\ t.seen = task[r][v].seen
      /\ task'[r][v] = t
  BY <1>0, <1>3, <1>4 DEF Task, Become
<1>6. /\ t.decision = "STOP" /\ t.seen = "running" /\ cfg[r].retain_running =>
           touched[v] \in {"START", "ADOPT"}
      /\ t.decision = "START" /\ t.seen = "stopped" /\ cfg[r].retain_stopped =>
           touched[v] = "STOP"
  <2>1. CASE GoStart(r, v)
    BY <1>2, <1>5, <2>1 DEF GoStart, Recalling, KeepsStopped, Tells
  <2>2. CASE GoStop(r, v)
    BY <1>2, <1>5, <2>2 DEF GoStop, Recalling, KeepsRunning, Tells
  <2> QED BY <2>1, <2>2
<1>7. Told(r, v)'
  BY <1>1, <1>2, <1>4, <1>5, <1>6 DEF Told, Tells, At, Become, hvars
<1> QED BY <1>1, <1>4, <1>7, BecomeMoves, OthersTold DEF hvars

(* A command that has come to its end.                                     *)
LEMMA PollStep ==
    ASSUME HInv, NEW r \in Runs, NEW v \in Resources, PollH(r, v)
    PROVE  \A w \in Resources : Told(r, w)'
<1>1. /\ task[r][v].at = "poll" /\ phase[r] = "processing" /\ UNCHANGED row
      /\ Touch(v, task[r][v].decision)
  BY DEF PollH, Poll, At
<1>2. PICK decision : decision = task[r][v].decision
  OBVIOUS
<1>3. decision \in {"START", "STOP"}
  BY <1>1, <1>2 DEF HInv, IInv, Decided
<1>4. PICK entry : entry = Entry(decision = "START", decision = "STOP", decision)
  OBVIOUS
<1>5. /\ StartedByScheduler(entry) = (decision = "START")
      /\ StoppedByScheduler(entry) = (decision = "STOP")
  BY <1>3, <1>4, EntryTells DEF LastActions
<1>6. ToSave(r, v, entry, Performed(decision, "EXECUTED"))
  BY <1>2, <1>4 DEF PollH, Poll
<1>7. /\ \A w \in Resources \ {v} : touched'[w] = touched[w] /\ forgotten'[w] = forgotten[w]
      /\ touched'[v] = decision
  BY <1>1, <1>2 DEF Touch, HInv, HistoryType
<1>8. Tells(v, entry)'
  BY <1>3, <1>5, <1>7 DEF Tells, StartedByScheduler, StoppedByScheduler
<1> QED BY <1>1, <1>6, <1>7, <1>8, SavingStep

(* The row catches up.                                                     *)
LEMMA SaveStep ==
    ASSUME HInv, NEW r \in Runs, NEW v \in Resources, Save(r, v), UNCHANGED hvars
    PROVE  \A w \in Resources : Told(r, w)'
<1>0. task \in [Runs -> [Resources -> Task]] /\ row \in [Resources -> Row \union {None}]
  BY DEF HInv, IInv, TypeOK
<1>1. phase[r] = "processing" /\ task[r][v].at = "save"
  BY DEF Save, At
<1>2. row' = [row EXCEPT ![v] = task[r][v].entry] /\ Tells(v, task[r][v].entry)
  BY <1>1 DEF Save, Written, HInv, Told, At
<1>3. PICK t : t = [Blank EXCEPT !.at = "done", !.outcome = task[r][v].outcome]
  OBVIOUS
<1>4. Become(r, v, t) /\ t.at = "done" /\ task'[r][v] = t
  BY <1>0, <1>3 DEF Save, Done, Become, Blank
<1>5. row'[v] = task[r][v].entry /\ \A w \in Resources \ {v} : row'[w] = row[w]
  BY <1>0, <1>2
<1>6. Told(r, v)'
  <2>1. row'[v] = task[r][v].entry /\ touched' = touched /\ forgotten' = forgotten
    BY <1>5 DEF hvars
  <2>2. Tells(v, row[v])'
    BY <1>2, <2>1 DEF Tells, StartedByScheduler, StoppedByScheduler
  <2> QED BY <1>4, <2>2 DEF Told, At
<1> QED BY <1>4, <1>5, <1>6, BecomeMoves, OthersTold DEF hvars

(* The steps that have nothing to tell.                                    *)
LEMMA OtherStep ==
    ASSUME HInv, Sequential, NEW r \in Runs, NEW v \in Resources,
           Evaluate(r, v) \/ Observe(r, v) \/ Command(r, v) \/ Raise(r, v) \/ Collect(r, v),
           UNCHANGED <<touched, forgotten>>
    PROVE  \A w \in Resources : Told(r, w)'
<1>0. task[r][v] \in Task /\ task \in [Runs -> [Resources -> Task]]
  BY DEF HInv, IInv, TypeOK
<1>1. CASE Evaluate(r, v)
  <2>1. PICK t : Become(r, v, t) /\ t.at \in {"done", "observe"}
    <3>1. PICK decision \in Decisions :
            IF decision = "SKIP" \/ v \notin Handled THEN Done(r, v, Skipped(decision))
            ELSE IF cfg[r].dry_run THEN Done(r, v, Performed(decision, "DRY_RUN"))
            ELSE Become(r, v, [task[r][v] EXCEPT !.at = "observe", !.decision = decision])
      BY <1>1 DEF Evaluate
    <3>2. \A o : [Blank EXCEPT !.at = "done", !.outcome = o].at = "done"
      BY DEF Blank
    <3>3. [task[r][v] EXCEPT !.at = "observe", !.decision = decision].at = "observe"
      BY <1>0 DEF Task
    <3> QED BY <3>1, <3>2, <3>3 DEF Done
  <2>2. phase[r] = "processing" /\ task[r][v].at = "evaluate" /\ UNCHANGED row
    BY <1>1 DEF Evaluate, At, world
  <2> QED BY <2>1, <2>2, BecomeMoves, QuietStep
<1>2. CASE Observe(r, v)
  <2>1. PICK t : t = [task[r][v] EXCEPT !.at = "recall", !.seen = PowerState(code[v])]
    OBVIOUS
  <2>2. Become(r, v, t) /\ t.at = "recall"
    BY <1>0, <1>2, <2>1 DEF Observe, Task
  <2>3. phase[r] = "processing" /\ task[r][v].at = "observe" /\ UNCHANGED row
    BY <1>2 DEF Observe, At, world
  <2> QED BY <2>2, <2>3, BecomeMoves, QuietStep
<1>3. CASE Command(r, v)
  <2>1. PICK t : t = [task[r][v] EXCEPT !.at = "poll"]
    OBVIOUS
  <2>2. Become(r, v, t) /\ t.at = "poll"
    BY <1>0, <1>3, <2>1 DEF Command, Task
  <2>3. phase[r] = "processing" /\ task[r][v].at = "command" /\ UNCHANGED row
    BY <1>3 DEF Command, At
  <2> QED BY <2>2, <2>3, BecomeMoves, QuietStep
<1>4. CASE Raise(r, v)
  <2>1. PICK t : t = [Blank EXCEPT !.at = "done", !.outcome = Failed]
    OBVIOUS
  <2>2. Become(r, v, t) /\ t.at = "done"
    BY <1>4, <2>1 DEF Raise, Done, Blank
  <2>3. phase[r] = "processing" /\ task[r][v].at # "save" /\ UNCHANGED row
    BY <1>4 DEF Raise, At, Sequential
  <2> QED BY <2>2, <2>3, BecomeMoves, QuietStep
<1>5. CASE Collect(r, v)
  <2>1. PICK t : t = [task[r][v] EXCEPT !.at = "collected"]
    OBVIOUS
  <2>2. Moves(r, v, t) /\ t.at = "collected"
    BY <1>0, <1>5, <2>1 DEF Collect, Moves, Task
  <2>3. phase[r] = "processing" /\ task[r][v].at = "done" /\ UNCHANGED row
    BY <1>5 DEF Collect, At, world
  <2> QED BY <2>2, <2>3, QuietStep
<1> QED BY <1>1, <1>2, <1>3, <1>4, <1>5

(* The steps of main(): no worker is about to save before it or after it.  *)
LEMMA MainStep ==
    ASSUME HInv, Sequential, NEW r \in Runs, Runs = {r}, Main(r), UNCHANGED hvars
    PROVE  /\ \A w \in Resources : Told(r, w)'
           /\ phase'[r] \in {"loaded", "processing"} => UsesTable(r)'
<1>0. /\ task \in [Runs -> [Resources -> Task]] /\ phase \in [Runs -> Phases]
      /\ cfg \in [Runs -> Config] /\ UNCHANGED row
  BY DEF HInv, IInv, TypeOK, Main, Trigger, LoadFails, Discover, DiscoverFails, Report, Crash,
         world
<1>1. ~Crash(r)
  BY DEF Crash, Sequential
<1>2. \A w \in Resources : ~At(r, w, "save")
  BY <1>1 DEF Main, Trigger, LoadFails, Discover, DiscoverFails, Report, Over, At, HInv, IInv,
              Assigned
<1>3. \A w \in Resources : ~At(r, w, "save")' /\ ~At(r, w, "command")'
  <2>1. CASE Discover(r)
    <3>1. \A w \in Resources : task'[r][w].at \in {"evaluate", "none"}
      BY <1>0, <2>1 DEF Discover, Blank
    <3> QED BY <3>1 DEF At
  <2>2. CASE ~Discover(r)
    BY <1>0, <1>1, <2>2 DEF Main, Trigger, LoadFails, DiscoverFails, Report, At
  <2> QED BY <2>1, <2>2
<1>4. phase'[r] \in {"loaded", "processing"} => UsesTable(r)'
  <2>1. CASE Trigger(r)
    BY <1>0, <2>1 DEF Trigger, UsesTable, Sequential
  <2>2. CASE Discover(r)
    BY <1>0, <2>2 DEF Discover, UsesTable, HInv
  <2>3. CASE ~Trigger(r) /\ ~Discover(r)
    BY <1>0, <1>1, <2>3 DEF Main, LoadFails, DiscoverFails, Report
  <2> QED BY <2>1, <2>2, <2>3
<1>5. \A w \in Resources : Told(r, w)'
  BY <1>0, <1>2, <1>3 DEF HInv, Told, Tells, hvars
<1> QED BY <1>4, <1>5

(* Deleting a row, at whatever point of a cycle.                           *)
LEMMA DeleteStep ==
    ASSUME HInv, NEW r \in Runs, NEW v \in Resources, StateDeleteH(v)
    PROVE  \A w \in Resources : Told(r, w)'
<1>1. /\ row' = [row EXCEPT ![v] = None] /\ forgotten' = [forgotten EXCEPT ![v] = TRUE]
      /\ UNCHANGED <<phase, cfg, task, touched>>
      /\ row \in [Resources -> Row \union {None}] /\ forgotten \in [Resources -> BOOLEAN]
  BY DEF StateDeleteH, StateDelete, HInv, IInv, TypeOK, HistoryType
<1>2. \A w \in Resources \ {v} : row'[w] = row[w] /\ forgotten'[w] = forgotten[w]
  BY <1>1
<1>3. row'[v] = None /\ forgotten'[v]
  BY <1>1
<1>4. \A w \in Resources \ {v} : Told(r, w)'
  BY <1>1, <1>2 DEF HInv, Told, Tells, At
<1>5. Told(r, v)'
  BY <1>1, <1>3 DEF HInv, Told, Tells, At, StartedByScheduler, StoppedByScheduler
<1> QED BY <1>4, <1>5

-----------------------------------------------------------------------------
LEMMA HistoryInit == InitH => HInv
<1> SUFFICES ASSUME InitH PROVE HInv
  OBVIOUS
<1>1. IInv
  BY InitIInv DEF InitH
<1>2. HistoryType
  BY DEF InitH, HistoryType
<1>3. \A r \in Runs : phase[r] = "idle"
  BY DEF InitH, Init
<1>4. \A r \in Runs, v \in Resources : Told(r, v)
  BY <1>3 DEF InitH, Init, Told, Tells, At, StartedByScheduler, StoppedByScheduler
<1> QED BY <1>1, <1>2, <1>3, <1>4 DEF HInv

LEMMA HistoryStep == ASSUME Sequential, HInv, [NextH]_allvars PROVE HInv'
<1>1. IInv'
  BY HistoryAddsNothing, NextIInv DEF HInv
<1>2. CASE UNCHANGED allvars
  <2>1. UNCHANGED <<row, phase, cfg, task, touched, forgotten, witnessed>>
    BY <1>2 DEF allvars, vars, hvars
  <2> QED BY <1>1, <2>1 DEF HInv, HistoryType, UsesTable, Told, Tells, At
<1>3. CASE NextH
  <2>1. HistoryType'
    BY <1>3, HistoryTypeStep DEF HInv
  <2>2. PICK r \in Runs : Runs = {r}
    BY DEF Sequential
  <2>3. /\ \A w \in Resources : Told(r, w)'
        /\ phase'[r] \in {"loaded", "processing"} => UsesTable(r)'
    <3>1. ASSUME NEW v \in Resources,
                 \/ PollH(r, v) \/ AlreadyRunningH(r, v) \/ ObserveH(r, v) \/ RestH(r, v)
          PROVE  /\ \A w \in Resources : Told(r, w)'
                 /\ UNCHANGED <<phase, cfg>>
      <4>1. UNCHANGED <<phase, cfg>>
        BY <3>1 DEF PollH, Poll, AlreadyRunningH, AlreadyRunning, ObserveH, Observe, RestH,
                    Evaluate, RetainStopped, GoStart, RetainRunning, AlreadyStopped, GoStop,
                    Command, Save, Raise, Collect, ToCommand, ToSave, Done, Become
      <4>2. CASE PollH(r, v) \/ AlreadyRunningH(r, v)
        BY <4>1, <4>2, PollStep, AlreadyRunningStep
      <4>3. CASE ObserveH(r, v)
        BY <4>1, <4>3, OtherStep DEF ObserveH
      <4>4. CASE RestH(r, v)
        BY <4>1, <4>4, OtherStep, CarryStep, GoStep, SaveStep DEF RestH, hvars
      <4> QED BY <3>1, <4>2, <4>3, <4>4
    <3>2. CASE MainH(r)
      BY <2>2, <3>2, MainStep DEF MainH
    <3>3. ASSUME NEW v \in Resources, StateDeleteH(v)
          PROVE  /\ \A w \in Resources : Told(r, w)'
                 /\ UNCHANGED <<phase, cfg>>
      BY <3>3, DeleteStep DEF StateDeleteH, StateDelete
    <3>4. ASSUME NEW v \in Resources, OutsideH(v)
          PROVE  /\ \A w \in Resources : Told(r, w)'
                 /\ UNCHANGED <<phase, cfg>>
      BY <3>4 DEF OutsideH, Outside, hvars, HInv, Told, Tells, At
    <3>5. UNCHANGED <<phase, cfg>> => (phase'[r] \in {"loaded", "processing"} => UsesTable(r)')
      BY DEF HInv, UsesTable
    <3> QED BY <1>3, <2>2, <3>1, <3>2, <3>3, <3>4, <3>5 DEF NextH
  <2> QED BY <1>1, <2>1, <2>2, <2>3 DEF HInv
<1> QED BY <1>2, <1>3

(* The memory constrains nothing: a behaviour with it is one of the        *)
(* service, for which the theorems of SchedulerServiceProofs and           *)
(* SchedulerContractProofs hold, whatever Runs is.                         *)
THEOREM HistoryImplementsService == SpecH => Spec
<1>1. InitH => Init
  BY DEF InitH
<1> QED BY <1>1, HistoryAddsNothing, PTL DEF SpecH, Spec

(* The inductive invariant holds in every reachable state.                 *)
THEOREM HistoryInvariant == ASSUME Sequential PROVE SpecH => []HInv
<1>1. HInv /\ [NextH]_allvars => HInv'
  BY HistoryStep
<1> QED BY <1>1, HistoryInit, PTL DEF SpecH

(* The service and its memory keep their types.                            *)
THEOREM HistoryTypes == ASSUME Sequential PROVE SpecH => []TypeOKH
<1>1. HInv => TypeOKH
  BY DEF HInv, IInv, HistoryType, TypeOKH
<1> QED BY <1>1, HistoryInvariant, PTL

(* A flag is never more than what the scheduler has done, for any number   *)
(* of resources and workers, whatever operators do to VMs and rows and     *)
(* whichever calls fail (_save_state after each branch of the service).    *)
THEOREM NoOverclaims == ASSUME Sequential PROVE SpecH => []NeverOverclaims
<1>1. HInv => NeverOverclaims
  <2> SUFFICES ASSUME HInv, NEW v \in Resources, row[v] # None, ~Writing(v)
               PROVE  /\ row[v].started => touched[v] \in {"START", "ADOPT"}
                      /\ row[v].stopped => touched[v] = "STOP"
    BY DEF NeverOverclaims
  <2>1. PICK r \in Runs : Runs = {r}
    BY DEF Sequential
  <2>2. Tells(v, row[v])
    BY <2>1 DEF HInv, Told, Writing
  <2> QED BY <2>2 DEF Tells, StartedByScheduler, StoppedByScheduler
<1> QED BY <1>1, HistoryInvariant, PTL

(* Nor is it less, unless an operator has deleted the row.  What is proved *)
(* does not need "witnessed": a flag survives whatever others do to the VM,*)
(* which is what ManualStartRetained and ManualStopRetained fail on.       *)
THEOREM NoUnderclaims == ASSUME Sequential PROVE SpecH => []NeverUnderclaims
<1>1. HInv => NeverUnderclaims
  <2> SUFFICES ASSUME HInv, NEW v \in Resources, ~forgotten[v], ~Writing(v)
               PROVE  /\ touched[v] \in {"START", "ADOPT"} => row[v] # None /\ row[v].started
                      /\ touched[v] = "STOP" => row[v] # None /\ row[v].stopped
    BY DEF NeverUnderclaims
  <2>1. PICK r \in Runs : Runs = {r}
    BY DEF Sequential
  <2>2. Tells(v, row[v])
    BY <2>1 DEF HInv, Told, Writing
  <2> QED BY <2>2 DEF Tells, StartedByScheduler, StoppedByScheduler
<1> QED BY <1>1, HistoryInvariant, PTL

(* A VM that the scheduler stopped last and that somebody else started is  *)
(* not stopped under retain_running (service.py, _handle_stop_decision).   *)
THEOREM LastStopIsRespected == ASSUME Sequential PROVE SpecH => []LastStopRespected
<1>1. HInv => LastStopRespected
  BY DEF HInv, Told, LastStopRespected
<1> QED BY <1>1, HistoryInvariant, PTL
=============================================================================
