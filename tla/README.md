# Off-hours scheduler: models and proofs

TLA+ specifications of the Azure off-hours scheduler kept beside the code: what a
scheduling cycle does to virtual machines and to its tables, what operators can do
at the same time, and what holds all the same. Paths below are those of the
repository; `service.py` is `src/scheduler/service.py`.

## 1. The system

A timer-triggered function, `main()`, reads its settings, one global configuration
entity and all schedule entities from two tables, discovers the tagged VMs with two
Resource Graph queries, and processes each on a pool of threads: the engine decides
START, STOP or SKIP, the handler reads the power state, the state table is read, and
a branch is taken: leave the VM alone (already there, or *retained*), or send a
command, wait for it, and write the row. A command-line tool and the portal edit the
tables from outside, without coordination with running cycles.

| Component | State | Operations | Talks to |
|---|---|---|---|
| Timer function `function/OffHoursTimer` | one execution: options, engine, store, service | `main` | everything below; the report goes to the log |
| Scheduling cycle `scheduler/service.py` | discovered resources, one worker each, counters | `run`, `_process_resource`, `_handle_start_decision`, `_handle_stop_decision`, `_save_state` | discovery, engine, registry, handler, state table |
| Schedule engine `scheduler/engine.py`, `models.py` | none | `evaluate`, `matches`, `from_values` | called per resource |
| VM handler `handlers/vm_handler.py`, registry | a client per subscription | `get_state`, `start`, `stop` | the compute platform, long-running operations |
| State table `persistence/state_store.py` | a row per VM: two flags, the last action | `get_state`, `save_state` (upsert) | table storage; `NoopStateStore` when both retain options are off |
| Config and schedule stores `persistence/config_store.py`, `table_entities.py` | two tables | `load`, `load_records`, `load_all`, `build_*`, `normalize_*` | table storage |
| Discovery `discovery/resource_graph.py` | none | `find_scheduled_resources` | Resource Graph, which lags behind the platform |
| Command line `offhours_cli/` | none of its own | `config get/apply`, `schedule list/get/apply/delete`, `state list/get/delete`, `function trigger` | the three tables, the function's admin endpoint |
| Settings `config/settings.py`, report `reporting/` | none | `from_env`, `build_execution_report` | environment, log |
| Deployment `scripts/`, `infra/bicep/` | files, cloud resources | scope resolution, publish, trigger synchronisation | `az` |

What is hard, and what would make each part correct:

* **Cycle.** Runs overlap (the timer is a singleton, a manual trigger is not); each
  worker is a sequence of remote calls, any of which may fail, and anything can
  happen between two of them; the host can die between a command and the write of
  its row. Correct: a VM the scheduler has no claim on is never moved against a
  retain option; rows never claim both flags; one outcome per resource, counters
  that add up, a report at the end.
* **Retain options.** A three-cycle protocol (left running, adopted at the next
  window, stopped after it) carried only by one field of a row. Correct: the flags
  say what happened, no more and no less.
* **Engine.** Local days and UTC days differ, clocks change, days are skipped, ids
  have spellings. Correct: the VM follows the calendar; what is excluded, or not
  included where something is, is not touched.
* **Configuration.** Tables without transactions, two kinds of writers, a loader that
  reads entity by entity. Correct: what the command line writes loads and means what
  was asked; a cycle loads only what was there, and refuses what is malformed.
* **Discovery.** Two queries at two moments over a platform that changes, answers in
  pages. Correct: what was there all the time is found, and its exclusions apply.
* **Keys.** The store and the command line derive keys each in their own way from ids
  that have several spellings. Correct: a machine has one row, and an operator finds it.
* **Which account.** The function reads its settings, the command line its arguments,
  the shell and a context file of a deployment that may have named its tables. Correct:
  both work on the same account, and on the same tables or it is known when not.
* **Manual trigger.** Functions come and go and keys are renewed between the steps of a
  call that may time out. Correct: a call reports what it started.
* **Deployment.** Lost exit statuses, bounded retries, executions that fail half-way.
  Correct: a scheduler has the scope that was declared, a deployment that ends well has
  a registered function, and every deployment ends.

## 2. The modules

| Module | Models | Kind |
|---|---|---|
| `VmHandler` | power codes and what commands do to them | operators |
| `SchedulerService` | `main` and the whole of `service.py` over the state table, with overlapping runs, faults, crashes and operators | state machine |
| `CycleContract` | what a cycle promises the reader of its report | abstract specification |
| `RetainHistory` | `SchedulerService` with a memory of what happened to a VM | history variables |
| `ScheduleEngine` | the decision for a resource at an instant, and a calendar to hold it against | operators |
| `ScheduleClock` | a VM under a schedule, a clock, a periodic cycle and its operators | state machine |
| `SchedulerDays` | `RetainHistory` with the engine's decisions, the timer and a clock that goes round from week to week | composition |
| `ConfigTables` | the two configuration tables, the command line, the portal and the loading part of `main` | state machine |
| `Discovery` | the two Resource Graph queries, the platform between them, the scopes applied to the result | state machine |
| `StateRows` | a table with one row per machine | abstract specification |
| `StateKeys` | the keys of that table, as the store and the command line derive them, and `state list` | state machine |
| `StorageTarget` | which account, tables and app the function and the command line work on | state machine |
| `FunctionTrigger` | `offhours function trigger` beside a function app that changes | state machine |
| `DeployScheduler` | `deploy_scheduler.sh`: the scope, the deployment, the registration | state machine |
| `CycleInputs` | `ConfigTables` or `Discovery`, in one behaviour each | composition |
| `OperatorTools` | `StateKeys`, `StorageTarget`, `DeployScheduler` or `FunctionTrigger`, in one behaviour each | composition |
| `SchedulerServiceProofs` | the inductive invariant of `SchedulerService` and what follows; runs go forward and never stall | proofs |
| `SchedulerContractProofs` | the counters, and `SchedulerService` implements `CycleContract` | proofs |
| `RetainHistoryProofs` | the rows say what happened; the memory constrains nothing | proofs |
| `ScheduleEngineProofs` | the engine decides what the calendar says; what windows cannot say | proofs |
| `ScheduleClockProofs` | VMs are kept to the calendar, others are left alone | proofs |
| `SchedulerDaysProofs` | the retain options keep their promises through windows and weeks, and every cycle does what it is for | proofs |
| `CycleInputsProofs` | `ConfigTables`: what is written means what was asked, what is loaded was there; `Discovery`: what is found was there, all of it, and exclusions hold, within a page; both in `CycleInputs` | proofs |
| `OperatorToolsProofs` | `StateKeys`: one row per machine, within reach, lists that are complete, and it implements `StateRows`; `StorageTarget`: when both sides reach the same account and tables; `FunctionTrigger`: what a call reports is what it started; `DeployScheduler`: how far the scope can be off, what a deployment that ended well has done and why it ends; all four in `OperatorTools` | proofs |
| `MC*` | constants for TLC | instances |

Operators whose comment begins with *Mutant* are not part of any specification: each
is a plausible bug of the definition below it, and a property is kept only if TLC
refutes it when the mutant takes the place of that definition.

### SchedulerService

`phase`, `cfg`, `targets` and `summary` are the locals of `main` and `run`, per run;
`task[r][v]` is the worker of run `r` on resource `v`: the call it is about to make
(`at`) and the locals it still needs. `code` is the platform, `row` the state table.
`claimed` is history: which power states the scheduler has brought a VM to, or
adopted. Nothing reads it.

| Action | Code |
|---|---|
| `Trigger`, `LoadFails` | `main` up to `service.run()`; each run reads the configuration afresh |
| `Discover`, `DiscoverFails` | `run` l. 103-118; any subset comes back, since the index lags |
| `Evaluate` | l. 138-168, including SKIP, no handler and dry run; at most `Workers(r)` at a time (l. 95, 116) |
| `Observe` | `handler.get_state` (l. 170) |
| `AlreadyRunning`, `RetainStopped`, `GoStart` | `state_store.get_state` (l. 171) and the branches of `_handle_start_decision` |
| `RetainRunning`, `AlreadyStopped`, `GoStop` | the same for `_handle_stop_decision` |
| `Command`, `Poll` | `begin_start`/`begin_deallocate` accepted, and `poller.result()` |
| `Save` | `save_state`; nothing when both retain options are off |
| `Raise` | any of these calls raises (l. 200-206); a write whose answer is lost may have happened |
| `Collect`, `Report` | `as_completed` l. 119-124, and the result and report |
| `Crash`, `Outside`, `StateDelete` | the host, everybody else's power changes, `offhours state delete` |

The decision of the engine is an input here. `state delete` reads the row and
deletes it later without a condition, which comes to a deletion at that later moment
or to nothing, so it is one step. `LastObservedState` and `UpdatedAtUtc` are never
read back and are left out. A command whose request fails after it took effect is
`Raise` and a step of `Outside`.

### RetainHistory

`touched` is what the scheduler last completed on a VM, `witnessed` which states
workers have seen since, `forgotten` whether the row was deleted since. The
invariants on them hold for the timer alone, with the table in use and no lost
writes; with overlapping runs or crashes only the weaker `FlagsGrounded` and
`NoForeign*` hold, and those are proved without any such hypothesis.

### ScheduleEngine and ScheduleClock

`Decide` follows the code: offset, weekday name, minute of the day, half-open
windows. `Covered` and `Skipped` tell the same from a calendar laid out on the time
line, and `NeverAstrayForLong` compares what the cycles did with that calendar.
`OffsetAt` depends on the instant, so clocks may change. Ids are spellings and
`Canonical` is what normalisation makes of them. `LeftAlone` compares spellings id by id,
without the sets that the engine keeps: `Excluded`, `NotIncluded` (some list of inclusions
has an entry that is not blank, and none names the resource), an unknown schedule or zone,
a skipped day. `ScheduleClock` assumes that the
timer never misses and that a cycle takes less than a minute: `SchedulerService` is
where cycles are slow or fail.

### SchedulerDays

The composition: `EvaluateNow` lets a worker take only the decision that
`ScheduleEngine` takes at the minute of the cycle; `Fire` starts a run when the timer is
due; `Tick` goes from minute to minute and from the last of a week to the first.
Operators act between cycles, cycles find all VMs and are over within their minute:
what happens inside a slow or failing one is the matter of `SchedulerService`. `stage`,
`noticed`, `parked` and `overdue` are history and tell a manual override by the
calendar: switched on while the window is closed, its window opened, its window over.

### ConfigTables

A field is a value, absent, or `"bad"`. `Built` and `Accepted` are
`build_schedule_entity`; `WellFormed` and `Meaning` are `normalize_schedule_entity`.
A command is two steps (`ScheduleApply` then `ScheduleUpsert`, `ScheduleDelete` then
`ScheduleRemove`), or ends at the preview. A cycle reads the configuration, then one
entity per step in listing order. `intended` and `offered` are history.

### Discovery

`groups_of` and `found` are `management_groups_by_subscription` and `resources` of
`find_scheduled_resources`; `LoadGroups` and `FindResources` are its two requests,
`Raise` either of them failing, `Finish` the end of the cycle that uses the result.
`chain` and `tag` are what the index of Resource Graph holds, changed by `Reparent`
and `Retag` at any moment; a subscription it does not hold has `Absent` for a chain,
a machine that was deleted has no tag. `FirstPages` is external: a page of
`PageSize` rows in no particular order, and the code has no use for the token of the
next one. `seen` is history. The order of the groups in a chain is left out, since
scopes test membership only.

### StateKeys, StateRows

`KeyOf` is `_partition_key` and `_row_key` of the store (the row key that it makes up for a
resource without an id, `state_store.py:78-82`, is left out: what is discovered has one), `KeysFrom` is
`state_entity_keys_from_resource_id` of the command line. The hash in a row key is left
out: it keeps different ids apart and has no other effect. `Recall`, `Save` and `GiveUp` are
a worker between `get_state` and `save_state`; `StateDelete` and `StateRemove` show a row
and delete it later; `StateList` goes through rows that come and go meanwhile. `StateRows`
knows machines, no keys: `ImplementsRows` maps the keyed table to it.

### StorageTarget

`FunctionStorage` and `FunctionTables` are `Settings.from_env`, `CliStorage`, `CliTables`
and `CliApp` are `StorageSettings.from_args` and `resolve_required_value`, `Sourced` is
the wrapper `offhours`, which loads `.offhours.env` unless the shell names an account, and
`Settings` are the app settings that the templates write: no connection string, the
account, and the three table names of their parameters (`main.bicep:58-65`,
`functionApp.bicep:220-235`), which `tables_of` keeps for each account that was deployed.
`Deploy` chooses any of `Parameters` for them and writes the context file of this checkout,
or does not: the script may be run in another one, or end before it gets to the file. The order of the variables, the
defaults and at what point each side trims are kept, since the properties are about them.

### FunctionTrigger

One action per remote call of `handle_function_trigger`: `List`, `FetchKey`, `Post`,
`Answer`, `TimeOut` and `GatewayError`, with `Republish` and `Renew` by others in between.
An error of the host means that it has not started a run; one of the front end in its place
(HTTP 502, 504), which the code prints in the same way, is an end of its own and, like a
time-out, says nothing: the request goes on. `RefusedStartsNothing` is of the former. Failing
queries of the list read as an empty one, as in the code. What the run it starts does is
`SchedulerService`.

### DeployScheduler

`step` is the command the script is about to run; `deployed`, `package` and `context`
outlive an execution. `set -e` is a step to `"failed"`, except where the script takes the
status itself: the query of a management group in a process substitution (`QueryGroup`),
the synchronisation within the wait (`Resync`). `MaxSyncs`, `MaxPolls` and `ResyncAt` are
the numbers in the script. `Register` is the platform's.

### Several models in one run

`StateKeys`, `StorageTarget`, `DeployScheduler` and `FunctionTrigger` share no variable.
`OperatorTools` has behaviours of one of them each, the others at rest, and `CycleInputs`
does the same for `ConfigTables` and `Discovery`: all interleavings within a model are
there, and those between them would be products that show nothing.

## 3. What the runs check

| Run (cfg) | Instance | States | Shows |
|---|---|---|---|
| `SchedulerOverlap` | 1 VM, 2 overlapping runs, all faults, crashes, deletions, both retain options or none | 595 k | `IInv`, `FlagsExclusive`, `NoForeignStop`, `NoForeignStart` |
| `CyclePool` | 2 VMs, 2 workers, 1 run | 184 k | `CountersTally`, refinement of `CycleContract` (safety) |
| `CycleLive` | 1 VM and 1 unhandled resource, `MAX_WORKERS` = 0 | 49 k | `CycleEnds`, refinement of `CycleContract` with its fairness |
| `RetainSequential` | 1 VM, 1 run at a time, failing commands, deletions | 226 k | `NeverOverclaims`, `NeverUnderclaims`, `LastStopRespected` |
| `ScheduleClock` | 952 timetables, scopes and resources over two weeks | 91 k | `NeverAstrayForLong`, `CyclesLeaveAlone` |
| `SchedulerDays` | 1 VM, weeks of three days, two windows a day, one skipped day, a timer every second minute, an operator who switches it, deletes its row or leaves it without a power state | 47 k | `KeptUntilCrossed`, `OverrideEnds`, `ParkedStays`, `CycleLeavesAsScheduled` |
| `CycleInputs` | 2 operators, the portal, 1 cycle, 2 entities of one name; or 2 subscriptions, 2 machines, one of them elsewhere, 4 chains, answers of one page | 1811 k | `AppliedMeansIntended`, `LoadedWasOffered`, `FailFast`; `FoundAll`, `FoundWasThere`, `ExclusionsHold` |
| `OperatorTools` | 2 workers, 1 operator, ids in several spellings; or the variables of a shell and deployments with two choices of table names; or deployments to 2 resource groups, any call of which may fail; or 1 call | 445 k | `OneRowEach`, `ReachableByHand`, `ListComplete`, `ImplementsRows`; `SameTargetLocally`, `DeployedReached`, `ShellWinsByIdentity`; `ScopeBounded`, `DoneMeansRegistered`, `DeploymentEnds`; `AcceptedStarted`, `RefusedStartsNothing`, `UnnamedRunsTimer` |
| `ManualStart` | as `RetainSequential`, nothing fails | | a documented promise is broken, see below |
| `DisabledSchedule` | as `ConfigTables` | | a disabled entity can still fail every cycle |
| `FirstPage` | as `Discovery`, pages of one row | | `FoundAll` beyond the first page |
| `SyncExhausted` | as `DeployScheduler` | | the script ends where it says that it goes on |

What some of these do not show: `FoundAll` passes where answers fit in a page, and
`FirstPage` is where they do not; `OneRowEach`, `ReachableByHand` and `ImplementsRows` are of
subscriptions in lower case (`MixedSubscriptions` has others); `LastStopRespected` is of a
table in use (`OptionsOff` takes it out of use); `UnnamedRunsTimer` of a timer that stays
published. Each condition is in the instance or in the property.

One more instance is kept to be run by hand: `FunctionTrigger.cfg` has two calls side by
side (2136 k states).

Bounds. Nothing in `service.py` relates two VMs except the pool and the counters, so
one VM is enough for rows, flags and claims, and two for the pool; two runs give
every interleaving of two reads and two writes of one row, and a run is reused after
it ends, so sequences of cycles are unbounded. Days of four minutes and weeks of
three days have a first, a last and two inner minutes, a worked day before and after
a skipped one, and an offset that carries over midnight either way. Two keys with one
name are the least on which listing order matters. Pages of two rows are full and
enough for two machines, pages of one are not; real pages are larger, which changes
when an answer stops fitting and not what happens then. Two workers and one operator give
every interleaving of two reads and two writes of a row with a deletion; two resource
groups are the least on which the context file can name the wrong one; one call suffices
in `OperatorTools`, since calls share only the app. `MaxSyncs` (6), `MaxPolls` (24) and
`ResyncAt` are those of the script. `MaxRenewals` bounds how often a key is renewed: once
is enough for a key to be stale. `Horizon` ends the clock of `ScheduleClock`, hence
`CHECK_DEADLOCK FALSE` in `ScheduleClock.cfg` and nowhere else; the clock of
`SchedulerDays` goes round and needs no end.

Symmetry is used for runs, VMs and operators in runs that check safety only.

### Fairness

`FairSpec` adds weak fairness of `Discover`, `Report` and of each worker's `Work`.
`main` is sequential code, the executor starts a queued task when a thread is free,
and every remote call returns or raises, which the SDK's timeouts and retries bring
about. No fairness is assumed of triggers, operators, faults or crashes. Because a
worker's failure is one of the outcomes of `Work`, nothing is assumed to succeed.

`FairDeployment` adds weak fairness of `Script`, the steps of the script: every `az` call
returns or times out. It is not assumed that any call succeeds or that the platform ever
registers a function: `DeploymentEnds` holds because the loops are bounded.

### Disagreements between documents and code

* `docs/architecture.md:432` and `:434` say that a VM started (stopped) by somebody
  else is left running (stopped) under the retain option. The branches for a VM that
  is already where the window wants it keep the *other* flag of the row
  (`service.py:381`, `:325`), so the flag outlives the manual stop (start) that made
  it obsolete. `ManualStart` and `ManualStop` give the sequences of cycles.
* `docs/architecture.md:303` says that `Enabled=false` takes a schedule out of the
  cycle. `load_records` (`config_store.py:108`) normalises it first, and a malformed
  field ends the cycle for every resource: `DisabledSchedule`.
* `docs/architecture.md:325-330` says that every tagged VM of the listed subscriptions
  is found, and `:385` that any exclusion takes a resource out. Only the first page of
  each answer is used (`resource_graph.py:85`, `:109`): beyond it VMs are never
  scheduled (`FirstPage`), and VMs of subscriptions whose groups were beyond it escape
  exclusions by group (`MissingGroups`).
* `deploy_scheduler.sh:336` says "continuing with function registration checks" after the
  last attempt to synchronise. The call in the main flow has no `||`, so `set -e` ends the
  script: `SyncExhausted`.

The following have a configuration each, in which TLC finds the property violated:

* `OptionsOff` (`LastStopRespected`): with both retain options off rows are neither read
  nor written. Switched on again, a claim of long ago makes a cycle stop a VM that the
  scheduler has stopped since and somebody else has started (`OffHoursTimer/__init__.py:86`;
  `docs/architecture.md:432`).
* `LateOverride` (`EveryOverrideEnds`): a VM switched on after the last cycle before its
  window is never adopted (`service.py:318-323`) and is left running after the window.
  `docs/operator-guide.md:253` has every resource return to the normal cycle.
* `MixedSubscriptions` (`OneRowEach`): the partition key is the subscription as it is
  spelled (`state_store.py:86`), so a machine found under two spellings has two rows.
  `docs/code-components.md:133` has the row key canonical so that there are no duplicates.
* `ShellWins` (`ShellWins`): any connection string in the shell, `AzureWebJobsStorage`
  included, is used instead of `OFFHOURS_TABLE_SERVICE_URI` (`storage.py:102`), which
  "vence" by `docs/operator-guide.md:87`.
* `LostGroup` (`ScopeDeclared`): a failing management group query is lost and the
  deployment goes on without its subscriptions (`deploy_scheduler.sh:183`;
  `docs/architecture.md:153`). `ScopeBounded` says what holds all the same.
* `ExcludedSpelling` (`ExcludedInAnySpelling`): exclusions are compared letter by letter
  (`deploy_scheduler.sh:190`; `docs/architecture.md:149`).
* `NamedCall` (`NameSuffices`): an empty list of functions turns a call down whether or not
  it named one (`main.py:573`), against its own message (`:576`).

No document says what becomes of a deployment with table names of its own: the context file
does not carry them (`deploy_scheduler.sh:273`), so that after it the wrapper works on the
default tables of the right account, unless the shell names others. `DeployedReached` says
exactly when the tables are those of the function (`TableKnown`) and does not hold with all
of them reached: TLC refutes that after one deployment.

Found on the way, promised by no document and covered by no property: after a second publish the
registration of the first is still listed (`:361`); two executions at a time share the
package file and the name of the deployment (`:296`); a skipped day that is no weekday name
loads and never matches (`table_entities.py:170`).

## 4. What is proved

For every value of the constants, from the assumptions named in `SchedulerService`
(finitely many resources, handled ones among them, an integer `MaxWorkers`,
configurations and codes of the right type, a `None` that is no outcome):

* `Invariance`: `Spec => []IInv`, where `IInv` is inductive. `NoForeignStop` alone is
  not: that the worker about to stop a VM has a claim on it follows from the flag it
  read, so every flag in the table *and on its way there* must be grounded
  (`FlagsGrounded`); that a saved entry is grounded follows from what the worker read
  and, for a command, from its decision (`Decided`), which must not be SKIP.
* `ExclusiveFlags`, `NeverStopsForeign`, `NeverStartsForeign`: its consequences. They
  hold for any number of overlapping runs, whatever crashes.
* `CountersAlwaysTally`: `Spec => []CountersTally`, by adding one collected outcome to
  three cardinalities at a time.
* `ServiceImplementsContract`: `Spec => ImplementsSafety`. Initial states map to
  initial states and each action to `Begin`, `Resolve`, `Publish`, `Clear` or a
  stutter; `Report` needs the counters, hence `CountersTally` in its invariant.
* `RunsGoForward`, `RunsNeverStall`, `PoolStaysBounded`: what of `CycleEnds` is safety.
  A step of a worker takes it to a later call (`Passed`), no step of anybody takes it
  back, and a run that is under way can report or has a worker that can go on, also
  with `MAX_WORKERS` at zero or below, since `Workers(r)` is at least one wherever there
  are resources (`WorkersFor`). A run of *n* resources is therefore over after at most
  7*n* steps of its workers, each of which the fairness of `Work` brings about; that
  last inference, from variant and fairness to `CycleEnds`, is the one the prover does
  not make. No more than `Workers(r)` resources are under way at once.

`RetainHistoryProofs`, for any resources and workers, from `Sequential`: one run at a
time, some retain option at all times, neither a lost write nor a crash. All three are
needed: the runs without them (`SchedulerOverlap`, `OptionsOff`) reach states in which
the rows are wrong.

* `NoOverclaims`, `NoUnderclaims`, `LastStopIsRespected`, `HistoryTypes`. The invariant
  `HInv` adds to `IInv` that the row `Tells` what was done last, or, while a worker is at
  its save, that the entry on its way does; and that a worker about to give a command has
  read that it is entitled to it (`Told`): to stop a VM it has seen running under
  `retain_running`, that the scheduler started or adopted it last. What it gives is
  stronger than `NeverUnderclaims` asks: flags survive whatever others do to the VM, and
  that is the disagreement `ManualStart` shows.
* `HistoryImplementsService`: `SpecH => Spec`, without any such hypothesis. The variables
  added constrain nothing, so what is proved of the service holds with them.

`ScheduleEngineProofs`, for any length of day and week, offset, windows and skipped days:

* `EngineFollowsCalendar`: the code reads a weekday name and a minute of the day off the
  local time; windows laid out day by day on the time line give the same decision. It
  rests on one fact of arithmetic, that a quotient is the only number of days that leaves
  less than a day (`DayNumber`), since a product of two variables is beyond the solver.
* `NothingOpenOverMidnight`: a window over midnight (22:00-06:00), which the validation
  accepts, is never open, and since no window can stop after the last minute of a day no
  schedule covers that minute. No document says otherwise; an operator should know.

`ScheduleClockProofs`, for any such setup, zones whose clocks may change included, and any
period of the timer (`SetupsAssumption`: ids are not blank, windows are times of day, as
discovery and the stores have it):

* `KeptToCalendar`, `OthersLeftAlone`, `ClockTypes`. `OthersLeftAlone` rests on `NamedByIds`,
  that to be named by a list in some spelling is to have an id among those the scope keeps. `NeverAstrayForLong` is not inductive:
  `CInv` adds that a VM has been astray for no longer than it is since the timer fired
  last (`SinceTimer`), or a whole period while a cycle is due.

`SchedulerDaysProofs`, from `Sequential`, for any number of VMs, timetables, lengths of day
and week and periods of the timer, as long as one week is like the next (`SteadyAssumption`):

* `KeptUntilWindowIsOver` and `ParkedIsLeftOff`, action properties, and `DaysTyped`. `DInv`
  joins `HInv` to the calendar: a worker carries out what the calendar says of this very
  minute (`Timely`, by `EngineFollowsCalendar`, since clock and operators wait for the
  cycle), and where a switched VM has come to agrees with its window, its power and
  `touched` (`StageSound`). To stop it before its window is over the scheduler would have
  to have read that it started it, which `Told` and `StageSound` exclude.
* `CyclesLeaveAsScheduled`, an action property: at the moment a cycle reports, each VM with
  a handler is as the calendar wants it or retained with cause. `LInv` follows each worker:
  what a branch did not command was already so or was kept by a retain option (`Heeded`),
  and stays so until the report, since operators and clock wait; a VM without a power state
  is commanded whatever the options say (`service.py:334`).
* `DaysImplementHistory`: `SpecD => SpecH`, hence `Spec`, from no hypothesis: on the
  calendar the service takes no step that it does not take with any decisions and triggers.
* `OverrideIsUsedUp`, from `Overriding` as well: `retain_running` throughout and no dry
  run, a handler for every VM, and `WindowsMet`, that the timer fires in every window.
  Without it an adoption can be missed: with one window of two minutes a day and a timer
  every fourth minute that never falls into it, TLC finds `OverrideEnds` violated. `EInv`
  follows the row through the three cycles of the protocol: the mark of the cycle that left
  the VM running is there, or on its way to the table, until the window opens (`Adopted`);
  the first cycle in the window turns it into a flag; and `OnTime` counts the minutes after
  the window against the minutes since the timer, as in `CInv`. TLC checked it on the
  instance of `SchedulerDays` before it was proved, and evaluates `WindowsMet` on that run.

`CycleInputsProofs`, for any keys, operators, files and entities (`NoneAssumption`: a
missing entity is no entity):

* `ApplyMeansIntended`, `LoadsWhatWasOffered`, `FailsFast`, `TablesTyped`. `TInv` needs that
  what is in the table has been offered since the cycle began (`OfferedNow`), and that what
  was read of a key stays sound because what is offered only grows (`ReadSound`). That
  of two entities of one name the later one wins is a second invariant over it (`LaterWins`).

and for discovery, from `OnePage`, that subscriptions and machines fit in one page each:

* `EveryMachineFound`, `FindsWhatWasThere`. `GInv` carries that the present is part of what
  was seen while a discovery is under way, and that the groups it holds were all the
  groups of their subscription at one moment. Without `OnePage` both fail (`FirstPage`).
* `ExcludedStaysOut`, from `OneName` as well: where an item of a chain has both a name and
  an id, they come to the same. The code takes the first that is there, and exclusions may
  be written with either.
* `DiscoveryTyped`, for any number of pages.
* `InputsTyped` and `InputsAreSound`, for `CycleInputs`: each of its behaviours is one of
  `ConfigTables` and one of `Discovery` (`InputsKeepTables`, `InputsKeepDiscovery`), so all
  of the above holds in the run that checks the two together.

`OperatorToolsProofs`, for the keys from `LowerSubscriptions`, that discovery names the
subscription of a machine as its lower-cased id does (`MixedSubscriptions` shows why), and
`CanonicalAssumption`: the code's normalisation is not idempotent for an id that ends in a
space and a slash, and no id does:

* `NoDuplicates`, `RowsWithinReach`, and `KeysImplementRows`: the refinement, concurrent
  saves and deletions included.
* `ListsAreComplete`, with rows that come and go during a list: `LInv` relates what is
  shown to the rows passed, and those that stayed to the keys that were there.

for the storage account, for any content of a shell and any sequence of deployments:

* `SameTarget`, `DeploymentReached`, `ShellWinsWithoutConnection`: the two chains of
  fallbacks, with their different places of trimming, compared variable by variable. Of the
  tables `DeploymentReached` proves an equivalence, for any names given in the templates: a
  table is the function's if and only if it is `TableKnown`.

for the trigger, for any calls, slots, functions and renewals:

* `AcceptedMeansStarted`, `RefusedMeansNothing`, `UnnamedMeansTimer`. `FInv` ties requests
  under way and runs to the step of the call that they belong to (`TrafficAgrees`), and a
  chosen function to what was published during the call (`TimerMeant`).

and for the deployment, for any groups, exclusions, page size and faults:

* `ScopeStaysBounded`, `DoneIsRegistered`. `DInv` bounds the scope at each step before the
  exclusion and after it, since a scope that is deployed was computed several steps before.
* `ScriptRunsDown`, what of `DeploymentEnds` is safety: every step of the script goes to a
  later stage or, within one, uses up a group, an attempt of the wait or an attempt of the
  synchronisation (`NearerToEnd`, a lexicographic descent that ends because the groups are
  finitely many and the attempts bounded by `CountersBelow`).

and for `OperatorTools`, whose behaviours are ones of each of the four (`ToolsKeepKeys` and
its like): `ToolsTyped` and `ToolsAreSound`, that all of the above holds in the run that
checks them together.

Only model-checked: `CycleEnds`, `ImplementsContract` (its fairness; its safety is
`ServiceImplementsContract`) and `DeploymentEnds`, since fairness and `ENABLED` are out of
the prover's reach. Every other property of every passing run is a theorem. `TypeOKH` is
one (`HistoryTypes`) and is checked as a part of `TypeOKD` in `SchedulerDays`.

## 5. Not modelled, and what is left

* `SchedulerDays` has cycles that find everything and never fail, and clocks that do not
  change. Overlapping runs on several days would be its next extension.
* Formatting and parsing of dates, tables and JSON (`formatting.py`), the
  check of a token, log lines, reasons and durations: no property depends on them.
* The packaging scripts copy files and are a step of `Publish` that may fail.
* The infrastructure templates declare resources. The app settings that they write are in
  `StorageTarget`, the scope in `DeployScheduler`; the rest has no behaviour of its own.
* Azure itself: Resource Graph, table storage, the compute platform and the Functions host
  are external, modelled from how the code uses them.
