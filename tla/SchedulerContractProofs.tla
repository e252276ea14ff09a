---------------------- MODULE SchedulerContractProofs ----------------------
(***************************************************************************)
(* SchedulerService implements CycleContract, for any constants: first the *)
(* counters, then the step by step simulation.                             *)
(***************************************************************************)
EXTENDS SchedulerServiceProofs

Fields == {"started", "stopped", "skipped"}

-----------------------------------------------------------------------------
(* The counters.                                                           *)

LEMMA GatheredFinite ==
    ASSUME TypeOK, NEW r \in Runs, NEW field
    PROVE  IsFiniteSet(Gathered(r, field)) /\ Gathered(r, field) \subseteq Resources
<1>1. Gathered(r, field) \subseteq Resources
  BY DEF Gathered, TypeOK
<1> QED BY <1>1, ResourcesFinite, FS_Subset

(* Handing over one more outcome adds what it counts to each counter.      *)
LEMMA GatherOne ==
    ASSUME IInv, NEW r \in Runs, NEW v \in Resources, Collect(r, v), NEW field \in Fields
    PROVE  Cardinality(Gathered(r, field)') =
             Cardinality(Gathered(r, field)) + task[r][v].outcome[field]
<1>0. TypeOK /\ task[r][v] \in Task /\ v \in targets[r] /\ task[r][v].at = "done"
  BY DEF IInv, TypeOK, Assigned, Collect, At
<1>1. task[r][v].outcome[field] \in {0, 1}
  BY <1>0 DEF Task, Outcome, Fields
<1>2. targets' = targets
  BY DEF Collect
<1>3. /\ task'[r][v].at = "collected" /\ task'[r][v].outcome = task[r][v].outcome
      /\ \A w \in Resources \ {v} : task'[r][w] = task[r][w]
  BY <1>0 DEF Collect, TypeOK, Task
<1>4. targets[r] \subseteq Resources
  BY <1>0 DEF TypeOK
<1>5. v \notin Gathered(r, field)
  BY <1>0 DEF Gathered
<1>6. CASE task[r][v].outcome[field] = 1
  <2>1. Gathered(r, field)' = Gathered(r, field) \union {v}
    BY <1>0, <1>2, <1>3, <1>4, <1>6 DEF Gathered
  <2> QED BY <2>1, <1>0, <1>5, <1>6, GatheredFinite, FS_AddElement
<1>7. CASE task[r][v].outcome[field] = 0
  <2>1. Gathered(r, field)' = Gathered(r, field)
    BY <1>0, <1>2, <1>3, <1>4, <1>7 DEF Gathered
  <2>2. Cardinality(Gathered(r, field)) \in Nat
    BY <1>0, GatheredFinite, FS_CardinalityType
  <2> QED BY <2>1, <2>2, <1>7
<1> QED BY <1>1, <1>6, <1>7

(* A run with no resources yet, or with none done, has nothing to count.   *)
LEMMA NothingGathered ==
    ASSUME NEW r \in Runs, NEW field, \A v \in targets[r] : task[r][v].at # "collected"
    PROVE  Cardinality(Gathered(r, field)) = 0
<1>1. Gathered(r, field) = {}
  BY DEF Gathered
<1> QED BY <1>1, FS_EmptySet

Tallied(r) ==
    /\ summary[r].total = Cardinality(targets[r])
    /\ \A field \in Fields : summary[r][field] = Cardinality(Gathered(r, field))

LEMMA CountersAreTallied == TypeOK => (CountersTally <=> \A r \in Runs : Tallied(r))
BY DEF CountersTally, Tallied, Fields, TypeOK, Summary

LEMMA TalliedInit == Init => \A r \in Runs : Tallied(r)
<1> SUFFICES ASSUME Init, NEW r \in Runs PROVE Tallied(r)
  OBVIOUS
<1>1. summary[r] = Zero /\ targets[r] = {}
  BY DEF Init
<1>2. \A field : Cardinality(Gathered(r, field)) = 0
  BY <1>1, NothingGathered
<1> QED BY <1>1, <1>2, FS_EmptySet DEF Tallied, Fields, Zero
(* What is not counted yet does not change when nothing is handed over.    *)
LEMMA TalliedStays ==
    ASSUME NEW r \in Runs, Tallied(r), summary'[r] = summary[r], targets'[r] = targets[r],
           \A v \in targets[r] : \/ task'[r][v] = task[r][v]
                                 \/ task'[r][v].at # "collected" /\ task[r][v].at # "collected"
    PROVE  Tallied(r)'
<1>1. \A field : Gathered(r, field)' = Gathered(r, field)
  BY DEF Gathered
<1> QED BY <1>1 DEF Tallied

LEMMA TalliedMain ==
    ASSUME IInv, \A q \in Runs : Tallied(q), NEW r \in Runs, Main(r)
    PROVE  \A q \in Runs : Tallied(q)'
<1>0. TypeOK
  BY DEF IInv
<1>1. \A q \in Runs \ {r} : /\ summary'[q] = summary[q] /\ targets'[q] = targets[q]
                            /\ task'[q] = task[q]
  BY <1>0 DEF Main, Trigger, LoadFails, Discover, DiscoverFails, Report, Crash, Wipe, TypeOK
<1>2. \A q \in Runs \ {r} : Tallied(q)'
  BY <1>1, TalliedStays
<1>3. Tallied(r)'
  <2>1. CASE Wipe(r)
    <3>1. summary'[r] = Zero /\ targets'[r] = {}
      BY <1>0, <2>1 DEF Wipe, TypeOK
    <3>2. \A field : Gathered(r, field)' = {}
      BY <3>1 DEF Gathered
    <3>3. /\ Cardinality(targets'[r]) = 0
          /\ \A field \in Fields : Cardinality(Gathered(r, field)') = 0
      BY <3>1, <3>2, FS_EmptySet
    <3>4. summary'[r].total = 0 /\ \A field \in Fields : summary'[r][field] = 0
      BY <3>1 DEF Zero, Fields
    <3> QED BY <3>3, <3>4 DEF Tallied
  <2>2. CASE Discover(r)
    <3>1. PICK found \in SUBSET Resources :
            /\ targets' = [targets EXCEPT ![r] = found]
            /\ summary' = [summary EXCEPT ![r].total = Cardinality(found)]
      BY <2>2 DEF Discover
    <3>2. /\ targets'[r] = found
          /\ summary'[r] = [summary[r] EXCEPT !.total = Cardinality(found)]
      BY <1>0, <3>1 DEF TypeOK
    <3>3. targets[r] = {}
      BY <2>2 DEF Discover, IInv, Assigned
    <3>4. \A field \in Fields : summary[r][field] = 0
      BY <3>3, NothingGathered DEF Tallied
    <3>5. \A v \in Resources : task'[r][v].at # "collected"
      BY <1>0, <2>2 DEF Discover, Blank, TypeOK
    <3>6. \A field : Gathered(r, field)' = {}
      BY <3>1, <3>2, <3>5 DEF Gathered
    <3>7. summary[r] \in Summary
      BY <1>0 DEF TypeOK
    <3> QED BY <3>2, <3>4, <3>6, <3>7, FS_EmptySet DEF Tallied, Fields, Summary
  <2>3. CASE UNCHANGED <<targets, task, summary>>
    BY <2>3, TalliedStays
  <2> QED BY <2>1, <2>2, <2>3 DEF Main, Trigger, LoadFails, DiscoverFails, Report, Crash
<1> QED BY <1>2, <1>3

(* A worker other than one that is being handed over is not counted, nor   *)
(* is it after its step.                                                   *)
LEMMA NotYetCollected ==
    ASSUME TypeOK, NEW r \in Runs, NEW v \in Resources, Work(r, v), ~Collect(r, v)
    PROVE  /\ task[r][v].at # "collected" /\ task'[r][v].at # "collected"
           /\ UNCHANGED summary
<1>0. task[r][v] \in Task
  BY DEF TypeOK
<1>a. ASSUME NEW t, Become(r, v, t), t.at # "collected"
      PROVE  task'[r][v].at # "collected" /\ UNCHANGED summary
  <2>1. task'[r][v] = t
    BY <1>a DEF Become, TypeOK
  <2> QED BY <1>a, <2>1 DEF Become
<1>b. ASSUME NEW o, Done(r, v, o)
      PROVE  task'[r][v].at # "collected" /\ UNCHANGED summary
  <2>1. [Blank EXCEPT !.at = "done", !.outcome = o].at = "done"
    BY DEF Blank
  <2> QED BY <1>a, <1>b, <2>1 DEF Done
<1>c. ASSUME NEW e, NEW o, ToSave(r, v, e, o)
      PROVE  task'[r][v].at # "collected" /\ UNCHANGED summary
  <2>1. [Blank EXCEPT !.at = "save", !.entry = e, !.outcome = o].at = "save"
    BY DEF Blank
  <2> QED BY <1>a, <1>c, <2>1 DEF ToSave
<1>d. ASSUME NEW point \in {"command", "poll"}, Become(r, v, [task[r][v] EXCEPT !.at = point])
      PROVE  task'[r][v].at # "collected" /\ UNCHANGED summary
  <2>1. [task[r][v] EXCEPT !.at = point].at = point
    BY <1>0 DEF Task
  <2> QED BY <1>a, <1>d, <2>1
<1>1. CASE Evaluate(r, v)
  <2>1. task[r][v].at # "collected"
    BY <1>1 DEF Evaluate, At
  <2>2. PICK decision \in Decisions :
          \/ \E o : Done(r, v, o)
          \/ Become(r, v, [task[r][v] EXCEPT !.at = "observe", !.decision = decision])
    BY <1>1 DEF Evaluate
  <2>3. [task[r][v] EXCEPT !.at = "observe", !.decision = decision].at = "observe"
    BY <1>0 DEF Task
  <2> QED BY <1>a, <1>b, <2>1, <2>2, <2>3
<1>2. CASE Save(r, v) \/ Raise(r, v)
  BY <1>2, <1>b DEF Save, Raise, At
<1>3. CASE Observe(r, v)
  <2>1. [task[r][v] EXCEPT !.at = "recall", !.seen = PowerState(code[v])].at = "recall"
    BY <1>0 DEF Task
  <2> QED BY <1>3, <1>a, <2>1 DEF Observe, At
<1>4. CASE Branch(r, v)
  <2>1. task[r][v].at # "collected"
    BY <1>4 DEF Branch, AlreadyRunning, RetainStopped, GoStart, RetainRunning, AlreadyStopped,
                GoStop, Recalling, At
  <2>2. \/ \E e, o : ToSave(r, v, e, o)
        \/ Become(r, v, [task[r][v] EXCEPT !.at = "command"])
    BY <1>4 DEF Branch, AlreadyRunning, RetainStopped, GoStart, RetainRunning, AlreadyStopped,
                GoStop, ToCommand
  <2> QED BY <1>c, <1>d, <2>1, <2>2
<1>5. CASE Command(r, v)
  BY <1>5, <1>d DEF Command, At
<1>6. CASE Poll(r, v)
  BY <1>6, <1>c DEF Poll, At
<1> QED BY <1>1, <1>2, <1>3, <1>4, <1>5, <1>6 DEF Work

LEMMA TalliedWork ==
    ASSUME IInv, \A q \in Runs : Tallied(q), NEW r \in Runs, NEW v \in Resources, Work(r, v)
    PROVE  \A q \in Runs : Tallied(q)'
<1>0. TypeOK
  BY DEF IInv
<1>1. PICK t : Replaces(r, v, t)
  BY WorkReplaces
<1>2. /\ UNCHANGED targets
      /\ \A q \in Runs, w \in Resources : q # r \/ w # v => task'[q][w] = task[q][w]
  BY <1>0, <1>1 DEF Replaces, TypeOK
<1>a. \A q \in Runs : targets[q] \subseteq Resources
  BY <1>0 DEF TypeOK
<1>3. CASE Collect(r, v)
  <2>1. \A q \in Runs \ {r} : summary'[q] = summary[q]
    BY <1>0, <1>3 DEF Collect, TypeOK
  <2>2. \A q \in Runs \ {r} : Tallied(q)'
    BY <1>2, <1>a, <2>1, TalliedStays
  <2>3. summary'[r] = Plus(summary[r], task[r][v].outcome)
    BY <1>0, <1>3 DEF Collect, TypeOK
  <2>4. \A field \in Fields : Cardinality(Gathered(r, field)') =
                               Cardinality(Gathered(r, field)) + task[r][v].outcome[field]
    BY <1>3, GatherOne
  <2>5. Tallied(r)'
    BY <1>2, <2>3, <2>4 DEF Tallied, Plus, Fields
  <2> QED BY <2>2, <2>5
<1>4. CASE ~Collect(r, v)
  <2>1. /\ task[r][v].at # "collected" /\ task'[r][v].at # "collected"
        /\ UNCHANGED summary
    BY <1>0, <1>4, NotYetCollected
  <2>2. ASSUME NEW q \in Runs PROVE Tallied(q)'
    <3>1. \A w \in targets[q] : \/ task'[q][w] = task[q][w]
                                \/ task'[q][w].at # "collected" /\ task[q][w].at # "collected"
      BY <1>2, <1>a, <2>1
    <3> QED BY <1>2, <2>1, <3>1, TalliedStays
  <2> QED BY <2>2
<1> QED BY <1>3, <1>4

LEMMA TalliedNext ==
    IInv /\ (\A q \in Runs : Tallied(q)) /\ [Next]_vars => \A q \in Runs : Tallied(q)'
<1> SUFFICES ASSUME IInv, \A q \in Runs : Tallied(q), [Next]_vars
             PROVE  \A q \in Runs : Tallied(q)'
  OBVIOUS
<1>1. ASSUME NEW r \in Runs, Main(r) PROVE \A q \in Runs : Tallied(q)'
  BY <1>1, TalliedMain
<1>2. ASSUME NEW r \in Runs, NEW v \in Resources, Work(r, v)
      PROVE  \A q \in Runs : Tallied(q)'
  BY <1>2, TalliedWork
<1>3. CASE \/ \E v \in Resources : Outside(v) \/ StateDelete(v)
           \/ UNCHANGED vars
  <2>1. UNCHANGED <<targets, task, summary>>
    BY <1>3 DEF Outside, StateDelete, vars
  <2> QED BY <2>1, TalliedStays
<1> QED BY <1>1, <1>2, <1>3 DEF Next

(* At every moment the counters of a run are those of the outcomes handed  *)
(* over so far, whatever the order of the workers and their failures.      *)
THEOREM CountersAlwaysTally == Spec => []CountersTally
<1> DEFINE TInv == IInv /\ \A r \in Runs : Tallied(r)
<1>1. Init => TInv
  BY InitIInv, TalliedInit
<1>2. TInv /\ [Next]_vars => TInv'
  <2>1. IInv /\ [Next]_vars => IInv'
    BY NextIInv
  <2>2. (\A r \in Runs : Tallied(r))' <=> \A r \in Runs : Tallied(r)'
    OBVIOUS
  <2> QED BY <2>1, <2>2, TalliedNext
<1>3. TInv => CountersTally
  BY CountersAreTallied DEF IInv
<1> HIDE DEF TInv
<1> QED BY <1>1, <1>2, <1>3, PTL DEF Spec
-----------------------------------------------------------------------------
(* The simulation.                                                         *)

AInv == IInv /\ CountersTally

(* The contract counts with a Cardinality of its own instance.             *)
LEMMA SameCount == \A S : Contract!Cardinality(S) = Cardinality(S)
BY DEF Contract!Cardinality, Cardinality, Contract!IsFiniteSet, IsFiniteSet

LEMMA InitSimulated == Init => Contract!Init
<1> SUFFICES ASSUME Init PROVE Contract!Init
  OBVIOUS
<1>1. \A r \in Runs : Visible(r) = "idle" /\ VisibleReport(r) = Zero
  BY DEF Init, Visible, VisibleReport
<1>2. \A r \in Runs, v \in Resources : VisibleOutcome(r, v) = Pending
  BY DEF Init, Blank, VisibleOutcome
<1> QED BY <1>1, <1>2 DEF Init, Contract!Init, Contract!Unknown, Contract!Empty, Zero

(* If nobody sees a difference it is a stuttering step.                    *)
LEMMA Unseen ==
    ASSUME UNCHANGED targets,
           \A r \in Runs : /\ Visible(r)' = Visible(r) /\ VisibleReport(r)' = VisibleReport(r)
                           /\ \A v \in Resources : VisibleOutcome(r, v)' = VisibleOutcome(r, v)
    PROVE  UNCHANGED Contract!cvars
BY DEF Contract!cvars

(* Before it has found its resources, and after it is cleared, a run shows *)
(* nothing.                                                                *)
LEMMA ShowsNothing ==
    ASSUME IInv, NEW r \in Runs, targets[r] = {}
    PROVE  \A v \in Resources : VisibleOutcome(r, v) = Pending
BY DEF IInv, Assigned, VisibleOutcome

(* The runs that do not move look the same.                                *)
LEMMA OthersSame ==
    ASSUME NEW q \in Runs, phase'[q] = phase[q], task'[q] = task[q], summary'[q] = summary[q]
    PROVE  /\ Visible(q)' = Visible(q) /\ VisibleReport(q)' = VisibleReport(q)
           /\ \A v \in Resources : VisibleOutcome(q, v)' = VisibleOutcome(q, v)
BY DEF Visible, VisibleReport, VisibleOutcome

LEMMA MainSimulated ==
    ASSUME AInv, NEW r \in Runs, Main(r)
    PROVE  [Contract!Next]_(Contract!cvars)
<1>0. IInv /\ IInv' /\ TypeOK /\ TypeOK' /\ Tallied(r)
  BY MainIInv, CountersAreTallied DEF AInv, IInv
<1>1. \A q \in Runs \ {r} : /\ phase'[q] = phase[q] /\ targets'[q] = targets[q]
                            /\ task'[q] = task[q] /\ summary'[q] = summary[q]
  BY <1>0 DEF Main, Trigger, LoadFails, Discover, DiscoverFails, Report, Crash, Wipe, TypeOK
<1>2. \A q \in Runs \ {r} :
        /\ Visible(q)' = Visible(q) /\ VisibleReport(q)' = VisibleReport(q)
        /\ \A v \in Resources : VisibleOutcome(q, v)' = VisibleOutcome(q, v)
  BY <1>1, OthersSame
<1>3. CASE Wipe(r) /\ phase'[r] \notin {"processing", "reported"}
  <2>1. targets' = [targets EXCEPT ![r] = {}] /\ targets'[r] = {}
    BY <1>0, <1>3 DEF Wipe, TypeOK
  <2>2. /\ Visible(r)' = "idle" /\ VisibleReport(r)' = Zero
        /\ \A v \in Resources : VisibleOutcome(r, v)' = Pending
    <3>1. \A v \in Resources : task'[r][v] = Blank
      BY <1>0, <1>3 DEF Wipe, TypeOK
    <3> QED BY <1>3, <3>1 DEF Visible, VisibleReport, VisibleOutcome, Blank
  <2>3. CASE phase[r] \in {"processing", "reported"}
    <3>1. Visible(r) \in {"processing", "reported"}
      BY <2>3 DEF Visible
    <3>2. Contract!Clear(r)
      BY <1>2, <2>1, <2>2, <3>1 DEF Contract!Clear, Contract!Unknown, Contract!Empty, Zero
    <3> QED BY <3>2 DEF Contract!Next
  <2>4. CASE phase[r] \notin {"processing", "reported"}
    <3>1. targets[r] = {}
      BY <1>0, <2>4 DEF IInv, Assigned, TypeOK, Phases
    <3>2. /\ Visible(r) = "idle" /\ VisibleReport(r) = Zero
          /\ \A v \in Resources : VisibleOutcome(r, v) = Pending
      BY <1>0, <2>4, <3>1, ShowsNothing DEF Visible, VisibleReport
    <3>3. targets' = targets
      BY <1>0, <2>1, <3>1 DEF TypeOK
    <3>4. UNCHANGED Contract!cvars
      BY <1>2, <2>2, <3>2, <3>3, Unseen
    <3> QED BY <3>4
  <2> QED BY <2>3, <2>4
<1>4. CASE Discover(r)
  <2>1. PICK found \in SUBSET Resources :
          /\ targets' = [targets EXCEPT ![r] = found]
          /\ summary' = [summary EXCEPT ![r].total = Cardinality(found)]
          /\ phase' = [phase EXCEPT ![r] = IF found = {} THEN "reported" ELSE "processing"]
    BY <1>4 DEF Discover
  <2>2. phase[r] = "loaded" /\ targets[r] = {}
    BY <1>0, <1>4 DEF Discover, IInv, Assigned
  <2>3. /\ Visible(r) = "idle" /\ VisibleReport(r) = Zero
        /\ Visible(r)' = IF found = {} THEN "reported" ELSE "processing"
    BY <1>0, <2>1, <2>2 DEF Visible, VisibleReport, TypeOK
  <2>4. \A v \in Resources : VisibleOutcome(r, v) = Pending /\ VisibleOutcome(r, v)' = Pending
    <3>1. \A v \in Resources : task'[r][v].at \in {"none", "evaluate"}
      BY <1>0, <1>4 DEF Discover, Blank, TypeOK
    <3> QED BY <1>0, <2>2, <3>1, ShowsNothing DEF VisibleOutcome
  <2>5. VisibleReport(r)' = Zero
    <3>1. CASE found = {}
      <4>1. \A field \in Fields : summary[r][field] = 0
        BY <1>0, <2>2, NothingGathered DEF Tallied
      <4>2. summary'[r] = [summary[r] EXCEPT !.total = 0] /\ summary[r] \in Summary
        BY <1>0, <2>1, <3>1, FS_EmptySet DEF TypeOK
      <4>3. summary'[r] = Zero
        BY <4>1, <4>2 DEF Fields, Summary, Zero
      <4> QED BY <4>3 DEF VisibleReport
    <3>2. CASE found # {}
      BY <1>0, <2>1, <3>2 DEF VisibleReport, TypeOK
    <3> QED BY <3>1, <3>2
  <2>6. Contract!Begin(r)
    BY <1>2, <2>1, <2>3, <2>4, <2>5 DEF Contract!Begin
  <2> QED BY <2>6 DEF Contract!Next
<1>5. CASE DiscoverFails(r)
  <2>1. phase[r] = "loaded" /\ phase'[r] = "failed" /\ UNCHANGED <<targets, task, summary>>
    BY <1>0, <1>5 DEF DiscoverFails, TypeOK
  <2>2. /\ Visible(r)' = Visible(r) /\ VisibleReport(r)' = VisibleReport(r)
        /\ \A v \in Resources : VisibleOutcome(r, v)' = VisibleOutcome(r, v)
    BY <2>1 DEF Visible, VisibleReport, VisibleOutcome
  <2>3. UNCHANGED Contract!cvars
    BY <1>2, <2>1, <2>2, Unseen
  <2> QED BY <2>3
<1>6. CASE Report(r)
  <2>1. /\ phase[r] = "processing" /\ phase'[r] = "reported"
        /\ UNCHANGED <<targets, task, summary>>
    BY <1>0, <1>6 DEF Report, TypeOK
  <2>2. Visible(r) = "processing" /\ Visible(r)' = "reported"
    BY <2>1 DEF Visible
  <2>3. \A q \in Runs, v \in Resources : VisibleOutcome(q, v)' = VisibleOutcome(q, v)
    BY <2>1 DEF VisibleOutcome
  <2>4. \A v \in targets[r] : /\ v \in Resources /\ task[r][v].at = "collected"
                              /\ VisibleOutcome(r, v) = task[r][v].outcome
                              /\ VisibleOutcome(r, v) # Pending
    <3>1. \A v \in targets[r] : v \in Resources /\ task[r][v].at = "collected"
      BY <1>0, <1>6 DEF Report, TypeOK
    <3>2. \A v \in Resources : task[r][v].outcome \in Outcome
      BY <1>0 DEF TypeOK, Task
    <3> QED BY <3>1, <3>2, NoneAssumption DEF VisibleOutcome, Pending
  <2>5. VisibleReport(r)' = Contract!Tally(targets[r], [v \in Resources |-> VisibleOutcome(r, v)])
    <3> DEFINE shown == [v \in Resources |-> VisibleOutcome(r, v)]
               S == {v \in targets[r] : shown[v].started = 1}
               T == {v \in targets[r] : shown[v].stopped = 1}
               U == {v \in targets[r] : shown[v].skipped = 1}
    <3>1. /\ S = Gathered(r, "started")
          /\ T = Gathered(r, "stopped")
          /\ U = Gathered(r, "skipped")
      BY <2>4 DEF Gathered
    <3>2. VisibleReport(r)' = summary[r]
      BY <2>1 DEF VisibleReport
    <3>3. Contract!Tally(targets[r], shown) =
            [total |-> Cardinality(targets[r]), started |-> Cardinality(S),
             stopped |-> Cardinality(T), skipped |-> Cardinality(U)]
      BY SameCount DEF Contract!Tally
    <3>4. Contract!Tally(targets[r], shown) = summary[r]
      <4> HIDE DEF S, T, U
      <4> QED BY <3>1, <3>3 DEF AInv, CountersTally
    <3> QED BY <3>2, <3>4
  <2>6. Contract!Publish(r)
    BY <1>2, <2>1, <2>2, <2>3, <2>4, <2>5 DEF Contract!Publish
  <2> QED BY <2>6 DEF Contract!Next
<1>7. Trigger(r) \/ LoadFails(r) \/ Crash(r)
        => Wipe(r) /\ phase'[r] \notin {"processing", "reported"}
  BY <1>0 DEF Trigger, LoadFails, Crash, TypeOK
<1> QED BY <1>3, <1>4, <1>5, <1>6, <1>7 DEF Main
(* A worker's step either settles its resource or is invisible.            *)
LEMMA WorkSimulated ==
    ASSUME AInv, NEW r \in Runs, NEW v \in Resources, Work(r, v)
    PROVE  [Contract!Next]_(Contract!cvars)
<1>0. IInv /\ IInv' /\ TypeOK /\ TypeOK'
  BY WorkIInv DEF AInv, IInv
<1>1. PICK t : Replaces(r, v, t)
  BY WorkReplaces, <1>0
<1>2. /\ UNCHANGED <<phase, targets>> /\ phase[r] = "processing"
      /\ task' = [task EXCEPT ![r][v] = t] /\ task'[r][v] = t
      /\ \A q \in Runs, w \in Resources : q # r \/ w # v => task'[q][w] = task[q][w]
  BY <1>0, <1>1 DEF Replaces, TypeOK
<1>3. /\ \A q \in Runs : Visible(q)' = Visible(q)
      /\ \A q \in Runs, w \in Resources :
           q # r \/ w # v => VisibleOutcome(q, w)' = VisibleOutcome(q, w)
  BY <1>2 DEF Visible, VisibleOutcome
<1>4. v \in targets[r]
  BY <1>0, <1>1 DEF Replaces, IInv, Assigned
<1>5. CASE Collect(r, v)
  <2>1. VisibleOutcome(r, v)' = VisibleOutcome(r, v)
    <3>1. /\ task[r][v].at = "done" /\ task'[r][v].at = "collected"
          /\ task'[r][v].outcome = task[r][v].outcome
      BY <1>0, <1>5 DEF Collect, At, TypeOK, Task
    <3> QED BY <3>1 DEF VisibleOutcome
  <2>2. \A q \in Runs : VisibleReport(q)' = VisibleReport(q)
    BY <1>0, <1>2, <1>5 DEF Collect, At, VisibleReport, TypeOK
  <2>3. UNCHANGED Contract!cvars
    BY <1>2, <1>3, <2>1, <2>2, Unseen
  <2> QED BY <2>3
<1>6. CASE ~Collect(r, v)
  <2>1. task[r][v].at # "collected" /\ task'[r][v].at # "collected" /\ UNCHANGED summary
    BY <1>0, <1>6, NotYetCollected
  <2>2. \A q \in Runs : VisibleReport(q)' = VisibleReport(q)
    BY <1>2, <2>1 DEF VisibleReport
  <2>3. task[r][v].at # "done"
    BY <1>6 DEF Work, Evaluate, Observe, Branch, AlreadyRunning, RetainStopped, GoStart,
                RetainRunning, AlreadyStopped, GoStop, Recalling, Command, Poll, Save, Raise, At
  <2>4. VisibleOutcome(r, v) = Pending
    BY <2>1, <2>3 DEF VisibleOutcome
  <2>5. CASE task'[r][v].at = "done"
    <3>1. /\ VisibleOutcome(r, v)' = task'[r][v].outcome
          /\ task'[r][v].outcome \in Outcome
      BY <1>0, <2>5 DEF VisibleOutcome, TypeOK, Task
    <3> DEFINE o == task'[r][v].outcome
               outcome == [q \in Runs |-> [w \in Resources |-> VisibleOutcome(q, w)]]
    <3>2. outcome' = [outcome EXCEPT ![r][v] = o]
      BY <1>3, <3>1
    <3>3. outcome[r][v] = Pending
      BY <2>4
    <3>4. Contract!Resolve(r, v)
      BY <1>2, <1>3, <1>4, <2>2, <3>1, <3>2, <3>3 DEF Contract!Resolve, Visible
    <3> QED BY <3>4 DEF Contract!Next
  <2>6. CASE task'[r][v].at # "done"
    <3>1. VisibleOutcome(r, v)' = VisibleOutcome(r, v)
      BY <2>1, <2>4, <2>6 DEF VisibleOutcome
    <3>2. UNCHANGED Contract!cvars
      BY <1>2, <1>3, <2>2, <3>1, Unseen
    <3> QED BY <3>2
  <2> QED BY <2>5, <2>6
<1> QED BY <1>5, <1>6

LEMMA NextSimulated == AInv /\ [Next]_vars => [Contract!Next]_(Contract!cvars)
<1> SUFFICES ASSUME AInv, [Next]_vars PROVE [Contract!Next]_(Contract!cvars)
  OBVIOUS
<1>1. ASSUME NEW r \in Runs, Main(r) PROVE [Contract!Next]_(Contract!cvars)
  BY <1>1, MainSimulated
<1>2. ASSUME NEW r \in Runs, NEW v \in Resources, Work(r, v)
      PROVE  [Contract!Next]_(Contract!cvars)
  BY <1>2, WorkSimulated
<1>3. CASE \/ \E v \in Resources : Outside(v) \/ StateDelete(v)
           \/ UNCHANGED vars
  <2>1. UNCHANGED <<phase, targets, task, summary>>
    BY <1>3 DEF Outside, StateDelete, vars
  <2>2. \A r \in Runs : /\ Visible(r)' = Visible(r) /\ VisibleReport(r)' = VisibleReport(r)
                       /\ \A v \in Resources : VisibleOutcome(r, v)' = VisibleOutcome(r, v)
    BY <2>1 DEF Visible, VisibleReport, VisibleOutcome
  <2>3. UNCHANGED Contract!cvars
    BY <2>1, <2>2, Unseen
  <2> QED BY <2>3
<1> QED BY <1>1, <1>2, <1>3 DEF Next

(* Every run of the service is, to the reader of its report, a cycle of    *)
(* CycleContract: one outcome per resource found, no report before all of  *)
(* them are there, counters that are those of the outcomes.                *)
THEOREM ServiceImplementsContract == Spec => ImplementsSafety
<1>1. Init => Contract!Init
  BY InitSimulated
<1>2. AInv /\ [Next]_vars => [Contract!Next]_(Contract!cvars)
  BY NextSimulated
<1>3. Spec => []AInv
  <2>1. IInv /\ CountersTally <=> AInv
    BY DEF AInv
  <2> QED BY <2>1, Invariance, CountersAlwaysTally, PTL
<1> QED BY <1>1, <1>2, <1>3, PTL DEF Spec, ImplementsSafety, Contract!Safety
=============================================================================
