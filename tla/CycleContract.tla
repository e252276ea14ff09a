--------------------------- MODULE CycleContract ---------------------------
(***************************************************************************)
(* What a scheduling cycle promises the reader of its report: every        *)
(* resource it found gets exactly one outcome, the report appears only     *)
(* when all of them have one, and its counters are those of the outcomes.  *)
(* No workers, no calls, no table: SchedulerService implements this.       *)
(***************************************************************************)
EXTENDS Naturals, FiniteSets

CONSTANTS Runs, Resources, Outcomes, Pending

VARIABLES phase, targets, outcome, report

cvars == <<phase, targets, outcome, report>>

Empty == [total |-> 0, started |-> 0, stopped |-> 0, skipped |-> 0]
Unknown == [v \in Resources |-> Pending]

Tally(found, results) ==
    [total   |-> Cardinality(found),
     started |-> Cardinality({v \in found : results[v].started = 1}),
     stopped |-> Cardinality({v \in found : results[v].stopped = 1}),
     skipped |-> Cardinality({v \in found : results[v].skipped = 1})]

Init ==
    /\ phase = [r \in Runs |-> "idle"]
    /\ targets = [r \in Runs |-> {}]
    /\ outcome = [r \in Runs |-> Unknown]
    /\ report = [r \in Runs |-> Empty]

(* The cycle finds its resources; with none, its empty report is out.      *)
Begin(r) ==
    /\ phase[r] = "idle"
    /\ \E found \in SUBSET Resources :
         /\ targets' = [targets EXCEPT ![r] = found]
         /\ phase' = [phase EXCEPT ![r] = IF found = {} THEN "reported" ELSE "processing"]
    /\ UNCHANGED <<outcome, report>>

Resolve(r, v) ==
    /\ phase[r] = "processing"
    /\ v \in targets[r]
    /\ outcome[r][v] = Pending
    /\ \E o \in Outcomes : outcome' = [outcome EXCEPT ![r][v] = o]
    /\ UNCHANGED <<phase, targets, report>>

Publish(r) ==
    /\ phase[r] = "processing"
    /\ \A v \in targets[r] : outcome[r][v] # Pending
    /\ phase' = [phase EXCEPT ![r] = "reported"]
    /\ report' = [report EXCEPT ![r] = Tally(targets[r], outcome[r])]
    /\ UNCHANGED <<targets, outcome>>

(* The report has been read, or the cycle was killed before it had one.    *)
Clear(r) ==
    /\ phase[r] \in {"processing", "reported"}
    /\ phase' = [phase EXCEPT ![r] = "idle"]
    /\ targets' = [targets EXCEPT ![r] = {}]
    /\ outcome' = [outcome EXCEPT ![r] = Unknown]
    /\ report' = [report EXCEPT ![r] = Empty]

Next == \E r \in Runs :
    Begin(r) \/ Publish(r) \/ Clear(r) \/ \E v \in Resources : Resolve(r, v)

Safety == Init /\ [][Next]_cvars

(* Every resource is resolved sooner or later, and the report follows.     *)
Contract ==
    /\ Safety
    /\ \A r \in Runs : WF_cvars(Publish(r)) /\ \A v \in Resources : WF_cvars(Resolve(r, v))
=============================================================================
