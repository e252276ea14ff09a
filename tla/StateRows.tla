----------------------------- MODULE StateRows -----------------------------
(***************************************************************************)
(* What the state table promises the scheduling cycle: one row per         *)
(* machine, whatever the machine is called.  What a worker recalls is what *)
(* was saved last, or nothing if nothing was or the row was deleted since. *)
(* The variable row of SchedulerService is such a table.                   *)
(***************************************************************************)

CONSTANTS Machines, Workers, Values, None

VARIABLES row, held

rvars == <<row, held>>

Init ==
    /\ row = [m \in Machines |-> None]
    /\ held = [w \in Workers |-> None]

Recall(w, m) ==
    /\ held[w] = None
    /\ held' = [held EXCEPT ![w] = [machine |-> m, stored |-> row[m]]]
    /\ UNCHANGED row

Save(w) ==
    /\ held[w] # None
    /\ \E value \in Values : row' = [row EXCEPT ![held[w].machine] = value]
    /\ held' = [held EXCEPT ![w] = None]

GiveUp(w) ==
    /\ held[w] # None
    /\ held' = [held EXCEPT ![w] = None]
    /\ UNCHANGED row

Delete(m) ==
    /\ row' = [row EXCEPT ![m] = None]
    /\ UNCHANGED held

Next ==
    \/ \E w \in Workers : Save(w) \/ GiveUp(w) \/ \E m \in Machines : Recall(w, m)
    \/ \E m \in Machines : Delete(m)

Spec == Init /\ [][Next]_rvars
=============================================================================
