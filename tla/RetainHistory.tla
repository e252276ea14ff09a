--------------------------- MODULE RetainHistory ---------------------------
(***************************************************************************)
(* The scheduling cycle with a memory of what really happened to a VM, to  *)
(* be held against what the two flags of its row say.  The variables added *)
(* here constrain nothing: every step is a step of SchedulerService.       *)
(***************************************************************************)
EXTENDS SchedulerService

VARIABLES
    touched,    \* what the scheduler last completed on a VM; "ADOPT" when it
                \* took over a VM that had been left running
    forgotten,  \* the row was deleted since then
    witnessed   \* the power states that workers have seen since then

hvars == <<touched, forgotten, witnessed>>
allvars == <<vars, hvars>>

TypeOKH ==
    /\ TypeOK
    /\ touched \in [Resources -> {"none", "START", "STOP", "ADOPT"}]
    /\ forgotten \in [Resources -> BOOLEAN]
    /\ witnessed \in [Resources -> SUBSET PowerStates]

InitH ==
    /\ Init
    /\ touched = [v \in Resources |-> "none"]
    /\ forgotten = [v \in Resources |-> FALSE]
    /\ witnessed = [v \in Resources |-> {}]

Touch(v, act) ==
    /\ touched' = [touched EXCEPT ![v] = act]
    /\ forgotten' = [forgotten EXCEPT ![v] = FALSE]

PollH(r, v) ==
    /\ Poll(r, v)
    /\ Touch(v, task[r][v].decision)
    /\ witnessed' = [witnessed EXCEPT ![v] = {}]

AlreadyRunningH(r, v) ==
    /\ AlreadyRunning(r, v)
    /\ IF Consumes(r, Stored(r, v)) THEN Touch(v, "ADOPT")
       ELSE UNCHANGED <<touched, forgotten>>
    /\ UNCHANGED witnessed

(* A worker inside a window that sees the VM running has a reason of its   *)
(* own to count it as scheduled, whatever was seen before.                 *)
ObserveH(r, v) ==
    /\ Observe(r, v)
    /\ LET seen == PowerState(code[v]) IN
         witnessed' = [witnessed EXCEPT ![v] =
             IF task[r][v].decision = "START" /\ seen = "running" THEN {seen}
             ELSE @ \union {seen}]
    /\ UNCHANGED <<touched, forgotten>>

StateDeleteH(v) ==
    /\ StateDelete(v)
    /\ forgotten' = [forgotten EXCEPT ![v] = TRUE]
    /\ UNCHANGED <<touched, witnessed>>

RestH(r, v) ==
    /\ \/ Evaluate(r, v) \/ RetainStopped(r, v) \/ GoStart(r, v) \/ RetainRunning(r, v)
       \/ AlreadyStopped(r, v) \/ GoStop(r, v) \/ Command(r, v) \/ Save(r, v)
       \/ Raise(r, v) \/ Collect(r, v)
    /\ UNCHANGED hvars

MainH(r) == Main(r) /\ UNCHANGED hvars

OutsideH(v) == Outside(v) /\ UNCHANGED hvars

NextH ==
    \/ \E r \in Runs, v \in Resources :
         \/ PollH(r, v) \/ AlreadyRunningH(r, v) \/ ObserveH(r, v) \/ RestH(r, v)
    \/ \E r \in Runs : MainH(r)
    \/ \E v \in Resources : StateDeleteH(v) \/ OutsideH(v)

SpecH == InitH /\ [][NextH]_allvars

-----------------------------------------------------------------------------
(* The next two hold for the timer alone (one run at a time), with the     *)
(* table in use by every run and no write or run lost.                     *)

Writing(v) == \E r \in Runs : At(r, v, "save")

(* A flag in the table is never a claim the scheduler has no ground for:   *)
(* "started" means that the last thing it completed on the VM was to start *)
(* or to adopt it, "stopped" that it was to stop it.  Row deletions at any *)
(* moment of a cycle, failed commands and what operators do in between do  *)
(* not change that.  (_save_state after each branch of the service.)       *)
NeverOverclaims ==
    \A v \in Resources : row[v] # None /\ ~Writing(v) =>
        /\ row[v].started => touched[v] \in {"START", "ADOPT"}
        /\ row[v].stopped => touched[v] = "STOP"

(* Nor does the scheduler lose a claim it still has ground for, unless an  *)
(* operator deletes the row: a VM it started or adopted, and that no worker*)
(* has found stopped since, is still marked, so that retaining a manual    *)
(* start is temporary; a VM it stopped, and that none has found running    *)
(* since, is still marked, so that it is started again.                    *)
NeverUnderclaims ==
    \A v \in Resources : ~forgotten[v] /\ ~Writing(v) =>
        /\ touched[v] \in {"START", "ADOPT"} /\ "stopped" \notin witnessed[v]
             => row[v] # None /\ row[v].started
        /\ touched[v] = "STOP" /\ "running" \notin witnessed[v]
             => row[v] # None /\ row[v].stopped

(* A VM that the scheduler stopped last, and that is running, was started  *)
(* by somebody else: with retain_running on it is not stopped, whatever    *)
(* rows, failures and other options came in between                        *)
(* (docs/architecture.md:432).  It takes the two flags to move together,   *)
(* and a table that is never out of use.                                   *)
LastStopRespected ==
    \A r \in Runs, v \in Resources :
        At(r, v, "command") /\ task[r][v].decision = "STOP"
            /\ task[r][v].seen = "running" /\ cfg[r].retain_running
        => touched[v] # "STOP"

-----------------------------------------------------------------------------
(* docs/architecture.md says that a VM "ligada fora da janela sem ter sido *)
(* ligada pelo scheduler" is left running.  A VM that a worker has seen    *)
(* stopped since the scheduler last started it, and that runs now, was     *)
(* started by somebody else.                                               *)
ManualStartRetained ==
    \A r \in Runs, v \in Resources :
        At(r, v, "command") /\ task[r][v].decision = "STOP"
            /\ task[r][v].seen = "running" /\ cfg[r].retain_running
        => "stopped" \notin witnessed[v]

(* The mirror image for a VM "parada dentro da janela sem ter sido parada  *)
(* pelo scheduler": one that a worker has seen running since the scheduler *)
(* last stopped it, and that is stopped now, was stopped by somebody else. *)
ManualStopRetained ==
    \A r \in Runs, v \in Resources :
        At(r, v, "command") /\ task[r][v].decision = "START"
            /\ task[r][v].seen = "stopped" /\ cfg[r].retain_stopped
        => "running" \notin witnessed[v]
=============================================================================
