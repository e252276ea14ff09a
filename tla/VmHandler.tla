----------------------------- MODULE VmHandler -----------------------------
(***************************************************************************)
(* What the virtual machine handler (src/handlers/vm_handler.py) sees and  *)
(* does: the power codes a compute platform reports for a VM, the three    *)
(* states the handler folds them into, and the code a command drives the   *)
(* VM to.  The platform itself is external.                                *)
(***************************************************************************)

PowerStates == {"running", "stopped", "unknown"}

(* instance_view().statuses: the code of the first PowerState/ entry, and  *)
(* "none" for a view that has no such entry (or one the handler does not   *)
(* know).                                                                  *)
RunningCodes == {"running", "starting"}
StoppedCodes == {"deallocated", "deallocating", "stopped", "stopping"}
Codes == RunningCodes \union StoppedCodes \union {"none"}

(* Mutant: a VM on its way up is not folded into "running".                *)
PowerStateRaw(code) ==
    IF code \in RunningCodes THEN code
    ELSE IF code \in StoppedCodes THEN "stopped" ELSE "unknown"

PowerState(code) ==
    IF code \in RunningCodes THEN "running"
    ELSE IF code \in StoppedCodes THEN "stopped" ELSE "unknown"

(* begin_start / begin_deallocate were accepted ...                        *)
Accepted(decision) == IF decision = "START" THEN "starting" ELSE "deallocating"

(* ... and poller.result() returned: the VM has settled, unless somebody   *)
(* else has moved it on in the meantime.                                   *)
Settled(code) ==
    CASE code = "starting"     -> "running"
      [] code = "deallocating" -> "deallocated"
      [] OTHER                 -> code

(* The power state a command leaves behind when it works.                  *)
Goal(decision) == IF decision = "START" THEN "running" ELSE "stopped"
=============================================================================
