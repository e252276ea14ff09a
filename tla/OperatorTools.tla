---------------------------- MODULE OperatorTools ----------------------------
(***************************************************************************)
(* One run over the tools an operator has: the rows of the state table, by *)
(* key (StateKeys), the choice of the storage account (StorageTarget), the *)
(* deployment (DeployScheduler) and the call of the function               *)
(* (FunctionTrigger).  The models share no variable: to interleave them    *)
(* would multiply their states and show nothing else.  A behaviour is      *)
(* therefore one of one of them, chosen at the start, with the others at   *)
(* rest.                                                                   *)
(***************************************************************************)
EXTENDS StateKeys, StorageTarget, DeployScheduler, FunctionTrigger

VARIABLE tool

toolvars == <<tool, svars, targetvars, dvars, fvars>>

Tools == {"keys", "target", "deployment", "trigger"}

(* What can be chosen at the start of one tool is fixed for the others.    *)
AtRest ==
    /\ tool # "target" => NoArguments
    /\ tool # "trigger" => /\ published = [s \in Slots |-> {}]
                           /\ slot = [c \in Calls |-> "production"]
                           /\ name = [c \in Calls |-> NotGiven]

InitTools ==
    /\ tool \in Tools
    /\ Init /\ InitTarget /\ InitDeployment /\ InitTrigger
    /\ AtRest

WorkOnKeys ==
    /\ tool = "keys" /\ Next
    /\ UNCHANGED <<tool, targetvars, dvars, fvars>>

WorkOnTarget ==
    /\ tool = "target" /\ NextTarget
    /\ UNCHANGED <<tool, svars, dvars, fvars>>

Deployment(A) ==
    /\ tool = "deployment" /\ A
    /\ UNCHANGED <<tool, svars, targetvars, fvars>>

WorkOnTrigger ==
    /\ tool = "trigger" /\ NextTrigger
    /\ UNCHANGED <<tool, svars, targetvars, dvars>>

NextTool == WorkOnKeys \/ WorkOnTarget \/ Deployment(NextDeployment) \/ WorkOnTrigger

(* Only the script has to go on.                                           *)
SpecTools == InitTools /\ [][NextTool]_toolvars /\ WF_toolvars(Deployment(Script))

(* The types of all of them.                                               *)
ToolsTypeOK == TypeOK /\ TargetTypeOK /\ DeploymentTypeOK /\ TriggerTypeOK
=============================================================================
