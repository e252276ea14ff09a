-------------------------- MODULE MCOperatorTools --------------------------
(***************************************************************************)
(* The instances of the operator's tools, in one run.                      *)
(***************************************************************************)
EXTENDS OperatorTools, MCStateKeys, MCStorageTarget, MCDeployScheduler, MCFunctionTrigger
=============================================================================
