--------------------------- MODULE MCCycleInputs ---------------------------
(***************************************************************************)
(* The instances of ConfigTables and of Discovery, in one run.             *)
(***************************************************************************)
EXTENDS CycleInputs, MCConfigTables, MCDiscovery
=============================================================================
