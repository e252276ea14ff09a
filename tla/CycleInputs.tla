----------------------------- MODULE CycleInputs -----------------------------
(***************************************************************************)
(* One run over what a cycle starts from: the configuration and the        *)
(* schedules (ConfigTables) and then the resources (Discovery).  The two   *)
(* share no variable and come one after the other: to interleave what      *)
(* others do to the tables and to the platform would multiply the states   *)
(* and show nothing else.  A behaviour is therefore one of one of them,    *)
(* chosen at the start, with the other at rest.                            *)
(***************************************************************************)
EXTENDS ConfigTables, Discovery

VARIABLE input

inputvars == <<input, tvars, gvars>>

(* What can be chosen at the start of a discovery is fixed for the tables. *)
AtRest ==
    input = "tables" => /\ chain = [s \in SubscriptionIds |-> Absent]
                        /\ tag = [v \in Machines |-> Absent]

InitInputs ==
    /\ input \in {"tables", "resources"}
    /\ Init /\ InitDiscovery
    /\ AtRest

LoadTables == input = "tables" /\ Next /\ UNCHANGED <<input, gvars>>

LoadResources == input = "resources" /\ NextDiscovery /\ UNCHANGED <<input, tvars>>

NextInput == LoadTables \/ LoadResources

SpecInputs == InitInputs /\ [][NextInput]_inputvars

(* The types of both.                                                      *)
InputsTypeOK == TypeOK /\ DiscoveryTypeOK
=============================================================================
