------------------------- MODULE MCFunctionTrigger -------------------------
(***************************************************************************)
(* An instance of FunctionTrigger for TLC: the timer and another function, *)
(* production and one more slot.                                           *)
(***************************************************************************)
EXTENDS FunctionTrigger, TLC

MCSlots == {"production", "staging"}
MCFunctions == {"OffHoursTimer", "Other"}
MCCallSymmetry == Permutations(Calls)
=============================================================================
