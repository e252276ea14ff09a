------------------------- MODULE MCSchedulerService -------------------------
(***************************************************************************)
(* Instances of SchedulerService for TLC.                                  *)
(***************************************************************************)
EXTENDS SchedulerService, TLC

Retains(running, stopped) ==
    [dry_run |-> FALSE, retain_running |-> running, retain_stopped |-> stopped]

(* The options an operator switches between runs.                          *)
MCRetainBoth == {Retains(TRUE, TRUE)}
MCToggled == {Retains(TRUE, TRUE), Retains(FALSE, FALSE)}
MCAllConfigs == Config
MCDryOrNot == {Retains(TRUE, TRUE), DefaultConfig}

MCRunSymmetry == Permutations(Runs)
MCResourceSymmetry == Permutations(Handled)
=============================================================================
