-------------------------- MODULE MCRetainHistory --------------------------
(***************************************************************************)
(* Instances of RetainHistory for TLC.                                     *)
(***************************************************************************)
EXTENDS RetainHistory

Retains(running, stopped) ==
    [dry_run |-> FALSE, retain_running |-> running, retain_stopped |-> stopped]

MCRetainBoth == {Retains(TRUE, TRUE)}

(* Every configuration under which a run uses the state table.             *)
MCTableAlways == {c \in Config : c.retain_running \/ c.retain_stopped}

(* And those under which it does not.                                      *)
MCTableSometimes == {c \in Config : ~c.dry_run /\ ~c.retain_stopped}
=============================================================================
