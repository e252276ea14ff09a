--------------------------- MODULE MCConfigTables ---------------------------
(***************************************************************************)
(* Instances of ConfigTables for TLC.                                      *)
(***************************************************************************)
EXTENDS ConfigTables, TLC

CONSTANTS day, night    \* two timetables

MCOperatorSymmetry == Permutations(Operators)

MCWindows == {day, night}

(* One schedule name, under the partition of the schedules and under one   *)
(* that sorts before it.                                                   *)
MCKeys == <<[partition |-> "ARCHIVE", name |-> "office"],
            [partition |-> "SCHEDULE", name |-> "office"]>>

File(audit, enabled, periods, hours, lists) ==
    [audit |-> audit, enabled |-> enabled, periods |-> periods, hours |-> hours,
     lists |-> lists]

MCPayloads == {File("complete", None, day, None, None),
               File("complete", "no", None, night, "good"),
               File("complete", "yes", day, "bad", None),
               File("bad", None, day, None, None)}

(* In force, disabled, and malformed: two in other fields, one disabled.   *)
MCEntities == {File("complete", None, None, night, None),
               File("complete", "no", day, None, "bad"),
               File("complete", "bad", None, night, None)}

MCConfigPayloads == [audit: {"complete"}, options: {"good", "bad"}]
MCConfigEntities == {[audit |-> "bad", options |-> "good"]}
=============================================================================
