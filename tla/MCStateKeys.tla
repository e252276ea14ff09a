---------------------------- MODULE MCStateKeys ----------------------------
(***************************************************************************)
(* Instances of StateKeys for TLC: two machines of two subscriptions.      *)
(***************************************************************************)
EXTENDS StateKeys, TLC

CONSTANTS claimed, unclaimed

MCSymmetry == Permutations(Workers) \union Permutations(Values)

Spelled(id, subscription) == [id |-> id, subscription |-> subscription]

(* Spellings of ids, by the canonical one.                                 *)
MCCanonical(id) ==
    CASE id \in {"sub-a/vm1", "Sub-A/VM1", "sub-a/vm1/", " sub-a/vm1"} -> "sub-a/vm1"
      [] id \in {"sub-b/vm2", "SUB-B/vm2"} -> "sub-b/vm2"
      [] OTHER -> id

MCSubscriptionIn(machine) ==
    CASE machine = "sub-a/vm1" -> "sub-a"
      [] machine = "sub-b/vm2" -> "sub-b"
      [] OTHER -> ""

MCLower(subscription) ==
    CASE subscription = "Sub-A" -> "sub-a"
      [] subscription = "SUB-B" -> "sub-b"
      [] OTHER -> subscription

(* Ids are spelled in any way, subscriptions in lower case; the same with  *)
(* the subscription as in the id.                                          *)
MCFound == {Spelled("Sub-A/VM1", "sub-a"), Spelled("sub-a/vm1/", "sub-a"),
            Spelled("SUB-B/vm2", "sub-b")}
MCFoundMixed == {Spelled("Sub-A/VM1", "Sub-A"), Spelled("sub-a/vm1", "sub-a")}

MCTyped == {" sub-a/vm1", "Sub-A/VM1", "sub-b/vm2", "vm2"}

MCFilters == {{}, {"SUB-B"}, {"Sub-A", "sub-c"}}
MCLimits == {0, 1}
=============================================================================
