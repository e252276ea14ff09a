---------------------------- MODULE MCDiscovery ----------------------------
(***************************************************************************)
(* Instances of Discovery for TLC.                                         *)
(***************************************************************************)
EXTENDS Discovery, TLC

MCCanonical(spelling) ==
    CASE spelling = "MG-Blocked" -> "mg-blocked"
      [] spelling = "/managementGroups/mg-blocked" -> "mg-blocked"
      [] OTHER -> spelling

MCLower(spelling) == IF spelling = "EastUS" THEN "eastus" ELSE spelling

MCOffsetAt(zone, instant) == 0
MCWeekdays == <<"monday">>

(* A machine to be found, and one that the location filter drops.          *)
MCHome ==
    "vm1" :> [subscription |-> "sub-a", location |-> "EastUS"] @@
    "vm2" :> [subscription |-> "sub-b", location |-> "brazilsouth"]

Root == [name |-> "root", id |-> "", displayName |-> "Tenant"]
Blocked == [name |-> "MG-Blocked", id |-> "", displayName |-> "Sandbox"]
BlockedById == [name |-> "", id |-> "/managementGroups/mg-blocked", displayName |-> ""]
Nameless == [name |-> "", id |-> "", displayName |-> ""]

MCChains == {Absent, {Root, Nameless}, {Root, Blocked}, {BlockedById}}

MCSchedules ==
    "office" :> [scope |-> [include_subscriptions |-> {"sub-a", "sub-b"},
                            include_management_groups |-> {},
                            exclude_subscriptions |-> {},
                            exclude_management_groups |-> {"mg-blocked"}]]
=============================================================================
