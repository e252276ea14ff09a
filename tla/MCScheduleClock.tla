-------------------------- MODULE MCScheduleClock --------------------------
(***************************************************************************)
(* Instances of ScheduleClock for TLC: days of four minutes, weeks of      *)
(* three days, two weeks.                                                  *)
(***************************************************************************)
EXTENDS ScheduleClock, FiniteSets, TLC

MCWeekdays == <<"friday", "saturday", "sunday">>

(* "east" is ahead of UTC by most of a day, "west" behind it, "dst" puts   *)
(* its clocks forward in the first week and back in the second.            *)
MCOffsetAt(zone, instant) ==
    CASE zone = "east" -> 3
      [] zone = "west" -> -3
      [] zone = "dst"  -> IF instant \in 6..17 THEN 1 ELSE 0
      [] OTHER         -> 0

MCCanonical(spelling) ==
    CASE spelling = "SUB-A" -> "sub-a"
      [] spelling = "/subscriptions/sub-a" -> "sub-a"
      [] spelling = "MG-A" -> "mg-a"
      [] OTHER -> spelling

Everywhere == [include_subscriptions |-> {}, include_management_groups |-> {},
               exclude_subscriptions |-> {}, exclude_management_groups |-> {}]

Setup(periods, skip_days, scope, resource) ==
    [schedules |-> "office" :> [periods |-> periods, skip_days |-> skip_days, scope |-> scope],
     resource |-> resource]

Tagged(timezone) == [schedule |-> "office", timezone |-> timezone,
                     subscription |-> "sub-a", groups |-> {"mg-a", "mg-b"}]

(* Sets of one or two windows, overnight and empty ones included, skipped   *)
(* days, an unknown word among them, and every kind of zone.               *)
MCTimetables ==
    {Setup({p, q}, skipped, Everywhere, Tagged(zone)) :
        p \in [start: 0..3, stop: 0..3], q \in [start: {1, 2}, stop: {2, 3}],
        skipped \in {{}, {"saturday", "sunday"}, {"friday", "holiday"}},
        zone \in {"east", "dst", "mars", Absent}}

(* One timetable, scopes and resources that spell the same ids differently,*)
(* a blank entry among them.                                               *)
MCScopes ==
    {Setup({[start |-> 1, stop |-> 3]}, {"sunday"},
           [include_subscriptions |-> si, include_management_groups |-> gi,
            exclude_subscriptions |-> se, exclude_management_groups |-> ge], resource) :
        si \in {{}, {""}, {"SUB-A"}, {"sub-b"}}, gi \in {{}, {"mg-a"}},
        se \in {{}, {"/subscriptions/sub-a"}}, ge \in {{}, {"MG-A"}},
        resource \in [schedule: {"office", Absent}, timezone: {Absent},
                      subscription: {"SUB-A", "sub-b"}, groups: {{}, {"MG-A", "mg-c"}}]}

MCSetups == MCTimetables \union MCScopes
=============================================================================
