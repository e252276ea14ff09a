-------------------------- MODULE MCSchedulerDays --------------------------
(***************************************************************************)
(* An instance of SchedulerDays for TLC: days of eight minutes with two    *)
(* windows, two worked and one skipped, in a zone that is a minute ahead.  *)
(***************************************************************************)
EXTENDS SchedulerDays, TLC

CONSTANT v1

MCWeekdays == <<"friday", "saturday", "monday">>
MCOffsetAt(zone, instant) == IF zone = "east" THEN 1 ELSE 0
MCCanonical(spelling) == spelling

MCTags == v1 :> [schedule |-> "office", timezone |-> Absent,
                 subscription |-> "sub-a", groups |-> {}]

MCSchedules ==
    "office" :> [periods |-> {[start |-> 0, stop |-> 2], [start |-> 3, stop |-> 5]},
                 skip_days |-> {"saturday"},
                 scope |-> [include_subscriptions |-> {}, include_management_groups |-> {},
                            exclude_subscriptions |-> {}, exclude_management_groups |-> {}]]

(* The timer misses none of the windows.                                   *)
ASSUME MCWindowsMet == WindowsMet

(* retain_stopped comes and goes.                                          *)
MCRetainRunning ==
    {c \in Config : c.retain_running /\ ~c.dry_run}
=============================================================================
