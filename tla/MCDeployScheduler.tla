------------------------- MODULE MCDeployScheduler -------------------------
(***************************************************************************)
(* Instances of DeployScheduler for TLC: an explicit subscription and two  *)
(* groups that share some, with one to exclude and one that is not there.  *)
(***************************************************************************)
EXTENDS DeployScheduler, TLC

MCMembers == "g1" :> {"s1", "s2"} @@ "g2" :> {"s2", "s3"}

MCLowerIds(subscription) == IF subscription = "S3" THEN "s3" ELSE subscription

(* The calls whose failure is reported, and all of them.                   *)
MCReported == {"login", "access", "validate", "create", "outputs", "publish", "sync", "poll"}
MCFaults == MCReported \union {"query"}
=============================================================================
