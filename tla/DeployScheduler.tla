-------------------------- MODULE DeployScheduler --------------------------
(***************************************************************************)
(* src/scripts/deploy_scheduler.sh: the scope that a scheduler is deployed *)
(* with, and the way of a deployment from there to a registered function.  *)
(* Executions follow one another, each may fail at any call, and the       *)
(* platform registers the function of a package in its own time.           *)
(*                                                                         *)
(* The script runs under "set -e": a command that fails ends it, unless    *)
(* its status is taken by || or if, or never looked at: the query of a     *)
(* management group runs in a process substitution.                        *)
(***************************************************************************)
EXTENDS Integers, FiniteSets, FiniteSetsExt

CONSTANTS
    Explicit,       \* subscriptionIds
    Groups,         \* managementGroupIds
    Excluded,       \* excludeSubscriptionIds
    Members,        \* the subscriptions below a group, as the query spells
    PageSize,       \* the rows that a query answers with at most
    LowerId(_),     \* a subscription in lower case
    ResourceGroups, \* names of resource groups
    MaxSyncs,       \* attempts to synchronise the triggers
    MaxPolls,       \* attempts to find the function registered
    ResyncAt,       \* those after which the triggers are synchronised again
    Faults,         \* the calls that can fail
    NoGroup         \* no resource group

ASSUME GroupsAssumption == Groups = DOMAIN Members
ASSUME PageAssumption == PageSize \in Nat \ {0} /\ \A g \in Groups : IsFiniteSet(Members[g])
ASSUME AttemptsAssumption ==
    MaxSyncs \in Nat \ {0} /\ MaxPolls \in Nat \ {0} /\ ResyncAt \subseteq Nat \ {MaxPolls}

Subscriptions == Explicit \union UNION {Members[g] : g \in Groups}

VARIABLES
    step,       \* the command the script is about to run
    publishing, \* no --no-publish
    scope,      \* EFFECTIVE_SUBSCRIPTIONS
    pending,    \* the management groups still to be queried
    target,     \* RESOURCE_GROUP
    polls, syncs,   \* the attempts of the two loops
    deployed,   \* the scope in the settings of each scheduler's function app
    package,    \* what each function app is about: "none", "published",
                \* "registered"
    context     \* the resource group in .offhours.env

dvars == <<step, publishing, scope, pending, target, polls, syncs, deployed, package, context>>
script == <<publishing, scope, pending, target>>
loops == <<polls, syncs>>
cloud == <<deployed, package>>

Steps == {"idle", "groups", "exclude", "access", "validate", "create", "context",
          "publish", "sync", "poll", "resync", "done", "failed"}
Over == step \in {"idle", "done", "failed"}

DeploymentTypeOK ==
    /\ step \in Steps /\ publishing \in BOOLEAN
    /\ scope \subseteq Subscriptions /\ pending \subseteq Groups
    /\ target \in ResourceGroups \union {NoGroup}
    /\ polls \in 0..MaxPolls /\ syncs \in 0..MaxSyncs
    /\ deployed \in [ResourceGroups -> SUBSET Subscriptions]
    /\ package \in [ResourceGroups -> {"none", "published", "registered"}]
    /\ context \in ResourceGroups \union {NoGroup}

InitDeployment ==
    /\ step = "idle" /\ publishing = TRUE
    /\ scope = {} /\ pending = {} /\ target = NoGroup
    /\ polls = 0 /\ syncs = 0
    /\ deployed = [rg \in ResourceGroups |-> {}]
    /\ package = [rg \in ResourceGroups |-> "none"]
    /\ context = NoGroup

Registered == package[target] = "registered"

Goto(next) == step' = next

(* A call that ends the script when it fails.                              *)
Try(call, next) ==
    \/ Goto(next)
    \/ call \in Faults /\ Goto("failed")

-----------------------------------------------------------------------------
(* load_parameters, check_azure_login and the check for "az graph".  The   *)
(* name of the resource group is in the parameters file, which may be      *)
(* edited, or a new one.                                                   *)
Start ==
    /\ Over
    /\ publishing' \in BOOLEAN
    /\ target' \in ResourceGroups
    /\ scope' = Explicit
    /\ pending' = Groups
    /\ polls' = 0 /\ syncs' = 0
    /\ IF Explicit \union Groups = {} THEN Goto("failed") ELSE Try("login", "groups")
    /\ UNCHANGED <<cloud, context>>

(* Nobody asks for a second page.                                          *)
Answers(group) ==
    IF Cardinality(Members[group]) <= PageSize THEN {Members[group]}
    ELSE kSubset(PageSize, Members[group])

(* A query that fails prints an error and ends a subshell.                 *)
QueryGroup ==
    /\ step = "groups"
    /\ \E group \in pending :
         /\ pending' = pending \ {group}
         /\ scope' \in {scope \union found : found \in Answers(group)} \union
                       (IF "query" \in Faults THEN {scope} ELSE {})
    /\ UNCHANGED <<step, publishing, target, loops, cloud, context>>

GroupsDone ==
    /\ step = "groups" /\ pending = {}
    /\ Goto("exclude")
    /\ UNCHANGED <<script, loops, cloud, context>>

(* Mutants: only what is explicit can be excluded; the sets are swapped.   *)
RemainingOfExplicit == scope \ (Excluded \intersect Explicit)
RemainingSwapped == Excluded \ scope

Remaining == scope \ Excluded

Exclude ==
    /\ step = "exclude"
    /\ scope' = Remaining
    /\ Goto(IF scope' = {} THEN "failed" ELSE "access")
    /\ UNCHANGED <<publishing, pending, target, loops, cloud, context>>

(* check_target_subscriptions; with --no-validate the deployment is next.  *)
CheckAccess ==
    /\ step = "access"
    /\ Try("access", "validate") \/ Goto("create")
    /\ UNCHANGED <<script, loops, cloud, context>>

Validate ==
    /\ step = "validate"
    /\ Try("validate", "create")
    /\ UNCHANGED <<script, loops, cloud, context>>

(* az deployment sub create.  One that fails may have come to the settings *)
(* of the function app.                                                    *)
Create ==
    /\ step = "create"
    /\ \/ Goto("context") /\ deployed' = [deployed EXCEPT ![target] = scope]
       \/ /\ "create" \in Faults /\ Goto("failed")
          /\ deployed' \in {deployed, [deployed EXCEPT ![target] = scope]}
    /\ UNCHANGED <<script, loops, package, context>>

(* The outputs are read and .offhours.env is written.  With --no-publish   *)
(* that is all.                                                            *)
WriteContext ==
    /\ step = "context"
    /\ \/ /\ Goto(IF publishing THEN "publish" ELSE "done")
          /\ context' = target
       \/ "outputs" \in Faults /\ Goto("failed") /\ UNCHANGED context
    /\ UNCHANGED <<script, loops, cloud>>

(* The package is built and deployed; a function that was registered may   *)
(* still be listed.                                                        *)
Publish ==
    /\ step = "publish"
    /\ LET published == [package EXCEPT ![target] = "published"] IN
         \/ /\ Goto("sync")
            /\ package' \in {published} \union (IF Registered THEN {package} ELSE {})
         \/ "publish" \in Faults /\ Goto("failed") /\ package' \in {package, published}
    /\ UNCHANGED <<script, loops, deployed, context>>

-----------------------------------------------------------------------------
(* sync_function_triggers: its last failure is its status.                 *)
Synchronise(at, after, otherwise) ==
    /\ step = at
    /\ \/ Goto(after) /\ syncs' = 0
       \/ /\ "sync" \in Faults
          /\ IF syncs + 1 < MaxSyncs THEN syncs' = syncs + 1 /\ Goto(at)
             ELSE syncs' = 0 /\ Goto(otherwise)
    /\ UNCHANGED <<script, polls, cloud, context>>

(* In the main flow that ends the script, and within the wait it does not. *)
Sync == Synchronise("sync", "poll", "failed")
Resync == Synchronise("resync", "poll", "poll")

(* wait_for_published_function.  A query that fails or takes too long      *)
(* finds nothing.                                                          *)
FoundAtOnce ==
    /\ step = "poll" /\ Registered
    /\ Goto("done")
    /\ UNCHANGED <<script, loops, cloud, context>>

(* Mutants: the wait is given up without an error; it never gives up.      *)
AfterLastPollGoOn == "done"
NotFoundAgain(n) == IF n \in ResyncAt THEN 0 ELSE n

AfterLastPoll == "failed"
NextPoll(n) == n

NotFound ==
    /\ step = "poll" /\ (~Registered \/ "poll" \in Faults)
    /\ polls' = NextPoll(polls + 1)
    /\ Goto(IF polls' = MaxPolls THEN AfterLastPoll
            ELSE IF polls' \in ResyncAt THEN "resync" ELSE "poll")
    /\ UNCHANGED <<script, syncs, cloud, context>>

(* The platform finds the function in the package and registers it.        *)
Register(rg) ==
    /\ package[rg] = "published"
    /\ package' = [package EXCEPT ![rg] = "registered"]
    /\ UNCHANGED <<step, script, loops, deployed, context>>

-----------------------------------------------------------------------------
Script ==
    \/ QueryGroup \/ GroupsDone \/ Exclude \/ CheckAccess \/ Validate \/ Create
    \/ WriteContext \/ Publish \/ Sync \/ Resync \/ FoundAtOnce \/ NotFound

NextDeployment == Start \/ Script \/ \E rg \in ResourceGroups : Register(rg)

SpecDeployment == InitDeployment /\ [][NextDeployment]_dvars

(* The script goes on: every call returns or times out.                    *)
FairDeployment == SpecDeployment /\ WF_dvars(Script)

-----------------------------------------------------------------------------
(* docs/architecture.md:178: a deployment that publishes ends well only    *)
(* when the function is registered, and the command line then works on     *)
(* what was deployed; a context that an earlier execution left behind      *)
(* never names a function app that is not there.                           *)
DoneMeansRegistered ==
    /\ step = "done" => /\ context = target
                        /\ publishing => package[target] = "registered"
    /\ context # NoGroup => deployed[context] # {}

(* However many calls fail and executions follow, a scheduler that was     *)
(* deployed has every explicit subscription in scope that is not excluded, *)
(* and no subscription that is excluded or that was never asked for,       *)
(* whichever of explicit and group it came from (docs/architecture.md:153  *)
(* has it the whole of Declared: see ScopeDeclared).                       *)
Declared == Subscriptions \ Excluded

ScopeBounded ==
    \A rg \in ResourceGroups : deployed[rg] # {} =>
        /\ Explicit \ Excluded \subseteq deployed[rg]
        /\ deployed[rg] \subseteq Declared

(* However the calls fail, the script comes to an end.                     *)
DeploymentEnds == step = "groups" ~> Over

-----------------------------------------------------------------------------
(* docs/architecture.md:153: the scope is "subscriptionIds + subscriptions *)
(* descendentes de managementGroupIds - excludeSubscriptionIds".           *)
ScopeDeclared == step = "done" => deployed[target] = Declared

(* docs/architecture.md:149: "subscriptions removidas do escopo final", in *)
(* any spelling of the same id.                                            *)
ExcludedInAnySpelling ==
    \A rg \in ResourceGroups : \A s \in deployed[rg] :
        LowerId(s) \notin {LowerId(e) : e \in Excluded}

(* deploy_scheduler.sh:336, after the last attempt of any synchronisation: *)
(* "continuing with function registration checks".                         *)
SyncNeverEnds == [][step = "sync" => step' # "failed"]_dvars
=============================================================================
