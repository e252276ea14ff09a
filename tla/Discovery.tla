----------------------------- MODULE Discovery -----------------------------
(***************************************************************************)
(* What a cycle finds: src/discovery/resource_graph.py                     *)
(* (ResourceGraphDiscovery), with the scopes of ScheduleEngine applied to  *)
(* it.  Two queries, of the management groups of the subscriptions and     *)
(* then of the tagged machines, are answered at two moments; in between    *)
(* subscriptions are moved and machines are tagged, created and deleted.   *)
(*                                                                         *)
(* Resource Graph answers in pages, and nobody asks for the second one.    *)
(* What it answers from is its index: chain and tag are what it holds.     *)
(***************************************************************************)
EXTENDS ScheduleEngine, FiniteSets, FiniteSetsExt

CONSTANTS
    SubscriptionIds,    \* AZURE_SUBSCRIPTION_IDS
    TargetLocations,    \* TARGET_RESOURCE_LOCATIONS, all of them if empty
    Lower(_),           \* a spelling in lower case
    Home,               \* each machine's subscription and location
    Chains,             \* the chains of management groups to choose from
    Tags,               \* the values of the schedule tag to choose from
    Schedules,          \* the schedules in force, of which the scope matters
    PageSize            \* the rows of a page

Machines == DOMAIN Home

(* An item of managementGroupAncestorsChain, "" for what it leaves out.    *)
Item == [name: STRING, id: STRING, displayName: STRING]

ASSUME HomeAssumption ==
    \A v \in Machines : Home[v] \in [subscription: STRING, location: STRING]
ASSUME SubscriptionsAssumption == IsFiniteSet(Machines) /\ IsFiniteSet(SubscriptionIds)
ASSUME ChainsAssumption == \A chain \in Chains \ {Absent} : chain \subseteq Item
ASSUME TagsAssumption == Tags \ {Absent} \subseteq STRING
ASSUME PageAssumption == PageSize \in Nat \ {0}

VARIABLES
    chain,          \* the groups a subscription is in, Absent if not indexed
    tag,            \* the schedule tag of a machine, Absent if without or gone
    at,             \* what the cycle is about to do
    groups_of,      \* management_groups_by_subscription
    found,          \* the resources handed to the cycle
    seen            \* history: the chains and tags since the cycle began

gvars == <<chain, tag, at, groups_of, found, seen>>

Points == {"idle", "groups", "resources", "found"}
NoGroups == [s \in SubscriptionIds |-> {}]
Unseen == [chains |-> [s \in SubscriptionIds |-> {}], tags |-> [v \in Machines |-> {}]]

DiscoveryTypeOK ==
    /\ chain \in [SubscriptionIds -> Chains] /\ tag \in [Machines -> Tags]
    /\ at \in Points
    /\ groups_of \in [SubscriptionIds -> SUBSET STRING]
    /\ \A s \in SubscriptionIds : "" \notin groups_of[s]
    /\ \A r \in found :
        r \in [vm: Machines, subscription: SubscriptionIds,
               groups: SUBSET STRING, schedule: Tags \ {Absent}]
    /\ seen \in [chains: [SubscriptionIds -> SUBSET Chains], tags: [Machines -> SUBSET Tags]]

-----------------------------------------------------------------------------
(* The order of a page is not specified: with more rows than fit, any of   *)
(* them may be the first.                                                  *)
FirstPages(rows) == IF Cardinality(rows) <= PageSize THEN {rows} ELSE kSubset(PageSize, rows)

(* a or b                                                                  *)
Or(text, other) == IF text = "" THEN other ELSE text

(* Mutant: the name that people see is preferred to the one that is unique.*)
CandidateByTitle(item) == Or(item.displayName, Or(item.name, item.id))

Candidate(item) == Or(item.name, Or(item.id, item.displayName))

(* Mutant: an item without any name counts as a group.                     *)
GroupIdsWithBlanks(items) == {Candidate(item) : item \in items}

GroupIds(items) == {Candidate(item) : item \in items} \ {""}

(* Mutant: the location is compared as it is spelled.                      *)
InTargetAsSpelled(v) == TargetLocations = {} \/ Home[v].location \in TargetLocations

InTarget(v) ==
    TargetLocations = {} \/ Lower(Home[v].location) \in {Lower(l) : l \in TargetLocations}

(* _build_query(): the machines of the subscriptions that have the tag.    *)
Tagged == {v \in Machines : Home[v].subscription \in SubscriptionIds /\ tag[v] # Absent}

Resource(v) ==
    [vm |-> v, subscription |-> Home[v].subscription,
     groups |-> groups_of[Home[v].subscription], schedule |-> tag[v]]

-----------------------------------------------------------------------------
InitDiscovery ==
    /\ chain \in [SubscriptionIds -> Chains] /\ tag \in [Machines -> Tags]
    /\ at = "idle" /\ groups_of = NoGroups /\ found = {}
    /\ seen = Unseen

BeginDiscovery ==
    /\ at = "idle" /\ at' = "groups"
    /\ seen' = [chains |-> [s \in SubscriptionIds |-> {chain[s]}],
                tags |-> [v \in Machines |-> {tag[v]}]]
    /\ UNCHANGED <<chain, tag, groups_of, found>>

(* Mutant: the answer is kept for the cycles to come.                      *)
AnswerOnce(page) ==
    [s \in SubscriptionIds |->
        IF groups_of[s] = {} /\ s \in page THEN GroupIds(chain[s]) ELSE groups_of[s]]

(* A subscription without a row has no groups when it is looked up.        *)
Answer(page) == [s \in SubscriptionIds |-> IF s \in page THEN GroupIds(chain[s]) ELSE {}]

LoadGroups ==
    /\ at = "groups" /\ at' = "resources"
    /\ \E page \in FirstPages({s \in SubscriptionIds : chain[s] # Absent}) :
        groups_of' = Answer(page)
    /\ UNCHANGED <<chain, tag, found, seen>>

FindResources ==
    /\ at = "resources" /\ at' = "found"
    /\ \E page \in FirstPages(Tagged) : found' = {Resource(v) : v \in {w \in page : InTarget(w)}}
    /\ UNCHANGED <<chain, tag, groups_of, seen>>

(* Either query raises: the cycle ends with nothing.                       *)
Raise ==
    /\ at \in {"groups", "resources"} /\ at' = "idle"
    /\ seen' = Unseen
    /\ UNCHANGED <<chain, tag, groups_of, found>>

(* The cycle is over; what was found is dropped with it.                   *)
Finish ==
    /\ at = "found" /\ at' = "idle"
    /\ found' = {}
    /\ seen' = Unseen
    /\ UNCHANGED <<chain, tag, groups_of>>

-----------------------------------------------------------------------------
(* The platform.                                                           *)
Watched == at \in {"groups", "resources"}

Reparent(s) ==
    /\ \E c \in Chains :
        /\ chain' = [chain EXCEPT ![s] = c]
        /\ seen' = IF Watched THEN [seen EXCEPT !.chains[s] = @ \union {c}] ELSE seen
    /\ UNCHANGED <<tag, at, groups_of, found>>

Retag(v) ==
    /\ \E t \in Tags :
        /\ tag' = [tag EXCEPT ![v] = t]
        /\ seen' = IF Watched THEN [seen EXCEPT !.tags[v] = @ \union {t}] ELSE seen
    /\ UNCHANGED <<chain, at, groups_of, found>>

NextDiscovery ==
    \/ BeginDiscovery \/ LoadGroups \/ FindResources \/ Raise \/ Finish
    \/ \E s \in SubscriptionIds : Reparent(s)
    \/ \E v \in Machines : Retag(v)

SpecDiscovery == InitDiscovery /\ [][NextDiscovery]_gvars

-----------------------------------------------------------------------------
(* A machine of a listed subscription, in a target location however it is  *)
(* spelled, that carried the tag from the first query to the last is found.*)
(* The code has it of answers of one page; docs/architecture.md:323-330    *)
(* promises it of any number of machines (find_scheduled_resources).       *)
Wanted(v) ==
    /\ Home[v].subscription \in SubscriptionIds
    /\ \/ TargetLocations = {}
       \/ \E l \in TargetLocations : Lower(l) = Lower(Home[v].location)

FoundAll ==
    at = "found" =>
        \A v \in Machines :
            Wanted(v) /\ Absent \notin seen.tags[v] => \E r \in found : r.vm = v

(* What is found was there during this discovery, in a target location: a  *)
(* resource's tag, and groups that its subscription had all at once, or    *)
(* none if the index did not hold it.  Nothing is left over from an        *)
(* earlier cycle (find_scheduled_resources).                               *)
FoundWasThere ==
    \A r \in found :
        /\ Wanted(r.vm) /\ r.schedule \in seen.tags[r.vm]
        /\ \/ r.groups = {} /\ Absent \in seen.chains[r.subscription]
           \/ \E c \in seen.chains[r.subscription] \ {Absent} : r.groups = GroupIds(c)

(* A subscription that was in an excluded group throughout the discovery   *)
(* has no resource in scope (ScheduleScope.matches): the code has it of    *)
(* answers of one page, docs/architecture.md:385 promises it of any.       *)
Within(group, s) ==
    \A c \in seen.chains[s] :
        c # Absent /\ \E item \in c : group \in {Canonical(item.name), Canonical(item.id)}

ExclusionsHold ==
    \A r \in found :
        InScope(Schedules, r) =>
            ~\E group \in Ids(Schedules[r.schedule].scope.exclude_management_groups) :
                Within(group, r.subscription)
=============================================================================
