----------------------------- MODULE StateKeys -----------------------------
(***************************************************************************)
(* The keys of the state table: AzureTableStateStore of                    *)
(* src/src/persistence/state_store.py, which derives them from a resource  *)
(* that discovery found, and the state commands of                         *)
(* src/src/offhours_cli/main.py, which derive them from an id that an      *)
(* operator types.  Ids and subscriptions come in several spellings.  The  *)
(* hash of a row key keeps different ids apart and is left out.            *)
(***************************************************************************)
EXTENDS Integers, FiniteSets, Functions

CONSTANTS
    Found,              \* the resources discovery hands over, as spelled
    Typed,              \* the ids that operators type
    Canonical(_),       \* an id trimmed, without a last "/", in lower case
    SubscriptionIn(_),  \* the subscription in a canonical id, "" if none
    Lower(_),           \* a subscription in lower case
    Filters,            \* the sets of --subscription-id that are asked for
    Limits,             \* the --limit values
    Workers,            \* the workers of all runs
    Operators,          \* the command lines that delete
    Values,             \* what a row can say
    None                \* no row, or nothing to do

Machines == {Canonical(resource.id) : resource \in Found}

ASSUME NoneAssumption ==
    /\ None \notin Values
    /\ None \notin [resource: Found, stored: Values \union {None}]
    /\ None \notin [machine: Machines, stored: Values \union {None}]
ASSUME CanonicalAssumption ==     \* no id ends in a space and a slash
    \A machine \in Machines : Canonical(machine) = machine
ASSUME LowerAssumption ==         \* nor any letter in capitals
    \A machine \in Machines : Lower(SubscriptionIn(machine)) = SubscriptionIn(machine)
ASSUME LimitsAssumption == Limits \subseteq Int

VARIABLES
    table,      \* the rows, by key
    worker,     \* the resource a worker has recalled the state of, and that
    deleting,   \* the key an operator has been shown the row of
    listing     \* state list

svars == <<table, worker, deleting, listing>>

Init ==
    /\ table = [key \in {} |-> None]
    /\ worker = [w \in Workers |-> None]
    /\ deleting = [o \in Operators |-> None]
    /\ listing = [at |-> "idle"]

Lookup(key) == IF key \in DOMAIN table THEN table[key] ELSE None

-----------------------------------------------------------------------------
(* The scheduler.                                                          *)

(* Mutant: the id is taken as it is spelled.                               *)
KeyOfAsSpelled(resource) == [partition |-> resource.subscription, row |-> resource.id]

(* What is discovered has an id: the key that the store makes up for a     *)
(* resource without one is left out.                                       *)
KeyOf(resource) == [partition |-> resource.subscription, row |-> Canonical(resource.id)]

Recall(w) ==
    /\ worker[w] = None
    /\ \E resource \in Found :
         worker' = [worker EXCEPT ![w] = [resource |-> resource,
                                          stored   |-> Lookup(KeyOf(resource))]]
    /\ UNCHANGED <<table, deleting, listing>>

(* Every save names the same properties, so that merging is replacing.     *)
Save(w) ==
    /\ worker[w] # None
    /\ \E value \in Values :
         LET key == KeyOf(worker[w].resource) IN
         table' = [k \in DOMAIN table \union {key} |-> IF k = key THEN value ELSE table[k]]
    /\ worker' = [worker EXCEPT ![w] = None]
    /\ UNCHANGED <<deleting, listing>>

(* The command in between fails, or the host dies.                         *)
GiveUp(w) ==
    /\ worker[w] # None
    /\ worker' = [worker EXCEPT ![w] = None]
    /\ UNCHANGED <<table, deleting, listing>>

-----------------------------------------------------------------------------
(* state get and state delete.                                             *)

(* state_entity_keys_from_resource_id().                                   *)
HasKeys(id) == SubscriptionIn(Canonical(id)) # ""

(* Mutant: an id is looked up as it is typed.                              *)
KeysFromAsTyped(id) == [partition |-> SubscriptionIn(Canonical(id)), row |-> id]

KeysFrom(id) == [partition |-> SubscriptionIn(Canonical(id)), row |-> Canonical(id)]

(* The row is shown first; without one, or without --execute, that is all. *)
StateDelete(o) ==
    /\ deleting[o] = None
    /\ \E id \in Typed :
         /\ HasKeys(id)
         /\ KeysFrom(id) \in DOMAIN table
         /\ deleting' = [deleting EXCEPT ![o] = KeysFrom(id)]
    /\ UNCHANGED <<table, worker, listing>>

(* Deleting a row that is no longer there is no error.                     *)
StateRemove(o) ==
    /\ deleting[o] # None
    /\ table' = Restrict(table, DOMAIN table \ {deleting[o]})
    /\ deleting' = [deleting EXCEPT ![o] = None]
    /\ listing' = IF listing.at = "reading"
                  THEN [listing EXCEPT !.steady = @ \ {deleting[o]}] ELSE listing
    /\ UNCHANGED worker

-----------------------------------------------------------------------------
(* state list.                                                             *)
StateList ==
    /\ listing.at # "reading"
    /\ \E filter \in Filters, limit \in Limits :
         listing' = [at |-> "reading", filter |-> filter, limit |-> limit,
                     passed |-> {}, rows |-> {},
                     steady |-> DOMAIN table]   \* history: there since then
    /\ UNCHANGED <<table, worker, deleting>>

(* Mutant: the rows passed over count for the limit.                       *)
FullOfPassed(l) == l.limit > 0 /\ Cardinality(l.passed) >= l.limit

Wanted(filter, key) == filter = {} \/ Lower(key.partition) \in {Lower(s) : s \in filter}
Full(l) == l.limit > 0 /\ Cardinality(l.rows) >= l.limit

(* The next row of list_entities(): a row saved meanwhile may still come.  *)
StateListNext ==
    /\ listing.at = "reading" /\ ~Full(listing)
    /\ \E key \in DOMAIN table \ listing.passed :
         listing' = [listing EXCEPT !.passed = @ \union {key},
                                    !.rows = @ \union (IF Wanted(listing.filter, key)
                                                       THEN {key} ELSE {})]
    /\ UNCHANGED <<table, worker, deleting>>

StateListEnd ==
    /\ listing.at = "reading"
    /\ Full(listing) \/ listing.steady \subseteq listing.passed
    /\ listing' = [listing EXCEPT !.at = "done"]
    /\ UNCHANGED <<table, worker, deleting>>

-----------------------------------------------------------------------------
Next ==
    \/ \E w \in Workers : Recall(w) \/ Save(w) \/ GiveUp(w)
    \/ \E o \in Operators : StateDelete(o) \/ StateRemove(o)
    \/ StateList \/ StateListNext \/ StateListEnd

Spec == Init /\ [][Next]_svars

Keys == [partition: {resource.subscription : resource \in Found}, row: Machines]

TypeOK ==
    /\ DOMAIN table \subseteq Keys
    /\ table \in [DOMAIN table -> Values]
    /\ worker \in [Workers -> {None} \union [resource: Found, stored: Values \union {None}]]
    /\ deleting \in [Operators -> {None} \union {KeysFrom(id) : id \in Typed}]

-----------------------------------------------------------------------------
(* What the properties below rest on: discovery names the subscription of  *)
(* a machine as the lower-cased id of the machine does.                    *)
LowerSubscriptions ==
    \A resource \in Found :
        /\ resource.subscription = SubscriptionIn(Canonical(resource.id))
        /\ resource.subscription # ""

(* The row keys are there "para evitar duplicidade por diferenca de casing *)
(* ou barra final" (docs/code-components.md:133): no machine has two rows. *)
OneRowEach ==
    \A k, l \in DOMAIN table : Canonical(k.row) = Canonical(l.row) => k = l

(* Whatever spelling of its id an operator copies, "state get" and "state  *)
(* delete" find the row that the scheduler has written for a machine.      *)
(* The two derive the key each in their own way.                           *)
ReachableByHand ==
    \A key \in DOMAIN table, id \in Typed :
        Canonical(id) = key.row => HasKeys(id) /\ KeysFrom(id) \in DOMAIN table

(* A list that was not cut at its limit shows the row of every machine of  *)
(* the subscriptions asked for, in any spelling, that was there throughout,*)
(* and none of another subscription.                                       *)
Asked(filter, machine) == filter = {} \/ SubscriptionIn(machine) \in {Lower(s) : s \in filter}

ListComplete ==
    listing.at = "done" =>
        /\ \A key \in listing.rows : Asked(listing.filter, key.row)
        /\ listing.limit <= 0 \/ Cardinality(listing.rows) < listing.limit =>
             \A key \in listing.steady :
                 Asked(listing.filter, key.row) => key \in listing.rows

(* Seen by machine, the table is the one of StateRows.                     *)
RowOf(machine) == Lookup([partition |-> SubscriptionIn(machine), row |-> machine])

HeldBy(w) ==
    IF worker[w] = None THEN None
    ELSE [machine |-> Canonical(worker[w].resource.id), stored |-> worker[w].stored]

Rows == INSTANCE StateRows WITH
    row <- [m \in Machines |-> RowOf(m)],
    held <- [w \in Workers |-> HeldBy(w)]

ImplementsRows == Rows!Spec
=============================================================================
