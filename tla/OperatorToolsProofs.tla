------------------------- MODULE OperatorToolsProofs -------------------------
(***************************************************************************)
(* What operators work with.  The keys of the state commands: with         *)
(* subscriptions in lower case the table holds one row per machine, within *)
(* reach, and implements StateRows, and a list of it is complete.  The     *)
(* target of a command: the account and the tables that the function works *)
(* on.  The trigger: what a call may conclude from its own end.  The       *)
(* deployment: how far it can stray from its parameters, and what one that *)
(* ends well has done.  All for any machines, spellings, workers,          *)
(* operators, shells, calls, slots, functions, groups and faults.          *)
(***************************************************************************)
EXTENDS OperatorTools, FiniteSetTheorems, TLAPS

-----------------------------------------------------------------------------
(* StateKeys: keys and rows.                                               *)

(* Every key is the one that the command line derives for its machine.     *)
KeysAgree ==
    \A k \in DOMAIN table :
        k.partition = SubscriptionIn(k.row) /\ k.partition # ""

SInv == TypeOK /\ KeysAgree

LEMMA KeyOfFound ==
    ASSUME NEW resource \in Found
    PROVE  KeyOf(resource) \in Keys /\ Canonical(resource.id) \in Machines
BY DEF KeyOf, Keys, Machines

LEMMA KeyOfAgrees ==
    ASSUME LowerSubscriptions, NEW resource \in Found
    PROVE  /\ KeyOf(resource) = [partition |-> SubscriptionIn(Canonical(resource.id)),
                                 row |-> Canonical(resource.id)]
           /\ KeyOf(resource).partition # ""
BY DEF KeyOf, LowerSubscriptions

LEMMA LookupType == TypeOK => \A k : Lookup(k) \in Values \union {None}
BY DEF TypeOK, Lookup

(* What the one step that adds a row leaves behind.                        *)
LEMMA SaveStep ==
    ASSUME TypeOK, NEW w \in Workers, Save(w)
    PROVE  /\ worker[w].resource \in Found
           /\ \E value \in Values :
                /\ DOMAIN table' = DOMAIN table \union {KeyOf(worker[w].resource)}
                /\ \A k \in DOMAIN table' :
                     table'[k] = IF k = KeyOf(worker[w].resource)
                                   THEN value ELSE table[k]
                /\ table' \in [DOMAIN table' -> Values]
<1>1. worker[w].resource \in Found
  BY DEF TypeOK, Save
<1> QED BY <1>1 DEF TypeOK, Save

LEMMA RemoveStep ==
    ASSUME TypeOK, NEW o \in Operators, StateRemove(o)
    PROVE  /\ DOMAIN table' = DOMAIN table \ {deleting[o]}
           /\ table' = [k \in DOMAIN table \ {deleting[o]} |-> table[k]]
BY DEF TypeOK, StateRemove, Restrict

LEMMA TypeInit == Init => TypeOK
BY DEF Init, TypeOK

LEMMA TypeStep == TypeOK /\ [Next]_svars => TypeOK'
<1> SUFFICES ASSUME TypeOK, [Next]_svars PROVE TypeOK'
  OBVIOUS
<1>1. ASSUME NEW w \in Workers, Recall(w) PROVE TypeOK'
  BY <1>1, LookupType DEF TypeOK, Recall
<1>2. ASSUME NEW w \in Workers, Save(w) PROVE TypeOK'
  BY <1>2, SaveStep, KeyOfFound DEF TypeOK, Save
<1>3. ASSUME NEW w \in Workers, GiveUp(w) PROVE TypeOK'
  BY <1>3 DEF TypeOK, GiveUp
<1>4. ASSUME NEW o \in Operators, StateDelete(o) PROVE TypeOK'
  BY <1>4 DEF TypeOK, StateDelete
<1>5. ASSUME NEW o \in Operators, StateRemove(o) PROVE TypeOK'
  BY <1>5, RemoveStep DEF TypeOK, StateRemove
<1>6. CASE StateList \/ StateListNext \/ StateListEnd
  BY <1>6 DEF TypeOK, StateList, StateListNext, StateListEnd
<1>7. CASE UNCHANGED svars
  BY <1>7 DEF TypeOK, svars
<1> QED BY <1>1, <1>2, <1>3, <1>4, <1>5, <1>6, <1>7 DEF Next

LEMMA AgreeStep ==
    ASSUME LowerSubscriptions, TypeOK, KeysAgree, [Next]_svars
    PROVE  KeysAgree'
<1>1. ASSUME NEW w \in Workers, Save(w) PROVE KeysAgree'
  <2> DEFINE saved == KeyOf(worker[w].resource)
  <2>1. worker[w].resource \in Found /\ DOMAIN table' = DOMAIN table \union {saved}
    BY <1>1, SaveStep
  <2>2. saved.partition = SubscriptionIn(saved.row) /\ saved.partition # ""
    BY <2>1 DEF KeyOf, LowerSubscriptions
  <2> QED BY <2>1, <2>2 DEF KeysAgree
<1>2. ASSUME NEW o \in Operators, StateRemove(o) PROVE KeysAgree'
  BY <1>2, RemoveStep DEF KeysAgree
<1>3. CASE UNCHANGED table
  BY <1>3 DEF KeysAgree
<1> QED
  BY <1>1, <1>2, <1>3
  DEF Next, svars, Recall, GiveUp, StateDelete, StateList, StateListNext, StateListEnd

LEMMA KeysInvariant == ASSUME LowerSubscriptions PROVE Spec => []SInv
<1>1. Init => SInv
  BY TypeInit DEF SInv, KeysAgree, Init
<1>2. SInv /\ [Next]_svars => SInv'
  BY TypeStep, AgreeStep DEF SInv
<1> QED BY <1>1, <1>2, PTL DEF Spec

-----------------------------------------------------------------------------
(* The table has one row per machine: the cycle never acts on a row of     *)
(* long ago because it came under another spelling.                        *)
THEOREM NoDuplicates == ASSUME LowerSubscriptions PROVE Spec => []OneRowEach
<1>1. SInv => OneRowEach
  <2> SUFFICES ASSUME SInv, NEW k \in DOMAIN table, NEW l \in DOMAIN table,
                      Canonical(k.row) = Canonical(l.row)
               PROVE  k = l
    BY DEF OneRowEach
  <2>1. k \in Keys /\ l \in Keys
    BY DEF SInv, TypeOK
  <2>2. k.row = l.row
    BY <2>1, CanonicalAssumption DEF Keys
  <2>3. k.partition = l.partition
    BY <2>2 DEF SInv, KeysAgree
  <2> QED BY <2>1, <2>2, <2>3 DEF Keys
<1> QED BY <1>1, KeysInvariant, PTL

(* Any spelling of an id leads the command line to the row that the        *)
(* scheduler wrote.                                                        *)
THEOREM RowsWithinReach == ASSUME LowerSubscriptions PROVE Spec => []ReachableByHand
<1>1. SInv => ReachableByHand
  <2> SUFFICES ASSUME SInv, NEW k \in DOMAIN table, NEW id \in Typed,
                      Canonical(id) = k.row
               PROVE  HasKeys(id) /\ KeysFrom(id) \in DOMAIN table
    BY DEF ReachableByHand
  <2>1. k \in Keys
    BY DEF SInv, TypeOK
  <2>2. k.partition = SubscriptionIn(Canonical(id)) /\ k.partition # ""
    BY DEF SInv, KeysAgree
  <2>3. KeysFrom(id) = k
    BY <2>1, <2>2 DEF KeysFrom, Keys
  <2> QED BY <2>2, <2>3 DEF HasKeys
<1> QED BY <1>1, KeysInvariant, PTL

-----------------------------------------------------------------------------
(* A list and the rows that come and go meanwhile.                         *)

KeyAgrees(k) == k \in Keys /\ k.partition = SubscriptionIn(k.row)

ListType ==
    \/ listing = [at |-> "idle"]
    \/ listing \in [at: {"reading", "done"}, filter: Filters, limit: Limits,
                    passed: SUBSET Keys, rows: SUBSET Keys, steady: SUBSET Keys]

(* What is shown is what was asked for among the rows passed over, and a   *)
(* list ends when it is full or has passed every row that stayed.          *)
ListSound ==
    listing.at # "idle" =>
        /\ IsFiniteSet(listing.rows)
        /\ \A k \in listing.passed \union listing.steady : KeyAgrees(k)
        /\ listing.rows = {k \in listing.passed : Wanted(listing.filter, k)}
        /\ listing.at = "done" => Full(listing) \/ listing.steady \subseteq listing.passed

LInv == SInv /\ ListType /\ ListSound

LEMMA KeyWanted ==
    ASSUME NEW filter, NEW k, KeyAgrees(k)
    PROVE  Wanted(filter, k) <=> Asked(filter, k.row)
<1>1. k.row \in Machines
  BY DEF KeyAgrees, Keys
<1>2. Lower(k.partition) = SubscriptionIn(k.row)
  BY <1>1, LowerAssumption DEF KeyAgrees
<1> QED BY <1>2 DEF Wanted, Asked

LEMMA ListingStep == ASSUME LInv, [Next]_svars PROVE ListType' /\ ListSound'
<1>1. DOMAIN table \subseteq Keys /\ \A k \in DOMAIN table : KeyAgrees(k)
  BY DEF LInv, SInv, TypeOK, KeysAgree, KeyAgrees
<1>2. CASE UNCHANGED listing
  BY <1>2 DEF LInv, ListType, ListSound, Full
<1>3. CASE StateList
  <2>1. PICK filter \in Filters, limit \in Limits :
          listing' = [at |-> "reading", filter |-> filter, limit |-> limit,
                      passed |-> {}, rows |-> {}, steady |-> DOMAIN table]
    BY <1>3 DEF StateList
  <2>2. ListType'
    BY <1>1, <2>1 DEF ListType
  <2>3. ListSound'
    BY <1>1, <2>1, FS_EmptySet DEF ListSound
  <2> QED BY <2>2, <2>3
<1>4. CASE StateListNext
  <2>1. PICK k \in DOMAIN table :
          listing' = [listing EXCEPT !.passed = @ \union {k},
                                     !.rows = @ \union (IF Wanted(listing.filter, k)
                                                        THEN {k} ELSE {})]
    BY <1>4 DEF StateListNext
  <2>2. listing \in [at: {"reading"}, filter: Filters, limit: Limits,
                     passed: SUBSET Keys, rows: SUBSET Keys, steady: SUBSET Keys]
    BY <1>4 DEF StateListNext, LInv, ListType
  <2>3. /\ listing' \in [at: {"reading"}, filter: Filters, limit: Limits,
                         passed: SUBSET Keys, rows: SUBSET Keys, steady: SUBSET Keys]
        /\ listing'.passed = listing.passed \union {k}
        /\ listing'.rows = listing.rows \union (IF Wanted(listing.filter, k) THEN {k} ELSE {})
        /\ listing'.steady = listing.steady /\ listing'.filter = listing.filter
    BY <1>1, <2>1, <2>2
  <2>4. IsFiniteSet(listing'.rows)
    <3>1. IsFiniteSet(listing.rows) /\ IsFiniteSet(listing.rows \union {k})
      BY <2>2, FS_AddElement DEF LInv, ListSound
    <3> QED BY <2>3, <3>1
  <2>5. KeyAgrees(k)
    BY <1>1
  <2> QED BY <2>2, <2>3, <2>4, <2>5 DEF LInv, ListType, ListSound, KeyAgrees
<1>5. CASE StateListEnd
  <2>1. /\ listing' = [listing EXCEPT !.at = "done"] /\ listing.at = "reading"
        /\ Full(listing) \/ listing.steady \subseteq listing.passed
    BY <1>5 DEF StateListEnd
  <2>2. listing \in [at: {"reading"}, filter: Filters, limit: Limits,
                     passed: SUBSET Keys, rows: SUBSET Keys, steady: SUBSET Keys]
    BY <2>1 DEF LInv, ListType
  <2>3. /\ ListType' /\ listing'.at = "done" /\ listing'.filter = listing.filter
        /\ listing'.limit = listing.limit /\ listing'.passed = listing.passed
        /\ listing'.rows = listing.rows /\ listing'.steady = listing.steady
    BY <2>1, <2>2 DEF ListType
  <2> QED BY <2>1, <2>3 DEF LInv, ListSound, Full, KeyAgrees
<1>6. ASSUME NEW o \in Operators, StateRemove(o) PROVE ListType' /\ ListSound'
  <2>1. CASE listing.at = "reading"
    <3>1. listing' = [listing EXCEPT !.steady = @ \ {deleting[o]}]
      BY <1>6, <2>1 DEF StateRemove
    <3>2. listing \in [at: {"reading"}, filter: Filters, limit: Limits,
                       passed: SUBSET Keys, rows: SUBSET Keys, steady: SUBSET Keys]
      BY <2>1 DEF LInv, ListType
    <3>3. /\ ListType' /\ listing'.at = "reading" /\ listing'.filter = listing.filter
          /\ listing'.passed = listing.passed /\ listing'.rows = listing.rows
          /\ listing'.steady \subseteq listing.steady
      BY <3>1, <3>2 DEF ListType
    <3> QED BY <2>1, <3>3 DEF LInv, ListSound, KeyAgrees
  <2>2. CASE listing.at # "reading"
    BY <1>2, <1>6, <2>2 DEF StateRemove
  <2> QED BY <2>1, <2>2
<1> QED BY <1>2, <1>3, <1>4, <1>5, <1>6
       DEF Next, svars, Recall, Save, GiveUp, StateDelete

(* A list that was not cut at its limit shows every row that was asked for *)
(* and stayed, and none that was not, whichever spelling the subscription  *)
(* was given in and whatever was saved and deleted meanwhile (state list). *)
THEOREM ListsAreComplete == ASSUME LowerSubscriptions PROVE Spec => []ListComplete
<1>1. LInv => ListComplete
  <2> SUFFICES ASSUME LInv, listing.at = "done"
               PROVE  /\ \A k \in listing.rows : Asked(listing.filter, k.row)
                      /\ listing.limit <= 0 \/ Cardinality(listing.rows) < listing.limit =>
                           \A k \in listing.steady :
                               Asked(listing.filter, k.row) => k \in listing.rows
    BY DEF ListComplete
  <2>1. /\ \A k \in listing.passed \union listing.steady : KeyAgrees(k)
        /\ listing.rows = {k \in listing.passed : Wanted(listing.filter, k)}
        /\ Full(listing) \/ listing.steady \subseteq listing.passed
    BY DEF LInv, ListSound
  <2>2. \A k \in listing.rows : Asked(listing.filter, k.row)
    BY <2>1, KeyWanted
  <2>3. ASSUME listing.limit <= 0 \/ Cardinality(listing.rows) < listing.limit
        PROVE  ~Full(listing)
    <3> USE DEF LInv
    <3>0. listing # [at |-> "idle"]
      BY DEF ListType
    <3>1. listing.limit \in Limits
      BY <3>0 DEF ListType
    <3>2. IsFiniteSet(listing.rows)
      BY DEF ListSound
    <3>3. Cardinality(listing.rows) \in Nat
      BY <3>2, FS_CardinalityType
    <3>4. listing.limit \in Int
      BY <3>1, LimitsAssumption
    <3>5. ASSUME NEW n \in Int, NEW m \in Nat, n <= 0 \/ m < n
          PROVE  ~(n > 0 /\ m >= n)
      BY <3>5
    <3> QED BY <2>3, <3>3, <3>4, <3>5 DEF Full
  <2>4. listing.steady \subseteq listing.passed =>
          \A k \in listing.steady : Asked(listing.filter, k.row) => k \in listing.rows
    BY <2>1, KeyWanted
  <2> QED BY <2>1, <2>2, <2>3, <2>4
<1>2. Init => ListType /\ ListSound
  BY DEF Init, ListType, ListSound
<1>3. SInv /\ ListType /\ ListSound /\ [Next]_svars => ListType' /\ ListSound'
  BY ListingStep DEF LInv
<1>4. SInv /\ ListType /\ ListSound => LInv
  BY DEF LInv
<1> QED BY <1>1, <1>2, <1>3, <1>4, KeysInvariant, PTL DEF Spec

-----------------------------------------------------------------------------
(* Seen by machine, every step is a step of StateRows or changes nothing.  *)

LEMMA RowOfFound ==
    ASSUME LowerSubscriptions, NEW resource \in Found
    PROVE  Lookup(KeyOf(resource)) = RowOf(Canonical(resource.id))
BY KeyOfAgrees DEF RowOf

LEMMA SameRows ==
    ASSUME UNCHANGED table
    PROVE  [m \in Machines |-> RowOf(m)]' = [m \in Machines |-> RowOf(m)]
BY DEF RowOf, Lookup

LEMMA SameHeld ==
    ASSUME UNCHANGED worker
    PROVE  [w \in Workers |-> HeldBy(w)]' = [w \in Workers |-> HeldBy(w)]
BY DEF HeldBy

(* A worker that holds something is one that holds a row of StateRows.     *)
LEMMA HeldType ==
    ASSUME TypeOK, NEW w \in Workers, worker[w] # None
    PROVE  /\ worker[w].resource \in Found
           /\ HeldBy(w) = [machine |-> Canonical(worker[w].resource.id),
                           stored |-> worker[w].stored]
           /\ HeldBy(w) # None
<1>1. worker[w] \in [resource: Found, stored: Values \union {None}]
  BY DEF TypeOK
<1>2. HeldBy(w) \in [machine: Machines, stored: Values \union {None}]
  BY <1>1 DEF HeldBy, Machines
<1> QED BY <1>1, <1>2, NoneAssumption DEF HeldBy

LEMMA RowsInit == Init => Rows!Init
BY DEF Init, Rows!Init, RowOf, Lookup, HeldBy

LEMMA RecallImplements ==
    ASSUME LowerSubscriptions, SInv, NEW w \in Workers, Recall(w)
    PROVE  \E m \in Machines : Rows!Recall(w, m)
<1>1. PICK resource \in Found :
        worker' = [worker EXCEPT ![w] = [resource |-> resource,
                                         stored |-> Lookup(KeyOf(resource))]]
  BY DEF Recall
<1> DEFINE m == Canonical(resource.id)
<1>2. m \in Machines /\ Lookup(KeyOf(resource)) = RowOf(m)
  BY RowOfFound, KeyOfFound
<1>3. [resource |-> resource, stored |-> Lookup(KeyOf(resource))] # None
  BY <1>2, LookupType, NoneAssumption DEF SInv
<1>4. HeldBy(w) = None /\ HeldBy(w)' = [machine |-> m, stored |-> RowOf(m)]
  BY <1>1, <1>2, <1>3 DEF Recall, HeldBy, SInv, TypeOK
<1>5. \A x \in Workers \ {w} : HeldBy(x)' = HeldBy(x)
  BY <1>1 DEF HeldBy, SInv, TypeOK
<1>6. UNCHANGED [x \in Machines |-> RowOf(x)]
  BY SameRows DEF Recall
<1>7. Rows!Recall(w, m)
  BY <1>2, <1>4, <1>5, <1>6 DEF Rows!Recall
<1> QED BY <1>2, <1>7

(* Letting go, with or without a save.                                     *)
LEMMA HeldLetGo ==
    ASSUME TypeOK, NEW w \in Workers, worker[w] # None,
           worker' = [worker EXCEPT ![w] = None]
    PROVE  [x \in Workers |-> HeldBy(x)]' =
             [[x \in Workers |-> HeldBy(x)] EXCEPT ![w] = None]
BY DEF HeldBy, TypeOK

LEMMA SaveImplements ==
    ASSUME LowerSubscriptions, SInv, NEW w \in Workers, Save(w)
    PROVE  Rows!Save(w)
<1>1. PICK resource \in Found : resource = worker[w].resource
  BY HeldType DEF Save, SInv
<1> DEFINE m == Canonical(resource.id)
<1>2. HeldBy(w) # None /\ HeldBy(w).machine = m
  BY <1>1, HeldType DEF Save, SInv
<1>3. KeyOf(resource) = [partition |-> SubscriptionIn(m), row |-> m] /\ m \in Machines
  BY KeyOfAgrees, KeyOfFound
<1> HIDE DEF m
<1>4. PICK value \in Values :
        /\ DOMAIN table' = DOMAIN table \union {KeyOf(resource)}
        /\ \A k \in DOMAIN table' :
             table'[k] = IF k = KeyOf(resource) THEN value ELSE table[k]
  BY <1>1, SaveStep DEF SInv
<1>5. RowOf(m)' = value
  BY <1>3, <1>4 DEF RowOf, Lookup
<1>6. \A x \in Machines \ {m} : RowOf(x)' = RowOf(x)
  BY <1>3, <1>4 DEF RowOf, Lookup
<1>7. [x \in Machines |-> RowOf(x)]' = [[x \in Machines |-> RowOf(x)] EXCEPT ![m] = value]
  BY <1>3, <1>5, <1>6
<1>8. [x \in Workers |-> HeldBy(x)]' = [[x \in Workers |-> HeldBy(x)] EXCEPT ![w] = None]
  BY HeldLetGo DEF Save, SInv
<1> QED BY <1>2, <1>7, <1>8 DEF Rows!Save

LEMMA GiveUpImplements ==
    ASSUME SInv, NEW w \in Workers, GiveUp(w)
    PROVE  Rows!GiveUp(w)
<1>1. HeldBy(w) # None
  BY HeldType DEF GiveUp, SInv
<1>2. [x \in Workers |-> HeldBy(x)]' = [[x \in Workers |-> HeldBy(x)] EXCEPT ![w] = None]
  BY HeldLetGo DEF GiveUp, SInv
<1>3. UNCHANGED [x \in Machines |-> RowOf(x)]
  BY SameRows DEF GiveUp
<1> QED BY <1>1, <1>2, <1>3 DEF Rows!GiveUp

(* A removal is one of the machine that was typed, if it has a row.        *)
LEMMA RemoveImplements ==
    ASSUME SInv, NEW o \in Operators, StateRemove(o)
    PROVE  (\E m \in Machines : Rows!Delete(m)) \/ UNCHANGED Rows!rvars
<1>0. PICK k : k = deleting[o]
  OBVIOUS
<1>1. DOMAIN table' = DOMAIN table \ {k} /\ \A l \in DOMAIN table' : table'[l] = table[l]
  BY <1>0, RemoveStep DEF SInv
<1>2. UNCHANGED [w \in Workers |-> HeldBy(w)]
  BY SameHeld DEF StateRemove
<1>3. CASE k \in DOMAIN table
  <2>1. k.row \in Machines /\ k = [partition |-> SubscriptionIn(k.row), row |-> k.row]
    BY <1>3 DEF SInv, TypeOK, KeysAgree, Keys
  <2>2. RowOf(k.row)' = None
    BY <1>1, <2>1 DEF RowOf, Lookup
  <2>3. \A x \in Machines \ {k.row} : RowOf(x)' = RowOf(x)
    BY <1>1, <2>1 DEF RowOf, Lookup
  <2>4. [x \in Machines |-> RowOf(x)]' =
          [[x \in Machines |-> RowOf(x)] EXCEPT ![k.row] = None]
    BY <2>1, <2>2, <2>3
  <2> QED BY <2>1, <2>4, <1>2 DEF Rows!Delete
<1>4. CASE k \notin DOMAIN table
  <2>1. \A x \in Machines : RowOf(x)' = RowOf(x)
    BY <1>1, <1>4 DEF RowOf, Lookup
  <2> QED BY <2>1, <1>2 DEF Rows!rvars
<1> QED BY <1>3, <1>4

LEMMA RowsStep ==
    ASSUME LowerSubscriptions, SInv, [Next]_svars
    PROVE  [Rows!Next]_(Rows!rvars)
<1>1. ASSUME NEW w \in Workers, Recall(w) \/ Save(w) \/ GiveUp(w) PROVE Rows!Next
  BY <1>1, RecallImplements, SaveImplements, GiveUpImplements DEF Rows!Next
<1>2. ASSUME NEW o \in Operators, StateRemove(o) PROVE [Rows!Next]_(Rows!rvars)
  BY <1>2, RemoveImplements DEF Rows!Next
<1>3. CASE UNCHANGED <<table, worker>>
  BY <1>3, SameRows, SameHeld DEF Rows!rvars
<1> QED
  BY <1>1, <1>2, <1>3 DEF Next, svars, StateDelete, StateList, StateListNext, StateListEnd

(* The table under its two part keys implements one row per machine: what  *)
(* SchedulerService takes for granted of its variable row.                 *)
THEOREM KeysImplementRows == ASSUME LowerSubscriptions PROVE Spec => ImplementsRows
<1>1. Spec => []SInv
  BY KeysInvariant
<1>2. SInv /\ [Next]_svars => [Rows!Next]_(Rows!rvars)
  BY RowsStep
<1> QED BY <1>1, <1>2, RowsInit, PTL DEF Spec, ImplementsRows, Rows!Spec

-----------------------------------------------------------------------------
(* StorageTarget: which account and tables.                                *)

TargetInv ==
    /\ shell \in [Names -> STRING] /\ \A n \in Names : shell[n] \in Texts[n]
    /\ tables_of \in [DOMAIN tables_of -> Parameters] /\ DOMAIN tables_of \subseteq Accounts
    /\ env_file \in DOMAIN tables_of \union {NoFile}
    /\ args \in Arguments

LEMMA TargetInit == InitTarget => TargetInv
BY TextsAssumption DEF InitTarget, TargetInv

LEMMA TargetStep == TargetInv /\ [NextTarget]_targetvars => TargetInv'
<1> SUFFICES ASSUME TargetInv, [NextTarget]_targetvars PROVE TargetInv'
  OBVIOUS
<1>1. ASSUME NEW n \in Names, Export(n) PROVE TargetInv'
  <2>1. PICK text \in Texts[n] : shell' = [shell EXCEPT ![n] = text]
    BY <1>1 DEF Export
  <2>2. text \in STRING
    BY TextsAssumption
  <2> QED BY <1>1, <2>1, <2>2 DEF Export, TargetInv
<1>2. ASSUME NEW account \in Accounts, Deploy(account) PROVE TargetInv'
  <2>1. PICK names \in Parameters :
          tables_of' = [a \in DOMAIN tables_of \union {account} |->
                          IF a = account THEN names ELSE tables_of[a]]
    BY <1>2 DEF Deploy
  <2>2. /\ DOMAIN tables_of' = DOMAIN tables_of \union {account}
        /\ \A a \in DOMAIN tables_of : tables_of[a] \in Parameters
    BY <2>1 DEF TargetInv
  <2>3. tables_of' \in [DOMAIN tables_of' -> Parameters]
    BY <2>1, <2>2
  <2> QED BY <1>2, <2>2, <2>3 DEF Deploy, TargetInv
<1>3. CASE Forget \/ Call \/ UNCHANGED targetvars
  BY <1>3 DEF Forget, Call, targetvars, TargetInv
<1> QED BY <1>1, <1>2, <1>3 DEF NextTarget

LEMMA TargetInvariant == SpecTarget => []TargetInv
BY TargetInit, TargetStep, PTL DEF SpecTarget

(* Every field and every variable that the two readings look at.           *)
LEMMA TargetFields ==
    ASSUME TargetInv
    PROVE  /\ {"uri", "connection", "app"} \union Tables \subseteq DOMAIN args
           /\ \A field \in {"uri", "connection", "app"} \union Tables : args[field] \in STRING
           /\ \A n \in Names : shell[n] \in STRING
           /\ Tables \subseteq Names
BY ArgumentsAssumption DEF TargetInv, Tables, Names

(* A table always has a name: its own or the default.                      *)
LEMMA TablesNamed == TargetInv => TargetTypeOK
<1> SUFFICES ASSUME TargetInv PROVE TargetTypeOK
  OBVIOUS
<1>1. ASSUME NEW x PROVE Or(Trim(x), "default") \notin {"", " "}
  BY DEF Or, Trim
<1>2. \A t \in Tables : CliTables(args, shell)[t] \notin {"", " "}
  BY <1>1 DEF CliTables
<1> QED BY <1>2 DEF TargetInv, TargetTypeOK

(* In one shell the function and the command line are at the same account  *)
(* and tables, whatever is set in it, if nothing is blank and nothing for  *)
(* the command line alone (Settings.from_env, StorageSettings.from_args).  *)
THEOREM SameTarget == SpecTarget => []SameTargetLocally
<1>1. TargetInv => SameTargetLocally
  <2> SUFFICES ASSUME TargetInv, NoArguments, \A n \in Names : shell[n] # " ",
                      \A n \in {"offhours_uri", "offhours_connection"} : shell[n] = ""
               PROVE  /\ CliStorage(args, shell) = FunctionStorage(shell)
                      /\ CliTables(args, shell) = FunctionTables(shell)
    BY DEF SameTargetLocally
  <2>1. \A field \in {"uri", "connection", "app"} \union Tables : args[field] = ""
    BY TargetFields DEF NoArguments
  <2>2. args.uri = "" /\ args.connection = ""
    BY <2>1
  <2>3. /\ shell["scheduler_uri"] # " " /\ shell["scheduler_connection"] # " "
        /\ shell["state_connection"] # " " /\ shell["host_connection"] # " "
    BY DEF Names, Uris, Connections
  <2>4. CliStorage(args, shell) = FunctionStorage(shell)
    BY <2>2, <2>3 DEF CliStorage, FunctionStorage, Connection, Or, Trim
  <2>5. CliTables(args, shell) = FunctionTables(shell)
    BY <2>1 DEF CliTables, FunctionTables, Or
  <2> QED BY <2>4, <2>5
<1> QED BY <1>1, TargetInvariant, PTL

(* After deployments with any names of tables the wrapper leads the        *)
(* command line to the account and the app that the context file names,    *)
(* unless the shell says more; and to each table that the function reads   *)
(* there if and only if its name is the default or is given in the shell   *)
(* (offhours, functionApp.bicep).                                          *)
THEOREM DeploymentReached == SpecTarget => []DeployedReached
<1>1. TargetInv => DeployedReached
  <2> SUFFICES ASSUME TargetInv, env_file # NoFile, NoArguments, NoConnection,
                      shell["offhours_uri"] = ""
               PROVE  /\ CliStorage(args, Sourced(shell)) = FunctionStorage(Settings(env_file))
                      /\ CliApp(args, Sourced(shell)) = env_file
                      /\ \A t \in Tables :
                           CliTables(args, Sourced(shell))[t] =
                             FunctionTables(Settings(env_file))[t] <=> TableKnown(t)
    BY DEF DeployedReached
  <2>1. env_file \in STRING /\ env_file # "" /\ env_file # " "
    BY AccountsAssumption DEF TargetInv
  <2>2. \A field \in {"uri", "connection", "app"} \union Tables : args[field] = ""
    BY TargetFields DEF NoArguments
  <2>3. args.uri = "" /\ args.connection = "" /\ args.app = ""
    BY <2>2
  <2> DEFINE env == Sourced(shell)
             set == Settings(env_file)
  <2>4. env = [shell EXCEPT !["offhours_uri"] = env_file, !["offhours_app"] = env_file]
    BY DEF Sourced
  <2>5. /\ env["offhours_uri"] = env_file /\ env["offhours_app"] = env_file
        /\ \A n \in Connections : env[n] = ""
        /\ \A t \in Tables : env[t] = shell[t]
    BY <2>4 DEF TargetInv, NoConnection, Names, Uris, Connections, Tables
  <2>6. /\ set["scheduler_uri"] = env_file
        /\ \A n \in Connections : set[n] = ""
        /\ \A t \in Tables : set[t] = tables_of[env_file][t]
    BY DEF Settings, Names, Uris, Connections, Tables
  <2>7. \A t \in Tables : tables_of[env_file][t] \notin {"", " "}
    BY ParametersAssumption DEF TargetInv
  <2> HIDE DEF env, set
  <2>8. CliStorage(args, env) = [by |-> "identity", account |-> env_file]
    BY <2>1, <2>3, <2>5 DEF CliStorage, Connection, Or, Trim, Reached, Connections
  <2>9. FunctionStorage(set) = [by |-> "identity", account |-> env_file]
    BY <2>1, <2>6 DEF FunctionStorage, Or, Trim, Reached, Connections
  <2>10. ASSUME NEW t \in Tables
        PROVE  CliTables(args, env)[t] = FunctionTables(set)[t] <=> TableKnown(t)
    <3>1. CliTables(args, env)[t] = Or(Trim(shell[t]), "default")
      BY <2>2, <2>5 DEF CliTables, Or
    <3>2. FunctionTables(set)[t] = tables_of[env_file][t]
      BY <2>6, <2>7 DEF FunctionTables, Or, Trim
    <3> QED BY <2>7, <3>1, <3>2 DEF TableKnown, Or, Trim
  <2>11. CliApp(args, env) = env_file
    BY <2>1, <2>3, <2>5 DEF CliApp, Or, Trim
  <2> QED BY <2>8, <2>9, <2>10, <2>11 DEF env, set
<1> QED BY <1>1, TargetInvariant, PTL

(* A variable of the operator's own wins over the context file, as long as *)
(* there is no connection string (resolve in StorageSettings.from_args).   *)
THEOREM ShellWinsWithoutConnection == SpecTarget => []ShellWinsByIdentity
<1>1. TargetInv => ShellWinsByIdentity
  <2> SUFFICES ASSUME NoConnection, args.uri = "", Trim(shell["offhours_uri"]) # ""
               PROVE  CliStorage(args, Sourced(shell)) =
                        [by |-> "identity", account |-> shell["offhours_uri"]]
    BY DEF ShellWinsByIdentity, ShellWins, Named
  <2>1. Sourced(shell) = shell
    BY DEF Sourced, Trim
  <2>2. args.connection = "" /\ \A n \in Connections : shell[n] = ""
    BY DEF NoConnection
  <2> QED BY <2>1, <2>2 DEF CliStorage, Connection, Or, Trim, Reached, Connections
<1> QED BY <1>1, TargetInvariant, PTL

-----------------------------------------------------------------------------
(* FunctionTrigger: calls and what they start.                             *)

(* A call that is past the list of functions has settled on one of them.   *)
Settled == {"key", "post", "wait", "Accepted", "timed out", "gateway error"}

Prepared ==
    \A c \in Calls : /\ stage[c] \in Settled => function[c] \in Functions
                     /\ stage[c] = "post" => key[c] \in 0..MaxRenewals

(* A request or a run is of a call that has been sent, as the call has it; *)
(* there is one request or one run of a call, never both.                  *)
TrafficAgrees ==
    /\ \A r \in wire : /\ stage[r.call] \in {"wait", "timed out", "gateway error"}
                       /\ r.slot = slot[r.call] /\ r.function = function[r.call]
    /\ \A r, q \in wire : r.call = q.call => r = q
    /\ \A run \in started : /\ stage[run.call] \in {"Accepted", "timed out", "gateway error"}
                            /\ run.slot = slot[run.call]
                            /\ run.function = function[run.call]
    /\ \A r \in wire, run \in started : r.call # run.call
    /\ \A c \in Calls : stage[c] = "Accepted" => \E run \in started : run.call = c

(* A call without a name, under way while the timer has been published all *)
(* along, finds the timer published and has settled on it.                 *)
TimerMeant ==
    \A c \in Calls : ~gap[c] =>
        /\ ~Ended(c) => "OffHoursTimer" \in published["production"]
        /\ stage[c] \in Settled /\ name[c] = NotGiven => function[c] = "OffHoursTimer"

FInv == TriggerTypeOK /\ Prepared /\ TrafficAgrees /\ TimerMeant

-----------------------------------------------------------------------------
(* An unnamed call settles on a published function or on the timer.        *)
LEMMA DefaultType ==
    ASSUME NEW names \in SUBSET Functions
    PROVE  Default(names) \in Functions
BY NamesAssumption, FS_EmptySet DEF Default

(* A listing that succeeds and shows the timer settles on it, and so does  *)
(* one that fails.                                                         *)
LEMMA DefaultTimer ==
    ASSUME NEW names, "OffHoursTimer" \in names \/ names = {}
    PROVE  Default(names) = "OffHoursTimer"
BY FS_EmptySet DEF Default

LEMMA TriggerInit == InitTrigger => FInv
BY NamesAssumption
   DEF InitTrigger, FInv, TriggerTypeOK, Prepared, TrafficAgrees, TimerMeant, Settled, Ended, Ends

LEMMA InvokeStep == ASSUME FInv, NEW c \in Calls, Invoke(c) PROVE FInv'
<1>1. TriggerTypeOK'
  BY DEF FInv, TriggerTypeOK, Invoke, Advance, app, given, traffic
<1>2. Prepared'
  BY DEF FInv, TriggerTypeOK, Prepared, Settled, Invoke, Advance, app, given, traffic
<1>3. TrafficAgrees'
  BY DEF FInv, TriggerTypeOK, TrafficAgrees, Requests, Runs, Invoke, Advance, app, given, traffic
<1>4. TimerMeant'
  BY DEF FInv, TriggerTypeOK, TimerMeant, Ended, Ends, Settled, Invoke, Advance, app, given, traffic
<1> QED BY <1>1, <1>2, <1>3, <1>4 DEF FInv

LEMMA ListStep == ASSUME FInv, NEW c \in Calls, List(c) PROVE FInv'
<1>1. PICK names \in Listings :
        /\ function' = [function EXCEPT ![c] = IF name[c] # NotGiven THEN name[c]
                                               ELSE Default(names)]
        /\ stage' = [stage EXCEPT ![c] = IF names = {} THEN "unpublished" ELSE "key"]
  BY DEF List, Advance
<1>2. names \in SUBSET Functions
  BY NamesAssumption DEF Listings, FInv, TriggerTypeOK
<1>3. function'[c] \in Functions
  BY <1>1, <1>2, DefaultType DEF FInv, TriggerTypeOK
<1>4. TriggerTypeOK'
  BY <1>1, <1>3 DEF FInv, TriggerTypeOK, Ends, List, app, given, traffic
<1>5. Prepared'
  BY <1>1, <1>3 DEF FInv, TriggerTypeOK, Prepared, Settled, List
<1>6. TrafficAgrees'
  BY <1>1 DEF FInv, TriggerTypeOK, TrafficAgrees, Requests, Runs, List, app, given, traffic
<1>7. TimerMeant'
  <2>1. ~gap[c] /\ name[c] = NotGiven => function'[c] = "OffHoursTimer"
    <3> SUFFICES ASSUME ~gap[c], name[c] = NotGiven PROVE function'[c] = "OffHoursTimer"
      OBVIOUS
    <3>1. "OffHoursTimer" \in published["production"]
      BY DEF FInv, TimerMeant, Ended, Ends, List
    <3>2. "OffHoursTimer" \in names \/ names = {}
      BY <3>1, <1>1 DEF Listings
    <3> QED BY <1>1, <3>2, DefaultTimer DEF FInv, TriggerTypeOK
  <2> QED
    BY <1>1, <2>1 DEF FInv, TriggerTypeOK, TimerMeant, Ended, Ends, Settled, List, app, given
<1> QED BY <1>4, <1>5, <1>6, <1>7 DEF FInv

LEMMA FetchKeyStep == ASSUME FInv, NEW c \in Calls, FetchKey(c) PROVE FInv'
<1>1. /\ stage[c] = "key"
      /\ \/ stage' = [stage EXCEPT ![c] = "post"] /\ key' = [key EXCEPT ![c] = keys[slot[c]]]
         \/ stage' = [stage EXCEPT ![c] = "refused"] /\ key' = key
      /\ UNCHANGED <<published, keys, slot, name, function, wire, started, gap>>
  BY DEF FetchKey, Advance, Target, app, given, traffic
<1>2. TriggerTypeOK'
  BY <1>1 DEF FInv, TriggerTypeOK, Ends
<1>3. Prepared'
  BY <1>1 DEF FInv, TriggerTypeOK, Prepared, Settled
<1>4. TrafficAgrees'
  BY <1>1 DEF FInv, TriggerTypeOK, TrafficAgrees, Requests, Runs
<1>5. TimerMeant'
  BY <1>1 DEF FInv, TriggerTypeOK, TimerMeant, Ended, Ends, Settled
<1> QED BY <1>2, <1>3, <1>4, <1>5 DEF FInv

LEMMA PostStep == ASSUME FInv, NEW c \in Calls, Post(c) PROVE FInv'
<1> DEFINE request == [call |-> c, slot |-> slot[c], function |-> function[c], key |-> key[c]]
<1>1. /\ stage[c] = "post"
      /\ \/ /\ stage' = [stage EXCEPT ![c] = "wait"]
            /\ wire' = wire \union {request}
         \/ stage' = [stage EXCEPT ![c] = "refused"] /\ wire' = wire
      /\ UNCHANGED <<published, keys, slot, name, function, key, started, gap>>
  BY DEF Post, Advance, Target, app, given
<1>2. /\ request \in Requests
      /\ request.call = c /\ request.slot = slot[c] /\ request.function = function[c]
  BY <1>1 DEF FInv, TriggerTypeOK, Prepared, Settled, Requests
<1>3. TriggerTypeOK'
  BY <1>1, <1>2 DEF FInv, TriggerTypeOK, Ends
<1>4. Prepared'
  BY <1>1 DEF FInv, TriggerTypeOK, Prepared, Settled
<1>5. TrafficAgrees'
  <2>1. \A r \in wire : r.call # c
    BY <1>1 DEF FInv, TrafficAgrees
  <2>2. \A run \in started : run.call # c
    BY <1>1 DEF FInv, TrafficAgrees
  <2>3. /\ \/ wire' = wire \union {request} /\ stage'[c] = "wait"
           \/ wire' = wire
        /\ slot' = slot /\ function' = function /\ started' = started
        /\ stage'[c] # "Accepted" /\ \A d \in Calls \ {c} : stage'[d] = stage[d]
    BY <1>1 DEF FInv, TriggerTypeOK
  <2> HIDE DEF request
  <2>4. \A r \in wire' : /\ stage'[r.call] \in {"wait", "timed out", "gateway error"}
                         /\ r.slot = slot'[r.call] /\ r.function = function'[r.call]
    <3>1. ASSUME NEW r \in wire
          PROVE  /\ r.call \in Calls \ {c} /\ stage[r.call] \in {"wait", "timed out", "gateway error"}
                 /\ r.slot = slot[r.call] /\ r.function = function[r.call]
      BY <2>1, <3>1 DEF FInv, TriggerTypeOK, TrafficAgrees, Requests
    <3> QED BY <1>2, <2>3, <3>1
  <2>5. \A r, q \in wire' : r.call = q.call => r = q
    <3>1. \A r, q \in wire : r.call = q.call => r = q
      BY DEF FInv, TrafficAgrees
    <3> QED BY <1>2, <2>1, <2>3, <3>1
  <2>6. \A run \in started' : /\ stage'[run.call] \in {"Accepted", "timed out", "gateway error"}
                              /\ run.slot = slot'[run.call]
                              /\ run.function = function'[run.call]
    BY <2>2, <2>3 DEF FInv, TriggerTypeOK, TrafficAgrees, Runs
  <2>7. \A r \in wire', run \in started' : r.call # run.call
    <3>1. \A r \in wire, run \in started : r.call # run.call
      BY DEF FInv, TrafficAgrees
    <3> QED BY <1>2, <2>2, <2>3, <3>1
  <2>8. \A d \in Calls : stage'[d] = "Accepted" => \E run \in started' : run.call = d
    BY <2>3 DEF FInv, TrafficAgrees
  <2> QED BY <2>4, <2>5, <2>6, <2>7, <2>8 DEF TrafficAgrees
<1>6. TimerMeant'
  BY <1>1 DEF FInv, TriggerTypeOK, TimerMeant, Ended, Ends, Settled
<1> QED BY <1>3, <1>4, <1>5, <1>6 DEF FInv

(* A call that is over while its request is on its way.                    *)
LEMMA TimeOutStep ==
    ASSUME FInv, NEW c \in Calls, TimeOut(c) \/ GatewayError(c)
    PROVE  FInv'
<1>1. /\ stage[c] = "wait"
      /\ \/ stage' = [stage EXCEPT ![c] = "timed out"]
         \/ stage' = [stage EXCEPT ![c] = "gateway error"]
      /\ UNCHANGED <<published, keys, slot, name, function, key, wire, started, gap>>
  BY DEF TimeOut, GatewayError, NoAnswer, Advance, app, given, traffic
<1>2. TriggerTypeOK'
  BY <1>1 DEF FInv, TriggerTypeOK, Ends
<1>3. Prepared'
  BY <1>1 DEF FInv, TriggerTypeOK, Prepared, Settled
<1>4. TrafficAgrees'
  BY <1>1 DEF FInv, TriggerTypeOK, TrafficAgrees, Requests, Runs
<1>5. TimerMeant'
  BY <1>1 DEF FInv, TriggerTypeOK, TimerMeant, Ended, Ends, Settled
<1> QED BY <1>2, <1>3, <1>4, <1>5 DEF FInv

-----------------------------------------------------------------------------
(* An answer takes a request away, and leaves a run of it or none; a call  *)
(* that still waits ends accordingly.                                      *)
LEMMA AnswerStep == ASSUME FInv, NEW r \in wire, Answer(r) PROVE FInv'
<1> DEFINE c == r.call
           run == [call |-> c, slot |-> r.slot, function |-> r.function]
<1>1. /\ r \in Requests /\ c \in Calls /\ stage[c] \in {"wait", "timed out", "gateway error"}
      /\ r.slot = slot[c] /\ r.function = function[c]
      /\ run \in Runs /\ run.call = c /\ run.slot = slot[c] /\ run.function = function[c]
  BY DEF FInv, TriggerTypeOK, TrafficAgrees, Requests, Runs
<1>2. /\ wire' = wire \ {r}
      /\ \/ /\ started' = started \union {run}
            /\ stage' = [stage EXCEPT ![c] = IF @ = "wait" THEN "Accepted" ELSE @]
         \/ /\ started' = started
            /\ stage' = [stage EXCEPT ![c] = IF @ = "wait" THEN "refused" ELSE @]
      /\ UNCHANGED <<published, keys, slot, name, function, key, gap>>
  BY <1>1 DEF Answer, app, given, FInv, TriggerTypeOK
<1>3. /\ \A q \in wire \ {r} : q.call # c
      /\ \A other \in started : other.call # c
  BY DEF FInv, TrafficAgrees
<1>4. TriggerTypeOK'
  BY <1>1, <1>2 DEF FInv, TriggerTypeOK, Ends
<1>5. Prepared'
  BY <1>1, <1>2 DEF FInv, TriggerTypeOK, Prepared, Settled
<1>6. TrafficAgrees'
  <2>0. /\ wire' = wire \ {r} /\ slot' = slot /\ function' = function
        /\ \/ started' = started \union {run}
           \/ started' = started /\ stage'[c] # "Accepted"
    BY <1>1, <1>2, <1>3 DEF FInv, TriggerTypeOK
  <2>1. \A d \in Calls \ {c} : stage'[d] = stage[d]
    BY <1>1, <1>2 DEF FInv, TriggerTypeOK
  <2> HIDE DEF run
  <2>2. \A q \in wire' : /\ stage'[q.call] \in {"wait", "timed out", "gateway error"}
                         /\ q.slot = slot'[q.call] /\ q.function = function'[q.call]
    BY <1>2, <1>3, <2>1 DEF FInv, TriggerTypeOK, TrafficAgrees, Requests
  <2>3. \A other \in started' : /\ stage'[other.call] \in {"Accepted", "timed out", "gateway error"}
                                /\ other.slot = slot'[other.call]
                                /\ other.function = function'[other.call]
    <3>1. ASSUME NEW other \in started
          PROVE  /\ other.call \in Calls \ {c}
                 /\ stage[other.call] \in {"Accepted", "timed out", "gateway error"}
                 /\ other.slot = slot[other.call] /\ other.function = function[other.call]
      BY <1>3, <3>1 DEF FInv, TriggerTypeOK, TrafficAgrees, Runs
    <3>2. started' # started => stage'[c] \in {"Accepted", "timed out", "gateway error"}
      BY <1>1, <1>2 DEF FInv, TriggerTypeOK
    <3> QED BY <1>1, <2>0, <2>1, <3>1, <3>2
  <2>4. \A q \in wire', other \in started' : q.call # other.call
    BY <1>1, <2>0, <1>3 DEF FInv, TrafficAgrees
  <2>5. \A d \in Calls : stage'[d] = "Accepted" => \E other \in started' : other.call = d
    BY <1>1, <2>0, <2>1 DEF FInv, TrafficAgrees
  <2>6. \A q, p \in wire' : q.call = p.call => q = p
    BY <2>0 DEF FInv, TrafficAgrees
  <2> QED BY <2>2, <2>3, <2>4, <2>5, <2>6 DEF TrafficAgrees
<1>7. TimerMeant'
  BY <1>1, <1>2 DEF FInv, TriggerTypeOK, TimerMeant, Ended, Ends, Settled
<1> QED BY <1>4, <1>5, <1>6, <1>7 DEF FInv

LEMMA RepublishStep == ASSUME FInv, NEW s \in Slots, Republish(s) PROVE FInv'
<1>1. TriggerTypeOK'
  BY DEF FInv, TriggerTypeOK, Republish, given, traffic
<1>2. Prepared' /\ TrafficAgrees'
  BY DEF FInv, Prepared, TrafficAgrees, Republish, given, traffic
<1>3. TimerMeant'
  BY NamesAssumption DEF FInv, TriggerTypeOK, TimerMeant, Ended, Republish, given, traffic
<1> QED BY <1>1, <1>2, <1>3 DEF FInv

LEMMA RenewStep == ASSUME FInv, NEW s \in Slots, Renew(s) PROVE FInv'
<1>1. TriggerTypeOK'
  BY NamesAssumption DEF FInv, TriggerTypeOK, Renew, given, traffic
<1> QED
  BY <1>1 DEF FInv, Prepared, TrafficAgrees, TimerMeant, Ended, Renew, given, traffic

-----------------------------------------------------------------------------
(* The inductive invariant holds in every reachable state.                 *)
THEOREM TriggerInvariant == SpecTrigger => []FInv
<1>1. FInv /\ [NextTrigger]_fvars => FInv'
  <2> SUFFICES ASSUME FInv, [NextTrigger]_fvars PROVE FInv'
    OBVIOUS
  <2>1. CASE UNCHANGED fvars
    BY <2>1 DEF fvars, FInv, TriggerTypeOK, Prepared, TrafficAgrees, TimerMeant, Ended
  <2> QED
    BY <2>1, InvokeStep, ListStep, FetchKeyStep, PostStep, TimeOutStep, AnswerStep,
       RepublishStep, RenewStep DEF NextTrigger
<1> QED BY <1>1, TriggerInit, PTL DEF SpecTrigger

(* A call that reports "Accepted" started one run, as it reports it.       *)
THEOREM AcceptedMeansStarted == SpecTrigger => []AcceptedStarted
<1>1. FInv => AcceptedStarted
  <2> SUFFICES ASSUME FInv, NEW c \in Calls, stage[c] = "Accepted"
               PROVE RunOf(c) = {[call |-> c, slot |-> slot[c], function |-> function[c]]}
    BY DEF AcceptedStarted
  <2> DEFINE reported == [call |-> c, slot |-> slot[c], function |-> function[c]]
  <2>1. \E run \in started : run.call = c
    BY DEF FInv, TrafficAgrees
  <2>2. ASSUME NEW run \in started, run.call = c PROVE run = reported
    <3>1. run \in Runs /\ run.slot = slot[c] /\ run.function = function[c]
      BY <2>2 DEF FInv, TriggerTypeOK, TrafficAgrees
    <3> QED BY <2>2, <3>1 DEF Runs
  <2>3. reported \in started /\ reported.call = c
    BY <2>1, <2>2
  <2> HIDE DEF reported
  <2>4. RunOf(c) = {reported}
    BY <2>2, <2>3 DEF RunOf
  <2> QED BY <2>4 DEF reported
<1> QED BY <1>1, TriggerInvariant, PTL

(* A call that ends with an error has started nothing and never will.      *)
THEOREM RefusedMeansNothing == SpecTrigger => []RefusedStartsNothing
<1>1. FInv => RefusedStartsNothing
  BY DEF FInv, TrafficAgrees, RefusedStartsNothing, RunOf
<1> QED BY <1>1, TriggerInvariant, PTL

(* Without a name nothing but the timer is started while it is published.  *)
THEOREM UnnamedMeansTimer == SpecTrigger => []UnnamedRunsTimer
<1>1. FInv => UnnamedRunsTimer
  <2> SUFFICES ASSUME FInv, NEW run \in started, name[run.call] = NotGiven, ~gap[run.call]
               PROVE  run.function = "OffHoursTimer"
    BY DEF UnnamedRunsTimer
  <2>1. run.call \in Calls
    BY DEF FInv, TriggerTypeOK, Runs
  <2>2. stage[run.call] \in Settled /\ run.function = function[run.call]
    BY DEF FInv, TrafficAgrees, Settled
  <2> QED BY <2>1, <2>2 DEF FInv, TimerMeant
<1> QED BY <1>1, TriggerInvariant, PTL

-----------------------------------------------------------------------------
(* DeployScheduler: how far a deployment can stray.                        *)

(* The counters stay below their ends, except that of a wait given up.     *)
CountersBelow ==
    /\ syncs < MaxSyncs
    /\ step # "failed" => polls < MaxPolls

(* What the scope is made of, before and after the exclusions.             *)
ScopeSound ==
    /\ step # "idle" => target \in ResourceGroups
    /\ step \in {"groups", "exclude"} => Explicit \subseteq scope
    /\ step \in {"access", "validate", "create"} =>
         Explicit \ Excluded \subseteq scope /\ scope \subseteq Declared /\ scope # {}

(* The context names what was deployed; from the publishing on, what is    *)
(* being deployed.                                                         *)
ContextSound ==
    /\ step = "context" => deployed[target] # {}
    /\ step \in {"publish", "sync", "poll", "resync"} => context = target

DInv == /\ DeploymentTypeOK /\ CountersBelow /\ ScopeSound /\ ContextSound
        /\ ScopeBounded /\ DoneMeansRegistered

-----------------------------------------------------------------------------
(* What a page holds are subscriptions below the group.                    *)
LEMMA AnswerType ==
    ASSUME NEW group \in Groups, NEW found \in Answers(group)
    PROVE  found \subseteq Subscriptions
BY GroupsAssumption DEF Answers, kSubset, Subscriptions

LEMMA DeployInit == InitDeployment => DInv
BY AttemptsAssumption
   DEF InitDeployment, DInv, DeploymentTypeOK, CountersBelow, ScopeSound, ContextSound,
       ScopeBounded, DoneMeansRegistered, Steps

LEMMA StartStep == ASSUME DInv, Start PROVE DInv'
<1>1. DeploymentTypeOK' /\ CountersBelow'
  BY AttemptsAssumption
     DEF Start, DInv, DeploymentTypeOK, CountersBelow, Steps, Try, Goto, cloud, Subscriptions
<1>2. ScopeSound' /\ ContextSound'
  BY DEF Start, DInv, ScopeSound, ContextSound, Try, Goto, cloud
<1>3. ScopeBounded' /\ DoneMeansRegistered'
  BY DEF Start, DInv, ScopeBounded, DoneMeansRegistered, Try, Goto, cloud
<1> QED BY <1>1, <1>2, <1>3 DEF DInv

(* A query adds a page of a group or, failing, nothing.                    *)
LEMMA QueryStep == ASSUME DInv, QueryGroup PROVE DInv'
<1>1. PICK group \in pending :
        /\ pending' = pending \ {group}
        /\ scope' \in {scope \union found : found \in Answers(group)} \union
                      (IF "query" \in Faults THEN {scope} ELSE {})
  BY DEF QueryGroup
<1>2. scope \subseteq scope' /\ scope' \subseteq Subscriptions
  BY <1>1, AnswerType DEF DInv, DeploymentTypeOK
<1>3. DeploymentTypeOK' /\ CountersBelow'
  BY <1>1, <1>2 DEF QueryGroup, DInv, DeploymentTypeOK, CountersBelow, loops, cloud
<1>4. ScopeSound' /\ ContextSound'
  BY <1>2 DEF QueryGroup, DInv, ScopeSound, ContextSound, cloud
<1>5. ScopeBounded' /\ DoneMeansRegistered'
  BY DEF QueryGroup, DInv, ScopeBounded, DoneMeansRegistered, cloud
<1> QED BY <1>3, <1>4, <1>5 DEF DInv

LEMMA ExcludeStep == ASSUME DInv, Exclude PROVE DInv'
<1>1. scope' = scope \ Excluded
  BY DEF Exclude, Remaining
<1>2. DeploymentTypeOK' /\ CountersBelow'
  BY <1>1 DEF Exclude, Goto, DInv, DeploymentTypeOK, CountersBelow, Steps, loops, cloud
<1>3. ScopeSound' /\ ContextSound'
  BY <1>1 DEF Exclude, Goto, DInv, DeploymentTypeOK, ScopeSound, ContextSound, Declared, cloud
<1>4. ScopeBounded' /\ DoneMeansRegistered'
  BY DEF Exclude, Goto, DInv, ScopeBounded, DoneMeansRegistered, cloud
<1> QED BY <1>2, <1>3, <1>4 DEF DInv

(* The steps between that move on or fail.                                 *)
LEMMA PassStep == ASSUME DInv, GroupsDone \/ CheckAccess \/ Validate PROVE DInv'
<1>1. DeploymentTypeOK' /\ CountersBelow'
  BY DEF GroupsDone, CheckAccess, Validate, Try, Goto, DInv, DeploymentTypeOK, CountersBelow,
         Steps, script, loops, cloud
<1>2. ScopeSound' /\ ContextSound'
  BY DEF GroupsDone, CheckAccess, Validate, Try, Goto, DInv, ScopeSound, ContextSound,
         script, cloud
<1>3. ScopeBounded' /\ DoneMeansRegistered'
  BY DEF GroupsDone, CheckAccess, Validate, Try, Goto, DInv, ScopeBounded,
         DoneMeansRegistered, script, cloud
<1> QED BY <1>1, <1>2, <1>3 DEF DInv

(* The settings become the scope, even if the deployment then fails.       *)
LEMMA CreateStep == ASSUME DInv, Create PROVE DInv'
<1>1. /\ target \in ResourceGroups
      /\ Explicit \ Excluded \subseteq scope /\ scope \subseteq Declared /\ scope # {}
  BY DEF Create, DInv, ScopeSound
<1>2. \/ step' = "context" /\ deployed' = [deployed EXCEPT ![target] = scope]
      \/ step' = "failed" /\ deployed' \in {deployed, [deployed EXCEPT ![target] = scope]}
  BY DEF Create, Goto
<1>3. UNCHANGED <<publishing, scope, pending, target, polls, syncs, package, context>>
  BY DEF Create, script, loops
<1>4. DeploymentTypeOK' /\ CountersBelow'
  BY <1>1, <1>2, <1>3 DEF Create, DInv, DeploymentTypeOK, CountersBelow, Steps
<1>5. ScopeSound' /\ ContextSound'
  BY <1>1, <1>2, <1>3 DEF DInv, DeploymentTypeOK, ScopeSound, ContextSound
<1>6. ScopeBounded'
  BY <1>1, <1>2 DEF DInv, DeploymentTypeOK, ScopeBounded
<1>7. DoneMeansRegistered'
  BY <1>1, <1>2, <1>3 DEF DInv, DeploymentTypeOK, DoneMeansRegistered
<1> QED BY <1>4, <1>5, <1>6, <1>7 DEF DInv

LEMMA WriteContextStep == ASSUME DInv, WriteContext PROVE DInv'
<1>1. target \in ResourceGroups /\ deployed[target] # {}
  BY DEF WriteContext, DInv, ScopeSound, ContextSound
<1>2. DeploymentTypeOK' /\ CountersBelow'
  BY <1>1 DEF WriteContext, Goto, DInv, DeploymentTypeOK, CountersBelow, Steps, script, loops,
              cloud
<1>3. ScopeSound' /\ ContextSound'
  BY DEF WriteContext, Goto, DInv, ScopeSound, ContextSound, script, cloud
<1>4. ScopeBounded' /\ DoneMeansRegistered'
  BY <1>1 DEF WriteContext, Goto, DInv, ScopeBounded, DoneMeansRegistered, script, cloud
<1> QED BY <1>2, <1>3, <1>4 DEF DInv

LEMMA PublishStep == ASSUME DInv, Publish PROVE DInv'
<1>1. /\ step = "publish" /\ step' \in {"sync", "failed"}
      /\ package' \in {package, [package EXCEPT ![target] = "published"]}
      /\ UNCHANGED <<publishing, scope, pending, target, polls, syncs, deployed, context>>
  BY DEF Publish, Goto, script, loops
<1>2. DeploymentTypeOK' /\ CountersBelow'
  BY <1>1 DEF DInv, DeploymentTypeOK, CountersBelow, Steps
<1>3. ScopeSound' /\ ContextSound' /\ ScopeBounded' /\ DoneMeansRegistered'
  BY <1>1 DEF DInv, ScopeSound, ContextSound, ScopeBounded, DoneMeansRegistered
<1> QED BY <1>2, <1>3 DEF DInv

-----------------------------------------------------------------------------
LEMMA SyncStep == ASSUME DInv, Sync \/ Resync PROVE DInv'
<1>1. /\ step \in {"sync", "resync"}
      /\ step' \in {"sync", "resync", "poll", "failed"}
      /\ \/ syncs' = 0
         \/ syncs + 1 < MaxSyncs /\ syncs' = syncs + 1
      /\ UNCHANGED <<publishing, scope, pending, target, polls, deployed, package, context>>
  BY DEF Sync, Resync, Synchronise, Goto, script, cloud
<1>2. DeploymentTypeOK' /\ CountersBelow'
  BY <1>1, AttemptsAssumption DEF DInv, DeploymentTypeOK, CountersBelow, Steps
<1>3. ScopeSound' /\ ContextSound' /\ ScopeBounded' /\ DoneMeansRegistered'
  BY <1>1 DEF DInv, ScopeSound, ContextSound, ScopeBounded, DoneMeansRegistered
<1> QED BY <1>2, <1>3 DEF DInv

LEMMA FoundStep == ASSUME DInv, FoundAtOnce PROVE DInv'
<1>1. /\ step = "poll" /\ step' = "done" /\ package[target] = "registered"
      /\ UNCHANGED <<publishing, scope, pending, target, polls, syncs, deployed, package, context>>
  BY DEF FoundAtOnce, Registered, Goto, script, loops, cloud
<1>2. DeploymentTypeOK' /\ CountersBelow'
  BY <1>1 DEF DInv, DeploymentTypeOK, CountersBelow, Steps
<1>3. ScopeSound' /\ ContextSound' /\ ScopeBounded' /\ DoneMeansRegistered'
  BY <1>1 DEF DInv, ScopeSound, ContextSound, ScopeBounded, DoneMeansRegistered
<1> QED BY <1>2, <1>3 DEF DInv

LEMMA NotFoundStep == ASSUME DInv, NotFound PROVE DInv'
<1>1. /\ step = "poll" /\ polls' = polls + 1
      /\ step' = IF polls' = MaxPolls THEN "failed"
                 ELSE IF polls' \in ResyncAt THEN "resync" ELSE "poll"
      /\ UNCHANGED <<publishing, scope, pending, target, syncs, deployed, package, context>>
  BY DEF NotFound, NextPoll, AfterLastPoll, Goto, script, cloud
<1>2. DeploymentTypeOK' /\ CountersBelow'
  BY <1>1, AttemptsAssumption DEF DInv, DeploymentTypeOK, CountersBelow, Steps
<1>3. ScopeSound' /\ ContextSound' /\ ScopeBounded' /\ DoneMeansRegistered'
  BY <1>1 DEF DInv, ScopeSound, ContextSound, ScopeBounded, DoneMeansRegistered
<1> QED BY <1>2, <1>3 DEF DInv

(* What is registered stays so until the next package.                     *)
LEMMA RegisterStep == ASSUME DInv, NEW rg \in ResourceGroups, Register(rg) PROVE DInv'
<1>1. /\ package' = [package EXCEPT ![rg] = "registered"]
      /\ UNCHANGED <<step, publishing, scope, pending, target, polls, syncs, deployed, context>>
  BY DEF Register, script, loops
<1>2. DeploymentTypeOK' /\ CountersBelow'
  BY <1>1 DEF DInv, DeploymentTypeOK, CountersBelow
<1>3. ScopeSound' /\ ContextSound' /\ ScopeBounded'
  BY <1>1 DEF DInv, ScopeSound, ContextSound, ScopeBounded
<1>4. DoneMeansRegistered'
  BY <1>1 DEF DInv, DeploymentTypeOK, ScopeSound, DoneMeansRegistered
<1> QED BY <1>2, <1>3, <1>4 DEF DInv

-----------------------------------------------------------------------------
(* The inductive invariant holds in every reachable state.                 *)
THEOREM DeploymentInvariant == SpecDeployment => []DInv
<1>1. DInv /\ [NextDeployment]_dvars => DInv'
  <2> SUFFICES ASSUME DInv, [NextDeployment]_dvars PROVE DInv'
    OBVIOUS
  <2>1. CASE UNCHANGED dvars
    BY <2>1 DEF dvars, DInv, DeploymentTypeOK, CountersBelow, ScopeSound, ContextSound,
                ScopeBounded, DoneMeansRegistered
  <2>2. CASE Script
    BY <2>2, QueryStep, PassStep, ExcludeStep, CreateStep, WriteContextStep, PublishStep,
       SyncStep, FoundStep, NotFoundStep DEF Script
  <2> QED BY <2>1, <2>2, StartStep, RegisterStep DEF NextDeployment
<1> QED BY <1>1, DeployInit, PTL DEF SpecDeployment

(* Whatever fails, a deployed scope keeps every explicit subscription that *)
(* is not excluded, and gets none that is excluded or was not asked for.   *)
THEOREM ScopeStaysBounded == SpecDeployment => []ScopeBounded
<1>1. DInv => ScopeBounded
  BY DEF DInv
<1> QED BY <1>1, DeploymentInvariant, PTL

(* A deployment that publishes ends well only with its function registered *)
(* and in the context, and no context names what was not deployed.         *)
THEOREM DoneIsRegistered == SpecDeployment => []DoneMeansRegistered
<1>1. DInv => DoneMeansRegistered
  BY DEF DInv
<1> QED BY <1>1, DeploymentInvariant, PTL

-----------------------------------------------------------------------------
(* How a deployment comes to its end.  The stages, the last one first; the *)
(* wait for the function is one of them, with the triggers that it has     *)
(* synchronised again.                                                     *)

StagesLeft ==
    [s \in Steps |->
        CASE s \in {"idle", "done", "failed"} -> 0
          [] s \in {"poll", "resync"} -> 1
          [] s = "sync" -> 2
          [] s = "publish" -> 3
          [] s = "context" -> 4
          [] s = "create" -> 5
          [] s = "validate" -> 6
          [] s = "access" -> 7
          [] s = "exclude" -> 8
          [] s = "groups" -> 9]

(* Nearer to the end is a later stage or, within one, fewer groups still   *)
(* to be queried or fewer attempts left: of the wait and, within one       *)
(* attempt of it, of the synchronisation that follows.  There is no        *)
(* infinite descent, as there are finitely many groups and no attempts     *)
(* after MaxPolls and MaxSyncs (CountersBelow).                            *)
FewerInStage ==
    \/ step = "groups" /\ pending' \subseteq pending /\ pending' # pending
    \/ step = "sync" /\ syncs < syncs'
    \/ step = "poll" /\ polls < polls'
    \/ step = "resync" /\ polls' = polls /\ (step' = "poll" \/ syncs < syncs')

NearerToEnd ==
    \/ StagesLeft[step'] < StagesLeft[step]
    \/ StagesLeft[step'] = StagesLeft[step] /\ FewerInStage

(* Whichever calls fail, every step of the script brings the deployment    *)
(* nearer to its end (the loops of deploy_scheduler.sh:314 and 352):  *)
(* nothing is retried without an attempt being used up, and what others do *)
(* meanwhile does not take it back.                                        *)
THEOREM ScriptRunsDown ==
    SpecDeployment => [][/\ Script => NearerToEnd
                         /\ \A rg \in ResourceGroups : Register(rg) =>
                              UNCHANGED <<step, pending, polls, syncs>>]_dvars
<1>1. DInv /\ Script => NearerToEnd
  <2> SUFFICES ASSUME DInv, Script PROVE NearerToEnd
    OBVIOUS
  <2> USE DEF NearerToEnd, FewerInStage, StagesLeft, Steps, Goto
  <2>1. syncs \in Nat /\ polls \in Nat
    BY AttemptsAssumption DEF DInv, DeploymentTypeOK
  <2>2. CASE QueryGroup
    BY <2>2 DEF QueryGroup
  <2>3. CASE GroupsDone \/ Exclude \/ CheckAccess \/ Validate
    BY <2>3 DEF GroupsDone, Exclude, CheckAccess, Validate, Try
  <2>4. CASE Create \/ WriteContext \/ Publish \/ FoundAtOnce
    BY <2>4 DEF Create, WriteContext, Publish, FoundAtOnce
  <2>5. CASE Sync
    BY <2>1, <2>5 DEF Sync, Synchronise
  <2>6. CASE Resync
    BY <2>1, <2>6 DEF Resync, Synchronise
  <2>7. CASE NotFound
    BY <2>1, <2>7 DEF NotFound, NextPoll, AfterLastPoll
  <2> QED
    BY <2>2, <2>3, <2>4, <2>5, <2>6, <2>7 DEF Script
<1>2. \A rg \in ResourceGroups : Register(rg) => UNCHANGED <<step, pending, polls, syncs>>
  BY DEF Register, script, loops
<1> QED BY <1>1, <1>2, DeploymentInvariant, PTL

-----------------------------------------------------------------------------
(* OperatorTools: a behaviour of the whole is one of each of its parts, so *)
(* that what is proved of a part holds in the whole.                       *)

THEOREM ToolsKeepKeys == SpecTools => Spec
<1>1. InitTools => Init
  BY DEF InitTools
<1>2. [NextTool]_toolvars => [Next]_svars
  BY DEF NextTool, WorkOnKeys, WorkOnTarget, Deployment, WorkOnTrigger, toolvars, svars
<1> QED BY <1>1, <1>2, PTL DEF SpecTools, Spec

THEOREM ToolsKeepTarget == SpecTools => SpecTarget
<1>1. InitTools => InitTarget
  BY DEF InitTools
<1>2. [NextTool]_toolvars => [NextTarget]_targetvars
  BY DEF NextTool, WorkOnKeys, WorkOnTarget, Deployment, WorkOnTrigger, toolvars, targetvars
<1> QED BY <1>1, <1>2, PTL DEF SpecTools, SpecTarget

THEOREM ToolsKeepDeployment == SpecTools => SpecDeployment
<1>1. InitTools => InitDeployment
  BY DEF InitTools
<1>2. [NextTool]_toolvars => [NextDeployment]_dvars
  BY DEF NextTool, WorkOnKeys, WorkOnTarget, Deployment, WorkOnTrigger, toolvars, dvars
<1> QED BY <1>1, <1>2, PTL DEF SpecTools, SpecDeployment

THEOREM ToolsKeepTrigger == SpecTools => SpecTrigger
<1>1. InitTools => InitTrigger
  BY DEF InitTools
<1>2. [NextTool]_toolvars => [NextTrigger]_fvars
  BY DEF NextTool, WorkOnKeys, WorkOnTarget, Deployment, WorkOnTrigger, toolvars, fvars
<1> QED BY <1>1, <1>2, PTL DEF SpecTools, SpecTrigger

(* The tools keep their types, for any rows, spellings, accounts, groups   *)
(* and calls.                                                              *)
THEOREM ToolsTyped == SpecTools => []ToolsTypeOK
<1>1. Spec => []TypeOK
  BY TypeInit, TypeStep, PTL DEF Spec
<1>2. TargetInv => TargetTypeOK
  BY TablesNamed
<1>3. DInv => DeploymentTypeOK
  BY DEF DInv
<1>4. FInv => TriggerTypeOK
  BY DEF FInv
<1>5. TypeOK /\ TargetTypeOK /\ DeploymentTypeOK /\ TriggerTypeOK => ToolsTypeOK
  BY DEF ToolsTypeOK
<1> QED
  BY <1>1, <1>2, <1>3, <1>4, <1>5, ToolsKeepKeys, ToolsKeepTarget, ToolsKeepDeployment,
     ToolsKeepTrigger, TargetInvariant, DeploymentInvariant, TriggerInvariant, PTL

(* And with them everything that has been proved of each tool, of rows,    *)
(* lists, accounts, tables, scopes, contexts, calls and runs.              *)
THEOREM ToolsAreSound ==
    ASSUME LowerSubscriptions
    PROVE  SpecTools =>
             /\ [](OneRowEach /\ ReachableByHand /\ ListComplete)
             /\ ImplementsRows
             /\ [](SameTargetLocally /\ DeployedReached /\ ShellWinsByIdentity)
             /\ [](DoneMeansRegistered /\ ScopeBounded)
             /\ [](AcceptedStarted /\ RefusedStartsNothing /\ UnnamedRunsTimer)
<1>1. Spec => [](OneRowEach /\ ReachableByHand /\ ListComplete) /\ ImplementsRows
  BY NoDuplicates, RowsWithinReach, ListsAreComplete, KeysImplementRows, PTL
<1>2. SpecTarget => [](SameTargetLocally /\ DeployedReached /\ ShellWinsByIdentity)
  BY SameTarget, DeploymentReached, ShellWinsWithoutConnection, PTL
<1>3. SpecDeployment => [](DoneMeansRegistered /\ ScopeBounded)
  BY DoneIsRegistered, ScopeStaysBounded, PTL
<1>4. SpecTrigger => [](AcceptedStarted /\ RefusedStartsNothing /\ UnnamedRunsTimer)
  BY AcceptedMeansStarted, RefusedMeansNothing, UnnamedMeansTimer, PTL
<1> QED
  BY <1>1, <1>2, <1>3, <1>4, ToolsKeepKeys, ToolsKeepTarget, ToolsKeepDeployment,
     ToolsKeepTrigger
=============================================================================
