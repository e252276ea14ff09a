------------------------- MODULE CycleInputsProofs -------------------------
(***************************************************************************)
(* What a cycle starts from.  What the command line writes means what was  *)
(* asked for, and what a cycle loads was there and well formed, for any    *)
(* keys, operators, files and entities.  What a discovery finds was there, *)
(* what was there throughout is found, and what was excluded throughout    *)
(* stays out, for any subscriptions, machines, chains, tags and schedules, *)
(* as long as either answer fits in one page.                              *)
(***************************************************************************)
EXTENDS CycleInputs, FiniteSetTheorems, TLAPS

-----------------------------------------------------------------------------
(* ConfigTables.                                                           *)

Commands ==
    {Idle} \union
    [at: {"apply"}, key: KeySet, payload: {p \in Payloads : Accepted(p)}] \union
    [at: {"delete"}, key: KeySet] \union
    [at: {"config"}, payload: ConfigPayloads]

TablesType ==
    /\ table \in [KeySet -> Entity \union {None}]
    /\ intended \in [KeySet -> Payloads \union {None}]
    /\ offered \in [KeySet -> SUBSET (Definitions \union {None, Malformed})]
    /\ command \in [Operators -> Commands]

CycleType ==
    \/ cycle.at \in {"idle", "config", "failed"}
    \/ cycle \in [at: {"list"}, next: 1..(Len(Keys) + 1),
                  loaded: [Names -> Definitions \union {None}]]
    \/ cycle \in [at: {"ready"}, loaded: [Names -> Definitions \union {None}]]

(* Since a cycle began, what a key means now has been offered to it.       *)
OfferedNow ==
    cycle.at # "idle" => \A key \in KeySet : Offer(table[key]) \in offered[key]

(* The keys that a cycle has read, and what it has made of them: each was  *)
(* well formed at some moment, and what is loaded under a name is what one *)
(* of its keys meant, or None if none of them has been read.               *)
ReadKeys == IF cycle.at = "list" THEN 1..(cycle.next - 1) ELSE 1..Len(Keys)

LoadedFrom(name) ==
    \/ \E i \in ReadKeys : /\ Keys[i].name = name /\ cycle.loaded[name] # Malformed
                           /\ cycle.loaded[name] \in offered[Keys[i]]
    \/ cycle.loaded[name] = None /\ \A i \in ReadKeys : Keys[i].name # name

ReadSound ==
    cycle.at \in {"list", "ready"} =>
        /\ \A i \in ReadKeys : \E x \in offered[Keys[i]] : x # Malformed
        /\ \A name \in Names : LoadedFrom(name)

TInv == TablesType /\ CycleType /\ AppliedMeansIntended /\ OfferedNow /\ ReadSound

-----------------------------------------------------------------------------
(* build_schedule_entity() leaves the meaning of the file alone.           *)
LEMMA BuiltMeaning ==
    ASSUME NEW payload \in Entity
    PROVE  Built(payload) \in Entity /\ Meaning(Built(payload)) = Meaning(payload)
BY DEF Built, Meaning, Entity, Enabled, WindowsOf

(* A well-formed entity is offered as what a cycle takes it for.           *)
LEMMA OfferTaken ==
    ASSUME NEW entity \in Entity, WellFormed(entity)
    PROVE  /\ Taken(entity) = Offer(entity)
           /\ Taken(entity) \in Definitions \union {None}
           /\ Taken(entity) # Malformed
<1>1. entity # None
  BY NoneAssumption
<1>2. Enabled(entity) \in {"yes", "no"}
  BY DEF Entity, WellFormed, Enabled
<1>3. Definition(entity) \in Definitions /\ Definition(entity) # Malformed
  BY DEF Entity, WellFormed, WindowsOf, Definition, Definitions, Malformed
<1> QED BY <1>1, <1>2, <1>3, NoneAssumption DEF Taken, Offer

LEMMA OfferType ==
    ASSUME NEW entity \in Entity \union {None}
    PROVE  Offer(entity) \in Definitions \union {None, Malformed}
<1>1. CASE entity = None
  BY <1>1 DEF Offer
<1>2. CASE entity # None /\ ~WellFormed(entity)
  BY <1>2 DEF Offer
<1>3. CASE entity # None /\ WellFormed(entity)
  BY <1>3, OfferTaken
<1> QED BY <1>1, <1>2, <1>3

LEMMA KeyOfIndex == \A i \in 1..Len(Keys) : Keys[i] \in KeySet /\ Keys[i].name \in Names
BY DEF KeySet, Names

(* What is offered only grows, so that what has been read stays sound.     *)
LEMMA ReadSoundGrows ==
    ASSUME CycleType, ReadSound, UNCHANGED cycle,
           \A key \in KeySet : offered[key] \subseteq offered'[key]
    PROVE  ReadSound'
<1> SUFFICES ASSUME cycle.at \in {"list", "ready"} PROVE ReadSound'
  BY DEF ReadSound
<1>1. ReadKeys' = ReadKeys /\ ReadKeys \subseteq 1..Len(Keys)
  BY DEF ReadKeys, CycleType
<1>2. \A i \in ReadKeys : offered[Keys[i]] \subseteq offered'[Keys[i]]
  BY <1>1, KeyOfIndex
<1> QED BY <1>1, <1>2 DEF ReadSound, LoadedFrom

(* A write to one key.                                                     *)
LEMMA WriteStep ==
    ASSUME TInv, NEW key \in KeySet, NEW entity \in Entity \union {None},
           NEW payload \in Payloads \union {None},
           payload # None => entity = Built(payload) /\ Accepted(payload),
           Write(key, entity, payload), command' \in [Operators -> Commands], UNCHANGED cycle
    PROVE  TInv'
<1>1. TablesType'
  BY OfferType DEF TInv, TablesType, Write
<1>2. CycleType'
  BY DEF TInv, CycleType
<1>3. AppliedMeansIntended'
  <2>1. payload # None => /\ entity # None /\ WellFormed(entity)
                          /\ Meaning(entity) = Meaning(payload)
    BY EntitiesAssumption, NoneAssumption, BuiltMeaning DEF Accepted
  <2>2. /\ table'[key] = entity /\ intended'[key] = payload
        /\ \A k \in KeySet \ {key} : table'[k] = table[k] /\ intended'[k] = intended[k]
    BY DEF TInv, TablesType, Write
  <2> QED BY <2>1, <2>2 DEF TInv, AppliedMeansIntended
<1>4. \A k \in KeySet : offered[k] \subseteq offered'[k]
  BY DEF TInv, TablesType, Write
<1>5. OfferedNow'
  BY <1>4 DEF TInv, TablesType, OfferedNow, Write
<1>6. ReadSound'
  BY <1>4, ReadSoundGrows DEF TInv
<1> QED BY <1>1, <1>2, <1>3, <1>5, <1>6 DEF TInv

(* A step that leaves the tables alone, and the cycle.                     *)
LEMMA CommandStep ==
    ASSUME TInv, command' \in [Operators -> Commands],
           UNCHANGED <<table, intended, offered, cycle>>
    PROVE  TInv'
<1>1. TablesType' /\ CycleType' /\ AppliedMeansIntended' /\ OfferedNow'
  BY DEF TInv, TablesType, CycleType, AppliedMeansIntended, OfferedNow
<1>2. ReadSound'
  BY DEF TInv, ReadSound, LoadedFrom, ReadKeys
<1> QED BY <1>1, <1>2 DEF TInv

LEMMA TablesInit == Init => TInv
<1> SUFFICES ASSUME Init PROVE TInv
  OBVIOUS
<1>1. TablesType
  BY DEF Init, TablesType, Commands, Idle
<1>2. CycleType /\ OfferedNow /\ ReadSound
  BY DEF Init, CycleType, OfferedNow, ReadSound
<1>3. AppliedMeansIntended
  BY DEF Init, AppliedMeansIntended
<1> QED BY <1>1, <1>2, <1>3 DEF TInv

-----------------------------------------------------------------------------
LEMMA OwnKeys == \A name \in Names : OwnKey(name) \in KeySet
BY KeysAssumption DEF Names

(* The commands of an operator.                                            *)
LEMMA OperateStep == ASSUME TInv, NEW o \in Operators, Operate(o) PROVE TInv'
<1>0. Idle \in Commands /\ command \in [Operators -> Commands]
  BY DEF Commands, TInv, TablesType
<1>1. CASE ScheduleApply(o)
  <2>1. PICK payload \in Payloads, name \in Names :
          /\ Accepted(payload)
          /\ command' = [command EXCEPT ![o] = [at |-> "apply", key |-> OwnKey(name),
                                                payload |-> payload]]
    BY <1>1 DEF ScheduleApply, Announce
  <2>2. [at |-> "apply", key |-> OwnKey(name), payload |-> payload] \in Commands
    BY <2>1, OwnKeys DEF Commands
  <2> QED BY <1>0, <1>1, <2>1, <2>2, CommandStep DEF ScheduleApply, Elsewhere
<1>2. CASE ScheduleUpsert(o)
  <2>1. command[o].at = "apply" /\ command[o] \in Commands
    BY <1>0, <1>2 DEF ScheduleUpsert
  <2>2. /\ command[o].key \in KeySet
        /\ command[o].payload \in Payloads /\ Accepted(command[o].payload)
    BY <2>1 DEF Commands, Idle
  <2>3. Built(command[o].payload) \in Entity
    BY <2>2, BuiltMeaning, EntitiesAssumption
  <2>4. Write(command[o].key, Built(command[o].payload), command[o].payload)
    BY <1>2 DEF ScheduleUpsert, Upserted
  <2>5. command' \in [Operators -> Commands] /\ UNCHANGED cycle
    BY <1>0, <1>2 DEF ScheduleUpsert, Announce
  <2> QED BY <2>2, <2>3, <2>4, <2>5, WriteStep
<1>3. CASE ScheduleDelete(o)
  <2>1. PICK name \in Names :
          command' = [command EXCEPT ![o] = [at |-> "delete", key |-> OwnKey(name)]]
    BY <1>3 DEF ScheduleDelete, Announce
  <2>2. [at |-> "delete", key |-> OwnKey(name)] \in Commands
    BY OwnKeys DEF Commands
  <2> QED BY <1>0, <1>3, <2>1, <2>2, CommandStep DEF ScheduleDelete, Elsewhere
<1>4. CASE ScheduleRemove(o)
  <2>1. command[o].at = "delete" /\ command[o] \in Commands
    BY <1>0, <1>4 DEF ScheduleRemove
  <2>2. command[o].key \in KeySet
    BY <2>1 DEF Commands, Idle
  <2>3. command' \in [Operators -> Commands] /\ UNCHANGED cycle
    BY <1>0, <1>4 DEF ScheduleRemove, Announce
  <2>4. Write(command[o].key, None, None)
    BY <1>4 DEF ScheduleRemove
  <2> QED BY <2>2, <2>3, <2>4, WriteStep
<1>5. CASE ConfigApply(o)
  <2>1. PICK payload \in ConfigPayloads :
          command' = [command EXCEPT ![o] = [at |-> "config", payload |-> payload]]
    BY <1>5 DEF ConfigApply, Announce
  <2>2. [at |-> "config", payload |-> payload] \in Commands
    BY DEF Commands
  <2> QED BY <1>0, <1>5, <2>1, <2>2, CommandStep DEF ConfigApply, Elsewhere
<1>6. CASE ConfigUpsert(o) \/ Preview(o)
  BY <1>0, <1>6, CommandStep DEF ConfigUpsert, Preview, Announce, Elsewhere
<1> QED BY <1>1, <1>2, <1>3, <1>4, <1>5, <1>6 DEF Operate

LEMMA PortalStep ==
    ASSUME TInv, (\E key \in KeySet : PortalEdit(key)) \/ PortalEditConfig
    PROVE  TInv'
<1>0. command \in [Operators -> Commands]
  BY DEF TInv, TablesType
<1>1. ASSUME NEW key \in KeySet, PortalEdit(key) PROVE TInv'
  <2>1. PICK entity \in Entities \union {None} : Write(key, entity, None)
    BY <1>1 DEF PortalEdit
  <2>2. entity \in Entity \union {None}
    BY EntitiesAssumption
  <2> QED BY <1>0, <1>1, <2>1, <2>2, WriteStep DEF PortalEdit
<1>2. CASE PortalEditConfig
  BY <1>0, <1>2, CommandStep DEF PortalEditConfig
<1> QED BY <1>1, <1>2

-----------------------------------------------------------------------------
(* A cycle that begins is offered the tables as they are.                  *)
LEMMA BeginCycleStep == ASSUME TInv, Begin PROVE TInv'
<1>1. TablesType'
  BY OfferType DEF Begin, Stay, TInv, TablesType
<1>2. CycleType' /\ OfferedNow' /\ ReadSound'
  BY DEF Begin, Stay, TInv, TablesType, CycleType, OfferedNow, ReadSound
<1>3. AppliedMeansIntended'
  BY DEF Begin, Stay, TInv, AppliedMeansIntended
<1> QED BY <1>1, <1>2, <1>3 DEF TInv

(* What the steps of a cycle after the first have in common.               *)
LEMMA CycleStep ==
    ASSUME TInv, cycle.at # "idle", Stay, UNCHANGED offered, CycleType', ReadSound'
    PROVE  TInv'
BY DEF TInv, TablesType, AppliedMeansIntended, OfferedNow, Stay

LEMMA LoadConfigStep == ASSUME TInv, LoadConfig PROVE TInv'
<1>1. CASE cycle'.at = "failed"
  BY <1>1, CycleStep DEF LoadConfig, CycleType, ReadSound
<1>2. CASE cycle' = [at |-> "list", next |-> 1, loaded |-> [name \in Names |-> None]]
  <2>1. CycleType'
    BY <1>2, KeysAssumption DEF CycleType
  <2>2. ReadKeys' = {}
    BY <1>2 DEF ReadKeys
  <2>3. ReadSound'
    BY <1>2, <2>2 DEF ReadSound, LoadedFrom
  <2> QED BY <2>1, <2>3, CycleStep DEF LoadConfig
<1> QED BY <1>1, <1>2 DEF LoadConfig, Fail

(* The next key was offered as the cycle finds it.                         *)
LEMMA ListNextStep == ASSUME TInv, ListNext PROVE TInv'
<1> DEFINE i == cycle.next
           entity == table[Keys[i]]
<1>1. /\ cycle \in [at: {"list"}, next: 1..(Len(Keys) + 1),
                    loaded: [Names -> Definitions \union {None}]]
      /\ cycle.at = "list" /\ i \in 1..Len(Keys) /\ Len(Keys) \in Nat
  BY KeysAssumption DEF ListNext, TInv, CycleType
<1>2. Keys[i] \in KeySet /\ Keys[i].name \in Names
  BY <1>1, KeyOfIndex
<1>3. Offer(entity) \in offered[Keys[i]] /\ entity \in Entity \union {None}
  BY <1>1, <1>2 DEF TInv, OfferedNow, TablesType
<1>4. CASE entity # None /\ ~WellFormed(entity)
  <2>1. cycle'.at = "failed"
    BY <1>4 DEF ListNext, Fail
  <2> QED BY <1>1, <2>1, CycleStep DEF ListNext, CycleType, ReadSound
<1>5. CASE entity = None
  <2>1. cycle' = [cycle EXCEPT !.next = i + 1]
    BY <1>1, <1>5 DEF ListNext
  <2>2. CycleType'
    BY <1>1, <2>1 DEF CycleType
  <2>3. ReadKeys = 1..(i - 1) /\ ReadKeys' = ReadKeys \union {i} /\ cycle'.loaded = cycle.loaded
    BY <1>1, <2>1 DEF ReadKeys
  <2>4. None \in offered[Keys[i]] /\ None # Malformed
    BY <1>3, <1>5, NoneAssumption DEF Offer
  <2>5. ReadSound'
    BY <1>1, <2>1, <2>3, <2>4 DEF ListNext, TInv, ReadSound, LoadedFrom
  <2> QED BY <1>1, <2>2, <2>5, CycleStep DEF ListNext
<1>6. CASE entity # None /\ WellFormed(entity)
  <2>1. cycle' = [cycle EXCEPT !.next = i + 1,
                               !.loaded = [@ EXCEPT ![Keys[i].name] = Taken(entity)]]
    BY <1>1, <1>6 DEF ListNext, Take
  <2>2. /\ Taken(entity) \in offered[Keys[i]] /\ Taken(entity) # Malformed
        /\ Taken(entity) \in Definitions \union {None}
    BY <1>3, <1>6, OfferTaken
  <2>3. CycleType'
    <3>1. [cycle.loaded EXCEPT ![Keys[i].name] = Taken(entity)]
            \in [Names -> Definitions \union {None}]
      BY <1>1, <1>2, <2>2
    <3>2. cycle' = [at |-> "list", next |-> i + 1,
                    loaded |-> [cycle.loaded EXCEPT ![Keys[i].name] = Taken(entity)]]
      BY <1>1, <2>1
    <3>3. i + 1 \in 1..(Len(Keys) + 1)
      BY <1>1
    <3> HIDE DEF i, entity
    <3> QED BY <3>1, <3>2, <3>3 DEF CycleType
  <2>4. ReadKeys = 1..(i - 1) /\ ReadKeys' = ReadKeys \union {i}
    BY <1>1, <2>1 DEF ReadKeys
  <2>5. /\ cycle'.loaded[Keys[i].name] = Taken(entity)
        /\ \A name \in Names \ {Keys[i].name} : cycle'.loaded[name] = cycle.loaded[name]
    BY <1>1, <1>2, <2>1
  <2>6. ReadSound'
    <3>1. \A j \in ReadKeys' : \E x \in offered'[Keys[j]] : x # Malformed
      BY <1>1, <2>2, <2>4 DEF ListNext, TInv, ReadSound
    <3>2. \A name \in Names : LoadedFrom(name)'
      BY <1>1, <2>2, <2>4, <2>5 DEF ListNext, TInv, ReadSound, LoadedFrom
    <3> QED BY <3>1, <3>2 DEF ReadSound
  <2> QED BY <1>1, <2>3, <2>6, CycleStep DEF ListNext
<1> QED BY <1>4, <1>5, <1>6

LEMMA ReadyStep == ASSUME TInv, Ready PROVE TInv'
<1>1. /\ cycle \in [at: {"list"}, next: 1..(Len(Keys) + 1),
                    loaded: [Names -> Definitions \union {None}]]
      /\ cycle.at = "list" /\ cycle.next = Len(Keys) + 1
      /\ cycle' = [at |-> "ready", loaded |-> cycle.loaded]
  BY KeysAssumption DEF Ready, TInv, CycleType
<1>2. CycleType'
  BY <1>1 DEF CycleType
<1>3. ReadKeys' = ReadKeys /\ cycle'.loaded = cycle.loaded
  BY <1>1, KeysAssumption DEF ReadKeys
<1>4. ReadSound'
  BY <1>1, <1>3 DEF Ready, TInv, ReadSound, LoadedFrom
<1> QED BY <1>1, <1>2, <1>4, CycleStep DEF Ready

-----------------------------------------------------------------------------
(* The inductive invariant holds in every reachable state.                 *)
THEOREM TablesInvariant == Spec => []TInv
<1>1. TInv /\ [Next]_tvars => TInv'
  <2> SUFFICES ASSUME TInv, [Next]_tvars PROVE TInv'
    OBVIOUS
  <2>1. CASE UNCHANGED tvars
    BY <2>1, CommandStep DEF tvars, TInv, TablesType
  <2> QED
    BY <2>1, OperateStep, PortalStep, BeginCycleStep, LoadConfigStep, ListNextStep, ReadyStep DEF Next
<1> QED BY <1>1, TablesInit, PTL DEF Spec

(* An entity that the command line has written loads and means what the    *)
(* file says, whatever was there before and whoever else writes.           *)
THEOREM ApplyMeansIntended == Spec => []AppliedMeansIntended
<1>1. TInv => AppliedMeansIntended
  BY DEF TInv
<1> QED BY <1>1, TablesInvariant, PTL

(* Of the keys that a cycle has read, one that was there and enabled all   *)
(* along has yielded to later ones only.                                   *)
LaterWins ==
    cycle.at \in {"list", "ready"} =>
        \A i \in ReadKeys : None \notin offered[Keys[i]] =>
            \E j \in ReadKeys : /\ i <= j /\ Keys[j].name = Keys[i].name
                               /\ cycle.loaded[Keys[i].name] \in offered[Keys[j]]

(* What is offered grows with every step, until a cycle begins again.      *)
LEMMA OfferedGrows ==
    ASSUME TInv, [Next]_tvars, ~Begin
    PROVE  \A key \in KeySet : offered[key] \subseteq offered'[key]
<1>1. offered \in [KeySet -> SUBSET (Definitions \union {None, Malformed})]
  BY DEF TInv, TablesType
<1>2. ASSUME NEW key, NEW entity, NEW payload, Write(key, entity, payload)
      PROVE  \A k \in KeySet : offered[k] \subseteq offered'[k]
  BY <1>1, <1>2 DEF Write
<1>3. CASE UNCHANGED offered
  BY <1>3
<1>4. ASSUME NEW o \in Operators, Operate(o)
      PROVE  \A k \in KeySet : offered[k] \subseteq offered'[k]
  BY <1>2, <1>3, <1>4
  DEF Operate, ScheduleApply, ScheduleUpsert, ScheduleDelete, ScheduleRemove, ConfigApply,
      ConfigUpsert, Preview, Elsewhere
<1>5. ASSUME NEW key \in KeySet, PortalEdit(key)
      PROVE  \A k \in KeySet : offered[k] \subseteq offered'[k]
  BY <1>2, <1>5 DEF PortalEdit
<1>6. CASE PortalEditConfig \/ LoadConfig \/ ListNext \/ Ready \/ UNCHANGED tvars
  BY <1>3, <1>6 DEF PortalEditConfig, LoadConfig, ListNext, Ready, tvars
<1> QED BY <1>4, <1>5, <1>6 DEF Next

LEMMA LaterWinsStep == ASSUME TInv, LaterWins, [Next]_tvars PROVE LaterWins'
<1>1. CASE Begin
  BY <1>1 DEF Begin, LaterWins
<1>2. CASE ~Begin /\ UNCHANGED cycle
  <2>1. ReadKeys' = ReadKeys
    BY <1>2 DEF ReadKeys
  <2>2. cycle.at \in {"list", "ready"} => ReadKeys \subseteq 1..Len(Keys)
    BY DEF TInv, CycleType, ReadKeys
  <2>3. cycle.at \in {"list", "ready"} =>
          \A i \in ReadKeys : offered[Keys[i]] \subseteq offered'[Keys[i]]
    BY <1>2, <2>2, OfferedGrows, KeyOfIndex
  <2> SUFFICES ASSUME cycle.at \in {"list", "ready"},
                      NEW i \in ReadKeys, None \notin offered'[Keys[i]]
               PROVE  \E j \in ReadKeys : /\ i <= j /\ Keys[j].name = Keys[i].name
                                          /\ cycle.loaded[Keys[i].name] \in offered'[Keys[j]]
    BY <1>2, <2>1 DEF LaterWins
  <2>4. PICK j \in ReadKeys : /\ i <= j /\ Keys[j].name = Keys[i].name
                             /\ cycle.loaded[Keys[i].name] \in offered[Keys[j]]
    BY <2>3 DEF LaterWins
  <2> QED BY <2>3, <2>4
<1>3. CASE LoadConfig
  BY <1>3, KeysAssumption DEF LoadConfig, Fail, LaterWins, ReadKeys
<1>4. CASE ListNext
  <2> DEFINE n == cycle.next
             entity == table[Keys[n]]
  <2>1. /\ cycle \in [at: {"list"}, next: 1..(Len(Keys) + 1),
                      loaded: [Names -> Definitions \union {None}]]
        /\ cycle.at = "list" /\ n \in 1..Len(Keys) /\ offered' = offered
    BY <1>4, KeysAssumption DEF ListNext, TInv, CycleType
  <2>2. Keys[n] \in KeySet /\ Keys[n].name \in Names
    BY <2>1, KeyOfIndex
  <2>3. Offer(entity) \in offered[Keys[n]] /\ entity \in Entity \union {None}
    BY <2>1, <2>2 DEF TInv, OfferedNow, TablesType
  <2>4. CASE entity # None /\ ~WellFormed(entity)
    BY <1>4, <2>4 DEF ListNext, Fail, LaterWins
  <2>5. CASE entity = None
    <3>1. cycle' = [cycle EXCEPT !.next = n + 1]
      BY <1>4, <2>1, <2>5 DEF ListNext
    <3>2. /\ cycle'.at = "list" /\ cycle'.loaded = cycle.loaded
          /\ ReadKeys = 1..(n - 1) /\ ReadKeys' = ReadKeys \union {n}
      BY <2>1, <3>1 DEF ReadKeys
    <3>3. None \in offered[Keys[n]]
      BY <2>3, <2>5 DEF Offer
    <3> QED BY <2>1, <3>2, <3>3 DEF LaterWins
  <2>6. CASE entity # None /\ WellFormed(entity)
    <3>1. /\ cycle' = [cycle EXCEPT !.next = n + 1,
                                   !.loaded = [@ EXCEPT ![Keys[n].name] = Taken(entity)]]
          /\ Taken(entity) \in offered[Keys[n]]
      BY <1>4, <2>1, <2>3, <2>6, OfferTaken DEF ListNext, Take
    <3>2. /\ cycle'.at = "list" /\ ReadKeys = 1..(n - 1) /\ ReadKeys' = ReadKeys \union {n}
          /\ cycle'.loaded[Keys[n].name] = Taken(entity)
          /\ \A name \in Names \ {Keys[n].name} : cycle'.loaded[name] = cycle.loaded[name]
      BY <2>1, <2>2, <3>1 DEF ReadKeys
    <3>3. SUFFICES ASSUME NEW i \in ReadKeys', None \notin offered[Keys[i]]
                   PROVE  \E j \in ReadKeys' : /\ i <= j /\ Keys[j].name = Keys[i].name
                                               /\ cycle'.loaded[Keys[i].name] \in offered[Keys[j]]
      BY <2>1, <3>2 DEF LaterWins
    <3>4. CASE Keys[i].name = Keys[n].name
      BY <2>1, <3>1, <3>2, <3>4
    <3>5. CASE Keys[i].name # Keys[n].name
      <4>1. i \in ReadKeys /\ Keys[i].name \in Names
        BY <2>1, <3>2, <3>5, KeyOfIndex
      <4>2. PICK j \in ReadKeys : /\ i <= j /\ Keys[j].name = Keys[i].name
                                 /\ cycle.loaded[Keys[i].name] \in offered[Keys[j]]
        BY <2>1, <3>3, <4>1 DEF LaterWins
      <4> QED BY <3>2, <3>5, <4>1, <4>2
    <3> QED BY <3>4, <3>5
  <2> QED BY <2>4, <2>5, <2>6
<1>5. CASE Ready
  BY <1>5, KeysAssumption DEF Ready, TInv, CycleType, LaterWins, ReadKeys
<1> QED
  BY <1>1, <1>2, <1>3, <1>4, <1>5
  DEF Next, Operate, ScheduleApply, ScheduleUpsert, ScheduleDelete, ScheduleRemove, ConfigApply,
      ConfigUpsert, Preview, PortalEdit, PortalEditConfig, Elsewhere, tvars

(* What a cycle has loaded under a name is what one of its keys meant at a *)
(* moment since the cycle began, and one that was there and enabled all    *)
(* along is overruled by none before it.                                   *)
THEOREM LoadsWhatWasOffered == Spec => []LoadedWasOffered
<1>1. TInv /\ LaterWins => LoadedWasOffered
  <2> SUFFICES ASSUME TInv, LaterWins, cycle.at = "ready", NEW name \in Names
               PROVE  /\ \E key \in KeySet : /\ key.name = name
                                             /\ cycle.loaded[name] \in offered[key] \ {Malformed}
                      /\ \A i \in 1..Len(Keys) :
                           Keys[i].name = name /\ None \notin offered[Keys[i]] =>
                             \E j \in i..Len(Keys) : /\ Keys[j].name = name
                                                    /\ cycle.loaded[name] \in offered[Keys[j]]
    BY DEF LoadedWasOffered
  <2>1. ReadKeys = 1..Len(Keys) /\ Len(Keys) \in Nat
    BY KeysAssumption DEF ReadKeys
  <2>2. \E i \in 1..Len(Keys) : Keys[i].name = name
    BY DEF Names, KeySet
  <2>3. LoadedFrom(name)
    BY DEF TInv, ReadSound
  <2>4. \E key \in KeySet : /\ key.name = name
                            /\ cycle.loaded[name] \in offered[key] \ {Malformed}
    BY <2>1, <2>2, <2>3, KeyOfIndex DEF LoadedFrom
  <2>5. ASSUME NEW i \in 1..Len(Keys), Keys[i].name = name, None \notin offered[Keys[i]]
        PROVE  \E j \in i..Len(Keys) : /\ Keys[j].name = name
                                       /\ cycle.loaded[name] \in offered[Keys[j]]
    <3>1. PICK j \in 1..Len(Keys) : /\ i <= j /\ Keys[j].name = name
                                   /\ cycle.loaded[name] \in offered[Keys[j]]
      BY <2>1, <2>5 DEF LaterWins
    <3> QED BY <2>1, <3>1
  <2> QED BY <2>4, <2>5
<1>2. Init => LaterWins
  BY DEF Init, LaterWins
<1> QED BY <1>1, <1>2, LaterWinsStep, TablesInvariant, PTL DEF Spec

(* No cycle goes ahead past an entity that was malformed all along.        *)
THEOREM FailsFast == Spec => []FailFast
<1>1. TInv => FailFast
  <2> SUFFICES ASSUME TInv, cycle.at = "ready", NEW key \in KeySet
               PROVE  offered[key] # {Malformed}
    BY DEF FailFast
  <2>1. ReadKeys = 1..Len(Keys)
    BY DEF ReadKeys
  <2>2. PICK i \in 1..Len(Keys) : Keys[i] = key
    BY DEF KeySet
  <2> QED BY <2>1, <2>2 DEF TInv, ReadSound
<1> QED BY <1>1, TablesInvariant, PTL

(* Every table, command and cycle keeps its type, the configuration too.   *)
ConfigType == config \in ConfigEntity \union {None}

LEMMA ConfigStep == ASSUME TInv, ConfigType, [Next]_tvars PROVE ConfigType'
<1>1. ASSUME NEW o \in Operators, ConfigUpsert(o) PROVE ConfigType'
  <2>1. command[o] \in Commands /\ command[o].at = "config"
    BY <1>1 DEF TInv, TablesType, ConfigUpsert
  <2>2. command[o].payload \in ConfigPayloads
    BY <2>1 DEF Commands, Idle
  <2> QED BY <1>1, <2>2, EntitiesAssumption DEF ConfigUpsert, ConfigType
<1>2. CASE PortalEditConfig
  BY <1>2, EntitiesAssumption DEF PortalEditConfig, ConfigType
<1>3. CASE UNCHANGED config
  BY <1>3 DEF ConfigType
<1> QED
  BY <1>1, <1>2, <1>3
     DEF Next, Operate, tvars, ScheduleApply, ScheduleUpsert, ScheduleDelete, ScheduleRemove,
         ConfigApply, Preview, Elsewhere, PortalEdit, Begin, LoadConfig, ListNext, Ready, Stay

(* The tables, the commands under way and the cycle that loads keep their  *)
(* types, whoever writes what.                                             *)
THEOREM TablesTyped == Spec => []TypeOK
<1>1. Init => ConfigType
  BY DEF Init, ConfigType
<1>2. TInv /\ ConfigType => TypeOK
  <2> SUFFICES ASSUME TInv, ConfigType PROVE TypeOK
    OBVIOUS
  <2>1. \A o \in Operators : command[o].at \in {"idle", "apply", "delete", "config"}
    BY DEF TInv, TablesType, Commands, Idle
  <2>2. /\ cycle.at \in {"idle", "config", "list", "ready", "failed"}
        /\ cycle.at = "list" => cycle.next \in 1..(Len(Keys) + 1)
        /\ cycle.at \in {"list", "ready"} =>
             cycle.loaded \in [Names -> Definitions \union {None}]
    BY DEF TInv, CycleType
  <2> QED BY <2>1, <2>2 DEF TypeOK, TInv, TablesType, ConfigType
<1>3. TInv /\ ConfigType /\ [Next]_tvars => ConfigType'
  BY ConfigStep
<1> QED BY <1>1, <1>2, <1>3, TablesInvariant, PTL DEF Spec


-----------------------------------------------------------------------------
(* Discovery.                                                              *)

(* Beyond it the code loses rows: see the run of FirstPage.cfg.            *)
OnePage == Cardinality(SubscriptionIds) <= PageSize /\ Cardinality(Machines) <= PageSize

(* The platform, and what has been seen of it.                             *)
PlatformType ==
    /\ at \in Points
    /\ chain \in [SubscriptionIds -> Chains] /\ tag \in [Machines -> Tags]
    /\ seen \in [chains: [SubscriptionIds -> SUBSET Chains], tags: [Machines -> SUBSET Tags]]

(* While a discovery is under way, the present is part of what it has seen.*)
SeenNow ==
    Watched => /\ \A s \in SubscriptionIds : chain[s] \in seen.chains[s]
               /\ \A v \in Machines : tag[v] \in seen.tags[v]

(* The groups of a subscription were its groups, all of them at once.      *)
GroupsWereThere(groups, s) ==
    \/ groups = {} /\ Absent \in seen.chains[s]
    \/ \E c \in seen.chains[s] \ {Absent} : groups = GroupIds(c)

GroupsSound ==
    at = "resources" => \A s \in SubscriptionIds : GroupsWereThere(groups_of[s], s)

GInv ==
    /\ PlatformType /\ SeenNow /\ GroupsSound
    /\ at # "found" => found = {}
    /\ FoundWasThere /\ FoundAll

-----------------------------------------------------------------------------
(* An answer of one page is the whole of it.                               *)
LEMMA WholePage ==
    ASSUME NEW S, IsFiniteSet(S), Cardinality(S) <= PageSize, NEW rows \in SUBSET S
    PROVE  FirstPages(rows) = {rows}
<1>1. IsFiniteSet(rows) /\ Cardinality(rows) <= Cardinality(S)
  BY FS_Subset
<1>2. Cardinality(rows) \in Nat /\ Cardinality(S) \in Nat
  BY <1>1, FS_CardinalityType
<1> QED BY <1>1, <1>2, PageAssumption DEF FirstPages

LEMMA DiscoveryInit == InitDiscovery => GInv
BY DEF InitDiscovery, GInv, PlatformType, Points, SeenNow, Watched, GroupsSound,
       FoundWasThere, FoundAll, Unseen

LEMMA BeginDiscoveryStep == ASSUME GInv, BeginDiscovery PROVE GInv'
BY DEF BeginDiscovery, GInv, PlatformType, Points, SeenNow, Watched, GroupsSound,
       FoundWasThere, FoundAll

LEMMA LoadGroupsStep == ASSUME OnePage, GInv, LoadGroups PROVE GInv'
<1> DEFINE indexed == {s \in SubscriptionIds : chain[s] # Absent}
<1>1. groups_of' = Answer(indexed) /\ at = "groups" /\ at' = "resources"
  BY SubscriptionsAssumption, WholePage DEF LoadGroups, OnePage
<1>2. \A s \in SubscriptionIds : GroupsWereThere(groups_of[s], s)'
  <2> SUFFICES ASSUME NEW s \in SubscriptionIds PROVE GroupsWereThere(groups_of[s], s)'
    OBVIOUS
  <2>1. chain[s] \in seen'.chains[s]
    BY <1>1 DEF LoadGroups, GInv, SeenNow, Watched
  <2>2. groups_of'[s] = IF chain[s] # Absent THEN GroupIds(chain[s]) ELSE {}
    BY <1>1 DEF Answer
  <2> QED BY <2>1, <2>2 DEF GroupsWereThere
<1>3. PlatformType' /\ SeenNow' /\ found' = {}
  BY <1>1 DEF LoadGroups, GInv, PlatformType, Points, SeenNow, Watched
<1> QED BY <1>1, <1>2, <1>3 DEF GInv, GroupsSound, FoundWasThere, FoundAll

LEMMA FindResourcesStep == ASSUME OnePage, GInv, FindResources PROVE GInv'
<1>0. /\ at = "resources" /\ at' = "found" /\ seen' = seen
      /\ UNCHANGED <<chain, tag, groups_of>>
  BY DEF FindResources
<1>1. found' = {Resource(v) : v \in {w \in Tagged : InTarget(w)}}
  <2>1. Tagged \in SUBSET Machines
    BY DEF Tagged
  <2> QED BY <2>1, SubscriptionsAssumption, WholePage DEF FindResources, OnePage
<1>2. \A v \in Machines : InTarget(v) /\ Home[v].subscription \in SubscriptionIds <=> Wanted(v)
  BY DEF InTarget, Wanted
<1>3. ASSUME NEW v \in Tagged, InTarget(v)
      PROVE  /\ Wanted(v) /\ tag[v] \in seen.tags[v]
             /\ Home[v].subscription \in SubscriptionIds
             /\ GroupsWereThere(groups_of[Home[v].subscription], Home[v].subscription)
  BY <1>0, <1>2, <1>3 DEF Tagged, GInv, SeenNow, Watched, GroupsSound
<1>4. FoundWasThere'
  <2> SUFFICES ASSUME NEW v \in Tagged, InTarget(v)
               PROVE  LET r == Resource(v) IN
                        /\ Wanted(r.vm) /\ r.schedule \in seen'.tags[r.vm]
                        /\ \/ r.groups = {} /\ Absent \in seen'.chains[r.subscription]
                           \/ \E c \in seen'.chains[r.subscription] \ {Absent} :
                                r.groups = GroupIds(c)
    BY <1>1 DEF FoundWasThere, Wanted
  <2>1. /\ Resource(v).vm = v /\ Resource(v).schedule = tag[v]
        /\ Resource(v).subscription = Home[v].subscription
        /\ Resource(v).groups = groups_of[Home[v].subscription]
    BY DEF Resource
  <2>2. /\ Wanted(v) /\ tag[v] \in seen.tags[v]
        /\ GroupsWereThere(groups_of[Home[v].subscription], Home[v].subscription)
    BY <1>3
  <2> QED BY <1>0, <2>1, <2>2 DEF GroupsWereThere
<1>5. FoundAll'
  <2> SUFFICES ASSUME NEW v \in Machines, Wanted(v), Absent \notin seen.tags[v]
               PROVE  \E r \in found' : r.vm = v
    BY <1>0 DEF FoundAll, Wanted
  <2>1. v \in Tagged /\ InTarget(v)
    BY <1>0, <1>2 DEF GInv, SeenNow, Watched, Tagged
  <2>2. Resource(v) \in found' /\ Resource(v).vm = v
    BY <1>1, <2>1 DEF Resource
  <2> QED BY <2>2
<1>6. PlatformType' /\ SeenNow' /\ GroupsSound'
  BY <1>0 DEF GInv, PlatformType, Points, SeenNow, Watched, GroupsSound
<1> QED BY <1>0, <1>4, <1>5, <1>6 DEF GInv

(* A discovery that raises, and the end of a cycle.                        *)
LEMMA EndStep == ASSUME GInv, Raise \/ Finish PROVE GInv'
BY DEF Raise, Finish, GInv, PlatformType, Points, Unseen, SeenNow, Watched, GroupsSound,
       FoundWasThere, FoundAll

(* A step of the platform: what has been seen only grows, and not at all   *)
(* once the discovery is over.                                             *)
LEMMA PlatformStep ==
    ASSUME GInv, PlatformType', SeenNow', UNCHANGED <<at, groups_of, found>>,
           ~Watched => UNCHANGED seen,
           \A s \in SubscriptionIds : seen.chains[s] \subseteq seen'.chains[s]
    PROVE  GInv'
<1>1. GroupsSound'
  BY DEF GInv, GroupsSound, GroupsWereThere
<1>2. CASE at = "found"
  <2>1. FoundWasThere' /\ FoundAll'
    BY <1>2 DEF GInv, Watched, FoundWasThere, FoundAll, Wanted
  <2> QED BY <1>1, <1>2, <2>1 DEF GInv
<1>3. CASE at # "found"
  BY <1>1, <1>3 DEF GInv, FoundWasThere, FoundAll
<1> QED BY <1>2, <1>3

LEMMA ReparentStep == ASSUME GInv, NEW s \in SubscriptionIds, Reparent(s) PROVE GInv'
<1>1. PICK c \in Chains :
        /\ chain' = [chain EXCEPT ![s] = c]
        /\ seen' = IF Watched THEN [seen EXCEPT !.chains[s] = @ \union {c}] ELSE seen
  BY DEF Reparent
<1>2. PlatformType' /\ SeenNow'
  BY <1>1 DEF Reparent, GInv, PlatformType, SeenNow, Watched
<1>3. \A t \in SubscriptionIds : seen.chains[t] \subseteq seen'.chains[t]
  BY <1>1 DEF GInv, PlatformType
<1> QED BY <1>1, <1>2, <1>3, PlatformStep DEF Reparent

LEMMA RetagStep == ASSUME GInv, NEW v \in Machines, Retag(v) PROVE GInv'
<1>1. PICK t \in Tags :
        /\ tag' = [tag EXCEPT ![v] = t]
        /\ seen' = IF Watched THEN [seen EXCEPT !.tags[v] = @ \union {t}] ELSE seen
  BY DEF Retag
<1>2. PlatformType' /\ SeenNow'
  BY <1>1 DEF Retag, GInv, PlatformType, SeenNow, Watched
<1>3. \A s \in SubscriptionIds : seen.chains[s] \subseteq seen'.chains[s]
  BY <1>1 DEF GInv, PlatformType
<1> QED BY <1>1, <1>2, <1>3, PlatformStep DEF Retag

-----------------------------------------------------------------------------
(* The inductive invariant holds in every reachable state.                 *)
THEOREM DiscoveryInvariant == ASSUME OnePage PROVE SpecDiscovery => []GInv
<1>1. GInv /\ [NextDiscovery]_gvars => GInv'
  <2> SUFFICES ASSUME GInv, [NextDiscovery]_gvars PROVE GInv'
    OBVIOUS
  <2>1. CASE UNCHANGED gvars
    BY <2>1, PlatformStep DEF gvars, GInv, PlatformType, SeenNow, Watched
  <2> QED
    BY <2>1, BeginDiscoveryStep, LoadGroupsStep, FindResourcesStep, EndStep, ReparentStep, RetagStep
       DEF NextDiscovery
<1> QED BY <1>1, DiscoveryInit, PTL DEF SpecDiscovery

(* Every machine of a listed subscription and a target location that       *)
(* carried the tag throughout is found, if an answer fits in one page      *)
(* (find_scheduled_resources).                                             *)
THEOREM EveryMachineFound == ASSUME OnePage PROVE SpecDiscovery => []FoundAll
<1>1. GInv => FoundAll
  BY DEF GInv
<1> QED BY <1>1, DiscoveryInvariant, PTL

(* A resource is handed on with a tag and with groups that were its own at *)
(* some moment of this discovery, if an answer fits in one page            *)
(* (find_scheduled_resources, _load_management_groups).                    *)
THEOREM FindsWhatWasThere == ASSUME OnePage PROVE SpecDiscovery => []FoundWasThere
<1>1. GInv => FoundWasThere
  BY DEF GInv
<1> QED BY <1>1, DiscoveryInvariant, PTL

-----------------------------------------------------------------------------
LEMMA GroupIdsType == ASSUME NEW c \in Chains \ {Absent} PROVE GroupIds(c) \in SUBSET STRING
<1>1. \A item \in c : Candidate(item) \in STRING
  BY ChainsAssumption DEF Item, Candidate, Or
<1> QED BY <1>1 DEF GroupIds

(* Whatever the number of pages, discovery keeps its types.                *)
THEOREM DiscoveryTyped == SpecDiscovery => []DiscoveryTypeOK
<1>1. InitDiscovery => DiscoveryTypeOK
  BY DEF InitDiscovery, DiscoveryTypeOK, Points, NoGroups, Unseen
<1>2. DiscoveryTypeOK /\ [NextDiscovery]_gvars => DiscoveryTypeOK'
  <2> SUFFICES ASSUME DiscoveryTypeOK, [NextDiscovery]_gvars PROVE DiscoveryTypeOK'
    OBVIOUS
  <2> USE DEF DiscoveryTypeOK, Points
  <2>1. CASE BeginDiscovery
    BY <2>1 DEF BeginDiscovery
  <2>2. CASE LoadGroups
    <3>1. PICK page \in FirstPages({s \in SubscriptionIds : chain[s] # Absent}) :
            groups_of' = Answer(page)
      BY <2>2 DEF LoadGroups
    <3>2. page \subseteq {s \in SubscriptionIds : chain[s] # Absent}
      BY <3>1 DEF FirstPages, kSubset
    <3>3. \A s \in page : GroupIds(chain[s]) \in SUBSET STRING /\ "" \notin GroupIds(chain[s])
      BY <3>2, GroupIdsType DEF GroupIds
    <3>4. /\ groups_of' \in [SubscriptionIds -> SUBSET STRING]
          /\ \A s \in SubscriptionIds : "" \notin groups_of'[s]
      BY <3>1, <3>3 DEF Answer
    <3> QED BY <2>2, <3>4 DEF LoadGroups
  <2>3. CASE FindResources
    <3>1. PICK page \in FirstPages(Tagged) :
            found' = {Resource(v) : v \in {w \in page : InTarget(w)}}
      BY <2>3 DEF FindResources
    <3>2. page \subseteq Tagged
      BY <3>1 DEF FirstPages, kSubset
    <3>3. \A v \in Tagged :
            Resource(v) \in [vm: Machines, subscription: SubscriptionIds,
                             groups: SUBSET STRING, schedule: Tags \ {Absent}]
      BY DEF Tagged, Resource
    <3> QED BY <2>3, <3>1, <3>2, <3>3 DEF FindResources
  <2>4. CASE Raise \/ Finish
    <3>1. Unseen \in [chains: [SubscriptionIds -> SUBSET Chains], tags: [Machines -> SUBSET Tags]]
      BY DEF Unseen
    <3>2. seen' = Unseen /\ at' = "idle" /\ UNCHANGED <<chain, tag, groups_of>>
      BY <2>4 DEF Raise, Finish
    <3>3. found' = found \/ found' = {}
      BY <2>4 DEF Raise, Finish
    <3> QED BY <3>1, <3>2, <3>3
  <2>5. ASSUME NEW s \in SubscriptionIds, Reparent(s) PROVE DiscoveryTypeOK'
    <3>1. PICK c \in Chains :
            /\ chain' = [chain EXCEPT ![s] = c]
            /\ seen' = IF Watched THEN [seen EXCEPT !.chains[s] = @ \union {c}] ELSE seen
      BY <2>5 DEF Reparent
    <3>2. /\ chain' \in [SubscriptionIds -> Chains]
          /\ seen' \in [chains: [SubscriptionIds -> SUBSET Chains],
                        tags: [Machines -> SUBSET Tags]]
      BY <3>1
    <3> QED BY <2>5, <3>2 DEF Reparent
  <2>6. ASSUME NEW v \in Machines, Retag(v) PROVE DiscoveryTypeOK'
    <3>1. PICK t \in Tags :
            /\ tag' = [tag EXCEPT ![v] = t]
            /\ seen' = IF Watched THEN [seen EXCEPT !.tags[v] = @ \union {t}] ELSE seen
      BY <2>6 DEF Retag
    <3>2. /\ tag' \in [Machines -> Tags]
          /\ seen' \in [chains: [SubscriptionIds -> SUBSET Chains],
                        tags: [Machines -> SUBSET Tags]]
      BY <3>1
    <3> QED BY <2>6, <3>2 DEF Retag
  <2>7. CASE UNCHANGED gvars
    BY <2>7 DEF gvars
  <2> QED BY <2>1, <2>2, <2>3, <2>4, <2>5, <2>6, <2>7 DEF NextDiscovery
<1> QED BY <1>1, <1>2, PTL DEF SpecDiscovery

-----------------------------------------------------------------------------
(* The name of a group is the last segment of its id: where an item of a   *)
(* chain gives both, they are spellings of one group, and "" is of none.   *)
OneName ==
    /\ Canonical("") = ""
    /\ \A c \in Chains \ {Absent}, item \in Item :
         item \in c /\ item.name # "" /\ item.id # "" =>
             Canonical(item.name) = Canonical(item.id)

(* The group that a chain puts a subscription in is among the ids that     *)
(* discovery makes of the chain.                                           *)
LEMMA GroupKept ==
    ASSUME OneName, NEW c \in Chains \ {Absent}, NEW item \in c, NEW group,
           group # "", group \in {Canonical(item.name), Canonical(item.id)}
    PROVE  group \in Ids(GroupIds(c))
<1>1. item \in Item
  BY ChainsAssumption
<1>2. item.name # "" \/ item.id # ""
  BY DEF OneName
<1>3. Candidate(item) # "" /\ Canonical(Candidate(item)) = group
  BY <1>1, <1>2 DEF OneName, Candidate, Or
<1>4. Candidate(item) \in GroupIds(c)
  BY <1>3 DEF GroupIds
<1> QED BY <1>3, <1>4 DEF Ids

(* A subscription that was in an excluded group throughout has no resource *)
(* in scope (_load_management_groups, ScheduleScope.matches), if an answer *)
(* fits in one page and a group's name and id agree.                       *)
THEOREM ExcludedStaysOut == ASSUME OnePage, OneName PROVE SpecDiscovery => []ExclusionsHold
<1>1. GInv /\ DiscoveryTypeOK => ExclusionsHold
  <2> SUFFICES ASSUME GInv, DiscoveryTypeOK, NEW r \in found, InScope(Schedules, r),
                      NEW group \in Ids(Schedules[r.schedule].scope.exclude_management_groups),
                      Within(group, r.subscription)
               PROVE  FALSE
    BY DEF ExclusionsHold
  <2>1. \/ r.groups = {} /\ Absent \in seen.chains[r.subscription]
        \/ \E c \in seen.chains[r.subscription] \ {Absent} : r.groups = GroupIds(c)
    BY DEF GInv, FoundWasThere
  <2>2. PICK c \in seen.chains[r.subscription] \ {Absent} : r.groups = GroupIds(c)
    BY <2>1 DEF Within
  <2>3. PICK item \in c : group \in {Canonical(item.name), Canonical(item.id)}
    BY <2>2 DEF Within
  <2>4. c \in Chains
    BY <2>2 DEF DiscoveryTypeOK
  <2>5. group \in Ids(r.groups)
    BY <2>2, <2>3, <2>4, GroupKept DEF Ids
  <2> QED BY <2>5 DEF InScope, Matches
<1> QED BY <1>1, DiscoveryInvariant, DiscoveryTyped, PTL

-----------------------------------------------------------------------------
(* CycleInputs: a behaviour of the whole is one of each of its parts, so   *)
(* that what is proved of a part holds in the whole.                       *)

THEOREM InputsKeepTables == SpecInputs => Spec
<1>1. InitInputs => Init
  BY DEF InitInputs
<1>2. [NextInput]_inputvars => [Next]_tvars
  BY DEF NextInput, LoadTables, LoadResources, inputvars, tvars
<1> QED BY <1>1, <1>2, PTL DEF SpecInputs, Spec

THEOREM InputsKeepDiscovery == SpecInputs => SpecDiscovery
<1>1. InitInputs => InitDiscovery
  BY DEF InitInputs
<1>2. [NextInput]_inputvars => [NextDiscovery]_gvars
  BY DEF NextInput, LoadTables, LoadResources, inputvars, gvars
<1> QED BY <1>1, <1>2, PTL DEF SpecInputs, SpecDiscovery

(* Both parts keep their types, for any entities, chains, tags and pages.  *)
THEOREM InputsTyped == SpecInputs => []InputsTypeOK
<1>1. TypeOK /\ DiscoveryTypeOK => InputsTypeOK
  BY DEF InputsTypeOK
<1> QED BY <1>1, InputsKeepTables, InputsKeepDiscovery, TablesTyped, DiscoveryTyped, PTL

(* And with them everything that has been proved of each: of what is       *)
(* written and loaded always, of what is found for an answer of one page,  *)
(* of what is excluded for groups that go by one name.                     *)
THEOREM InputsAreSound ==
    SpecInputs =>
      /\ [](AppliedMeansIntended /\ LoadedWasOffered /\ FailFast)
      /\ OnePage => [](FoundAll /\ FoundWasThere)
      /\ OnePage /\ OneName => []ExclusionsHold
<1>1. Spec => [](AppliedMeansIntended /\ LoadedWasOffered /\ FailFast)
  BY ApplyMeansIntended, LoadsWhatWasOffered, FailsFast, PTL
<1>2. ASSUME OnePage PROVE SpecDiscovery => [](FoundAll /\ FoundWasThere)
  BY <1>2, EveryMachineFound, FindsWhatWasThere, PTL
<1>3. ASSUME OnePage, OneName PROVE SpecDiscovery => []ExclusionsHold
  BY <1>3, ExcludedStaysOut
<1> QED BY <1>1, <1>2, <1>3, InputsKeepTables, InputsKeepDiscovery
=============================================================================
