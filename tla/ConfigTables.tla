---------------------------- MODULE ConfigTables ----------------------------
(***************************************************************************)
(* The global configuration and the schedules: what operators write to the *)
(* two tables, with the command line (src/offhours_cli/main.py) or in the  *)
(* portal, and what a cycle loads from them (src/persistence/              *)
(* config_store.py), both through src/persistence/table_entities.py.       *)
(*                                                                         *)
(* Operators and cycles are separate processes on tables without           *)
(* transactions: a cycle reads the configuration first and then the        *)
(* schedules, one entity after another; a command reads, shows, and writes *)
(* or deletes later.                                                       *)
(***************************************************************************)
EXTENDS Naturals, Sequences

CONSTANTS
    Keys,           \* the keys of the schedule table, in listing order
    Operators,      \* the users of the command line
    Windows,        \* the values Periods or Start/Stop can stand for
    Payloads,       \* the files handed to "schedule apply"
    ConfigPayloads, \* the files handed to "config apply"
    Entities,       \* what the portal can leave in the schedule table
    ConfigEntities, \* what the portal can leave in the configuration table
    None            \* a field, an entity or a definition that is not there

(* A key is a partition and a row name.  Everything the cycle has a use    *)
(* for is in one partition, but it lists them all.                         *)
KeySet == {Keys[i] : i \in 1..Len(Keys)}
Names == {key.name : key \in KeySet}
OwnKey(name) == [partition |-> "SCHEDULE", name |-> name]

(* A field is a value, or None, or "bad" for one its parser rejects.  The  *)
(* parsers of SkipDays and of the four scope lists work alike: "lists"     *)
(* stands for the five of them.                                            *)
Entity == [audit: {"complete", "bad"}, enabled: {"yes", "no", "bad", None},
           periods: Windows \union {"bad", None}, hours: Windows \union {"bad", None},
           lists: {"good", "bad", None}]

(* The global configuration: its options are one field here.               *)
ConfigEntity == [audit: {"complete", "bad"}, options: {"good", "bad"}]

ASSUME KeysAssumption ==
    /\ Keys \in Seq([partition: STRING, name: STRING])
    /\ \A i, j \in 1..Len(Keys) : Keys[i] = Keys[j] => i = j
    /\ \A key \in KeySet : OwnKey(key.name) \in KeySet
ASSUME EntitiesAssumption ==
    /\ Entities \subseteq Entity /\ Payloads \subseteq Entity
    /\ ConfigEntities \subseteq ConfigEntity /\ ConfigPayloads \subseteq ConfigEntity

-----------------------------------------------------------------------------
(* table_entities.py                                                       *)

(* parse_periods(): Periods wins over Start/Stop.                          *)
WindowsOf(entity) == IF entity.periods # None THEN entity.periods ELSE entity.hours

Enabled(entity) == IF entity.enabled = None THEN "yes" ELSE entity.enabled

WellFormed(entity) ==
    /\ entity.audit = "complete"
    /\ Enabled(entity) # "bad"
    /\ WindowsOf(entity) \notin {"bad", None}
    /\ entity.lists # "bad"

(* normalize_schedule_entity() of a well-formed entity.                    *)
Meaning(entity) ==
    [enabled |-> Enabled(entity), windows |-> WindowsOf(entity), lists |-> entity.lists]

(* build_schedule_entity(): the fields are parsed one by one, the empty    *)
(* ones left out, and the result goes through the loader's own checks.     *)
Built(payload) ==
    [audit   |-> payload.audit,
     enabled |-> Enabled(payload),
     periods |-> payload.periods,
     hours   |-> IF payload.periods = None THEN payload.hours ELSE None,
     lists   |-> payload.lists]

(* Mutant: Version and the other audit fields are not looked at.           *)
AcceptedUnaudited(payload) == WellFormed([payload EXCEPT !.audit = "complete"])

Accepted(payload) == WellFormed(Built(payload))

(* upsert_entity(): REPLACE leaves nothing of the entity that was there.   *)
(* Mutant: MERGE, which keeps the fields that the new one does not have.   *)
UpsertedMerge(old, new) ==
    IF old = None THEN new
    ELSE [field \in DOMAIN new |-> IF new[field] = None THEN old[field] ELSE new[field]]

Upserted(old, new) == new

ConfigWellFormed(entity) == entity.audit = "complete" /\ entity.options = "good"

-----------------------------------------------------------------------------
VARIABLES
    config,     \* the entity GLOBAL/runtime
    table,      \* the schedule table
    command,    \* what each operator is about to write
    cycle,      \* the loading part of main()
    intended,   \* history: the payload last applied to a key, None once the
                \* portal has edited it or it is gone
    offered     \* history: what each key has meant to a reader since the
                \* cycle began

tvars == <<config, table, command, cycle, intended, offered>>

Idle == [at |-> "idle"]

Definitions == [windows: Windows, lists: {"good", None}]
Definition(entity) == [windows |-> WindowsOf(entity), lists |-> entity.lists]

(* load_records() and load_all(), for one entity: only what is enabled is  *)
(* taken.  Mutant: the entity is taken as it is stored.                    *)
TakenAsStored(entity) == IF Enabled(entity) = "yes" THEN entity ELSE None
Taken(entity) == IF Enabled(entity) = "yes" THEN Definition(entity) ELSE None

Init ==
    /\ config = None
    /\ table = [key \in KeySet |-> None]
    /\ command = [o \in Operators |-> Idle]
    /\ cycle = [at |-> "idle"]
    /\ intended = [key \in KeySet |-> None]
    /\ offered = [key \in KeySet |-> {}]

(* History: what an entity means to its reader.                            *)
Malformed == [windows |-> "bad", lists |-> "bad"]

ASSUME NoneAssumption == None \notin Entity \union {Malformed}

Offer(entity) ==
    CASE entity = None -> None
      [] entity # None /\ ~WellFormed(entity) -> Malformed
      [] entity # None /\ WellFormed(entity) /\ Enabled(entity) = "no" -> None
      [] OTHER -> Definition(entity)

Write(key, entity, payload) ==
    /\ table' = [table EXCEPT ![key] = entity]
    /\ intended' = [intended EXCEPT ![key] = payload]
    /\ offered' = [offered EXCEPT ![key] = @ \union {Offer(entity)}]

-----------------------------------------------------------------------------
(* The command line.                                                       *)

Announce(o, what) == command' = [command EXCEPT ![o] = what]
Elsewhere == UNCHANGED <<config, table, cycle, intended, offered>>

(* schedule apply: a payload that is rejected, or not to be executed,      *)
(* leaves everything as it was.                                            *)
ScheduleApply(o) ==
    /\ command[o].at = "idle"
    /\ \E payload \in Payloads, name \in Names :
         /\ Accepted(payload)
         /\ Announce(o, [at |-> "apply", key |-> OwnKey(name), payload |-> payload])
    /\ Elsewhere

ScheduleUpsert(o) ==
    /\ command[o].at = "apply"
    /\ LET key == command[o].key
           payload == command[o].payload
       IN  Write(key, Upserted(table[key], Built(payload)), payload)
    /\ Announce(o, Idle)
    /\ UNCHANGED <<config, cycle>>

(* schedule delete: what cannot be loaded cannot be shown, nor deleted.    *)
ScheduleDelete(o) ==
    /\ command[o].at = "idle"
    /\ \E name \in Names :
         /\ table[OwnKey(name)] # None
         /\ WellFormed(table[OwnKey(name)])
         /\ Announce(o, [at |-> "delete", key |-> OwnKey(name)])
    /\ Elsewhere

ScheduleRemove(o) ==
    /\ command[o].at = "delete"
    /\ Write(command[o].key, None, None)
    /\ Announce(o, Idle)
    /\ UNCHANGED <<config, cycle>>

(* config apply: the check is the one of build_global_config_entity().     *)
ConfigApply(o) ==
    /\ command[o].at = "idle"
    /\ \E payload \in ConfigPayloads :
         /\ ConfigWellFormed(payload)
         /\ Announce(o, [at |-> "config", payload |-> payload])
    /\ Elsewhere

ConfigUpsert(o) ==
    /\ command[o].at = "config"
    /\ config' = command[o].payload
    /\ Announce(o, Idle)
    /\ UNCHANGED <<table, cycle, intended, offered>>

(* The operator reads the preview and leaves it at that.                   *)
Preview(o) ==
    /\ command[o].at # "idle"
    /\ Announce(o, Idle)
    /\ Elsewhere

-----------------------------------------------------------------------------
(* The portal: any entity, under any key, by hand.                         *)
PortalEdit(key) ==
    /\ \E entity \in Entities \union {None} :
         entity # table[key] /\ Write(key, entity, None)
    /\ UNCHANGED <<config, command, cycle>>

PortalEditConfig ==
    /\ config' \in (ConfigEntities \union {None}) \ {config}
    /\ UNCHANGED <<table, command, cycle, intended, offered>>

-----------------------------------------------------------------------------
(* main(): the configuration, and then the schedules.                      *)

Stay == UNCHANGED <<config, table, command, intended>>

Begin ==
    /\ cycle.at \in {"idle", "ready", "failed"}
    /\ cycle' = [at |-> "config"]
    /\ offered' = [key \in KeySet |-> {Offer(table[key])}]
    /\ Stay

Fail(why) == cycle' = [at |-> "failed", why |-> why]

(* AzureTableGlobalConfigStore.load()                                      *)
LoadConfig ==
    /\ cycle.at = "config"
    /\ IF config = None THEN Fail([part |-> "config", entity |-> None])
       ELSE IF ~ConfigWellFormed(config) THEN Fail([part |-> "config", entity |-> config])
       ELSE cycle' = [at |-> "list", next |-> 1,
                      loaded |-> [name \in Names |-> None]]
    /\ UNCHANGED offered
    /\ Stay

(* One entity of list_entities().  A later one of the same name takes the  *)
(* place of an earlier one, enabled or not.  Mutant: the earlier one stays.*)
TakeFirst(loaded, name, entity) ==
    IF loaded[name] # None THEN loaded ELSE [loaded EXCEPT ![name] = Taken(entity)]

Take(loaded, name, entity) == [loaded EXCEPT ![name] = Taken(entity)]

(* Mutant: an entity that cannot be loaded is passed over.                 *)
ListNextLenient ==
    /\ cycle.at = "list"
    /\ cycle.next <= Len(Keys)
    /\ LET entity == table[Keys[cycle.next]] IN
         cycle' = [cycle EXCEPT !.next = @ + 1,
                                !.loaded = IF entity = None \/ ~WellFormed(entity) THEN @
                                           ELSE Take(@, Keys[cycle.next].name, entity)]
    /\ UNCHANGED offered
    /\ Stay

ListNext ==
    /\ cycle.at = "list"
    /\ cycle.next <= Len(Keys)
    /\ LET entity == table[Keys[cycle.next]] IN
         IF entity # None /\ ~WellFormed(entity)
         THEN Fail([part |-> "schedule", entity |-> entity])
         ELSE cycle' = [cycle EXCEPT !.next = @ + 1,
                                     !.loaded = IF entity = None THEN @
                                                ELSE Take(@, Keys[cycle.next].name, entity)]
    /\ UNCHANGED offered
    /\ Stay

Ready ==
    /\ cycle.at = "list"
    /\ cycle.next > Len(Keys)
    /\ cycle' = [at |-> "ready", loaded |-> cycle.loaded]
    /\ UNCHANGED offered
    /\ Stay

-----------------------------------------------------------------------------
Operate(o) ==
    \/ ScheduleApply(o) \/ ScheduleUpsert(o) \/ ScheduleDelete(o) \/ ScheduleRemove(o)
    \/ ConfigApply(o) \/ ConfigUpsert(o) \/ Preview(o)

Next ==
    \/ \E o \in Operators : Operate(o)
    \/ \E key \in KeySet : PortalEdit(key)
    \/ PortalEditConfig \/ Begin \/ LoadConfig \/ ListNext \/ Ready

Spec == Init /\ [][Next]_tvars

TypeOK ==
    /\ config \in ConfigEntity \union {None}
    /\ table \in [KeySet -> Entity \union {None}]
    /\ \A o \in Operators : command[o].at \in {"idle", "apply", "delete", "config"}
    /\ cycle.at \in {"idle", "config", "list", "ready", "failed"}
    /\ cycle.at = "list" => cycle.next \in 1..(Len(Keys) + 1)
    /\ cycle.at \in {"list", "ready"} => cycle.loaded \in [Names -> Definitions \union {None}]
    /\ intended \in [KeySet -> Payloads \union {None}]

-----------------------------------------------------------------------------
(* Whatever was in its place before, and whoever else writes meanwhile, an *)
(* entity that the command line has written loads, and means what the file *)
(* of the operator says: an "apply" repairs a broken entity.  (REPLACE and *)
(* the checks of build_schedule_entity.)                                   *)
AppliedMeansIntended ==
    \A key \in KeySet : intended[key] # None =>
        /\ table[key] # None
        /\ WellFormed(table[key])
        /\ Meaning(table[key]) = Meaning(intended[key])

(* The schedules of a cycle, read one by one while the table changes, each *)
(* are what an entity of that name meant at some moment since the cycle    *)
(* began; a name is missing only if one of its entities was at some moment *)
(* disabled or not there.  Of two entities of one name, one that was there *)
(* and enabled throughout yields to none that is listed before it.         *)
(* (load_records, load_all)                                                *)
LoadedWasOffered ==
    cycle.at = "ready" =>
        \A name \in Names :
            /\ cycle.loaded[name] \in
                 (UNION {offered[key] : key \in {k \in KeySet : k.name = name}}) \ {Malformed}
            /\ \A i \in 1..Len(Keys) :
                 Keys[i].name = name /\ None \notin offered[Keys[i]] =>
                   \E j \in i..Len(Keys) : /\ Keys[j].name = name
                                          /\ cycle.loaded[name] \in offered[Keys[j]]

(* No cycle goes ahead past an entity that has been malformed for as long  *)
(* as the cycle has been loading: docs/architecture.md, "evita ciclo       *)
(* rodando com configuracao ambigua ou parcialmente corrompida".           *)
FailFast == cycle.at = "ready" => \A key \in KeySet : offered[key] # {Malformed}

-----------------------------------------------------------------------------
(* docs/architecture.md says that Enabled=false takes a schedule "do ciclo *)
(* sem apagar a entidade": a cycle then never fails for its sake.          *)
DisabledStaysOut ==
    cycle.at = "failed" /\ cycle.why.part = "schedule" =>
        Enabled(cycle.why.entity) # "no"
=============================================================================
