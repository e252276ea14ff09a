-------------------------- MODULE FunctionTrigger --------------------------
(***************************************************************************)
(* "offhours function trigger" (src/src/offhours_cli/main.py): calls that  *)
(* start a run of the scheduler by hand, beside a function app whose       *)
(* functions are published, withdrawn and whose keys are renewed           *)
(* meanwhile.  Calls run side by side: a second one is what an operator    *)
(* makes who lost patience with the first.                                 *)
(***************************************************************************)
EXTENDS Integers, FiniteSets

CONSTANTS
    Calls,          \* executions of the command
    Slots,          \* of the function app, and "production"
    Functions,      \* names of functions, and "OffHoursTimer"
    MaxRenewals,    \* bound: how often a key is renewed
    NotGiven        \* no name given, no function, no key

ASSUME NamesAssumption ==
    /\ "production" \in Slots /\ "OffHoursTimer" \in Functions
    /\ NotGiven \notin Functions /\ MaxRenewals \in Nat

VARIABLES
    published,  \* the functions of each slot
    keys,       \* the master key of each slot: how often it was renewed
    stage,      \* of each call: the command it is about to run, or its end
    slot, name, \* --slot, and --function-name or OFFHOURS_FUNCTION_NAME
    function,   \* function_name
    key,        \* the master key it was given
    wire,       \* the requests that have not been answered
    started,    \* the runs that were started
    gap         \* history: "OffHoursTimer" was not published in production
                \* at some time of the call

fvars == <<published, keys, stage, slot, name, function, key, wire, started, gap>>
app == <<published, keys>>
given == <<slot, name>>
traffic == <<wire, started>>

Ends == {"Accepted", "unpublished", "refused", "timed out", "gateway error"}
Ended(c) == stage[c] \in Ends \union {"idle"}
RunOf(c) == {run \in started : run.call = c}
Requests == [call : Calls, slot : Slots, function : Functions, key : 0..MaxRenewals]
Runs == [call : Calls, slot : Slots, function : Functions]

TriggerTypeOK ==
    /\ published \in [Slots -> SUBSET Functions]
    /\ keys \in [Slots -> 0..MaxRenewals]
    /\ stage \in [Calls -> Ends \union {"idle", "list", "key", "post", "wait"}]
    /\ slot \in [Calls -> Slots] /\ name \in [Calls -> Functions \union {NotGiven}]
    /\ function \in [Calls -> Functions \union {NotGiven}]
    /\ key \in [Calls -> 0..MaxRenewals \union {NotGiven}]
    /\ wire \subseteq Requests /\ started \subseteq Runs
    /\ gap \in [Calls -> BOOLEAN]

InitTrigger ==
    /\ published \in [Slots -> SUBSET Functions]
    /\ keys = [s \in Slots |-> 0]
    /\ stage = [c \in Calls |-> "idle"]
    /\ slot \in [Calls -> Slots] /\ name \in [Calls -> Functions \union {NotGiven}]
    /\ function = [c \in Calls |-> NotGiven] /\ key = [c \in Calls |-> NotGiven]
    /\ wire = {} /\ started = {} /\ gap = [c \in Calls |-> FALSE]

Advance(c, next) == stage' = [stage EXCEPT ![c] = next]

-----------------------------------------------------------------------------
Invoke(c) ==
    /\ stage[c] = "idle"
    /\ Advance(c, "list")
    /\ gap' = [gap EXCEPT ![c] = "OffHoursTimer" \notin published["production"]]
    /\ UNCHANGED <<app, given, function, key, traffic>>

(* fetch_published_function_names: it is not asked for the slot, and a     *)
(* query that fails finds nothing.                                         *)
Listings == {published["production"], {}}

(* Mutants: the listed function that the timer is not comes first; the     *)
(* name of the function app is left in front of a listed name.             *)
DefaultOther(names) ==
    IF names \subseteq {"OffHoursTimer"} THEN "OffHoursTimer"
    ELSE CHOOSE f \in names : f # "OffHoursTimer"
DefaultQualified(names) ==
    IF names = {} THEN "OffHoursTimer" ELSE "app/OffHoursTimer"

(* The function that a call without a name means.                          *)
Default(names) ==
    IF "OffHoursTimer" \notin names /\ Cardinality(names) = 1
    THEN CHOOSE f \in names : TRUE
    ELSE "OffHoursTimer"

(* The name is resolved before the list is found to be empty.              *)
List(c) ==
    /\ stage[c] = "list"
    /\ \E names \in Listings :
         /\ function' = [function EXCEPT ![c] = IF name[c] # NotGiven THEN name[c]
                                                ELSE Default(names)]
         /\ Advance(c, IF names = {} THEN "unpublished" ELSE "key")
    /\ UNCHANGED <<app, given, key, traffic, gap>>

(* Mutant: the slot is not handed on.                                      *)
TargetProduction(c) == "production"

(* The slot that the key is fetched for and that the host name is of.      *)
Target(c) == slot[c]

(* fetch_function_master_key.                                              *)
FetchKey(c) ==
    /\ stage[c] = "key"
    /\ \/ Advance(c, "post") /\ key' = [key EXCEPT ![c] = keys[Target(c)]]
       \/ Advance(c, "refused") /\ UNCHANGED key
    /\ UNCHANGED <<app, given, function, traffic, gap>>

(* urlopen: the request is sent, or there is no connection (URLError).     *)
Post(c) ==
    /\ stage[c] = "post"
    /\ \/ /\ Advance(c, "wait")
          /\ wire' = wire \union {[call |-> c, slot |-> Target(c),
                                   function |-> function[c], key |-> key[c]]}
       \/ Advance(c, "refused") /\ UNCHANGED wire
    /\ UNCHANGED <<app, given, function, key, started, gap>>

(* Mutant: a call that had no answer in time counts as one that failed.    *)
NoAnswerFailed == "refused"

(* No answer within --timeout: a TimeoutError, which nothing catches.  The *)
(* request is on its way.                                                  *)
NoAnswer == "timed out"

TimeOut(c) ==
    /\ stage[c] = "wait"
    /\ Advance(c, NoAnswer)
    /\ UNCHANGED <<app, given, function, key, traffic, gap>>

-----------------------------------------------------------------------------
(* The platform.  Its front end may answer in place of the host (HTTP 502  *)
(* or 504), which says nothing of the request: it is on its way.           *)
GatewayError(c) ==
    /\ stage[c] = "wait"
    /\ Advance(c, "gateway error")
    /\ UNCHANGED <<app, given, function, key, traffic, gap>>

(* The host: a request with the key of a function that is there starts a   *)
(* run, any other is answered with an error (HTTPError).  Nobody reads the *)
(* answer to a call that is over.                                          *)
Good(r) == r.key = keys[r.slot] /\ r.function \in published[r.slot]

Answer(r) ==
    /\ r \in wire
    /\ wire' = wire \ {r}
    /\ \/ /\ Good(r)
          /\ started' = started \union {[call |-> r.call, slot |-> r.slot,
                                         function |-> r.function]}
          /\ stage' = IF stage[r.call] = "wait" THEN [stage EXCEPT ![r.call] = "Accepted"]
                     ELSE stage
       \/ /\ UNCHANGED started
          /\ stage' = IF stage[r.call] = "wait" THEN [stage EXCEPT ![r.call] = "refused"]
                     ELSE stage
    /\ UNCHANGED <<app, given, function, key, gap>>

(* Somebody publishes to a slot or withdraws from it.                      *)
Republish(s) ==
    /\ \E functions \in SUBSET Functions :
         published' = [published EXCEPT ![s] = functions]
    /\ gap' = [c \in Calls |->
                 gap[c] \/ (~Ended(c) /\ "OffHoursTimer" \notin published'["production"])]
    /\ UNCHANGED <<keys, stage, given, function, key, traffic>>

(* Somebody renews the master key of a slot.                               *)
Renew(s) ==
    /\ keys[s] < MaxRenewals
    /\ keys' = [keys EXCEPT ![s] = @ + 1]
    /\ UNCHANGED <<published, stage, given, function, key, traffic, gap>>

NextTrigger ==
    \/ \E c \in Calls : Invoke(c) \/ List(c) \/ FetchKey(c) \/ Post(c)
    \/ \E c \in Calls : TimeOut(c) \/ GatewayError(c)
    \/ \E r \in wire : Answer(r)
    \/ \E s \in Slots : Republish(s) \/ Renew(s)

SpecTrigger == InitTrigger /\ [][NextTrigger]_fvars

-----------------------------------------------------------------------------
(* A call that reports "Accepted" started one run, of the function and in  *)
(* the slot that it reports, whatever was published or renewed meanwhile.  *)
AcceptedStarted ==
    \A c \in Calls : stage[c] = "Accepted" =>
        RunOf(c) = {[call |-> c, slot |-> slot[c], function |-> function[c]]}

(* A call that ends with an error, of its own or of the host, started      *)
(* nothing and never will: to call again does not make a second run.  (One *)
(* that ends without an answer of the host may have started one, and two   *)
(* runs may then overlap; of the errors it prints, HTTP 502 and 504 are    *)
(* the ones to take for no answer.)                                        *)
RefusedStartsNothing ==
    \A c \in Calls : stage[c] \in {"refused", "unpublished"} =>
        RunOf(c) = {} /\ \A r \in wire : r.call # c

(* Without a name, nothing but the scheduler's timer is started while the  *)
(* timer is published.                                                     *)
UnnamedRunsTimer ==
    \A run \in started : name[run.call] = NotGiven /\ ~gap[run.call] =>
        run.function = "OffHoursTimer"

-----------------------------------------------------------------------------
(* main.py:576: "Publish the app first or pass --function-name             *)
(* explicitly", so that a call with a name is not turned down for that.    *)
NameSuffices == \A c \in Calls : stage[c] = "unpublished" => name[c] = NotGiven
=============================================================================
