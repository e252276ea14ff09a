-------------------------- MODULE MCStorageTarget --------------------------
(***************************************************************************)
(* Instances of StorageTarget for TLC: two deployments, with the default   *)
(* tables or others, the account of the developer, and the variables of    *)
(* the shell set, blank or not.                                            *)
(***************************************************************************)
EXTENDS StorageTarget

MCAccounts == {"east", "west"}

(* All defaults, or names of one's own for two of the tables: one that the *)
(* shell may also give and one that it never gives.                        *)
Defaults == [t \in Tables |-> "default"]
MCParameters ==
    {Defaults, [Defaults EXCEPT !["config_table"] = "Mine", !["state_table"] = "Theirs"]}

MCTexts == [n \in Names |->
    CASE n = "offhours_uri"         -> {"", " ", "west"}
      [] n = "scheduler_uri"        -> {"", "east"}
      [] n = "offhours_app"         -> {"", "west"}
      [] n = "scheduler_connection" -> {"", " ", "local"}
      [] n = "state_connection"     -> {"", "legacy"}
      [] n = "host_connection"      -> {"", "local"}
      [] n = "offhours_connection"  -> {"", "local"}
      [] n = "config_table"         -> {"", " ", "Mine"}
      [] OTHER                      -> {"", "Mine"}]

Argument(uri, connection, config) ==
    [uri |-> uri, connection |-> connection, config_table |-> config,
     schedule_table |-> "", state_table |-> "", app |-> ""]

MCArguments == {Argument("", "", ""), Argument("east", "", " "), Argument("", "local", "Yours")}
=============================================================================
