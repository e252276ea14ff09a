--------------------------- MODULE StorageTarget ---------------------------
(***************************************************************************)
(* Which storage account, tables and function app a program works on: the  *)
(* function by its settings (src/src/config/settings.py), the command line *)
(* by its arguments and the shell (src/src/offhours_cli/storage.py and     *)
(* main.py), and the wrapper src/offhours, which loads the context file    *)
(* that the last deployment wrote.                                         *)
(*                                                                         *)
(* A variable that is not set reads as "", and so does an empty one; " "   *)
(* stands for one of nothing but spaces.  An account is known by its       *)
(* endpoint or by a connection string; the two are told apart by where     *)
(* they are written.                                                       *)
(***************************************************************************)
CONSTANTS
    Accounts,       \* storage accounts; a deployment is known by its own
    Parameters,     \* the names that a deployment may give to its tables
    Texts,          \* what each variable of the shell may hold
    Arguments,      \* what the command line may be called with
    NoFile          \* no context file

Uris == {"offhours_uri", "scheduler_uri"}
Connections == {"offhours_connection", "scheduler_connection",
                "state_connection", "host_connection"}
Tables == {"config_table", "schedule_table", "state_table"}
Names == Uris \union Connections \union Tables \union {"offhours_app"}

ASSUME AccountsAssumption == Accounts \subseteq STRING \ {"", " "}
ASSUME ParametersAssumption == Parameters \subseteq [Tables -> STRING \ {"", " "}]
ASSUME ArgumentsAssumption ==
    Arguments \subseteq [uri: STRING, connection: STRING, app: STRING, config_table: STRING,
                         schedule_table: STRING, state_table: STRING]
ASSUME TextsAssumption == Texts \in [Names -> SUBSET STRING] /\ \A n \in Names : "" \in Texts[n]

VARIABLES
    shell,      \* the environment of the operator's shell
    env_file,   \* .offhours.env: the deployment it names
    tables_of,  \* the names of the tables of each deployment there is
    args        \* the arguments of the next command

targetvars == <<shell, env_file, tables_of, args>>

-----------------------------------------------------------------------------
Trim(text) == IF text = " " THEN "" ELSE text

(* a or b                                                                  *)
Or(text, other) == IF text = "" THEN other ELSE text

(* A connection string is used wherever there is one.                      *)
Reached(uri, connection) ==
    IF connection # "" THEN [by |-> "connection", account |-> connection]
    ELSE IF uri # "" THEN [by |-> "identity", account |-> uri]
    ELSE [by |-> "refused"]

(* Settings.from_env()                                                     *)
FunctionStorage(env) ==
    Reached(Trim(env["scheduler_uri"]),
            Or(Trim(env["scheduler_connection"]),
               Or(Trim(env["state_connection"]), Trim(env["host_connection"]))))

FunctionTables(env) == [t \in Tables |-> Or(Trim(env[t]), "default")]

(* The operator's own connection string, or an older one, or the host's.   *)
Connection(env, newer, older) ==
    Or(env["offhours_connection"], Or(env[newer], Or(env[older], env["host_connection"])))

(* StorageSettings.from_args().  Mutant: the older connection string       *)
(* first.                                                                  *)
CliStorageStateFirst(a, env) ==
    Reached(Trim(Or(a.uri, Or(env["offhours_uri"], env["scheduler_uri"]))),
            Trim(Or(a.connection, Connection(env, "state_connection", "scheduler_connection"))))

CliStorage(a, env) ==
    Reached(Trim(Or(a.uri, Or(env["offhours_uri"], env["scheduler_uri"]))),
            Trim(Or(a.connection, Connection(env, "scheduler_connection", "state_connection"))))

(* Mutant: the default is chosen before the spaces go.                     *)
CliTablesTrimLast(a, env) == [t \in Tables |-> Trim(Or(Or(a[t], env[t]), "default"))]

CliTables(a, env) == [t \in Tables |-> Or(Trim(Or(a[t], env[t])), "default")]

(* resolve_required_value(), for the function app.                         *)
CliApp(a, env) == Or(Trim(a.app), Trim(env["offhours_app"]))

(* What a deployment leaves behind: the app settings of the template, in   *)
(* which the host has an identity and no connection string, and the tables *)
(* the names that the parameters gave them ...  Mutant: the name of the    *)
(* state table is not handed on.                                           *)
SettingsWithoutState(account) ==
    [n \in Names |-> CASE n = "scheduler_uri" -> account
                       [] n \in Tables \ {"state_table"} -> tables_of[account][n]
                       [] OTHER -> ""]

Settings(account) ==
    [n \in Names |-> CASE n = "scheduler_uri" -> account
                       [] n \in Tables -> tables_of[account][n]
                       [] OTHER -> ""]

(* ... and, in the context file, the account and the app, that the wrapper *)
(* exports over those of the shell; no tables.  Mutant: the file is loaded *)
(* in any case.                                                            *)
SourcedAlways(env) ==
    IF env_file # NoFile
    THEN [env EXCEPT !["offhours_uri"] = env_file, !["offhours_app"] = env_file] ELSE env

Sourced(env) ==
    IF env["offhours_uri"] = "" /\ env_file # NoFile
    THEN [env EXCEPT !["offhours_uri"] = env_file, !["offhours_app"] = env_file] ELSE env

-----------------------------------------------------------------------------
InitTarget ==
    /\ shell = [n \in Names |-> ""]
    /\ env_file = NoFile
    /\ tables_of = [account \in {} |-> NoFile]
    /\ args \in Arguments

Export(n) ==
    /\ \E text \in Texts[n] : shell' = [shell EXCEPT ![n] = text]
    /\ UNCHANGED <<env_file, tables_of, args>>

(* The script: the template, and then the context file of the checkout     *)
(* that it is run in, which may be another one.  It may end in between.    *)
Deploy(account) ==
    /\ \E names \in Parameters :
         tables_of' = [a \in DOMAIN tables_of \union {account} |->
                         IF a = account THEN names ELSE tables_of[a]]
    /\ env_file' \in {account, env_file}
    /\ UNCHANGED <<shell, args>>

Forget == env_file' = NoFile /\ UNCHANGED <<shell, tables_of, args>>
Call == args' \in Arguments /\ UNCHANGED <<shell, env_file, tables_of>>

NextTarget ==
    \/ \E n \in Names : Export(n)
    \/ \E account \in Accounts : Deploy(account)
    \/ Forget \/ Call

SpecTarget == InitTarget /\ [][NextTarget]_targetvars

TargetTypeOK ==
    /\ shell \in [Names -> STRING] /\ \A n \in Names : shell[n] \in Texts[n]
    /\ tables_of \in [DOMAIN tables_of -> Parameters] /\ DOMAIN tables_of \subseteq Accounts
    /\ env_file \in DOMAIN tables_of \union {NoFile}
    /\ args \in Arguments
    /\ \A t \in Tables : CliTables(args, shell)[t] \notin {"", " "}

-----------------------------------------------------------------------------
NoArguments == \A field \in DOMAIN args : args[field] = ""
NoConnection == args.connection = "" /\ \A n \in Connections : shell[n] = ""

(* In one shell, as in local development, the function and the command     *)
(* line work on the same tables of the same account, or both on none,      *)
(* whatever older variables are still set: two readings of the environment *)
(* kept apart, one trims before it chooses and the other after.  It takes  *)
(* that no variable is blank and none is for the command line alone.       *)
SameTargetLocally ==
    /\ NoArguments
    /\ \A n \in Names : shell[n] # " "
    /\ \A n \in {"offhours_uri", "offhours_connection"} : shell[n] = ""
    => /\ CliStorage(args, shell) = FunctionStorage(shell)
       /\ CliTables(args, shell) = FunctionTables(shell)

(* After a deployment the wrapper needs no variable: it reaches the        *)
(* account that the deployed function works on, and its app, even if the   *)
(* shell still names others (docs/operator-guide.md:82-83); nothing may be *)
(* left in the shell that comes before, an endpoint or a connection        *)
(* string.  Of the tables the context file says nothing: each is the one   *)
(* that the function reads just where the shell gives its name, or none    *)
(* and the parameters of the template left the default.                    *)
TableKnown(t) ==
    \/ shell[t] = tables_of[env_file][t]
    \/ shell[t] \in {"", " "} /\ tables_of[env_file][t] = "default"

DeployedReached ==
    env_file # NoFile /\ NoArguments /\ NoConnection /\ shell["offhours_uri"] = ""
    => /\ CliStorage(args, Sourced(shell)) = FunctionStorage(Settings(env_file))
       /\ CliApp(args, Sourced(shell)) = env_file
       /\ \A t \in Tables :
            CliTables(args, Sourced(shell))[t] = FunctionTables(Settings(env_file))[t]
              <=> TableKnown(t)

(* docs/operator-guide.md:87: "se OFFHOURS_TABLE_SERVICE_URI estiver       *)
(* definida no shell atual, ela vence" over the context file and over the  *)
(* settings of the function.                                               *)
Named == args.uri = "" /\ Trim(shell["offhours_uri"]) # ""

ShellWins ==
    Named => CliStorage(args, Sourced(shell)) =
               [by |-> "identity", account |-> shell["offhours_uri"]]

(* Which it does as long as no connection string is about.                 *)
ShellWinsByIdentity == NoConnection => ShellWins
=============================================================================
