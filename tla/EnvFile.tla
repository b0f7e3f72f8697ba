------------------------------- MODULE EnvFile -------------------------------
(***************************************************************************)
(* The keys in .env: ensureFor() and forgetFor() of lib/secrets.js, which   *)
(* the worker runs inside an install and a purge (compose-privileged.js),   *)
(* and save() of lib/config.js, which the dashboard runs for Settings. Each *)
(* reads the file, changes its lines and renames a new file over it, with   *)
(* awaits in between and nothing to keep two of them apart.                 *)
(*                                                                          *)
(* Every module here declares one secret of its own. A value is the order   *)
(* in which it was made up, 0 is an empty or a missing line.                *)
(***************************************************************************)
EXTENDS Naturals

CONSTANTS
    Modules,    \* modules that declare a secret
    Setting,    \* a key of Settings that no module declares
    Tasks,      \* operations that may be under way at once
    MaxValue    \* bound: values ever made up or typed

VARIABLES
    env,    \* .env: the value of each key
    tmp,    \* .env.tmp-<pid> of each process: its lines, or NoLines
    task,   \* each operation: where it is, the lines it has
    held,   \* the value that protects each app's data; 0 is no data
    made    \* values made up so far

vars == <<env, tmp, task, held, made>>

Keys == Modules \cup {Setting}

Lines == [Keys -> 0..MaxValue]

NoLines == [k \in {} |-> 0]

Blank == [k \in Keys |-> 0]

Ops == {"install", "purge", "save"}

(* Installs and purges run in the worker, Settings in the dashboard.        *)
Process(op) == IF op = "save" THEN "dashboard" ELSE "worker"

TypeOK ==
    /\ env \in Lines
    /\ tmp \in [{"worker", "dashboard"} -> Lines \cup {NoLines}]
    /\ task \in [Tasks -> [at : {"idle", "asked", "read", "written", "renamed"},
                           op : Ops, key : Keys, lines : Lines]]
    /\ held \in [Modules -> 0..MaxValue]
    /\ made \in 0..MaxValue

Idle == [at |-> "idle", op |-> "save", key |-> Setting, lines |-> Blank]

Init ==
    /\ env = Blank
    /\ tmp = [p \in {"worker", "dashboard"} |-> NoLines]
    /\ task = [t \in Tasks |-> Idle]
    /\ held = [m \in Modules |-> 0]
    /\ made = 0

-----------------------------------------------------------------------------
(* One operation at a time on one module: inFlight of server.js.            *)
Ask(t, op, key) ==
    /\ task[t].at = "idle"
    /\ op = "save" <=> key = Setting
    /\ key \in Modules => \A u \in Tasks : task[u].at # "idle" => task[u].key # key
    /\ task' = [task EXCEPT ![t] = [Idle EXCEPT !.at = "asked", !.op = op, !.key = key]]
    /\ UNCHANGED <<env, tmp, held, made>>

(* purge() deletes the app's data first. All three read the file, and       *)
(* change the lines they have read before they next wait for anything:      *)
(* ensureFor() fills in a value where there is none, forgetFor() takes the  *)
(* line out, save() puts in what was typed.                                 *)
Read(t) ==
    LET op == task[t].op
        key == task[t].key
        fills == op = "save" \/ (op = "install" /\ env[key] = 0)
        value == IF fills THEN made + 1 ELSE IF op = "install" THEN env[key] ELSE 0
    IN  /\ task[t].at = "asked"
        /\ fills => made < MaxValue
        /\ made' = IF fills THEN made + 1 ELSE made
        /\ held' = IF op = "purge" THEN [held EXCEPT ![key] = 0] ELSE held
        /\ task' = [task EXCEPT ![t].at = IF value = env[key] THEN "renamed" ELSE "read",
                                ![t].lines = [env EXCEPT ![key] = value]]
        /\ UNCHANGED <<env, tmp>>

(* fsp.writeFile(`${ENV_FILE}.tmp-${process.pid}`): one name per process.   *)
Write(t) ==
    /\ task[t].at = "read"
    /\ tmp' = [tmp EXCEPT ![Process(task[t].op)] = task[t].lines]
    /\ task' = [task EXCEPT ![t].at = "written"]
    /\ UNCHANGED <<env, held, made>>

(* fsp.rename(): whatever is under that name by now, or ENOENT, which ends  *)
(* the operation.                                                           *)
Rename(t) ==
    LET p == Process(task[t].op)
    IN  /\ task[t].at = "written"
        /\ IF tmp[p] = NoLines
           THEN task' = [task EXCEPT ![t] = Idle] /\ UNCHANGED <<env, tmp>>
           ELSE /\ env' = tmp[p]
                /\ tmp' = [tmp EXCEPT ![p] = NoLines]
                /\ task' = [task EXCEPT ![t].at = "renamed"]
        /\ UNCHANGED <<held, made>>

(* install() goes on to `compose up`: the app starts on the value that is   *)
(* in .env by then, and a new app protects its data with it.                *)
Finish(t) ==
    LET key == task[t].key
    IN  /\ task[t].at = "renamed"
        /\ held' = IF task[t].op = "install" /\ held[key] = 0
                   THEN [held EXCEPT ![key] = env[key]] ELSE held
        /\ task' = [task EXCEPT ![t] = Idle]
        /\ UNCHANGED <<env, tmp, made>>

Next ==
    \E t \in Tasks :
        \/ \E op \in Ops, key \in Keys : Ask(t, op, key)
        \/ Read(t) \/ Write(t) \/ Rename(t) \/ Finish(t)

Spec == Init /\ [][Next]_vars

-----------------------------------------------------------------------------
(* "Never overwrites: regenerating a secret an app has already used to      *)
(* encrypt something is how you lose the thing it protects"                 *)
(* (secrets.js:94-96): the key that protects an app's data stays in .env    *)
(* until that data is purged.                                               *)
KeysKept == \A m \in Modules : held[m] # 0 => env[m] = held[m]

=============================================================================
