----------------------------- MODULE ResetLogin -----------------------------
(***************************************************************************)
(* "I am locked out of one of my own apps": run() and its strategies in     *)
(* lib/reset.js, /api/reset of server.js, and the page (public/js/app.js).  *)
(*                                                                          *)
(* The app is stopped, its file is copied, the account in it is forgotten,  *)
(* and the app is started. Nothing keeps two resets of one app apart, or    *)
(* the user from starting it in between: a strategy may find it running,    *)
(* and a copy of the database of a running app may be a broken one. An app  *)
(* of the third strategy writes its file from memory as it stops. One app.  *)
(***************************************************************************)
EXTENDS FiniteSets, Naturals

CONSTANTS
    Strategies, \* of "arr-config", "jellyfin", "qbittorrent"
    Requests,   \* resets that may be asked for
    MaxEvents   \* bound: what the user does and what goes wrong

Idle == [at |-> "idle"]
Accounts == {"owner", "new"}

VARIABLES
    how,        \* the strategy of the app
    db,         \* accounts with a password in its file
    mem,        \* ... and in its memory
    up,         \* it runs
    backups,    \* copies of its file that can be read, by the second their reset began
    second,     \* the clock
    asked,      \* how many resets were asked for in each second (for the properties)
    live,       \* the owner's file was copied while the app ran (for the properties)
    req,        \* resets under way
    page,       \* what the page says of the last one
    events

vars == <<how, db, mem, up, backups, second, asked, live, req, page, events>>

Init ==
    /\ how \in Strategies
    /\ db = {"owner"} /\ mem = db /\ up \in BOOLEAN
    /\ backups = [s \in 0..MaxEvents |-> {}]
    /\ second = 0 /\ asked = [s \in 0..MaxEvents |-> 0] /\ live = FALSE
    /\ req = [r \in Requests |-> Idle] /\ page = "" /\ events = 0

Event == events < MaxEvents /\ events' = events + 1

(* list(): a button is drawn when there is something to reset; qBittorrent  *)
(* is always offered.                                                       *)
Available == how = "qbittorrent" \/ db # {}

(* resetAppLogin(), run(): the copies are named by the second it begins in. *)
Ask(r) ==
    /\ req[r] = Idle /\ Available /\ Event
    /\ req' = [req EXCEPT ![r] = [at |-> "stop", stamp |-> second]]
    /\ page' = "running"
    /\ asked' = [asked EXCEPT ![second] = @ + 1]
    /\ UNCHANGED <<how, db, mem, up, backups, second, live>>

At(r, step) == req' = [req EXCEPT ![r].at = step]

(* stopService(). qBittorrent writes its file on the way out.               *)
Stopped ==
    /\ up' = FALSE
    /\ db' = IF how = "qbittorrent" /\ up THEN mem ELSE db

Stop(r) ==
    /\ req[r].at = "stop"
    /\ Stopped
    /\ At(r, IF how = "qbittorrent" THEN "clear" ELSE "copy")
    /\ UNCHANGED <<how, mem, backups, second, asked, live, page, events>>

(* Slip: the account is forgotten before its file is copied.                *)
CopyAfter(r) ==
    /\ req[r].at = "copy"
    /\ db' = {}
    /\ backups' = [backups EXCEPT ![req[r].stamp] = {db'}]
    /\ At(r, "clear")
    /\ UNCHANGED <<how, mem, up, second, asked, live, page, events>>

(* "copying a live SQLite file is how you get a broken one" (reset.js:289). *)
Copy(r) ==
    /\ req[r].at = "copy"
    /\ \E copy \in IF up THEN {{db}, {}} ELSE {{db}} :
         backups' = [backups EXCEPT ![req[r].stamp] = copy]
    /\ live' = (live \/ (up /\ "owner" \in db))
    /\ At(r, "clear")
    /\ UNCHANGED <<how, db, mem, up, second, asked, page, events>>

(* clearUsers(), jellyfinClear(); the stored password of qBittorrent is     *)
(* taken out, so that the seeder writes the one that Podhouse has.          *)
Clear(r) ==
    /\ req[r].at = "clear"
    /\ db' = {}
    /\ At(r, IF how = "qbittorrent" THEN "seed" ELSE "start")
    /\ UNCHANGED <<how, mem, up, backups, second, asked, live, page, events>>

(* runSetup() leaves a password that is there alone.                        *)
Seed(r) ==
    /\ req[r].at = "seed"
    /\ db' = IF db = {} THEN {"new"} ELSE db
    /\ At(r, "start")
    /\ UNCHANGED <<how, mem, up, backups, second, asked, live, page, events>>

(* upService() does nothing to an app that runs.                            *)
Started == up' = TRUE /\ mem' = IF up THEN mem ELSE db

Start(r) ==
    /\ req[r].at = "start"
    /\ Started
    /\ req' = [req EXCEPT ![r] = Idle] /\ page' = "open"
    /\ UNCHANGED <<how, db, backups, second, asked, live, events>>

(* Any of the steps may fail, and the rest is left.                         *)
Fail(r) ==
    /\ req[r] # Idle /\ Event
    /\ req' = [req EXCEPT ![r] = Idle] /\ page' = "could not"
    /\ UNCHANGED <<how, db, mem, up, backups, second, asked, live>>

(* The dashboard dies.                                                      *)
Crash ==
    /\ \E r \in Requests : req[r] # Idle
    /\ Event
    /\ req' = [r \in Requests |-> Idle] /\ page' = "could not"
    /\ UNCHANGED <<how, db, mem, up, backups, second, asked, live>>

Tick ==
    /\ Event
    /\ second' = second + 1
    /\ UNCHANGED <<how, db, mem, up, backups, asked, live, req, page>>

(* The user starts or stops the app by its own buttons, and makes the       *)
(* account it asks for.                                                     *)
StartByHand ==
    /\ ~up /\ Event
    /\ Started
    /\ UNCHANGED <<how, db, backups, second, asked, live, req, page>>

StopByHand ==
    /\ up /\ Event
    /\ Stopped
    /\ UNCHANGED <<how, mem, backups, second, asked, live, req, page>>

MakeAccount ==
    /\ up /\ (how # "qbittorrent" => mem = {}) /\ Event
    /\ mem' = {"new"}
    /\ db' = IF how = "qbittorrent" THEN db ELSE {"new"}
    /\ UNCHANGED <<how, up, backups, second, asked, live, req, page>>

Next ==
    \/ \E r \in Requests :
         Ask(r) \/ Stop(r) \/ Copy(r) \/ Clear(r) \/ Seed(r) \/ Start(r) \/ Fail(r)
    \/ Crash \/ Tick \/ StartByHand \/ StopByHand \/ MakeAccount

Spec == Init /\ [][Next]_vars

-----------------------------------------------------------------------------
Kept == UNION {backups[s] : s \in DOMAIN backups}

(* "Its config file is backed up first" (app.js:4621): the account the      *)
(* owner was locked out of is in the app's file or in a copy of it that can *)
(* be read, whatever resets overlap and whatever fails, unless two were     *)
(* asked for within one second, or the app had been started again when its  *)
(* file was copied.                                                         *)
OwnerIsKept ==
    (how # "qbittorrent" /\ ~live /\ \A s \in DOMAIN asked : asked[s] <= 1)
        => ("owner" \in db \/ {"owner"} \in Kept)

(* Does not hold: of two in a second, the second copies a file that the     *)
(* first has emptied over the first one's copy.                             *)
KeptWithinASecond == (how # "qbittorrent" /\ ~live) => ("owner" \in db \/ {"owner"} \in Kept)

(* Does not hold: nothing asks whether the app has been started since it    *)
(* was stopped, and the copy that the file is then cleared after is broken. *)
KeptWhoeverStartsIt ==
    (how # "qbittorrent" /\ \A s \in DOMAIN asked : asked[s] <= 1)
        => ("owner" \in db \/ {"owner"} \in Kept)

(* "its database must not be open while this is written" (reset.js:168).    *)
ClosedWhenWritten ==
    [][\A r \in Requests : req[r].at = "clear" /\ req'[r].at \in {"seed", "start"} => ~up]_vars

=============================================================================
