------------------------------ MODULE Settings ------------------------------
(***************************************************************************)
(* Saving settings: the editor of .env in browser tabs (public/js/app.js),  *)
(* POST /api/config and applySaved() of server.js, save() of lib/config.js, *)
(* and the two apps whose login must be changed in the app before it is     *)
(* changed in .env (lib/media-wire.js).                                     *)
(*                                                                          *)
(* A container keeps the values it was created with, so a save ends by      *)
(* recreating whoever uses a key that changed, the dashboard itself last    *)
(* and through a helper that outlives it. A media app's folders are made    *)
(* before it is brought up (lib/compose-privileged.js): one that is on the   *)
(* disk in another spelling has its key in .env respelt to it, whoever else *)
(* uses that key. One save at a time; what two at once do to the file is    *)
(* EnvFile.                                                                 *)
(***************************************************************************)
EXTENDS FiniteSets, Naturals, Sequences

CONSTANTS
    Apps,       \* apps that may be installed
    Tabs,
    Logins,     \* keys that are an app's login, in the order they are told
    Others,     \* keys that containers are created with
    Values,     \* what may be typed
    Bad,        \* the one of them that save() refuses
    Uses,       \* for each key of Others, whose compose file names it
    MediaKeys,  \* keys of Others that name the library's folders
    Folders,    \* MEDIA_FOLDERS: those of them that an app has made
    Alike,      \* pairs of values that differ only in case
    MaxEvents   \* bound: what users do and what goes wrong

LoginKeys == {Logins[i] : i \in DOMAIN Logins}
Keys == LoginKeys \cup Others

VARIABLES
    file,       \* .env
    real,       \* for each login, the one that opens its app
    state,      \* ... and whether that app is there and runs
    made,       \* what each container was created with
    has,        \* apps that are installed
    tab,        \* what each tab has loaded, and what is in its fields
    req,        \* the save under way
    again,      \* the dashboard's own recreate has been handed out
    owed,       \* containers an answer named as not done, or of which no answer came
    untold,     \* containers left behind in one of the ways that no message tells
    events

vars == <<file, real, state, made, has, tab, req, again, owed, untold, events>>

Containers == has \cup {"dashboard"}

NoReq == [at |-> "none", todo |-> {}, done |-> {}, failed |-> {}, manual |-> {}]

Init ==
    /\ \E v \in Values \ {Bad} : file = [k \in Keys |-> v]
    /\ real = [k \in LoginKeys |-> file[k]]
    /\ state \in [LoginKeys -> {"none", "running"}]
    /\ has = Apps
    /\ made = [a \in Apps \cup {"dashboard"} |-> file]
    /\ tab = [t \in Tabs |-> [was |-> file, is |-> file]]
    /\ req = NoReq /\ again = FALSE /\ owed = {} /\ untold = {} /\ events = 0

Event == events < MaxEvents /\ events' = events + 1

-----------------------------------------------------------------------------
(* In the page.                                                             *)

(* loadConfig().                                                            *)
Load(t) ==
    /\ tab' = [tab EXCEPT ![t] = [was |-> file, is |-> file]]
    /\ UNCHANGED <<file, real, state, made, has, req, again, owed, untold, events>>

Type(t, k, v) ==
    /\ Event
    /\ tab' = [tab EXCEPT ![t].is[k] = v]
    /\ UNCHANGED <<file, real, state, made, has, req, again, owed, untold>>

Discard(t) ==
    /\ tab' = [tab EXCEPT ![t].is = tab[t].was]
    /\ UNCHANGED <<file, real, state, made, has, req, again, owed, untold, events>>

(* cfgDirty(): the fields that differ from what was loaded.                 *)
Dirty(t) == {k \in Keys : tab[t].is[k] # tab[t].was[k]}

(* POST /api/config: the logins are told to their apps, then all is saved   *)
(* and applied.                                                             *)
Posted(t, new) ==
    [at |-> "login", login |-> 1, tab |-> t, new |-> new, folders |-> FALSE,
     todo |-> {}, done |-> {}, failed |-> {}, manual |-> {}]

(* saveConfig() sends the dirty fields, and nothing else.                   *)
Save(t) ==
    /\ req = NoReq /\ Dirty(t) # {}
    /\ req' = Posted(t, [k \in Dirty(t) |-> tab[t].is[k]])
    /\ UNCHANGED <<file, real, state, made, has, tab, again, owed, untold, events>>

-----------------------------------------------------------------------------
(* In the server.                                                           *)

Refused == req' = NoReq

(* A sign-in to the app.                                                    *)
Opens(k, login) == state[k] = "running" /\ real[k] = login

(* changeQbitLogin(), changeJellyfinLogin(). Either the saved login opens   *)
(* the app, which is then given the new one; or the new one already does.   *)
(* Anything else refuses the whole save.                                    *)
Tell ==
    LET k == Logins[req.login]
        mine == k \in DOMAIN req.new /\ state[k] # "none"
        told == IF req.login = Len(Logins) THEN [req EXCEPT !.at = "save"]
                ELSE [req EXCEPT !.login = @ + 1]
    IN  /\ req.at = "login"
        /\ IF ~mine THEN req' = told /\ UNCHANGED real
           ELSE IF Opens(k, file[k]) /\ req.new[k] # Bad
           THEN req' = told /\ real' = [real EXCEPT ![k] = req.new[k]]
           ELSE /\ UNCHANGED real
                /\ IF Opens(k, req.new[k]) THEN req' = told ELSE Refused
        /\ UNCHANGED <<file, state, made, has, tab, again, owed, untold, events>>

(* modulesUsing().                                                          *)
Using(keys) == UNION {Uses[k] : k \in keys \cap Others}

(* config.save(): all the values pass or none is written; a value the file  *)
(* has already is not a change. Then the start of applySaved().             *)
Write ==
    LET applied == {k \in DOMAIN req.new : req.new[k] # file[k]}
    IN  /\ req.at = "save"
        /\ IF \E k \in DOMAIN req.new : req.new[k] = Bad THEN Refused /\ UNCHANGED file
           ELSE /\ file' = [k \in Keys |-> IF k \in applied THEN req.new[k] ELSE file[k]]
                /\ req' = [req EXCEPT !.at = "list", !.todo = Using(applied),
                                      !.folders = applied \cap MediaKeys # {}]
        /\ UNCHANGED <<real, state, made, has, tab, again, owed, untold, events>>

List ==
    /\ req.at = "list"
    /\ req' = [req EXCEPT !.at = "apply", !.todo = @ \cap Containers]
    /\ UNCHANGED <<file, real, state, made, has, tab, again, owed, untold, events>>

(* Docker's list is taken for empty when it cannot be had: nothing is       *)
(* brought up, and the page says that nothing installed uses the values.    *)
ListFails ==
    /\ req.at = "list" /\ Event
    /\ req' = [req EXCEPT !.at = "apply", !.todo = {}]
    /\ untold' = untold \cup (req.todo \cap Containers)
    /\ UNCHANGED <<file, real, state, made, has, tab, again, owed>>

(* mediaFolders(): the file as it may be once an app's folders are made.    *)
Found(a) ==
    {f \in [Keys -> Values] :
        \A k \in Keys : f[k] = file[k] \/ (k \in Folders[a] /\ {f[k], file[k]} \in Alike)}

(* Nobody is told that a key was respelt: its other users stay as they are, *)
(* but for those that are yet to be brought up.                             *)
Respelt(a) ==
    {b \in Containers \ ({a} \cup req.todo) :
        \E k \in Others : b \in Uses[k] /\ file'[k] # file[k]}

(* ... which applySaved() calls when a folder was among what changed.       *)
FoldersMade(a) == file' \in IF req.folders THEN Found(a) ELSE {file}

(* composeLib.start(): up -d, which creates a container anew when what it   *)
(* would be created with has changed.                                       *)
Start(a) ==
    /\ req.at = "apply" /\ a \in req.todo \ {"dashboard"}
    /\ FoldersMade(a)
    /\ untold' = (untold \ {a}) \cup Respelt(a)
    /\ made' = [made EXCEPT ![a] = file']
    /\ has' = has \cup {a}
    /\ req' = [req EXCEPT !.todo = @ \ {a}, !.done = @ \cup {a}]
    /\ UNCHANGED <<real, state, tab, again, owed, events>>

(* Slip: one failure ends the loop, and the answer names it alone.          *)
StartFailsForAll(a) ==
    /\ req.at = "apply" /\ a \in req.todo \ {"dashboard"} /\ Event
    /\ FoldersMade(a)
    /\ untold' = untold \cup Respelt(a)
    /\ req' = [req EXCEPT !.todo = {}, !.failed = @ \cup {a}]
    /\ UNCHANGED <<real, state, made, has, tab, again, owed>>

(* It failed: the next is started all the same.                             *)
StartFails(a) ==
    /\ req.at = "apply" /\ a \in req.todo \ {"dashboard"} /\ Event
    /\ FoldersMade(a)
    /\ untold' = untold \cup Respelt(a)
    /\ req' = [req EXCEPT !.todo = @ \ {a}, !.failed = @ \cup {a}]
    /\ UNCHANGED <<real, state, made, has, tab, again, owed>>

(* selfRecreate(): handed to a helper, or left to the user.                 *)
SelfRecreate ==
    /\ req.at = "apply" /\ req.todo = {"dashboard"}
    /\ \/ again' = TRUE /\ req' = [req EXCEPT !.todo = {}, !.done = @ \cup {"dashboard"}]
          /\ UNCHANGED events
       \/ Event /\ req' = [req EXCEPT !.todo = {}, !.manual = {"dashboard"}] /\ UNCHANGED again
    /\ UNCHANGED <<file, real, state, made, has, tab, owed, untold>>

(* What saveConfig() tells of the answer: the failures and nothing else     *)
(* when there are any.                                                      *)
Shown == IF req.failed # {} THEN req.failed ELSE req.manual

(* Then it loads the fields again.                                          *)
Answer ==
    /\ req.at = "apply" /\ req.todo = {}
    /\ owed' = (owed \ req.done) \cup Shown
    /\ untold' = untold \cup (req.manual \ Shown)
    /\ tab' = [tab EXCEPT ![req.tab] = [was |-> file, is |-> file]]
    /\ req' = NoReq
    /\ UNCHANGED <<file, real, state, made, has, again, events>>

(* The dashboard goes: the save under way is cut off, the page says only    *)
(* that it lost contact. What it had not got to is nobody's.                *)
Cut == req' = NoReq /\ owed' = owed \cup req.todo \cup req.failed \cup req.manual

Recreate ==
    /\ again /\ again' = FALSE /\ Cut
    /\ made' = [made EXCEPT !["dashboard"] = file] /\ untold' = untold \ {"dashboard"}
    /\ UNCHANGED <<file, real, state, has, tab, events>>

Crash ==
    /\ req # NoReq /\ Event /\ Cut
    /\ UNCHANGED <<file, real, state, made, has, tab, again, untold>>

-----------------------------------------------------------------------------
(* What else happens: apps come and go, and a login is changed in the app   *)
(* itself.                                                                  *)

(* install() makes an app's folders too.                                    *)
Install(a) ==
    /\ a \in Apps \ has /\ Event
    /\ file' \in Found(a)
    /\ untold' = (untold \ {a}) \cup Respelt(a)
    /\ has' = has \cup {a} /\ made' = [made EXCEPT ![a] = file'] /\ owed' = owed \ {a}
    /\ UNCHANGED <<real, state, tab, req, again>>

Remove(a) ==
    /\ a \in has /\ Event
    /\ has' = has \ {a} /\ owed' = owed \ {a} /\ untold' = untold \ {a}
    /\ UNCHANGED <<file, real, state, made, tab, req, again>>

ChangeInApp(k, v) ==
    /\ state[k] = "running" /\ v # real[k] /\ Event
    /\ real' = [real EXCEPT ![k] = v]
    /\ UNCHANGED <<file, state, made, has, tab, req, again, owed, untold>>

StopOrStart(k) ==
    /\ state[k] # "none" /\ Event
    /\ state' = [state EXCEPT ![k] = IF @ = "running" THEN "stopped" ELSE "running"]
    /\ UNCHANGED <<file, real, made, has, tab, req, again, owed, untold>>

Next ==
    \/ \E t \in Tabs : Load(t) \/ Discard(t) \/ Save(t)
    \/ \E t \in Tabs, k \in Keys, v \in Values : Type(t, k, v)
    \/ Tell \/ Write \/ List \/ ListFails \/ SelfRecreate \/ Answer \/ Recreate \/ Crash
    \/ \E a \in Apps : Start(a) \/ StartFails(a) \/ Install(a) \/ Remove(a)
    \/ \E k \in LoginKeys, v \in Values \ {Bad} : ChangeInApp(k, v)
    \/ \E k \in LoginKeys : StopOrStart(k)

Spec == Init /\ [][Next]_vars

-----------------------------------------------------------------------------
(* "Report what the server actually did, not what the key list implies"     *)
(* (app.js:2803): between saves, a container that was created with another  *)
(* value than the file's was named as not done, or its save was cut off, or *)
(* the dashboard is about to be made anew; unless it was hidden by a list   *)
(* that could not be had, was the dashboard beside a failure, or had a key  *)
(* respelt by another app's folders.                                        *)
Behind(a) == \E k \in Others : a \in Uses[k] /\ made[a][k] # file[k]

ReportedIsDone ==
    req = NoReq => \A a \in Containers :
        Behind(a) => a \in owed \cup untold \/ (a = "dashboard" /\ again)

(* Does not hold without them: those three are told to nobody.              *)
AlwaysReported ==
    req = NoReq => \A a \in Containers :
        Behind(a) => a \in owed \/ (a = "dashboard" /\ again)

(* "or .env and .env and qBittorrent would disagree" (media-wire.js:303): a    *)
(* save that is refused leaves every login it was to change as it is saved.  *)
LoginsAgree ==
    [][(Write \/ Tell) /\ req' = NoReq =>
        \A k \in DOMAIN req.new \cap LoginKeys :
            state[k] = "running" /\ real[k] = req.new[k] => real[k] = file[k]]_vars

=============================================================================
