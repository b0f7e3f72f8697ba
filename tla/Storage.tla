------------------------------- MODULE Storage ------------------------------
(***************************************************************************)
(* A share of a NAS mounted from the settings page: the form and the list   *)
(* (public/js/app.js), /api/storage of server.js, the worker's              *)
(* lib/storage-privileged.js, and scripts/mount-remote.sh, which it runs on *)
(* the host; with the containers that are created meanwhile.                *)
(*                                                                          *)
(* Docker creates the source of a bind when it is not there. A container    *)
(* that is created while the share is away is given an empty folder, which  *)
(* the share then hides: so the directory beneath the share is emptied and  *)
(* made immutable before anything is mounted on it. One mountpoint.         *)
(*                                                                          *)
(* A script runs in a container of its own: it goes on when the client that *)
(* started it is killed at its time limit, or goes with the worker. Nothing *)
(* keeps two of them apart.                                                 *)
(***************************************************************************)
EXTENDS Naturals

CONSTANTS
    Apps,       \* containers with a folder of the share
    Jobs,       \* requests, and the scripts they start
    MaxEvents   \* bound: what the user, the box and the NAS do

VARIABLES
    units,      \* the .mount, .automount and docker.service drop-in are written
    auto,       \* the automount is active
    mounted,
    frozen,     \* the directory beneath the share is immutable
    beneath,    \* what is in it: "empty", "stub" (folders without a file), "data"
    nas,        \* the NAS answers
    creds,      \* the SMB login kept on the host, and whether it is right
    bind,       \* what each container was created on
    job,        \* the scripts under way, and whether somebody waits for them
    told,       \* "yes": a mount that could freeze was answered, none was asked for since;
                \* "beside": so it was, but another script ran beside its own
    page,       \* what the page lists
    events

vars == <<units, auto, mounted, frozen, beneath, nas, creds, bind, job, told, page, events>>
host == <<units, auto, mounted, frozen, beneath, creds>>

Idle == [at |-> "idle"]

Init ==
    /\ units = FALSE /\ auto = FALSE /\ mounted = FALSE /\ frozen = FALSE
    /\ beneath \in {"empty", "stub", "data"}
    /\ nas = TRUE /\ creds = "none"
    /\ bind = [a \in Apps |-> "none"]
    /\ job = [j \in Jobs |-> Idle] /\ told = "no" /\ page = FALSE /\ events = 0

Event == events < MaxEvents /\ events' = events + 1

(* `alone`: no other script has been under way at any time of its own.      *)
Begin(j, new) ==
    /\ job[j] = Idle
    /\ job' = [i \in Jobs |->
                  IF i = j THEN [new EXCEPT !.alone = \A o \in Jobs : job[o] = Idle]
                  ELSE IF job[i] = Idle THEN Idle ELSE [job[i] EXCEPT !.alone = FALSE]]
    /\ told' = "no"

Script(step, kind, pass) ==
    [at |-> step, kind |-> kind, pass |-> pass, warned |-> FALSE, waits |-> TRUE, alone |-> TRUE]

At(j, step) == job' = [job EXCEPT ![j].at = step]

(* The end of a script, however it ends.                                    *)
Over(j) == job' = [job EXCEPT ![j] = Idle]

-----------------------------------------------------------------------------
(* submitStorageForm(), mount(): a form whose fields pass validate(). The   *)
(* password goes through a file.                                            *)
Mount(j) ==
    /\ Event
    /\ \E kind \in {"nfs", "cifs"}, pass \in {"none", "right", "wrong"} :
         (kind = "nfs" => pass = "none") /\ Begin(j, Script("ask", kind, pass))
    /\ UNCHANGED <<host, nas, bind, page>>

(* Of mount-remote.sh. Asked first what it exports, an NFS server may say   *)
(* that it is not to this box; one that says nothing is gone on with.       *)
AskExports(j) ==
    /\ job[j].at = "ask"
    /\ \/ At(j, "login")
       \/ job[j].kind = "nfs" /\ nas /\ Over(j)
    /\ UNCHANGED <<host, nas, bind, told, page, events>>

(* The login of the first SMB share is kept, and taken from then on.        *)
Login(j) ==
    /\ job[j].at = "login"
    /\ IF job[j].kind = "cifs" /\ creds = "none"
       THEN IF job[j].pass = "none" THEN Over(j) /\ UNCHANGED creds
            ELSE creds' = job[j].pass /\ job' = [job EXCEPT ![j].at = "under", ![j].pass = "none"]
       ELSE At(j, "under") /\ UNCHANGED creds
    /\ UNCHANGED <<units, auto, mounted, frozen, beneath, nas, bind, told, page, events>>

Held == \E a \in Apps : bind[a] = "share"

(* What follows is done to the directory beneath, so the share has to go,   *)
(* and the automount with it.                                               *)
Under(j) ==
    /\ job[j].at = "under"
    /\ auto' = FALSE
    /\ mounted' = (mounted /\ Held)
    /\ IF mounted' THEN Over(j) ELSE At(j, "clear")
    /\ UNCHANGED <<units, frozen, beneath, nas, creds, bind, told, page, events>>

(* Whoever looks at the mountpoint mounts the share if the automount is     *)
(* active; the directory beneath is reached when neither is there.          *)
Looked == mounted' \in {mounted, mounted \/ (auto /\ nas)}
Reached == ~mounted' /\ ~auto

(* chattr -i, ls and find. What is no empty folder is somebody's data.      *)
Clear(j) ==
    /\ job[j].at = "clear" /\ Looked
    /\ frozen' = (frozen /\ ~Reached)
    /\ beneath' = IF Reached /\ beneath # "data" THEN "empty" ELSE beneath
    /\ \/ (mounted' \/ (Reached /\ beneath = "data")) /\ Over(j)
       \/ ~(Reached /\ beneath = "data") /\ At(j, "freeze")
    /\ UNCHANGED <<units, auto, nas, creds, bind, told, page, events>>

(* Slip: the bit that could not be set is not spoken of.                    *)
FreezeQuietly(j) ==
    /\ job[j].at = "freeze" /\ Looked
    /\ frozen' \in {frozen, frozen \/ Reached} /\ At(j, "units")
    /\ UNCHANGED <<units, auto, beneath, nas, creds, bind, told, page, events>>

(* chattr +i. Where the filesystem knows no such bit, as a share does not,  *)
(* the script warns, and goes on.                                           *)
Freeze(j) ==
    /\ job[j].at = "freeze" /\ Looked
    /\ \/ Reached /\ frozen' = TRUE /\ At(j, "units")
       \/ UNCHANGED frozen /\ job' = [job EXCEPT ![j].at = "units", ![j].warned = TRUE]
    /\ UNCHANGED <<units, auto, beneath, nas, creds, bind, told, page, events>>

WriteUnits(j) ==
    /\ job[j].at = "units"
    /\ units' = TRUE /\ auto' = TRUE /\ At(j, "start")
    /\ UNCHANGED <<mounted, frozen, beneath, nas, creds, bind, told, page, events>>

Opens(j) == nas /\ (job[j].kind = "cifs" => creds = "right")

(* The answer of POST /api/storage/mount.                                   *)
Answer(j) ==
    /\ told' = IF ~mounted' \/ job[j].warned THEN "no" ELSE IF job[j].alone THEN "yes" ELSE "beside"
    /\ page' = mounted'

(* systemctl start. The answer is taken from what is mounted then.          *)
Start(j) ==
    /\ job[j].at = "start"
    /\ mounted' = (mounted \/ Opens(j))
    /\ IF job[j].waits THEN Answer(j) ELSE UNCHANGED <<told, page>>
    /\ Over(j)
    /\ UNCHANGED <<units, auto, frozen, beneath, nas, creds, bind, events>>

(* Under set -e, any line that fails ends the script.                       *)
Dies(j) ==
    /\ job[j].at \in {"ask", "login", "clear", "units", "start"} /\ Event
    /\ Over(j)
    /\ UNCHANGED <<host, nas, bind, told, page>>

-----------------------------------------------------------------------------
(* detachStorage(): the button of a share that is listed.                   *)
Detach(j) ==
    /\ page /\ Event
    /\ Begin(j, Script("stop", "detach", "none"))
    /\ UNCHANGED <<host, nas, bind, page>>

(* unmount(): each line of its script goes on when it fails; a share that   *)
(* is held stays.                                                           *)
StopUnits(j) ==
    /\ job[j].at = "stop"
    /\ auto' = FALSE /\ mounted' = (mounted /\ Held)
    /\ At(j, "remove")
    /\ UNCHANGED <<units, frozen, beneath, nas, creds, bind, told, page, events>>

(* ... and it answers that the share is gone.                               *)
Unmount(j) ==
    /\ job[j].at = "remove" /\ Looked
    /\ units' = FALSE
    /\ frozen' = (frozen /\ ~Reached)
    /\ page' = IF job[j].waits THEN mounted' ELSE page
    /\ Over(j)
    /\ UNCHANGED <<auto, beneath, nas, creds, bind, told, events>>

(* list(): nothing is mounted when findmnt does not answer.                 *)
Listed == {mounted, FALSE}

(* loadStorage()                                                            *)
Look ==
    /\ page' \in Listed
    /\ UNCHANGED <<host, nas, bind, job, told, events>>

(* The docker client is killed at its time limit, the request answered as   *)
(* failed, and the file of the password taken away.                         *)
TimesOut(j) ==
    /\ job[j] # Idle /\ Event
    /\ job' = [job EXCEPT ![j].waits = FALSE, ![j].pass = "none"]
    /\ UNCHANGED <<host, nas, bind, told, page>>

(* The worker dies, and its clients with it: the files stay.                *)
Crash ==
    /\ (\E j \in Jobs : job[j] # Idle) /\ Event
    /\ job' = [j \in Jobs |-> IF job[j] = Idle THEN Idle ELSE [job[j] EXCEPT !.waits = FALSE]]
    /\ UNCHANGED <<host, nas, bind, told, page>>

-----------------------------------------------------------------------------
(* The box.                                                                 *)

(* A container is created: on the share, which an active automount brings   *)
(* when the NAS answers; or not at all; or on a folder Docker makes.        *)
Create(a) ==
    /\ bind[a] = "none" /\ Event
    /\ \/ (mounted \/ (auto /\ nas)) /\ mounted' = TRUE
          /\ bind' = [bind EXCEPT ![a] = "share"] /\ UNCHANGED beneath
       \/ ~mounted /\ ~auto /\ ~frozen /\ UNCHANGED mounted
          /\ bind' = [bind EXCEPT ![a] = "stub"]
          /\ beneath' = IF beneath = "data" THEN "data" ELSE "stub"
    /\ UNCHANGED <<units, auto, frozen, nas, creds, job, told, page>>

(* An app that was given a folder of its own writes into it.                *)
WriteBeneath(a) ==
    /\ bind[a] = "stub" /\ beneath' = "data"
    /\ UNCHANGED <<units, auto, mounted, frozen, nas, creds, bind, job, told, page, events>>

Delete(a) ==
    /\ bind[a] # "none" /\ Event
    /\ bind' = [bind EXCEPT ![a] = "none"]
    /\ UNCHANGED <<host, nas, job, told, page>>

(* Docker is ordered after the automount, and does not require it.          *)
Reboot ==
    /\ Event
    /\ mounted' = FALSE /\ auto' \in {units, FALSE}
    /\ job' = [j \in Jobs |-> Idle]
    /\ UNCHANGED <<units, frozen, beneath, nas, creds, bind, told, page>>

NasChanges ==
    /\ Event
    /\ nas' = ~nas
    /\ UNCHANGED <<host, bind, job, told, page>>

Next ==
    \/ \E j \in Jobs :
         \/ Mount(j) \/ AskExports(j) \/ Login(j) \/ Under(j) \/ Clear(j) \/ Freeze(j)
         \/ WriteUnits(j) \/ Start(j) \/ Dies(j) \/ Detach(j) \/ StopUnits(j) \/ Unmount(j)
         \/ TimesOut(j)
    \/ Look \/ Crash \/ Reboot \/ NasChanges
    \/ \E a \in Apps : Create(a) \/ WriteBeneath(a) \/ Delete(a)

Spec == Init /\ [][Next]_vars

-----------------------------------------------------------------------------
(* "so the next time that race happens Docker fails loudly instead of       *)
(* quietly inventing an empty library" (mount-remote.sh:121): from the      *)
(* answer of a mount on whose script ran alone, whatever the NAS and the    *)
(* box do, no container is created on a folder of its own.                  *)
LibraryOrNothing ==
    [][told = "yes" => \A a \in Apps : bind[a] = "none" => bind'[a] # "stub"]_vars

(* Does not hold: a script that nobody waits for any more takes the bit off *)
(* again after the answer of the next.                                      *)
LibraryWhateverRuns ==
    [][told # "no" => \A a \in Apps : bind[a] = "none" => bind'[a] # "stub"]_vars

(* "'stopped nothing, deleted nothing' reported as success"                 *)
(* (storage-privileged.js:271) does not happen: it does, for a share that   *)
(* is held.                                                                 *)
DetachedIsGone == [][units /\ ~units' => ~mounted']_vars

(* A mount that was given the right password, and fails for none of the     *)
(* other reasons, is mounted: it is not, once a wrong one has been kept.    *)
RightPasswordOpens ==
    [][\A j \in Jobs : job[j].at = "login" /\ job[j].kind = "cifs" /\ job[j].pass = "right"
                        /\ job'[j].at = "under" => creds' = "right"]_vars

=============================================================================
