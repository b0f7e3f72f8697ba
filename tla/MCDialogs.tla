------------------------------ MODULE MCDialogs ------------------------------
(* The dialogs explored one beside the other, with the lists a user keeps:  *)
(* `part` says whose behaviour it is, the others stay where they begin.     *)
(* Both apps have a folder on the media disk; the zone is the second app's  *)
(* and the dashboard's.                                                     *)
EXTENDS Dialogs, TLC

CONSTANTS w1, w2, r1

MCWriters == {w1, w2}
MCReaders == {r1}
MCLogins == <<"qbit", "jellyfin">>
MCUses == ("media" :> {"a", "b"}) @@ ("zone" :> {"b", "dashboard"})
MCFolders == [app \in Installable |-> {"media"}]

VARIABLE part

settings == <<file, real, state, made, has, fields, save, again, owed, untold, saveEvents>>
lists == <<links, over, own, installed, disk, tab, req, listEvents>>
storage == <<units, auto, mounted, frozen, beneath, nas, creds, bind, job, answered,
             page, nasEvents>>
login == <<how, db, mem, up, backups, second, asked, live, reset, said, resetEvents>>

(* One place to stay at for a part whose behaviour it is not.               *)
MCInit ==
    /\ part \in {"file", "settings", "lists", "storage", "login"}
    /\ Init /\ Settings!Init /\ Lists!Init /\ Storage!Init /\ Reset!Init
    /\ part # "settings" =>
         \A k \in DOMAIN state : state[k] = "running" /\ \A l \in DOMAIN file : file[l] = "v"
    /\ part # "file" => content[0] = Doc(w1)
    /\ part # "storage" => beneath = "empty"
    /\ part # "login" => how = "jellyfin" /\ up

MCNext ==
    /\ UNCHANGED part
    /\ \/ part = "file" /\ Next /\ UNCHANGED <<settings, lists, storage, login>>
       \/ part = "settings" /\ Settings!Next /\ UNCHANGED <<vars, lists, storage, login>>
       \/ part = "lists" /\ Lists!Next /\ UNCHANGED <<vars, settings, storage, login>>
       \/ part = "storage" /\ Storage!Next /\ UNCHANGED <<vars, settings, lists, login>>
       \/ part = "login" /\ Reset!Next /\ UNCHANGED <<vars, settings, lists, storage>>

MCSpec == MCInit /\ [][MCNext]_<<part, vars, settings, lists, storage, login>>
=============================================================================
