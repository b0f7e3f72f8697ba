------------------------------- MODULE Dialogs -------------------------------
(***************************************************************************)
(* The dialogs that change the box, and the file that their saves go        *)
(* through, each on variables of its own: a state file; the settings; a     *)
(* share of a NAS; the login of an app; the lists a user keeps. They share  *)
(* no state, so what one promises is stated of its own specification.       *)
(***************************************************************************)
EXTENDS StateFile

CONSTANTS
    \* Settings
    Installable, Editors, Logins, Others, Values, Bad, Uses, MediaKeys, Folders, Alike,
    MaxSaveEvents,
    \* Storage
    Mounters, Mounts, MaxNasEvents,
    \* ResetLogin
    Strategies, Resets, MaxResetEvents,
    \* Lists
    Ids, Shipped, Mine, Pics, Pages, Calls, MaxLinks, MaxListEvents

ASSUME DialogsAssumption ==
    /\ "dashboard" \notin Installable
    /\ MaxResetEvents \in Nat

VARIABLES
    file, real, state, made, has, fields, save, again, owed, untold, saveEvents,
    units, auto, mounted, frozen, beneath, nas, creds, bind, job, answered, page, nasEvents,
    how, db, mem, up, backups, second, asked, live, reset, said, resetEvents,
    links, over, own, installed, disk, tab, req, listEvents

Settings == INSTANCE Settings WITH
    Apps <- Installable, Tabs <- Editors, MaxEvents <- MaxSaveEvents,
    tab <- fields, req <- save, events <- saveEvents

Storage == INSTANCE Storage WITH
    Apps <- Mounters, Jobs <- Mounts, MaxEvents <- MaxNasEvents, told <- answered, events <- nasEvents

Reset == INSTANCE ResetLogin WITH
    Requests <- Resets, MaxEvents <- MaxResetEvents,
    req <- reset, page <- said, events <- resetEvents

Lists == INSTANCE Lists WITH
    Tabs <- Pages, Requests <- Calls, MaxEvents <- MaxListEvents, events <- listEvents

-----------------------------------------------------------------------------
(* "Report what the server actually did, not what the key list implies"     *)
(* (app.js:2803): between saves, a container that was created with another  *)
(* value than the file's was named as not done.                             *)
ReportedIsDone == Settings!ReportedIsDone

(* Once a mount was answered, no container is given a folder of its own     *)
(* (mount-remote.sh:124-138).                                               *)
LibraryOrNothing == Storage!LibraryOrNothing

(* "Its config file is backed up first" (app.js:4621): the account an owner *)
(* is locked out of is in the app's file or in a copy of it.                *)
OwnerIsKept == Reset!OwnerIsKept

(* A move in one tab neither drops nor doubles a link that another tab has  *)
(* added or removed (bookmarks.js:94).                                      *)
MoveKeepsAll == Lists!MoveKeepsAll
=============================================================================
