------------------------------ MODULE Restore ------------------------------
(***************************************************************************)
(* Putting an archive back from the page: lib/restore.js and its routes. An*)
(* archive is staged, opened and unpacked beside the box; applying it takes*)
(* a backup, then for each item chosen stops the app, moves what there is  *)
(* aside, copies the archive's in and starts the app again. Requests are   *)
(* not kept apart, and nothing is taken up after a crash.                  *)
(***************************************************************************)
EXTENDS Archives

CONSTANTS
    AppItems,     \* the items that are apps' settings
    ITEMS,        \* the items in the order they are applied
    Stages,       \* restores that may be staged at once
    Requests,     \* requests of pages
    MaxUses       \* bound: what is asked of restores, and their failures

ASSUME RestoreAssumption == ToSet(ITEMS) = Items /\ AppItems \subseteq Items /\ MaxUses \in Nat

VARIABLES
    staged,       \* state/restore: each restore in hand
    req,          \* each request being answered
    up,           \* apps that run
    excused,      \* history: apps no restore owes a start
    thrown,       \* history: items of which the owner threw a copy away
    uses

rvars == <<staged, req, up, excused, thrown, uses>>
vars == <<avars, rvars>>

Gone == [enc |-> "none"]
Nothing == "none"
Junk == [i \in Items |-> "junk"]
Theirs == [i \in Items |-> "theirs"]

Use == uses < MaxUses /\ uses' = uses + 1

RestoreInit ==
    /\ staged = [s \in Stages |-> Gone]
    /\ req = [r \in Requests |-> Idle]
    /\ up = AppItems /\ excused = {} /\ thrown = {}
    /\ uses \in 0..MaxUses

Init == ArchivesInit /\ RestoreInit

KeepArchives == UNCHANGED avars
NoUse == UNCHANGED <<up, excused, thrown, uses>>

Go(r, at) == req' = [req EXCEPT ![r].at = at]
End(r) == req' = [req EXCEPT ![r] = Idle]
Mine(r) == staged[req[r].id]
SetMine(r, s) == staged' = [staged EXCEPT ![req[r].id] = s]

-----------------------------------------------------------------------------
(* Getting an archive here: uploaded, or one of the box's own.              *)

Sources == {Junk, Theirs} \cup {local[i].holds : i \in DOMAIN local}

Stage(r, s, holds) ==
    /\ req[r] = Idle /\ staged[s] = Gone
    /\ Use
    /\ staged' = [staged EXCEPT ![s] =
         [enc |-> "part", holds |-> holds, plain |-> "no", tree |-> "no",
          aside |-> [i \in Items |-> Nothing]]]
    /\ req' = [req EXCEPT ![r] = [at |-> "receive", id |-> s]]
    /\ KeepArchives /\ UNCHANGED <<up, excused, thrown>>

Received(r) ==
    /\ req[r].at = "receive"
    /\ IF Mine(r) = Gone THEN UNCHANGED staged ELSE SetMine(r, [Mine(r) EXCEPT !.enc = "whole"])
    /\ End(r)
    /\ KeepArchives /\ NoUse

(* Too large, empty, or the connection ended: the stage goes again.         *)
ReceiveFails(r) ==
    /\ req[r].at = "receive"
    /\ Use
    /\ SetMine(r, Gone) /\ End(r)
    /\ KeepArchives /\ UNCHANGED <<up, excused, thrown>>

-----------------------------------------------------------------------------
(* inspect(): decrypt unless that was done, list, unpack unless that was.   *)

Inspect(r, s) ==
    /\ req[r] = Idle /\ staged[s] # Gone
    /\ Use
    /\ req' = [req EXCEPT ![r] = [at |-> "open", id |-> s, items |-> {}]]
    /\ KeepArchives /\ UNCHANGED <<staged, up, excused, thrown>>

(* A failed request is answered with an error.                              *)
Refuse(r) == End(r) /\ UNCHANGED staged

Open(r) ==
    /\ req[r].at = "open"
    /\ IF Mine(r) = Gone THEN Refuse(r)
       ELSE IF Mine(r).plain = "no"
       THEN SetMine(r, [Mine(r) EXCEPT !.plain = "half"]) /\ Go(r, "decrypt")
       ELSE Go(r, "list") /\ UNCHANGED staged
    /\ KeepArchives /\ NoUse

(* What does not authenticate leaves no readable copy.                      *)
Decrypt(r) ==
    /\ req[r].at = "decrypt"
    /\ IF Mine(r) = Gone THEN Refuse(r)
       ELSE IF Mine(r).enc = "whole" /\ Mine(r).holds # Junk
       THEN SetMine(r, [Mine(r) EXCEPT !.plain = "yes"]) /\ Go(r, "list")
       ELSE SetMine(r, [Mine(r) EXCEPT !.plain = "no"]) /\ End(r)
    /\ KeepArchives /\ NoUse

ListEntries(r) ==
    /\ req[r].at = "list"
    /\ IF Mine(r) = Gone \/ Mine(r).plain # "yes" THEN Refuse(r)
       ELSE IF Mine(r).tree = "no"
       THEN SetMine(r, [Mine(r) EXCEPT !.tree = "half"]) /\ Go(r, "unpack")
       ELSE Go(r, "read") /\ UNCHANGED staged
    /\ KeepArchives /\ NoUse

Unpack(r) ==
    /\ req[r].at = "unpack"
    /\ IF Mine(r) = Gone THEN Refuse(r)
       ELSE SetMine(r, [Mine(r) EXCEPT !.tree = "yes"]) /\ Go(r, "read")
    /\ KeepArchives /\ NoUse

(* The disk is full, or tar takes too long: what was unpacked stays.        *)
UnpackFails(r) ==
    /\ req[r].at = "unpack"
    /\ Use
    /\ Refuse(r)
    /\ KeepArchives /\ UNCHANGED <<up, excused, thrown>>

InPlan(s) == {i \in Items : s.holds[i] # Nothing}

(* The plan is read; a restore goes on to its backup.                       *)
Read(r) ==
    /\ req[r].at = "read"
    /\ LET todo == IF Mine(r) = Gone THEN <<>>
                   ELSE SelectSeq(ITEMS, LAMBDA i : i \in req[r].items \cap InPlan(Mine(r)))
       IN  IF todo = <<>> THEN End(r)
           ELSE req' = [req EXCEPT ![r] = [at |-> "backup", id |-> @.id, todo |-> todo]]
    /\ UNCHANGED staged
    /\ KeepArchives /\ NoUse

-----------------------------------------------------------------------------
(* apply()                                                                  *)

Apply(r, s, items) ==
    /\ req[r] = Idle /\ staged[s] # Gone /\ staged[s].tree # "no"
    /\ Use
    /\ req' = [req EXCEPT ![r] = [at |-> "open", id |-> s, items |-> items]]
    /\ KeepArchives /\ UNCHANGED <<staged, up, excused, thrown>>

(* "A backup of the box as it is now, BEFORE anything is written over"      *)
Backup(r) ==
    /\ req[r].at = "backup"
    /\ IF InFlight THEN End(r) /\ UNCHANGED job
       ELSE /\ job' = [job EXCEPT !["apply"] = Begin]
            /\ Go(r, "waiting")
    /\ Same(<<local, nas, sched, saving, made, lastSlot, events, staged>>) /\ NoUse

(* A backup answers, or never does; one that could not make its directory   *)
(* has answered and keeps the flag.                                         *)
Answers == {"ready", "failed", "refused"}
FlagAfter ==
    job' = [job EXCEPT !["apply"] = IF @.at = "refused" THEN Stuck ELSE Idle]

(* Slip: a backup that fails is said, and the restore goes on.              *)
BackedUpAnyway(r) ==
    /\ req[r].at = "waiting" /\ job["apply"].at \in Answers
    /\ FlagAfter
    /\ Go(r, "stop")
    /\ Same(<<local, nas, sched, saving, made, lastSlot, events, staged>>) /\ NoUse

BackedUp(r) ==
    /\ req[r].at = "waiting" /\ job["apply"].at \in Answers
    /\ FlagAfter
    /\ IF job["apply"].at = "ready" THEN Go(r, "stop") ELSE End(r)
    /\ Same(<<local, nas, sched, saving, made, lastSlot, events, staged>>) /\ NoUse

Item(r) == Head(req[r].todo)

(* The next item; after the last one the decrypted copies go.               *)
NextItem(r) ==
    LET rest == Tail(req[r].todo)
    IN  req' = [req EXCEPT ![r] = [at |-> IF rest = <<>> THEN "clean" ELSE "stop",
                                   id |-> @.id, todo |-> rest]]

(* Stopping an app that does not run succeeds.                              *)
Stop(r) ==
    /\ req[r].at = "stop"
    /\ IF Mine(r) = Gone THEN NextItem(r) /\ UNCHANGED up
       ELSE /\ up' = up \ {Item(r)}
            /\ req' = [req EXCEPT ![r] = [at |-> "aside", id |-> @.id, todo |-> @.todo,
                                          was |-> Item(r) \in AppItems]]
    /\ KeepArchives /\ UNCHANGED <<staged, excused, thrown, uses>>

StopFails(r) ==
    /\ req[r].at = "stop" /\ Item(r) \in AppItems /\ Mine(r) # Gone
    /\ Use
    /\ req' = [req EXCEPT ![r] = [at |-> "aside", id |-> @.id, todo |-> @.todo, was |-> FALSE]]
    /\ KeepArchives /\ UNCHANGED <<staged, up, excused, thrown>>

(* .env is copied aside and written over; the rest is moved.                *)
Aside(r) ==
    LET i == Item(r)
    IN  /\ req[r].at = "aside"
        /\ IF live[i] = Nothing THEN Go(r, "copy") /\ UNCHANGED <<staged, live>>
           ELSE IF Mine(r) = Gone THEN Go(r, "start") /\ UNCHANGED <<staged, live>>
           ELSE /\ SetMine(r, [Mine(r) EXCEPT !.aside[i] = live[i]])
                /\ live' = IF i = ".env" THEN live ELSE [live EXCEPT ![i] = Nothing]
                /\ Go(r, "copy")
        /\ UNCHANGED <<mounted, clock, local, nas, sched, saving, job, made, lastSlot, events>>
        /\ NoUse

(* Copying is not one step: what is cut off is half there.                  *)
Copy(r) ==
    /\ req[r].at = "copy"
    /\ IF Mine(r) = Gone THEN Go(r, "start") /\ UNCHANGED live
       ELSE live' = [live EXCEPT ![Item(r)] = "half"] /\ Go(r, "copying")
    /\ UNCHANGED <<mounted, clock, local, nas, sched, saving, job, made, lastSlot, events, staged>>
    /\ NoUse

Copied(r) ==
    /\ req[r].at = "copying"
    /\ live' = IF Mine(r) # Gone /\ Mine(r).tree = "yes"
               THEN [live EXCEPT ![Item(r)] = Mine(r).holds[Item(r)]] ELSE live
    /\ Go(r, "start")
    /\ UNCHANGED <<mounted, clock, local, nas, sched, saving, job, made, lastSlot, events, staged>>
    /\ NoUse

CopyFails(r) ==
    /\ req[r].at = "copying"
    /\ Use
    /\ Go(r, "start")
    /\ KeepArchives /\ UNCHANGED <<staged, up, excused, thrown>>

(* Slip: only what was copied is started again.                             *)
StartIfCopied(r) ==
    /\ req[r].at = "start"
    /\ up' = IF req[r].was /\ live[Item(r)] # "half" THEN up \cup {Item(r)} ELSE up
    /\ NextItem(r)
    /\ KeepArchives /\ UNCHANGED <<staged, excused, thrown, uses>>

Start(r) ==
    /\ req[r].at = "start"
    /\ up' = IF req[r].was THEN up \cup {Item(r)} ELSE up
    /\ NextItem(r)
    /\ KeepArchives /\ UNCHANGED <<staged, excused, thrown, uses>>

StartFails(r) ==
    /\ req[r].at = "start" /\ req[r].was
    /\ Use
    /\ excused' = excused \cup {Item(r)}
    /\ NextItem(r)
    /\ KeepArchives /\ UNCHANGED <<staged, up, thrown>>

Clean(r) ==
    /\ req[r].at = "clean"
    /\ IF Mine(r) = Gone THEN UNCHANGED staged
       ELSE SetMine(r, [Mine(r) EXCEPT !.plain = "no", !.tree = "no"])
    /\ End(r)
    /\ KeepArchives /\ NoUse

-----------------------------------------------------------------------------
(* Whoever throws an archive or a staged restore away knows what is in it.  *)
Held(archives) == {i \in Items : \E k \in DOMAIN archives : archives[k].holds[i] = "mine"}
Lost == thrown' = thrown \cup (Held(local) \ Held(local'))

Discard(s) ==
    /\ staged[s] # Gone
    /\ Use
    /\ staged' = [staged EXCEPT ![s] = Gone]
    /\ thrown' = thrown \cup {i \in Items : staged[s].aside[i] = "mine"}
    /\ KeepArchives /\ UNCHANGED <<req, up, excused>>

(* The dashboard dies, or the power goes; an app that is down stays down.   *)
Crash(power) ==
    /\ Use
    /\ req' = [r \in Requests |-> Idle]
    /\ job' = IF power THEN [m \in Makers |-> Idle] ELSE DashboardDies
    /\ nas' = IF power THEN {IF f.at = "incoming" THEN File(f.n, "left", f.whole, 0) ELSE f : f \in nas}
              ELSE nas
    /\ saving' = Idle
    /\ excused' = excused \cup (AppItems \ up)
    /\ UNCHANGED <<live, local, mounted, sched, made, lastSlot, clock, events, staged, up, thrown>>

RequestStep(r) ==
    \/ Received(r) \/ Open(r) \/ Decrypt(r) \/ ListEntries(r) \/ Unpack(r) \/ Read(r)
    \/ Backup(r) \/ BackedUp(r) \/ Stop(r) \/ Aside(r) \/ Copy(r) \/ Copied(r) \/ Start(r) \/ Clean(r)

RequestFails(r) ==
    ReceiveFails(r) \/ UnpackFails(r) \/ StopFails(r) \/ CopyFails(r) \/ StartFails(r)

Next ==
    \/ ArchivesNext /\ Lost /\ UNCHANGED <<staged, req, up, excused, uses>>
    \/ \E r \in Requests :
         \/ RequestStep(r) \/ RequestFails(r)
         \/ \E s \in Stages :
              \/ \E holds \in Sources : Stage(r, s, holds)
              \/ Inspect(r, s)
              \/ \E items \in SUBSET Items \ {{}} : Apply(r, s, items)
    \/ \E s \in Stages : Discard(s)
    \/ \E power \in BOOLEAN : Crash(power)

Spec == Init /\ [][Next]_vars
FairSpec == Spec /\ ArchivesFair /\ \A r \in Requests : WF_vars(RequestStep(r))

-----------------------------------------------------------------------------
(* However often restores are applied, cut off, failed or discarded, what   *)
(* the box had before the first is somewhere: in place, aside, or in an     *)
(* archive, unless its owner or the retention threw that copy away.         *)
NeverLost ==
    \A i \in Items \ thrown :
        \/ live[i] = "mine"
        \/ \E s \in Stages : staged[s] # Gone /\ staged[s].aside[i] = "mine"
        \/ i \in Held(local)

(* "stops only the apps it is about to rewrite ... and starts them again"   *)
(* (22-24), whichever step of a restore failed.                             *)
ComeBack == \A a \in AppItems : []<>(a \in up \cup excused)

(* "what was replaced stays until the restore is discarded, as the way      *)
(* back" (457-458). Applying again puts what the first time put in its      *)
(* place there instead: it does not hold.                                   *)
WayBack ==
    [][\A s \in Stages, i \in Items :
         staged[s] # Gone /\ staged[s].aside[i] = "mine" /\ staged'[s] # Gone
           => staged'[s].aside[i] = "mine"]_vars
=============================================================================
