---------------------------- MODULE UpdatesPage ----------------------------
(***************************************************************************)
(* Upgrading apps from the Updates page (public/js/app.js): the list, one   *)
(* upgrade or all of them in a chain, the ring that fills as the lines of   *)
(* the stream come in, and what the page says at the end. Of the server it  *)
(* has that one update runs at a time and what its answers are; how it does *)
(* the work is ImageUpdates.                                                *)
(***************************************************************************)
EXTENDS Naturals, Sequences, SequencesExt

CONSTANTS
    Apps,
    Layers,     \* parts that the download of an image has
    MaxEvents   \* bound: upgrades asked for, what goes wrong

VARIABLES
    version,    \* of each app: old or new
    offers,     \* newVersions of the kept check
    job,        \* the update the server is applying
    list,       \* updatesState.newVersions
    chain,      \* apps still to upgrade, the first under way
    ring,       \* upgradeRun
    told,       \* what the page said of each app
    events

vars == <<version, offers, job, list, chain, ring, told, events>>

NoJob == [of |-> "none", watched |-> FALSE]
NoRing == [of |-> "none", phase |-> 0, got |-> 0, result |-> "none"]
Nothing == [a \in Apps |-> "nothing"]

Init ==
    /\ version = [a \in Apps |-> "old"]
    /\ offers \in SUBSET Apps
    /\ job = NoJob /\ list = {} /\ chain = <<>> /\ ring = NoRing
    /\ told = Nothing
    /\ events = 0

Event == events < MaxEvents /\ events' = events + 1

(* loadUpdates(), and runUpdateCheck(), which asks the registries.          *)
Load ==
    /\ list' = offers
    /\ UNCHANGED <<version, offers, job, chain, ring, told, events>>

Check ==
    /\ offers' = {a \in Apps : version[a] = "old"} /\ list' = offers'
    /\ UNCHANGED <<version, job, chain, ring, told, events>>

(* upgradeVersion(), upgradeAll(): of the list as it is drawn. The dialogs  *)
(* cover the page until the last of them is closed.                         *)
Ask ==
    /\ Event
    /\ chain = <<>>
    /\ \E apps \in {list} \cup {{a} : a \in list} : apps # {} /\ chain' = SetToSeq(apps)
    /\ ring' = NoRing /\ told' = Nothing
    /\ UNCHANGED <<version, offers, job, list>>

(* openUpgrade() and the request: refused while another is applied, and     *)
(* where the kept check has nothing newer for it.                           *)
Open ==
    LET a == Head(chain)
        taken == job = NoJob /\ a \in offers
    IN  /\ chain # <<>> /\ ring.of # a
        /\ ring' = [of |-> a, phase |-> IF taken THEN 1 ELSE 0, got |-> 0,
                    result |-> IF taken THEN "none" ELSE "refused"]
        /\ job' = IF taken THEN [of |-> a, watched |-> TRUE] ELSE job
        /\ UNCHANGED <<version, offers, list, chain, told, events>>

Watched == job # NoJob /\ job.watched /\ ring.of = job.of

(* upPhase(): backup, download, switch, health.                             *)
Advance ==
    /\ Watched /\ ring.phase < 4
    /\ ring.phase = 2 => ring.got = Layers
    /\ ring' = [ring EXCEPT !.phase = @ + 1]
    /\ UNCHANGED <<version, offers, job, list, chain, told, events>>

(* upgradeLine(): a layer is down when the line says anything but that it   *)
(* is coming.                                                               *)
Pull ==
    /\ Watched /\ ring.phase = 2 /\ ring.got < Layers
    /\ ring' = [ring EXCEPT !.got = @ + 1]
    /\ UNCHANGED <<version, offers, job, list, chain, told, events>>

(* What the server did, whether anybody was watching.                       *)
Ends(result) ==
    /\ version' = IF result = "ok" THEN [version EXCEPT ![job.of] = "new"] ELSE version
    /\ offers' = IF result = "ok" THEN offers \ {job.of} ELSE offers
    /\ job' = NoJob

Finish ==
    /\ Watched /\ ring.phase = 4
    /\ Ends("ok")
    /\ ring' = [ring EXCEPT !.result = "ok"]
    /\ UNCHANGED <<list, chain, told, events>>

(* Any step can fail; after the switch the old version is put back.         *)
Fails ==
    /\ Event
    /\ Watched
    /\ Ends("failed")
    /\ ring' = [ring EXCEPT !.result = IF ring.phase > 2 THEN "rolled back" ELSE "failed"]
    /\ UNCHANGED <<list, chain, told>>

(* The way back fails as well, and the new version comes up late.           *)
FailsForward ==
    /\ Event
    /\ Watched /\ ring.phase > 2
    /\ Ends("ok")
    /\ ring' = [ring EXCEPT !.result = "failed"]
    /\ UNCHANGED <<list, chain, told>>

(* Slip: a stream that breaks is nobody's to catch.                         *)
CutUncaught ==
    /\ Event
    /\ Watched
    /\ job' = [job EXCEPT !.watched = FALSE]
    /\ UNCHANGED <<version, offers, list, chain, ring, told>>

(* streamUpgrade(): a stream that breaks ends as not ok; the server goes on. *)
Cut ==
    /\ Event
    /\ Watched
    /\ job' = [job EXCEPT !.watched = FALSE]
    /\ ring' = [ring EXCEPT !.result = "cut"]
    /\ UNCHANGED <<version, offers, list, chain, told>>

FinishUnseen ==
    /\ job # NoJob /\ ~job.watched
    /\ \E result \in {"ok", "failed"} : Ends(result)
    /\ UNCHANGED <<list, chain, ring, told, events>>

(* closeUpgrade() and the toast: two things can be said of an app.          *)
Say ==
    /\ chain # <<>> /\ ring.of = Head(chain) /\ ring.result # "none"
    /\ told' = [told EXCEPT ![ring.of] = IF ring.result = "ok" THEN "upgraded" ELSE "put back"]
    /\ chain' = Tail(chain)
    /\ list' = IF Tail(chain) = <<>> THEN offers ELSE list
    /\ UNCHANGED <<version, offers, job, ring, events>>

Progress == Open \/ Advance \/ Pull \/ Finish \/ FinishUnseen \/ Say

Next == Load \/ Check \/ Ask \/ Progress \/ Fails \/ FailsForward \/ Cut

(* Requests are answered or fail, and the server's commands end.            *)
Spec == Init /\ [][Next]_vars /\ WF_vars(Progress)

-----------------------------------------------------------------------------
(* upOverall(): backup, switch and health are a tenth each.                 *)
Overall ==
    IF ring.result = "ok" THEN 10 * Layers
    ELSE IF ring.phase \in {0, 1} THEN 0
    ELSE IF ring.phase = 2 THEN Layers + 7 * ring.got
    ELSE (5 + ring.phase) * Layers

(* "One that fails is put back and the rest go on" (6060): a chain comes to  *)
(* its end whatever happens to the streams.                                  *)
GoesOn == chain # <<>> ~> chain = <<>>

(* What is said of its apps: one that is said to be upgraded is ...          *)
UpgradedIsNew == \A a \in Apps : told[a] = "upgraded" => version[a] = "new"

(* ... and an app that is said to be put back has its old version. It may    *)
(* not: a stream that broke, a refusal and a way back that failed are all    *)
(* told as put back.                                                         *)
PutBackIsBack == \A a \in Apps : told[a] = "put back" => version[a] = "old"

=============================================================================
