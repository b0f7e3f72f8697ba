------------------------------- MODULE MCPage -------------------------------
(* What a page shows of what the box does: the apps page, the release that   *)
(* is on offer, the ring of Podhouse's own update and that of a chain of     *)
(* upgrades. They share no state, so they are explored one beside the other: *)
(* `part` says whose behaviour it is, the others stay where they begin. The  *)
(* apps page is explored twice: one chain of clicks with all that the box,   *)
(* other browsers and failures do ("apps"), and two chains with a user who   *)
(* reaches behind dialogs, while no list is answered ("chains").             *)
EXTENDS Page

VARIABLES
    part,
    manifest, current, online, cache, dot, card, check, checkEvents,
    run, files, up, verdict, ring, shown, poll, asked, gaveUp, ringEvents,
    version, offers, job, list, chain, upgradeRun, told, chainEvents

release == <<manifest, current, online, cache, dot, card, check, checkEvents>>
update == <<run, files, up, verdict, ring, shown, poll, asked, gaveUp, ringEvents>>
upgrades == <<version, offers, job, list, chain, upgradeRun, told, chainEvents>>

MCChecks == {"timer", "page"}

Release == INSTANCE ReleaseCheck WITH
    Versions <- 1..2, Floors <- 1..2, Checks <- MCChecks, MaxEvents <- 2, events <- checkEvents

Update == INSTANCE UpdateRing WITH
    MaxRuns <- 2, MaxLines <- 1, MaxEvents <- 1, events <- ringEvents

Upgrades == INSTANCE UpdatesPage WITH
    Apps <- {"a", "b"}, Layers <- 2, MaxEvents <- 3, ring <- upgradeRun, events <- chainEvents

(* One place to stay at for a part whose behaviour it is not.                *)
MCInit ==
    /\ part \in {"apps", "chains", "release", "update", "upgrades"}
    /\ Init /\ Release!Init /\ Update!Init /\ Upgrades!Init
    /\ part # "release" => manifest.stable = 1 /\ manifest.floor = 1 /\ current = 1
    /\ part # "upgrades" => offers = {}

MCNext ==
    /\ UNCHANGED part
    /\ \/ /\ part = "apps" /\ Next
          /\ \A f \in Flows \ {CHOOSE f \in Flows : TRUE} : flow'[f] = Idle
          /\ UNCHANGED <<release, update, upgrades>>
       \/ /\ part = "chains" /\ (Serve \/ Page \/ User \/ Summary)
          /\ UNCHANGED <<release, update, upgrades>>
       \/ part = "release" /\ Release!Next /\ UNCHANGED <<vars, update, upgrades>>
       \/ part = "update" /\ Update!Next /\ UNCHANGED <<vars, release, upgrades>>
       \/ part = "upgrades" /\ Upgrades!Next /\ UNCHANGED <<vars, release, update>>

(* The fairness of each part, as its module states it.                       *)
MCFairness ==
    /\ WF_vars(part = "apps" /\ Poll)
    /\ WF_vars(part = "apps" /\ \E i \in DOMAIN lists : Answer(i))
    /\ WF_vars(part = "apps" /\ \E i \in DOMAIN lists : Land(i))
    /\ WF_vars(part = "apps" /\ Serve)
    /\ WF_vars(part = "apps" /\ Page)
    /\ WF_release(part = "release" /\ Release!Badge)
    /\ \A c \in MCChecks :
         WF_release(part = "release"
                    /\ (Release!Start(c, 0) \/ Release!Fetch(c) \/ Release!Write(c)))
    /\ WF_update(part = "update" /\ Update!Script)
    /\ WF_update(part = "update" /\ Update!GraceEnds)
    /\ WF_update(part = "update" /\ Update!Tick)
    /\ WF_update(part = "update" /\ Update!Browser)
    /\ WF_upgrades(part = "upgrades" /\ Upgrades!Progress)

MCSpec == MCInit /\ [][MCNext]_<<part, vars, release, update, upgrades>> /\ MCFairness

(* The properties of the parts, each stated in its module: the page comes to *)
(* show what the server has, where its lists are answered.                   *)
ListsFresh == (part = "chains") \/ Fresh
FreezeReaches == Release!FreezeReaches
RingEnds == Update!RingEnds
GoesOn == Upgrades!GoesOn
=============================================================================
