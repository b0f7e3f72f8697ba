--------------------------- MODULE PlatformUpdate ---------------------------
(***************************************************************************)
(* Podhouse updating itself: the button (lib/platform.js, which asks the    *)
(* worker for a detached helper) and `homebox self-update` both start       *)
(* scripts/self-update.sh on the host, which checks out a release, runs its *)
(* migrations, rebuilds the dashboard, and goes back when any of it fails.  *)
(*                                                                          *)
(* Releases are numbered in version order and 0 is the one the box is on    *)
(* first. A migration is named for its release; what it changes is in .env. *)
(* Whatever is written in place (the tree by git, .env by a migration, by    *)
(* install.sh and by tar, the record of migrations by node and by tar) is    *)
(* half written when its writer stops in the middle of it.                   *)
(***************************************************************************)
EXTENDS FiniteSetsExt, Naturals

CONSTANTS
    Releases,     \* releases there are tags for
    Migrating,    \* those that come with a migrations/<version>/up.sh
    NoFile,       \* no state/migrations-done.json
    Half,         \* a tree or an .env whose writer stopped in the middle of it
    Requests,     \* POST /api/platform/upgrade requests
    MaxRuns,      \* bound: scripts ever started
    MaxLosses     \* bound: power cuts

ASSUME PlatformAssumption ==
    /\ Releases \subseteq Nat \ {0} /\ Migrating \subseteq Releases
    /\ Half \notin Nat
    /\ {MaxRuns, MaxLosses} \subseteq Nat

VARIABLES
    tree,      \* VERSION in the working tree
    running,   \* the release the dashboard was last built from
    env,       \* the migrations whose change is in .env
    recorded,  \* state/migrations-done.json
    lock,      \* state/platform-update.lock: whose pid it holds
    phase,     \* state/platform-progress.json: the phase it shows
    web,       \* where each upgrade request is
    wants,     \* the release each asks for
    run,       \* each script
    runs, losses,
    raced,     \* history: two scripts have looked at the lock before either took it
    kept       \* history: migrations the record has kept through a way back

box == <<tree, running, env, recorded>>
history == <<raced, kept>>
vars == <<box, lock, phase, web, wants, run, runs, losses, history>>

\* The dashboard's helper and an SSH session: one script at a time each.
Scripts == {"button", "cli"}

NoLock == "no lock"

Gone == "a pid that is gone"

Versions == Releases \cup {0}

Final == {"done", "failed"}

Before == {"lock?", "take"}

Held == {"sanity", "backup", "fetch", "checkout", "migrate", "record", "install", "health",
         "finish", "back tree", "back state", "back env", "rebuild", "fail", "unlock"}

Idle == [at |-> "off", to |-> 0, sha |-> 0, upto |-> 0, saved |-> NoFile, was |-> NoFile,
         clean |-> TRUE]

Fresh(v) == [Idle EXCEPT !.at = "lock?", !.to = v]

Alive(s) == run[s].at # "off"

Go(s, place) == run' = [run EXCEPT ![s].at = place]

Says(p) == phase' = p

\* The migrations recorded: no file, or one that cannot be read, records none.
Recorded == IF recorded = NoFile THEN {} ELSE recorded

Init ==
    /\ tree = 0 /\ running = 0 /\ env = {}
    /\ recorded \in {NoFile, {}}   \* installed before 0.2.0, or by it and after
    /\ lock = NoLock /\ phase = "done"
    /\ web = [r \in Requests |-> "idle"] /\ wants = [r \in Requests |-> 0]
    /\ run = [s \in Scripts |-> Idle]
    /\ runs = 0 /\ losses = 0
    /\ raced = FALSE /\ kept = {}

-----------------------------------------------------------------------------
(* What stops in the middle.                                                *)

\* Mutant of Pending: the release being moved to has nothing to carry out.
PendingBelow(s) == {m \in Migrating : (tree = Half \/ m < tree) /\ m > run[s].upto} \ Recorded

\* A step of the way back that fails is warned about, and the next is tried.
Fumbled(s, place) == run' = [run EXCEPT ![s].at = place, ![s].clean = FALSE]

\* What the tree at hand ships, this run has not come to yet and the record
\* does not name, in version order.
Pending(s) == {m \in Migrating : (tree = Half \/ m <= tree) /\ m > run[s].upto} \ Recorded

\* .env once migration m has been carried out.
Done(m) == IF env = Half THEN Half ELSE env \cup {m}

\* What a script that is stopped in the middle of its step may leave behind
\* of it, instead of what was there.
TornTree(s) ==
    CASE run[s].at = "checkout" -> {run[s].to, Half}
      [] run[s].at = "back tree" -> {run[s].sha, Half}
      [] OTHER -> {}

TornRunning(s) == IF run[s].at \in {"install", "rebuild"} THEN {tree} ELSE {}

TornEnv(s) ==
    CASE run[s].at = "migrate" /\ Pending(s) # {} -> {Done(Min(Pending(s))), Half}
      [] run[s].at \in {"install", "rebuild"} -> {Half}
      [] run[s].at = "back env" -> {run[s].saved.env, Half}
      [] OTHER -> {}

TornRecord(s) ==
    CASE run[s].at = "record" -> {Recorded \cup {run[s].upto}, {}}
      [] run[s].at = "back state" /\ run[s].saved.recorded # NoFile ->
             {run[s].saved.recorded, NoFile, {}}
      [] OTHER -> {}

\* The scripts P stop, each wherever it is.
Stop(P) ==
    /\ tree' \in {tree} \cup UNION {TornTree(s) : s \in P}
    /\ running' \in {running} \cup UNION {TornRunning(s) : s \in P}
    /\ env' \in {env} \cup UNION {TornEnv(s) : s \in P}
    /\ recorded' \in {recorded} \cup UNION {TornRecord(s) : s \in P}
    /\ run' = [s \in Scripts |-> IF s \in P THEN Idle ELSE run[s]]

\* They leave the lock, with their pid in it, or with none when one of them
\* was about to write it.
Orphans(P) ==
    \/ lock' = IF lock \in P THEN Gone ELSE lock
    \/ (\E s \in P : run[s].at = "take") /\ lock' = Gone

-----------------------------------------------------------------------------
(* The button: platform.upgrade in the web process.                         *)

\* The check answered that v is newer than this box (of a half written tree
\* VERSION may be anything); then the lock is looked at.
Refuses == lock # NoLock /\ phase \notin Final

Press(r) ==
    /\ web[r] = "idle"
    /\ \E v \in Releases :
        /\ tree # Half => v > tree
        /\ wants' = [wants EXCEPT ![r] = v]
    /\ web' = [web EXCEPT ![r] = IF Refuses THEN "refused" ELSE "accepted"]
    /\ UNCHANGED <<box, lock, phase, run, runs, losses, history>>

\* Thrown to the page as an error; nothing was written.
Refused(r) ==
    /\ web[r] = "refused"
    /\ web' = [web EXCEPT ![r] = "idle"]
    /\ wants' = [wants EXCEPT ![r] = 0]
    /\ UNCHANGED <<box, lock, phase, run, runs, losses, history>>

Starting(r) ==
    /\ web[r] = "accepted"
    /\ Says("starting")
    /\ web' = [web EXCEPT ![r] = "clear"]
    /\ UNCHANGED <<box, lock, wants, run, runs, losses, history>>

\* Mutant of Clear: the lock goes with the helper.
ClearWithLock(r) ==
    /\ web[r] \in {"clear", "clear again"}
    /\ Stop({"button"})
    /\ lock' = NoLock
    /\ web' = [web EXCEPT ![r] = IF web[r] = "clear" THEN "clear again" ELSE "launch"]
    /\ UNCHANGED <<phase, wants, runs, losses, history>>

\* docker rm -f of the last helper, with whatever it is doing: asked for by
\* upgrade, and again by the worker before it starts the next.
Clear(r) ==
    /\ web[r] \in {"clear", "clear again"}
    /\ Stop({"button"}) /\ Orphans({"button"})
    /\ web' = [web EXCEPT ![r] = IF web[r] = "clear" THEN "clear again" ELSE "launch"]
    /\ UNCHANGED <<phase, wants, runs, losses, history>>

Launch(r) ==
    /\ web[r] = "launch"
    /\ ~Alive("button") /\ runs < MaxRuns
    /\ run' = [run EXCEPT !["button"] = Fresh(wants[r])]
    /\ runs' = runs + 1
    /\ web' = [web EXCEPT ![r] = "idle"]
    /\ wants' = [wants EXCEPT ![r] = 0]
    /\ UNCHANGED <<box, lock, phase, losses, history>>

\* docker refuses, for one because another request has just started a helper
\* of that name. This is the only place that will ever know.
LaunchFails(r) ==
    /\ web[r] = "launch"
    /\ Says("failed")
    /\ web' = [web EXCEPT ![r] = "idle"]
    /\ wants' = [wants EXCEPT ![r] = 0]
    /\ UNCHANGED <<box, lock, run, runs, losses, history>>

\* `homebox self-update`, with --to any release there is, the one the box is
\* on among them.
Command ==
    /\ ~Alive("cli") /\ runs < MaxRuns
    /\ \E v \in Releases : run' = [run EXCEPT !["cli"] = Fresh(v)]
    /\ runs' = runs + 1
    /\ UNCHANGED <<box, lock, phase, web, wants, losses, history>>

-----------------------------------------------------------------------------
(* scripts/self-update.sh                                                   *)

\* kill -0 of the pid in the lock. A pid that is gone may have been given to
\* another process since.
LockFree == lock \in {NoLock, Gone}

LockTaken == lock # NoLock

\* Looking at the lock and writing it are two commands: another script may
\* have looked and not written yet, or have emptied the file to write it.
FindFree(s) ==
    /\ run[s].at = "lock?" /\ LockFree
    /\ Go(s, "take")
    /\ raced' = (raced \/ \E o \in Scripts : run[o].at = "take")
    /\ UNCHANGED <<box, lock, phase, web, wants, runs, losses, kept>>

FindTaken(s) ==
    /\ run[s].at = "lock?" /\ LockTaken
    /\ run' = [run EXCEPT ![s] = Idle]
    /\ UNCHANGED <<box, lock, phase, web, wants, runs, losses, history>>

\* `was` is kept by no code: what the box was when this run began.
Take(s) ==
    /\ run[s].at = "take"
    /\ lock' = s
    /\ run' = [run EXCEPT ![s].at = "sanity",
                 ![s].was = [tree |-> tree, running |-> running, env |-> env,
                             recorded |-> recorded]]
    /\ UNCHANGED <<box, phase, web, wants, runs, losses, history>>

\* fail: nothing has been switched, so there is nothing to put back.
GivesUp(s) ==
    /\ run[s].at \in {"sanity", "backup", "fetch", "checkout"}
    /\ Go(s, "fail")
    /\ Says("working")
    /\ UNCHANGED <<box, lock, web, wants, runs, losses, history>>

\* A clean tree that git can read; its HEAD is the way back. A half written
\* one has local changes, and is refused.
Sanity(s) ==
    /\ run[s].at = "sanity" /\ tree # Half
    /\ run' = [run EXCEPT ![s].at = "backup", ![s].sha = tree]
    /\ Says("working")
    /\ UNCHANGED <<box, lock, web, wants, runs, losses, history>>

\* tar of state/ and .env, read back before it is trusted.
Tarball(s) ==
    /\ run[s].at = "backup"
    /\ run' = [run EXCEPT ![s].at = "fetch",
                 ![s].saved = [recorded |-> recorded, env |-> env]]
    /\ Says("working")
    /\ UNCHANGED <<box, lock, web, wants, runs, losses, history>>

\* The tag is there, signed as it must be, and updates are not frozen.
Fetch(s) ==
    /\ run[s].at = "fetch"
    /\ Go(s, "checkout")
    /\ Says("working")
    /\ UNCHANGED <<box, lock, web, wants, runs, losses, history>>

\* Mutant of Checkout: the way back is HEAD once the release is checked out.
CheckoutThenSha(s) ==
    /\ run[s].at = "checkout"
    /\ tree' = run[s].to
    /\ run' = [run EXCEPT ![s].at = "migrate", ![s].sha = run[s].to]
    /\ Says("working")
    /\ UNCHANGED <<running, env, recorded, lock, web, wants, runs, losses, history>>

Checkout(s) ==
    /\ run[s].at = "checkout"
    /\ tree' = run[s].to
    /\ Go(s, "migrate")
    /\ Says("working")
    /\ UNCHANGED <<running, env, recorded, lock, web, wants, runs, losses, history>>

\* git stops in the middle of the files it writes: the release is not checked
\* out, and neither is the old one.
CheckoutFails(s) ==
    /\ run[s].at = "checkout"
    /\ tree' = Half
    /\ Fumbled(s, "fail")
    /\ Says("working")
    /\ UNCHANGED <<running, env, recorded, lock, web, wants, runs, losses, history>>

Migrate(s) ==
    /\ run[s].at = "migrate" /\ Pending(s) # {}
    /\ env' = Done(Min(Pending(s)))
    /\ run' = [run EXCEPT ![s].at = "record", ![s].upto = Min(Pending(s))]
    /\ Says("working")
    /\ UNCHANGED <<tree, running, recorded, lock, web, wants, runs, losses, history>>

\* A migration that fails may have changed .env before it did, or in part.
MigrateFails(s) ==
    /\ run[s].at = "migrate" /\ Pending(s) # {}
    /\ env' \in {env, Done(Min(Pending(s))), Half}
    /\ Go(s, "back tree")
    /\ Says("working")
    /\ UNCHANGED <<tree, running, recorded, lock, web, wants, runs, losses, history>>

\* Written or not, or left empty by a full disk: the run goes on.
Record(s) ==
    /\ run[s].at = "record"
    /\ recorded' \in {Recorded \cup {run[s].upto}, recorded, {}}
    /\ Go(s, "migrate")
    /\ UNCHANGED <<tree, running, env, lock, phase, web, wants, runs, losses, history>>

NoneLeft(s) ==
    /\ run[s].at = "migrate" /\ Pending(s) = {}
    /\ Go(s, "install")
    /\ Says("working")
    /\ UNCHANGED <<box, lock, web, wants, runs, losses, history>>

\* install.sh, which writes this release's own number into .env.
Install(s) ==
    /\ run[s].at = "install"
    /\ running' = tree
    /\ Go(s, "health")
    /\ Says("working")
    /\ UNCHANGED <<tree, env, recorded, lock, web, wants, runs, losses, history>>

\* install.sh fails with the dashboard rebuilt or not, and with .env, which it
\* writes in place, whole or not.
InstallFails(s) ==
    /\ run[s].at = "install"
    /\ running' \in {running, tree} /\ env' \in {env, Half}
    /\ Go(s, "back tree")
    /\ Says("working")
    /\ UNCHANGED <<tree, recorded, lock, web, wants, runs, losses, history>>

Health(s) ==
    /\ run[s].at = "health"
    /\ \E place \in {"finish", "back tree"} : Go(s, place)
    /\ Says("working")
    /\ UNCHANGED <<box, lock, web, wants, runs, losses, history>>

Finish(s) ==
    /\ run[s].at = "finish"
    /\ Says("done")
    /\ Go(s, "unlock")
    /\ UNCHANGED <<box, lock, web, wants, runs, losses, history>>

BackTree(s) ==
    /\ run[s].at = "back tree"
    /\ Says("working")
    /\ \/ tree' = run[s].sha /\ Go(s, "back state")
       \/ tree' \in {tree, Half} /\ Fumbled(s, "back state")
    /\ UNCHANGED <<running, env, recorded, lock, web, wants, runs, losses, history>>

\* Mutant of Unpacked: the archive leaves the record of migrations out.
UnpackedWithout(s) == recorded

\* tar -x writes what the archive holds and removes nothing.
Unpacked(s) == IF run[s].saved.recorded = NoFile THEN recorded ELSE run[s].saved.recorded

\* In the order the archive was written: state, then .env. Of each file tar
\* removes what is there and writes it anew, and stops at a full disk.
BackState(s) ==
    /\ run[s].at = "back state"
    /\ \/ /\ recorded' = Unpacked(s) /\ Go(s, "back env")
          /\ kept' = kept \cup (IF run[s].saved.recorded = NoFile THEN Recorded ELSE {})
       \/ recorded' = recorded /\ Fumbled(s, "rebuild") /\ UNCHANGED kept
       \/ /\ run[s].saved.recorded # NoFile
          /\ recorded' \in {NoFile, {}} /\ UNCHANGED kept
          /\ \E place \in {"back env", "rebuild"} : Fumbled(s, place)
    /\ UNCHANGED <<tree, running, env, lock, phase, web, wants, runs, losses, raced>>

BackEnv(s) ==
    /\ run[s].at = "back env"
    /\ \/ env' = run[s].saved.env /\ Go(s, "rebuild")
       \/ env' \in {env, Half} /\ Fumbled(s, "rebuild")
    /\ UNCHANGED <<tree, running, recorded, lock, phase, web, wants, runs, losses, history>>

\* install.sh of whatever tree is there, whose exit status nobody looks at.
Rebuild(s) ==
    /\ run[s].at = "rebuild"
    /\ \/ running' = tree /\ env' = env /\ Go(s, "fail")
       \/ running' \in {running, tree} /\ env' \in {env, Half} /\ Fumbled(s, "fail")
    /\ UNCHANGED <<tree, recorded, lock, phase, web, wants, runs, losses, history>>

Fail(s) ==
    /\ run[s].at = "fail"
    /\ Says("failed")
    /\ Go(s, "unlock")
    /\ UNCHANGED <<box, lock, web, wants, runs, losses, history>>

Unlock(s) ==
    /\ run[s].at = "unlock"
    /\ lock' = NoLock
    /\ run' = [run EXCEPT ![s] = Idle]
    /\ UNCHANGED <<box, phase, web, wants, runs, losses, history>>

-----------------------------------------------------------------------------
\* Everything running stops, and the dashboard and the page are there again
\* after.
PowerCut ==
    /\ losses < MaxLosses
    /\ losses' = losses + 1
    /\ Stop(Scripts) /\ Orphans(Scripts)
    /\ web' = [r \in Requests |-> "idle"] /\ wants' = [r \in Requests |-> 0]
    /\ UNCHANGED <<phase, runs, history>>

Request(r) == Press(r) \/ Refused(r) \/ Starting(r) \/ Clear(r) \/ Launch(r) \/ LaunchFails(r)

Forward(s) ==
    \/ FindFree(s) \/ FindTaken(s) \/ Take(s) \/ Sanity(s) \/ Tarball(s) \/ Fetch(s)
    \/ Checkout(s) \/ Migrate(s) \/ Record(s) \/ NoneLeft(s) \/ Install(s) \/ Health(s)
    \/ Finish(s) \/ Unlock(s)

Back(s) ==
    \/ GivesUp(s) \/ CheckoutFails(s) \/ MigrateFails(s) \/ InstallFails(s)
    \/ BackTree(s) \/ BackState(s) \/ BackEnv(s) \/ Rebuild(s) \/ Fail(s)

Next ==
    \/ \E r \in Requests : Request(r)
    \/ Command \/ PowerCut
    \/ \E s \in Scripts : Forward(s) \/ Back(s)

Spec == Init /\ [][Next]_vars
-----------------------------------------------------------------------------
\* Every variable has its type, and a lock with a live pid in it is the lock
\* of a script that is between taking it and letting it go (lines 157-165 and
\* every exit of self-update.sh).
TypeOK ==
    /\ {tree, running} \subseteq Versions \cup {Half}
    /\ env = Half \/ env \subseteq Migrating
    /\ recorded = NoFile \/ recorded \subseteq Migrating
    /\ lock \in Scripts \cup {NoLock, Gone}
    /\ phase \in Final \cup {"starting", "working"}
    /\ web \in [Requests -> {"idle", "accepted", "refused", "clear", "clear again", "launch"}]
    /\ wants \in [Requests -> Versions]
    /\ \A s \in Scripts :
        /\ run[s].at \in Held \cup Before \cup {"off"}
        /\ {run[s].to, run[s].sha, run[s].upto} \subseteq Versions
        /\ lock = s => run[s].at \in Held
    /\ runs \in 0..MaxRuns /\ losses \in 0..MaxLosses
    /\ raced \in BOOLEAN /\ kept \subseteq Migrating

Together == Cardinality({s \in Scripts : run[s].at \in Held}) > 1

\* "an update is already running": the lock keeps two scripts from ever being
\* past it together, whoever started them, through helpers removed in the
\* middle, power cuts and pids that are gone, unless the two looked at it in
\* the same instant (self-update.sh:157-165).
OneRun == raced \/ ~Together

\* What line 159 says of it, with no exception. It does not hold: TLC finds
\* the two that both look before either writes its pid.
OneRunEver == ~Together

\* When a run says it is done, the box is on the release it was started for,
\* the dashboard was rebuilt from it, and every migration up to it has been
\* carried out, also the ones an earlier run was cut off in. Not so of a
\* migration that a way back took out of .env and left in the record, of an
\* .env that was half written (nothing ever looks), or beside another run.
DoneMeansNew ==
    [][\A s \in Scripts : (Finish(s) /\ ~raced) =>
        /\ tree = run[s].to /\ running = run[s].to
        /\ env # Half =>
              \A m \in Migrating : m <= run[s].to => m \in env \cup kept]_vars

\* "landing back where it started": a run that fails, whose checkout and way
\* back met no error of their own, and that no other ran beside, leaves the
\* release and the .env as it found them, the dashboard either untouched or
\* rebuilt from the old release, and the record of migrations as it was if
\* there was one.
LandsBack ==
    [][\A s \in Scripts : (Fail(s) /\ run[s].clean /\ ~raced) =>
        /\ tree = run[s].was.tree
        /\ env = run[s].was.env
        /\ run[s].was.recorded \in {NoFile, recorded}
        /\ running \in {run[s].was.running, run[s].was.tree}]_vars

\* The same of the record whatever it was. It does not hold: tar removes
\* nothing, and a record written for the first time by this run stays.
RecordLandsBack ==
    [][\A s \in Scripts : (Fail(s) /\ run[s].clean /\ ~raced) =>
        recorded = run[s].was.recorded]_vars

\* A migration that is recorded is never run again, so none may be recorded
\* whose change is not in .env: not half way through going back, not after a
\* way back that failed in the middle or a power cut. Except those that were
\* recorded on a box that had no record yet, and then taken back.
RecordedIsDone == (~raced /\ env # Half) => Recorded \ kept \subseteq env

\* The same with no exception for a first record. It does not hold: the next
\* update skips the migration this one took back (self-update.sh:222, 457).
RecordedAlwaysDone == (~raced /\ env # Half) => Recorded \subseteq env

\* "lock present -> something is holding it; the run is alive": the button
\* says an update is already running only while one is.
RefusedMeansRunning ==
    [][\A r \in Requests :
        (Press(r) /\ web'[r] = "refused") => \E s \in Scripts : Alive(s)]_vars
=============================================================================
