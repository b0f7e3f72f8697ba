---------------------------- MODULE UpdatesProofs ----------------------------
(***************************************************************************)
(* What holds of PlatformUpdate for any releases, migrations and requests:  *)
(* the lock keeps runs apart, no migration is recorded that is not done, a  *)
(* run that says done is, and one that fails lands where it started; each   *)
(* unless two scripts looked at the lock before either took it.             *)
(* Then what holds of ImageUpdates for any tags, images, flows and crashes: *)
(* a flow that does not end well puts the pin back, has the data it         *)
(* migrated in an archive, and knows its way back.                          *)
(***************************************************************************)
EXTENDS Updates, FiniteSetTheorems, SequenceTheorems, NaturalsInduction, WellFoundedInduction,
        TLAPS

Trees == Versions \cup {Half}
Envs == {Half} \cup SUBSET Migrating
Records == {NoFile} \cup SUBSET Migrating

Archive == [recorded : Records, env : Envs]

Script == [at : {"off"} \cup Before \cup Held, to : Versions, sha : Versions, upto : Versions,
           saved : {NoFile} \cup Archive,
           was : {NoFile} \cup [tree : Trees, running : Trees, env : Envs, recorded : Records],
           clean : BOOLEAN]

Shape ==
    /\ tree \in Trees /\ running \in Trees /\ env \in Envs /\ recorded \in Records
    /\ wants \in [Requests -> Versions]
    /\ run \in [Scripts -> Script]

\* A script past the lock has it, and while one is about to take it nobody
\* has it and nobody else is about to. Without the second part one script
\* could take the lock from another.
Holding ==
    /\ \A s \in Scripts : run[s].at \in Held => lock = s
    /\ \A s \in Scripts : run[s].at = "take" =>
        /\ LockFree
        /\ \A o \in Scripts \ {s} : run[o].at # "take"

\* Where a script has an archive to go back to.
Archived == Held \ {"sanity", "backup", "fail", "unlock", "finish"}

Names(record) == IF record = NoFile THEN {} ELSE record

\* What a record names is in .env, if that is whole.
Shows(e, record) == e # Half => Names(record) \ kept \subseteq e

\* The archive a script would go back to is as sound as the box was, and what
\* it holds of .env is still there.
Laden(s) ==
    /\ run[s].saved \in Archive
    /\ Shows(run[s].saved.env, run[s].saved.recorded)
    /\ env # Half => run[s].saved.env # Half /\ run[s].saved.env \subseteq env

\* A migration about to be recorded is done, and .env is put back only after
\* the record was.
SoundOf(s) ==
    /\ run[s].at \in Archived => Laden(s)
    /\ run[s].at = "record" => run[s].upto \in Migrating /\ (env # Half => run[s].upto \in env)
    /\ run[s].at = "back env" => Names(recorded) \ kept \subseteq Names(run[s].saved.recorded)

\* What a run may count on at each place: nobody else is past the lock, so
\* the box is what the run itself has made of it.
Untouched == {"sanity", "backup", "fetch", "checkout"}

HasSha == Held \ {"sanity", "fail", "unlock", "finish"}

\* The migrations up to v are in .env, or were taken out of it and left in the
\* record.
Has(v) == env # Half => \A m \in Migrating : m <= v => m \in env \cup kept

\* On the way there.
There(s) ==
    /\ run[s].at \notin Held \ Untouched => run[s].upto = 0
    /\ run[s].at \in {"migrate", "record", "install", "health", "finish"} =>
         tree = run[s].to /\ Has(run[s].upto)
    /\ run[s].at \in {"install", "health", "finish"} => Has(run[s].to)
    /\ run[s].at \in {"health", "finish"} => running = run[s].to

\* On the way back: what is still to be put back with, and what is back.
Homeward(s) ==
    /\ run[s].at \in Untouched =>
         /\ tree = run[s].was.tree /\ running = run[s].was.running
         /\ env = run[s].was.env /\ recorded = run[s].was.recorded
    /\ run[s].at \in HasSha => run[s].sha = run[s].was.tree
    /\ run[s].at \in Archived =>
         run[s].saved.recorded = run[s].was.recorded /\ run[s].saved.env = run[s].was.env
    /\ run[s].clean =>
         /\ run[s].at \in {"back state", "back env", "rebuild", "fail"} => tree = run[s].was.tree
         /\ run[s].at \in {"back env", "rebuild", "fail"} =>
              run[s].was.recorded \in {NoFile, recorded}
         /\ run[s].at \in {"rebuild", "fail"} => env = run[s].was.env
         /\ run[s].at = "fail" => running \in {run[s].was.running, run[s].was.tree}

Right(s) == SoundOf(s) /\ There(s) /\ Homeward(s)

Good == Shape /\ Holding /\ Shows(env, recorded) /\ \A s \in Scripts : Right(s)

IInv == raced \/ Good

LEMMA PlacesApart ==
  /\ "off" \notin Held /\ "lock?" \notin Held /\ "take" \notin Held
  /\ Scripts \cap {NoLock, Gone} = {}
  BY DEF Held, Scripts, NoLock, Gone

LEMMA MinPending ==
  ASSUME NEW s \in Scripts, Pending(s) # {}
  PROVE  Min(Pending(s)) \in Pending(s) /\ \A y \in Pending(s) : Min(Pending(s)) =< y
  <1>1. Pending(s) \subseteq Nat BY PlatformAssumption DEF Pending
  <1>2. PICK x \in Pending(s) : \A y \in Pending(s) : <<y, x>> \notin OpToRel(<, Nat)
    BY <1>1, NatLessThanWellFounded, WFMin
  <1>3. \A y \in Pending(s) : <<y, x>> \in Nat \X Nat /\ ~(y < x)
    BY <1>1, <1>2 DEF OpToRel
  <1>4. ASSUME NEW y \in Pending(s) PROVE x =< y
    <2>1. y \in Nat /\ x \in Nat /\ ~(y < x) BY <1>1, <1>3
    <2> QED BY <2>1
  <1> QED BY <1>4 DEF Min

\* A step that goes on to a place, the rest of the script's record as it was.
Onward(s, place) ==
    /\ run' \in [Scripts -> Script]
    /\ run'[s].at = place /\ run'[s].to = run[s].to /\ run'[s].sha = run[s].sha
    /\ run'[s].upto = run[s].upto
    /\ run'[s].saved = run[s].saved /\ run'[s].was = run[s].was
    /\ \A o \in Scripts \ {s} : run'[o] = run[o]

LEMMA GoOn ==
  ASSUME Shape, NEW s \in Scripts, NEW place \in Held \cup Before, Go(s, place)
  PROVE  Onward(s, place) /\ run'[s].clean = run[s].clean
  <1>1. run' = [run EXCEPT ![s] = [run[s] EXCEPT !.at = place]] BY DEF Go
  <1>2. run[s] \in Script BY DEF Shape
  <1>3. [run[s] EXCEPT !.at = place] \in Script BY <1>2 DEF Script
  <1> QED BY <1>1, <1>2, <1>3 DEF Shape, Script, Onward

LEMMA FumbleOn ==
  ASSUME Shape, NEW s \in Scripts, NEW place \in Held, Fumbled(s, place)
  PROVE  Onward(s, place) /\ run'[s].clean = FALSE
  <1>1. run' = [run EXCEPT ![s] = [run[s] EXCEPT !.at = place, !.clean = FALSE]] BY DEF Fumbled
  <1>2. run[s] \in Script BY DEF Shape
  <1>3. [run[s] EXCEPT !.at = place, !.clean = FALSE] \in Script BY <1>2 DEF Script
  <1> QED BY <1>1, <1>2, <1>3 DEF Shape, Script, Onward

LEMMA Alone ==
  ASSUME Holding, NEW s \in Scripts, run[s].at \in Held
  PROVE  \A o \in Scripts \ {s} : run[o].at \notin Held /\ run[o].at # "take"
  BY PlacesApart DEF Holding, LockFree

\* A script past the lock that goes on to another place past it.
LEMMA HoldingOn ==
  ASSUME Holding, NEW s \in Scripts, run[s].at \in Held, run'[s].at \in Held,
         \A o \in Scripts \ {s} : run'[o] = run[o], lock' = lock
  PROVE  Holding'
  <1>1. lock = s BY DEF Holding
  <1>2. \A o \in Scripts \ {s} : run'[o].at \notin Held /\ run'[o].at # "take" BY Alone
  <1>3. run'[s].at # "take" BY PlacesApart
  <1> QED BY <1>1, <1>2, <1>3 DEF Holding

\* A script that is not past the lock has nothing to show but that it has not
\* begun on the migrations.
LEMMA OffRight ==
  ASSUME NEW s \in Scripts, run[s].at \notin Held, run[s].upto = 0
  PROVE  Right(s)
  BY DEF Right, SoundOf, There, Homeward, Held, Archived, Untouched, HasSha

LEMMA OffRightNext ==
  ASSUME NEW s \in Scripts, run'[s].at \notin Held, run'[s].upto = 0
  PROVE  Right(s)'
  BY DEF Right, SoundOf, There, Homeward, Held, Archived, Untouched, HasSha

\* A step of a script past the lock: what it has to show of itself. No other
\* script is anywhere anything is asked of it.
LEMMA StepOn ==
  ASSUME Good, NEW s \in Scripts, run[s].at \in Held, run'[s].at \in Held,
         run' \in [Scripts -> Script], \A o \in Scripts \ {s} : run'[o] = run[o],
         lock' = lock, wants' = wants, tree' \in Trees, running' \in Trees,
         env' \in Envs, recorded' \in Records, Shows(env, recorded)',
         SoundOf(s)', There(s)', Homeward(s)'
  PROVE  Good'
  <1>1. Shape' BY DEF Good, Shape
  <1>2. Holding' BY HoldingOn DEF Good
  <1>3. ASSUME NEW o \in Scripts, o # s PROVE Right(o)'
    <2>1. run[o].at \notin Held /\ run'[o] = run[o] BY <1>3, Alone DEF Good
    <2>2. run[o].upto = 0 BY <2>1 DEF Good, Right, There
    <2> QED BY <2>1, <2>2, OffRightNext
  <1> QED BY <1>1, <1>2, <1>3 DEF Good, Right

\* A step that leaves the box alone, and each script as it is or before the
\* lock.
LEMMA Elsewhere ==
  ASSUME Good, UNCHANGED <<box, kept>>, wants' \in [Requests -> Versions],
         run' \in [Scripts -> Script],
         \A s \in Scripts : \/ run'[s] = run[s]
                            \/ run'[s].at \in {"off", "lock?"} /\ run'[s].upto = 0,
         \A s \in Scripts : run'[s].at \in Held => lock' = s,
         lock' = lock \/ lock' = Gone
  PROVE  Good'
  <1>1. Shape' BY DEF Good, Shape, box
  <1>2. \A s \in Scripts : run'[s].at = "take" => run'[s] = run[s] OBVIOUS
  <1>3. LockFree => LockFree' BY DEF LockFree
  <1>4. Holding' BY <1>2, <1>3 DEF Good, Holding
  <1>5. Shows(env, recorded)' BY DEF Good, Shows, box
  <1>6. ASSUME NEW s \in Scripts PROVE Right(s)'
    <2>1. CASE run'[s].at \notin Held /\ run'[s].upto = 0 BY <2>1, OffRightNext
    <2>2. CASE run'[s] = run[s]
      <3>1. SoundOf(s) /\ There(s) /\ Homeward(s) BY DEF Good, Right
      <3>2. SoundOf(s)' BY <2>2, <3>1 DEF SoundOf, Laden, Shows, box
      <3>3. There(s)' BY <2>2, <3>1 DEF There, Has, box
      <3>4. Homeward(s)' BY <2>2, <3>1 DEF Homeward, box
      <3> QED BY <3>2, <3>3, <3>4 DEF Right
    <2> QED BY <2>1, <2>2, PlacesApart
  <1> QED BY <1>1, <1>4, <1>5, <1>6 DEF Good

LEMMA IdleScript ==
  /\ Idle \in Script /\ Idle.at = "off" /\ Idle.upto = 0
  /\ \A v \in Versions : Fresh(v) \in Script /\ Fresh(v).at = "lock?" /\ Fresh(v).upto = 0
  BY DEF Idle, Fresh, Script, Before, Held, Versions

LEMMA InitInv ==
  ASSUME Init
  PROVE  IInv
  <1>1. \A s \in Scripts : run[s] = Idle BY DEF Init
  <1>2. Shape BY IdleScript DEF Init, Shape, Versions, Trees, Envs, Records
  <1>3. \A s \in Scripts : run[s].at = "off" /\ run[s].upto = 0 BY <1>1, IdleScript
  <1>4. Holding BY <1>3, PlacesApart DEF Holding
  <1>5. Shows(env, recorded) BY DEF Init, Shows, Names
  <1>6. \A s \in Scripts : Right(s) BY <1>3, PlacesApart, OffRight
  <1> QED BY <1>2, <1>4, <1>5, <1>6 DEF IInv, Good

-----------------------------------------------------------------------------
(* What is stopped in the middle.                                           *)
LEMMA NothingTorn ==
  ASSUME NEW s \in Scripts, run[s].at \notin Held
  PROVE  TornTree(s) = {} /\ TornRunning(s) = {} /\ TornEnv(s) = {} /\ TornRecord(s) = {}
  BY DEF TornTree, TornRunning, TornEnv, TornRecord, Held

\* What a script past the lock leaves, when nobody else touches the box.
LEMMA Torn ==
  ASSUME Good, NEW s \in Scripts, run[s].at \in Held, kept' = kept,
         tree' \in {tree} \cup TornTree(s), running' \in {running} \cup TornRunning(s),
         env' \in {env} \cup TornEnv(s), recorded' \in {recorded} \cup TornRecord(s)
  PROVE  /\ tree' \in Trees /\ running' \in Trees /\ env' \in Envs /\ recorded' \in Records
         /\ Shows(env, recorded)'
  <1>0. Shape /\ SoundOf(s) /\ Shows(env, recorded) BY DEF Good, Right
  <1>1. run[s] \in Script BY <1>0 DEF Shape
  <1>2. tree' \in Trees
    BY <1>0, <1>1 DEF TornTree, Trees, Shape, Script
  <1>3. running' \in Trees BY <1>0 DEF TornRunning, Shape
  <1>4. CASE run[s].at = "migrate"
    <2>1. recorded' = recorded BY <1>4 DEF TornRecord
    <2>2. Pending(s) # {} => Min(Pending(s)) \in Migrating BY MinPending DEF Pending
    <2>3. env' = env \/ env' = Half \/ (Pending(s) # {} /\ env' = Done(Min(Pending(s))))
      BY <1>4 DEF TornEnv
    <2>4. env' \in Envs BY <1>0, <2>2, <2>3 DEF Done, Envs, Shape
    <2>5. env' # Half => env # Half /\ env \subseteq env' BY <2>3 DEF Done
    <2> QED BY <1>0, <1>2, <1>3, <2>1, <2>4, <2>5 DEF Shows, Shape
  <1>5. CASE run[s].at = "record"
    <2>1. env' = env BY <1>5 DEF TornEnv
    <2>2. recorded' \in {recorded, {}, Recorded \cup {run[s].upto}} BY <1>5 DEF TornRecord
    <2>3. run[s].upto \in Migrating /\ (env # Half => run[s].upto \in env)
      BY <1>0, <1>5 DEF SoundOf
    <2>4. Recorded = Names(recorded) BY DEF Recorded, Names
    <2>5. recorded' \in Records BY <1>0, <2>2, <2>3 DEF Records, Recorded, Shape
    <2>6. Names(recorded)' \subseteq Names(recorded) \cup {run[s].upto}
      BY <2>2, <2>4 DEF Names
    <2> QED BY <1>0, <1>2, <1>3, <2>1, <2>3, <2>5, <2>6 DEF Shows, Shape
  <1>6. CASE run[s].at = "back state"
    <2>1. env' = env BY <1>6 DEF TornEnv
    <2>2. recorded' = recorded \/ recorded' \in {run[s].saved.recorded, NoFile, {}}
      BY <1>6 DEF TornRecord
    <2>3. Laden(s) BY <1>0, <1>6 DEF SoundOf, Archived, Held
    <2>4. recorded' \in Records BY <1>0, <2>2, <2>3 DEF Laden, Archive, Records, Shape
    <2>5. Names(recorded)' \in {Names(recorded), Names(run[s].saved.recorded), {}}
      BY <2>2 DEF Names
    <2>6. Shows(env, recorded)'
      BY <1>0, <2>1, <2>3, <2>5 DEF Shows, Laden
    <2> QED BY <1>0, <1>2, <1>3, <2>1, <2>4, <2>6 DEF Shape
  <1>7. CASE run[s].at = "back env"
    <2>1. recorded' = recorded BY <1>7 DEF TornRecord
    <2>2. env' \in {env, Half, run[s].saved.env} BY <1>7 DEF TornEnv
    <2>3. /\ Laden(s)
          /\ Names(recorded) \ kept \subseteq Names(run[s].saved.recorded)
      BY <1>0, <1>7 DEF SoundOf, Archived, Held
    <2>4. env' \in Envs BY <1>0, <2>2, <2>3 DEF Laden, Archive, Envs, Shape
    <2>5. Shows(env, recorded)' BY <1>0, <2>1, <2>2, <2>3 DEF Shows, Laden
    <2> QED BY <1>0, <1>2, <1>3, <2>1, <2>4, <2>5 DEF Shape
  <1>8. CASE run[s].at \notin {"migrate", "record", "back state", "back env"}
    <2>1. recorded' = recorded BY <1>8 DEF TornRecord
    <2>2. env' = env \/ env' = Half BY <1>8 DEF TornEnv
    <2> QED BY <1>0, <1>2, <1>3, <2>1, <2>2 DEF Shows, Envs, Shape
  <1> QED BY <1>4, <1>5, <1>6, <1>7, <1>8

\* Scripts that stop leave a sound box, and one that goes on finds it as it
\* left it.
LEMMA StopInv ==
  ASSUME Good, NEW P \in SUBSET Scripts, Stop(P), Orphans(P), kept' = kept,
         wants' \in [Requests -> Versions]
  PROVE  Good'
  <1>0. Shape /\ Holding /\ Shows(env, recorded) BY DEF Good
  <1>1. run' \in [Scripts -> Script] BY <1>0, IdleScript DEF Stop, Shape
  <1>2. /\ \A s \in P : run'[s] = Idle
        /\ \A s \in Scripts \ P : run'[s] = run[s]
    BY DEF Stop
  <1>3. ASSUME NEW s \in P, run[s].at \in Held
        PROVE  /\ tree' \in Trees /\ running' \in Trees /\ env' \in Envs
               /\ recorded' \in Records /\ Shows(env, recorded)'
    <2>1. \A o \in P \ {s} : /\ TornTree(o) = {} /\ TornRunning(o) = {}
                             /\ TornEnv(o) = {} /\ TornRecord(o) = {}
      BY <1>0, <1>3, Alone, NothingTorn
    <2>2. tree' \in {tree} \cup TornTree(s) BY <2>1 DEF Stop
    <2>3. running' \in {running} \cup TornRunning(s) BY <2>1 DEF Stop
    <2>4. env' \in {env} \cup TornEnv(s) BY <2>1 DEF Stop
    <2>5. recorded' \in {recorded} \cup TornRecord(s) BY <2>1 DEF Stop
    <2> QED BY <1>3, <2>2, <2>3, <2>4, <2>5, Torn
  <1>4. ASSUME \A s \in P : run[s].at \notin Held
        PROVE  UNCHANGED box
    <2>1. \A o \in P : /\ TornTree(o) = {} /\ TornRunning(o) = {}
                       /\ TornEnv(o) = {} /\ TornRecord(o) = {}
      BY <1>4, NothingTorn
    <2>2. tree' = tree BY <2>1 DEF Stop
    <2>3. running' = running BY <2>1 DEF Stop
    <2>4. env' = env BY <2>1 DEF Stop
    <2>5. recorded' = recorded BY <2>1 DEF Stop
    <2> QED BY <2>2, <2>3, <2>4, <2>5 DEF box
  <1>5. CASE \E s \in P : run[s].at \in Held
    <2>1. PICK s \in P : run[s].at \in Held BY <1>5
    <2>2. \A o \in Scripts : run'[o].at \notin Held /\ run'[o].at # "take" /\ run'[o].upto = 0
      <3>1. ASSUME NEW o \in Scripts \ P
            PROVE  run'[o].at \notin Held /\ run'[o].at # "take" /\ run'[o].upto = 0
        <4>1. run[o].at \notin Held /\ run[o].at # "take" BY <1>0, <2>1, Alone
        <4>2. run[o].upto = 0 BY <4>1 DEF Good, Right, There
        <4> QED BY <1>2, <4>1, <4>2
      <3> QED BY <1>2, <3>1, IdleScript, PlacesApart
    <2>3. Shape' BY <1>1, <1>3, <2>1 DEF Shape
    <2>4. Holding' BY <2>2 DEF Holding
    <2>5. \A o \in Scripts : Right(o)' BY <2>2, OffRightNext
    <2> QED BY <1>3, <2>1, <2>3, <2>4, <2>5 DEF Good
  <1>6. CASE \A s \in P : run[s].at \notin Held
    <2>1. UNCHANGED <<box, kept>> BY <1>4, <1>6
    <2>2. \A s \in Scripts : \/ run'[s] = run[s]
                             \/ run'[s].at \in {"off", "lock?"} /\ run'[s].upto = 0
      BY <1>2, IdleScript
    <2>3. ASSUME NEW s \in Scripts, run'[s].at \in Held PROVE lock' = s
      <3>1. s \notin P BY <1>2, <2>3, IdleScript, PlacesApart
      <3>2. run[s].at \in Held /\ lock = s BY <1>0, <1>2, <2>3, <3>1 DEF Holding
      <3>3. \A o \in P : run[o].at # "take" BY <1>0, <3>1, <3>2, Alone
      <3> QED BY <3>1, <3>2, <3>3 DEF Orphans
    <2>4. lock' = lock \/ lock' = Gone BY DEF Orphans
    <2> QED BY <1>1, <2>1, <2>2, <2>3, <2>4, Elsewhere
  <1> QED BY <1>5, <1>6

LEMMA WebInv ==
  ASSUME Good, NEW r \in Requests, Request(r)
  PROVE  Good'
  <1>0. Shape /\ Holding BY DEF Good
  <1>00. "button" \in Scripts BY DEF Scripts
  <1>1. CASE Press(r) \/ Refused(r) \/ Starting(r) \/ LaunchFails(r)
    <2>1. UNCHANGED <<box, kept, run, lock>>
      BY <1>1 DEF Press, Refused, Starting, LaunchFails, history
    <2>2. wants' \in [Requests -> Versions]
      BY <1>0, <1>1 DEF Press, Refused, Starting, LaunchFails, Shape, Versions
    <2> QED BY <1>0, <2>1, <2>2, Elsewhere DEF Shape, Holding
  <1>2. CASE Clear(r)
    BY <1>0, <1>00, <1>2, StopInv DEF Clear, history, Shape
  <1>3. CASE Launch(r)
    <2>1. wants[r] \in Versions /\ wants' \in [Requests -> Versions]
      BY <1>0, <1>3 DEF Launch, Shape, Versions
    <2>2. /\ run' \in [Scripts -> Script] /\ run'["button"] = Fresh(wants[r])
          /\ \A s \in Scripts \ {"button"} : run'[s] = run[s]
      BY <1>0, <1>00, <1>3, <2>1, IdleScript DEF Launch, Shape
    <2>3. run'["button"].at = "lock?" /\ run'["button"].upto = 0 BY <2>1, <2>2, IdleScript
    <2>4. \A s \in Scripts : run'[s].at \in Held => lock' = s
      BY <1>0, <1>3, <2>2, <2>3, PlacesApart DEF Holding, Launch
    <2>5. \A s \in Scripts : \/ run'[s] = run[s]
                             \/ run'[s].at \in {"off", "lock?"} /\ run'[s].upto = 0
      BY <2>2, <2>3
    <2>6. UNCHANGED <<box, kept>> /\ lock' = lock BY <1>3 DEF Launch, history
    <2> QED BY <2>1, <2>2, <2>4, <2>5, <2>6, Elsewhere
  <1> QED BY <1>1, <1>2, <1>3 DEF Request

LEMMA CommandInv ==
  ASSUME Good, Command
  PROVE  Good'
  <1>0. Shape /\ Holding BY DEF Good
  <1>00. "cli" \in Scripts BY DEF Scripts
  <1>1. PICK v \in Releases : run' = [run EXCEPT !["cli"] = Fresh(v)] BY DEF Command
  <1>2. v \in Versions BY DEF Versions
  <1>3. /\ run' \in [Scripts -> Script] /\ run'["cli"] = Fresh(v)
        /\ \A s \in Scripts \ {"cli"} : run'[s] = run[s]
    BY <1>0, <1>00, <1>1, <1>2, IdleScript DEF Shape
  <1>4. run'["cli"].at = "lock?" /\ run'["cli"].upto = 0 BY <1>2, <1>3, IdleScript
  <1>5. \A s \in Scripts : run'[s].at \in Held => lock' = s
    BY <1>0, <1>3, <1>4, PlacesApart DEF Holding, Command
  <1>6. \A s \in Scripts : \/ run'[s] = run[s]
                           \/ run'[s].at \in {"off", "lock?"} /\ run'[s].upto = 0
    BY <1>3, <1>4
  <1>7. UNCHANGED <<box, kept, wants, lock>> BY DEF Command, history
  <1> QED BY <1>0, <1>3, <1>5, <1>6, <1>7, Elsewhere DEF Shape

LEMMA PowerCutInv ==
  ASSUME Good, PowerCut
  PROVE  Good'
  <1>1. wants' \in [Requests -> Versions] BY DEF PowerCut, Versions
  <1> QED BY <1>1, StopInv DEF PowerCut, history

\* The three steps at the lock, and the one that leaves it.
LEMMA LockInv ==
  ASSUME IInv, Good, NEW s \in Scripts, FindFree(s) \/ FindTaken(s) \/ Take(s) \/ Unlock(s)
  PROVE  IInv'
  <1>0. Shape /\ Holding /\ Shows(env, recorded) BY DEF Good
  <1>00. \A o \in Scripts : run[o].at \notin Held => run[o].upto = 0 BY DEF Good, Right, There
  <1>1. CASE FindFree(s)
    <2>1. Go(s, "take") /\ UNCHANGED <<box, lock, wants, kept>> /\ run[s].at = "lock?"
      BY <1>1 DEF FindFree
    <2>2. Onward(s, "take") BY <1>0, <2>1, GoOn DEF Before
    <2>3. Shape' BY <1>0, <2>1, <2>2 DEF Shape, box, Onward
    <2>4. CASE \E o \in Scripts : run[o].at = "take" BY <1>1, <2>4 DEF FindFree, IInv
    <2>5. CASE \A o \in Scripts : run[o].at # "take"
      <3>1. LockFree' BY <1>1, <2>1 DEF FindFree, LockFree
      <3>2. Holding' BY <1>0, <2>1, <2>2, <2>5, <3>1, PlacesApart DEF Holding, Onward
      <3>3. Shows(env, recorded)' BY <1>0, <2>1 DEF Shows, box
      <3>4. \A o \in Scripts : run[o].at \notin Held
        BY <1>0, <1>1, PlacesApart DEF FindFree, LockFree, Holding
      <3>5. \A o \in Scripts : run'[o].at \notin Held /\ run'[o].upto = 0
        BY <1>00, <2>2, <3>4, PlacesApart DEF Onward
      <3>6. \A o \in Scripts : Right(o)' BY <3>5, OffRightNext
      <3> QED BY <2>3, <3>2, <3>3, <3>6 DEF IInv, Good
    <2> QED BY <2>4, <2>5
  <1>2. CASE FindTaken(s)
    <2>1. /\ run' = [run EXCEPT ![s] = Idle] /\ UNCHANGED <<box, lock, wants, kept>>
          /\ run[s].at = "lock?"
      BY <1>2 DEF FindTaken, history
    <2>2. /\ run' \in [Scripts -> Script] /\ run'[s].at = "off" /\ run'[s].upto = 0
          /\ \A o \in Scripts \ {s} : run'[o] = run[o]
      BY <1>0, <2>1, IdleScript DEF Shape
    <2>3. \A o \in Scripts : run'[o].at \in Held => lock' = o
      BY <1>0, <2>1, <2>2, PlacesApart DEF Holding
    <2> QED BY <1>0, <2>1, <2>2, <2>3, Elsewhere DEF Shape, IInv
  <1>3. CASE Take(s)
    <2> DEFINE was == [tree |-> tree, running |-> running, env |-> env, recorded |-> recorded]
    <2>1. /\ run' = [run EXCEPT ![s] = [run[s] EXCEPT !.at = "sanity", !.was = was]]
          /\ lock' = s /\ UNCHANGED <<box, wants, kept>> /\ run[s].at = "take"
      BY <1>3 DEF Take, history
    <2>2. run[s] \in Script /\ run[s].upto = 0 BY <1>0, <1>00, <2>1, PlacesApart DEF Shape
    <2>3. was \in [tree : Trees, running : Trees, env : Envs, recorded : Records]
      BY <1>0 DEF Shape
    <2>4. was.tree = tree /\ was.running = running /\ was.env = env /\ was.recorded = recorded
      OBVIOUS
    <2> HIDE DEF was
    <2>5. [run[s] EXCEPT !.at = "sanity", !.was = was] \in Script
      BY <2>2, <2>3 DEF Script, Held
    <2>6. /\ run' \in [Scripts -> Script] /\ run'[s].at = "sanity" /\ run'[s].upto = 0
          /\ run'[s].was = was /\ \A o \in Scripts \ {s} : run'[o] = run[o]
      BY <1>0, <2>1, <2>2, <2>5 DEF Shape, Script
    <2>7. Shape' BY <1>0, <2>1, <2>6 DEF Shape, box
    <2>8. \A o \in Scripts \ {s} : run[o].at \notin Held /\ run[o].at # "take"
      BY <1>0, <2>1, PlacesApart DEF Holding, LockFree
    <2>9. Holding' BY <2>1, <2>6, <2>8 DEF Holding
    <2>10. Shows(env, recorded)' BY <1>0, <2>1 DEF Shows, box
    <2>11. \A o \in Scripts \ {s} : Right(o)' BY <1>00, <2>6, <2>8, OffRightNext
    <2>12. Right(s)'
      BY <2>1, <2>4, <2>6
      DEF Right, SoundOf, There, Homeward, Held, Archived, Untouched, HasSha, box
    <2> QED BY <2>7, <2>9, <2>10, <2>11, <2>12 DEF IInv, Good
  <1>4. CASE Unlock(s)
    <2>1. /\ run' = [run EXCEPT ![s] = Idle] /\ lock' = NoLock /\ UNCHANGED <<box, wants, kept>>
          /\ run[s].at = "unlock"
      BY <1>4 DEF Unlock, history
    <2>2. /\ run' \in [Scripts -> Script] /\ run'[s].at = "off" /\ run'[s].upto = 0
          /\ \A o \in Scripts \ {s} : run'[o] = run[o]
      BY <1>0, <2>1, IdleScript DEF Shape
    <2>3. \A o \in Scripts \ {s} : run[o].at \notin Held /\ run[o].at # "take"
      BY <1>0, <2>1, Alone DEF Held
    <2>4. Shape' BY <1>0, <2>1, <2>2 DEF Shape, box
    <2>5. \A o \in Scripts : run'[o].at \notin Held /\ run'[o].at # "take" /\ run'[o].upto = 0
      BY <1>00, <2>2, <2>3, PlacesApart
    <2>6. Holding' BY <2>5 DEF Holding
    <2>7. Shows(env, recorded)' BY <1>0, <2>1 DEF Shows, box
    <2>8. \A o \in Scripts : Right(o)' BY <2>5, OffRightNext
    <2> QED BY <2>4, <2>6, <2>7, <2>8 DEF IInv, Good
  <1> QED BY <1>1, <1>2, <1>3, <1>4

\* What a script past the lock knows of itself and of the box.
LEMMA Knows ==
  ASSUME Good, NEW s \in Scripts
  PROVE  /\ Shape /\ Shows(env, recorded) /\ SoundOf(s) /\ There(s) /\ Homeward(s)
         /\ run[s] \in Script
  BY DEF Good, Right, Shape

\* The steps that only pass from one place to the next.
LEMMA PassInv ==
  ASSUME Good, NEW s \in Scripts, Fetch(s) \/ Health(s) \/ Finish(s) \/ GivesUp(s) \/ Fail(s)
  PROVE  Good'
  <1>0. /\ Shape /\ Shows(env, recorded) /\ SoundOf(s) /\ There(s) /\ Homeward(s)
    BY Knows
  <1>1. UNCHANGED <<box, kept, lock, wants>> /\ run[s].at \in Held
    BY DEF Fetch, Health, Finish, GivesUp, Fail, history, Held
  <1>2. PICK place \in Held : Go(s, place)
    BY DEF Fetch, Health, Finish, GivesUp, Fail, Held
  <1>3. /\ Onward(s, place) /\ run'[s].clean = run[s].clean
        /\ run' = [run EXCEPT ![s].at = place]
    BY <1>0, <1>2, GoOn DEF Go
  <1>4. \/ run[s].at = "fetch" /\ place = "checkout"
        \/ run[s].at = "health" /\ place \in {"finish", "back tree"}
        \/ run[s].at = "finish" /\ place = "unlock"
        \/ run[s].at \in {"sanity", "backup", "fetch", "checkout"} /\ place = "fail"
        \/ run[s].at = "fail" /\ place = "unlock"
    <2>1. ASSUME NEW p, Go(s, p) PROVE p = place
      <3>1. run'[s].at = p BY <1>0, <2>1 DEF Go, Shape, Script
      <3> QED BY <1>3, <3>1 DEF Onward
    <2> QED BY <2>1 DEF Fetch, Health, Finish, GivesUp, Fail
  <1>5. SoundOf(s)'
    BY <1>0, <1>1, <1>3, <1>4 DEF SoundOf, Onward, Laden, Shows, Archived, Held, box
  <1>6. There(s)'
    BY <1>0, <1>1, <1>3, <1>4 DEF There, Onward, Has, Untouched, Held, box
  <1>7. Homeward(s)'
    BY <1>0, <1>1, <1>3, <1>4 DEF Homeward, Onward, HasSha, Untouched, Archived, Held, box
  <1>8. Shows(env, recorded)' BY <1>0, <1>1 DEF Shows, box
  <1> QED BY <1>0, <1>1, <1>3, <1>5, <1>6, <1>7, <1>8, StepOn DEF Shape, Onward, box

\* The steps of a script past the lock that go forward.
LEMMA ForwardInv ==
  ASSUME Good, NEW s \in Scripts,
         \/ Sanity(s) \/ Tarball(s) \/ Checkout(s) \/ Migrate(s)
         \/ Record(s) \/ NoneLeft(s) \/ Install(s)
  PROVE  Good'
  <1>0. /\ Shape /\ Shows(env, recorded) /\ SoundOf(s) /\ There(s) /\ Homeward(s)
        /\ run[s] \in Script
    BY Knows
  <1> USE DEF box, history
  <1>1. CASE Sanity(s)
    <2>1. /\ run' = [run EXCEPT ![s] = [run[s] EXCEPT !.at = "backup", !.sha = tree]]
          /\ UNCHANGED <<box, lock, wants, kept>> /\ run[s].at = "sanity" /\ tree # Half
      BY <1>1 DEF Sanity
    <2>2. tree \in Versions BY <1>0, <2>1 DEF Shape, Trees
    <2>3. [run[s] EXCEPT !.at = "backup", !.sha = tree] \in Script
      BY <1>0, <2>2 DEF Script, Held
    <2>4. /\ run' \in [Scripts -> Script] /\ run'[s].at = "backup" /\ run'[s].sha = tree
          /\ run'[s].was = run[s].was /\ run'[s].upto = run[s].upto
          /\ \A o \in Scripts \ {s} : run'[o] = run[o]
      BY <1>0, <2>1, <2>3 DEF Shape, Script
    <2>5. SoundOf(s)' BY <2>4 DEF SoundOf, Archived
    <2>6. There(s)' BY <1>0, <2>1, <2>4 DEF There, Untouched, Held
    <2>7. Homeward(s)'
      BY <1>0, <2>1, <2>4 DEF Homeward, HasSha, Untouched, Archived, Held
    <2>8. Shows(env, recorded)' BY <1>0, <2>1 DEF Shows
    <2> QED BY <1>0, <2>1, <2>4, <2>5, <2>6, <2>7, <2>8, StepOn DEF Shape, Held
  <1>2. CASE Tarball(s)
    <2> DEFINE saved == [recorded |-> recorded, env |-> env]
    <2>1. /\ run' = [run EXCEPT ![s] = [run[s] EXCEPT !.at = "fetch", !.saved = saved]]
          /\ UNCHANGED <<box, lock, wants, kept>> /\ run[s].at = "backup"
      BY <1>2 DEF Tarball
    <2>2. saved \in Archive /\ saved.recorded = recorded /\ saved.env = env
      BY <1>0 DEF Archive, Shape
    <2> HIDE DEF saved
    <2>3. [run[s] EXCEPT !.at = "fetch", !.saved = saved] \in Script
      BY <1>0, <2>2 DEF Script, Held
    <2>4. /\ run' \in [Scripts -> Script] /\ run'[s].at = "fetch" /\ run'[s].saved = saved
          /\ run'[s].was = run[s].was /\ run'[s].upto = run[s].upto /\ run'[s].sha = run[s].sha
          /\ \A o \in Scripts \ {s} : run'[o] = run[o]
      BY <1>0, <2>1, <2>3 DEF Shape, Script
    <2>5. SoundOf(s)' BY <1>0, <2>1, <2>2, <2>4 DEF SoundOf, Archived, Laden, Shows
    <2>6. There(s)' BY <1>0, <2>1, <2>4 DEF There, Untouched, Held
    <2>7. Homeward(s)'
      BY <1>0, <2>1, <2>2, <2>4 DEF Homeward, HasSha, Untouched, Archived, Held
    <2>8. Shows(env, recorded)' BY <1>0, <2>1 DEF Shows
    <2> QED BY <1>0, <2>1, <2>4, <2>5, <2>6, <2>7, <2>8, StepOn DEF Shape, Held
  <1>3. CASE Checkout(s)
    <2>1. /\ Go(s, "migrate") /\ UNCHANGED <<running, env, recorded, lock, wants, kept>>
          /\ run[s].at = "checkout" /\ tree' = run[s].to
      BY <1>3 DEF Checkout
    <2>2. Onward(s, "migrate") /\ run'[s].clean = run[s].clean BY <1>0, <2>1, GoOn DEF Held
    <2>3. run[s].to \in Versions BY <1>0 DEF Script
    <2>4. SoundOf(s)' BY <1>0, <2>1, <2>2 DEF SoundOf, Archived, Laden, Shows, Onward, Held
    <2>5. run[s].upto = 0 BY <1>0, <2>1 DEF There, Untouched
    <2>6. Has(run[s].upto)'
      <3>1. \A m \in Migrating : ~(m <= 0) BY PlatformAssumption
      <3> QED BY <2>2, <2>5, <3>1 DEF Has, Onward
    <2>7. There(s)' BY <2>1, <2>2, <2>6 DEF There, Untouched, Onward, Held
    <2>8. Homeward(s)'
      BY <1>0, <2>1, <2>2 DEF Homeward, HasSha, Untouched, Archived, Onward, Held
    <2>9. Shows(env, recorded)' BY <1>0, <2>1 DEF Shows
    <2> QED BY <1>0, <2>1, <2>2, <2>3, <2>4, <2>7, <2>8, <2>9, StepOn
        DEF Shape, Trees, Onward, Held
  <1>4. CASE Migrate(s)
    <2> DEFINE p == Min(Pending(s))
    <2>1. /\ run' = [run EXCEPT ![s] = [run[s] EXCEPT !.at = "record", !.upto = p]]
          /\ UNCHANGED <<tree, running, recorded, lock, wants, kept>>
          /\ run[s].at = "migrate" /\ env' = Done(p)
      BY <1>4 DEF Migrate
    <2>2. /\ p \in Pending(s) /\ \A y \in Pending(s) : p =< y
      BY <1>4, MinPending DEF Migrate
    <2> HIDE DEF p
    <2>3. p \in Migrating /\ p \in Nat /\ p \in Versions
      BY <2>2, PlatformAssumption DEF Pending, Versions
    <2>4. [run[s] EXCEPT !.at = "record", !.upto = p] \in Script
      BY <1>0, <2>3 DEF Script, Held
    <2>5. /\ run' \in [Scripts -> Script] /\ run'[s].at = "record" /\ run'[s].upto = p
          /\ run'[s].saved = run[s].saved /\ run'[s].was = run[s].was
          /\ run'[s].sha = run[s].sha /\ run'[s].to = run[s].to
          /\ \A o \in Scripts \ {s} : run'[o] = run[o]
      BY <1>0, <2>1, <2>4 DEF Shape, Script
    <2>6. env' # Half => env # Half /\ env' = env \cup {p} BY <2>1 DEF Done
    <2>7. env' \in Envs BY <1>0, <2>1, <2>3 DEF Done, Envs, Shape
    <2>8. Shows(env, recorded)' BY <1>0, <2>1, <2>6 DEF Shows
    <2>9. Laden(s)'
      BY <1>0, <2>1, <2>5, <2>6 DEF SoundOf, Archived, Laden, Shows, Held
    <2>10. SoundOf(s)' BY <2>3, <2>5, <2>6, <2>9 DEF SoundOf
    <2>11. tree = run[s].to /\ Has(run[s].upto) /\ run[s].to \in Nat /\ run[s].upto \in Nat
      BY <1>0, <2>1, PlatformAssumption DEF There, Script, Versions
    <2>12. Has(run[s].upto)'
      <3> SUFFICES ASSUME env' # Half, NEW m \in Migrating, m <= p PROVE m \in env' \cup kept'
        BY <2>5 DEF Has
      <3>1. m \in Nat BY PlatformAssumption
      <3>2. CASE m = p BY <2>6, <3>2
      <3>3. CASE m <= run[s].upto BY <2>1, <2>6, <2>11, <3>3 DEF Has
      <3>4. CASE m # p /\ ~(m <= run[s].upto)
        <4>1. ~(p <= m) BY <2>3, <3>1, <3>4
        <4>2. m \notin Pending(s) BY <2>2, <4>1
        <4>3. tree # Half BY <2>11, PlatformAssumption
        <4>4. p <= tree BY <2>2, <4>3 DEF Pending
        <4>5. m <= tree BY <2>3, <2>11, <3>1, <4>4
        <4>6. m > run[s].upto BY <2>11, <3>1, <3>4
        <4>7. m \in Recorded BY <4>2, <4>5, <4>6 DEF Pending
        <4>8. m \in Names(recorded) BY <4>7 DEF Names, Recorded
        <4> QED BY <1>0, <2>1, <2>6, <4>8 DEF Shows
      <3> QED BY <3>2, <3>3, <3>4
    <2>13. There(s)' BY <2>1, <2>5, <2>11, <2>12 DEF There, Untouched, Held
    <2>14. Homeward(s)'
      BY <1>0, <2>1, <2>5 DEF Homeward, HasSha, Untouched, Archived, Held
    <2> QED BY <1>0, <2>1, <2>5, <2>7, <2>8, <2>10, <2>13, <2>14, StepOn DEF Shape, Held
  <1>5. CASE Record(s)
    <2>1. /\ Go(s, "migrate") /\ UNCHANGED <<tree, running, env, lock, wants, kept>>
          /\ run[s].at = "record" /\ recorded' \in {Recorded \cup {run[s].upto}, recorded, {}}
      BY <1>5 DEF Record
    <2>2. Onward(s, "migrate") /\ run'[s].clean = run[s].clean BY <1>0, <2>1, GoOn DEF Held
    <2>3. run[s].upto \in Migrating /\ (env # Half => run[s].upto \in env)
      BY <1>0, <2>1 DEF SoundOf
    <2>4. Recorded = Names(recorded) BY DEF Recorded, Names
    <2>5. recorded' \in Records BY <1>0, <2>1, <2>3 DEF Records, Recorded, Shape
    <2>6. Names(recorded)' \subseteq Names(recorded) \cup {run[s].upto}
      BY <2>1, <2>4 DEF Names
    <2>7. Shows(env, recorded)' BY <1>0, <2>1, <2>3, <2>6 DEF Shows
    <2>8. SoundOf(s)' BY <1>0, <2>1, <2>2 DEF SoundOf, Archived, Laden, Shows, Onward, Held
    <2>9. There(s)' BY <1>0, <2>1, <2>2 DEF There, Untouched, Onward, Has, Held
    <2>10. Homeward(s)'
      BY <1>0, <2>1, <2>2 DEF Homeward, HasSha, Untouched, Archived, Onward, Held
    <2> QED BY <1>0, <2>1, <2>2, <2>5, <2>7, <2>8, <2>9, <2>10, StepOn DEF Shape, Onward, Held
  <1>6. CASE NoneLeft(s)
    <2>1. /\ Go(s, "install") /\ UNCHANGED <<box, lock, wants, kept>> /\ run[s].at = "migrate"
          /\ Pending(s) = {}
      BY <1>6 DEF NoneLeft
    <2>2. Onward(s, "install") /\ run'[s].clean = run[s].clean BY <1>0, <2>1, GoOn DEF Held
    <2>3. /\ tree = run[s].to /\ Has(run[s].upto)
          /\ run[s].to \in Nat /\ run[s].upto \in Nat
      <3>1. tree = run[s].to /\ Has(run[s].upto) BY <1>0, <2>1 DEF There
      <3>2. Versions \subseteq Nat BY PlatformAssumption DEF Versions
      <3> QED BY <1>0, <3>1, <3>2 DEF Script
    <2>4. Has(run[s].to)
      <3> SUFFICES ASSUME env # Half, NEW m \in Migrating, m <= run[s].to PROVE m \in env \cup kept
        BY DEF Has
      <3>1. m \in Nat BY PlatformAssumption
      <3>2. CASE m <= run[s].upto BY <2>3, <3>2 DEF Has
      <3>3. CASE ~(m <= run[s].upto)
        <4>1. m > run[s].upto BY <2>3, <3>1, <3>3
        <4>2. m \in Recorded BY <2>1, <2>3, <4>1 DEF Pending
        <4>3. m \in Names(recorded) BY <4>2 DEF Names, Recorded
        <4> QED BY <1>0, <4>3 DEF Shows
      <3> QED BY <3>2, <3>3
    <2>5. SoundOf(s)' BY <1>0, <2>1, <2>2 DEF SoundOf, Archived, Laden, Shows, Onward, Held
    <2>6. There(s)' BY <1>0, <2>1, <2>2, <2>3, <2>4 DEF There, Untouched, Onward, Has, Held
    <2>7. Homeward(s)'
      BY <1>0, <2>1, <2>2 DEF Homeward, HasSha, Untouched, Archived, Onward, Held
    <2>8. Shows(env, recorded)' BY <1>0, <2>1 DEF Shows
    <2> QED BY <1>0, <2>1, <2>2, <2>5, <2>6, <2>7, <2>8, StepOn DEF Shape, Onward, Held
  <1>7. CASE Install(s)
    <2>1. /\ Go(s, "health") /\ UNCHANGED <<tree, env, recorded, lock, wants, kept>>
          /\ run[s].at = "install" /\ running' = tree
      BY <1>7 DEF Install
    <2>2. Onward(s, "health") /\ run'[s].clean = run[s].clean BY <1>0, <2>1, GoOn DEF Held
    <2>3. SoundOf(s)' BY <1>0, <2>1, <2>2 DEF SoundOf, Archived, Laden, Shows, Onward, Held
    <2>4. There(s)' BY <1>0, <2>1, <2>2 DEF There, Untouched, Onward, Has, Held
    <2>5. Homeward(s)'
      BY <1>0, <2>1, <2>2 DEF Homeward, HasSha, Untouched, Archived, Onward, Held
    <2>6. Shows(env, recorded)' BY <1>0, <2>1 DEF Shows
    <2> QED BY <1>0, <2>1, <2>2, <2>3, <2>4, <2>5, <2>6, StepOn DEF Shape, Onward, Held
  <1> HIDE DEF box, history
  <1> QED BY <1>1, <1>2, <1>3, <1>4, <1>5, <1>6, <1>7

\* The way back: the record goes back before .env does, so what is recorded
\* is in .env after each half and in between, or is kept.
LEMMA BackInv ==
  ASSUME Good, NEW s \in Scripts,
         \/ CheckoutFails(s) \/ MigrateFails(s) \/ InstallFails(s)
         \/ BackTree(s) \/ BackState(s) \/ BackEnv(s) \/ Rebuild(s)
  PROVE  Good'
  <1>0. /\ Shape /\ Shows(env, recorded) /\ SoundOf(s) /\ There(s) /\ Homeward(s)
        /\ run[s] \in Script
    BY Knows
  <1> USE DEF box, history
  <1>1. CASE CheckoutFails(s)
    <2>1. /\ Fumbled(s, "fail") /\ UNCHANGED <<running, env, recorded, lock, wants, kept>>
          /\ run[s].at = "checkout" /\ tree' = Half
      BY <1>1 DEF CheckoutFails
    <2>2. Onward(s, "fail") /\ run'[s].clean = FALSE BY <1>0, <2>1, FumbleOn DEF Held
    <2>3. SoundOf(s)' BY <2>2 DEF SoundOf, Archived, Onward
    <2>4. There(s)' BY <2>2, <1>0, <2>1 DEF There, Untouched, Onward, Held
    <2>5. Homeward(s)' BY <2>2 DEF Homeward, HasSha, Untouched, Archived, Onward
    <2>6. Shows(env, recorded)' BY <1>0, <2>1 DEF Shows
    <2> QED BY <1>0, <2>1, <2>2, <2>3, <2>4, <2>5, <2>6, StepOn DEF Shape, Trees, Onward, Held
  <1>2. CASE MigrateFails(s)
    <2>1. /\ Go(s, "back tree") /\ UNCHANGED <<tree, running, recorded, lock, wants, kept>>
          /\ run[s].at = "migrate" /\ Pending(s) # {}
          /\ env' \in {env, Done(Min(Pending(s))), Half}
      BY <1>2 DEF MigrateFails
    <2>2. Onward(s, "back tree") /\ run'[s].clean = run[s].clean BY <1>0, <2>1, GoOn DEF Held
    <2>3. Min(Pending(s)) \in Migrating BY <2>1, MinPending DEF Pending
    <2>4. env' # Half => env # Half /\ env \subseteq env' BY <2>1 DEF Done
    <2>5. env' \in Envs BY <1>0, <2>1, <2>3 DEF Done, Envs, Shape
    <2>6. Shows(env, recorded)' BY <1>0, <2>1, <2>4 DEF Shows
    <2>7. SoundOf(s)'
      BY <1>0, <2>1, <2>2, <2>4 DEF SoundOf, Archived, Laden, Shows, Onward, Held
    <2>8. There(s)' BY <2>2 DEF There, Untouched, Onward, Held
    <2>9. Homeward(s)'
      BY <1>0, <2>1, <2>2 DEF Homeward, HasSha, Untouched, Archived, Onward, Held
    <2> QED BY <1>0, <2>1, <2>2, <2>5, <2>6, <2>7, <2>8, <2>9, StepOn DEF Shape, Onward, Held
  <1>3. CASE InstallFails(s)
    <2>1. /\ Go(s, "back tree") /\ UNCHANGED <<tree, recorded, lock, wants, kept>>
          /\ run[s].at = "install" /\ running' \in {running, tree} /\ env' \in {env, Half}
      BY <1>3 DEF InstallFails
    <2>2. Onward(s, "back tree") /\ run'[s].clean = run[s].clean BY <1>0, <2>1, GoOn DEF Held
    <2>3. SoundOf(s)' BY <1>0, <2>1, <2>2 DEF SoundOf, Archived, Laden, Shows, Onward, Held
    <2>4. There(s)' BY <2>2 DEF There, Untouched, Onward, Held
    <2>5. Homeward(s)'
      BY <1>0, <2>1, <2>2 DEF Homeward, HasSha, Untouched, Archived, Onward, Held
    <2>6. Shows(env, recorded)' BY <1>0, <2>1 DEF Shows
    <2> QED BY <1>0, <2>1, <2>2, <2>3, <2>4, <2>5, <2>6, StepOn DEF Shape, Envs, Onward, Held
  <1>4. CASE BackTree(s)
    <2>1. /\ UNCHANGED <<running, env, recorded, lock, wants, kept>> /\ run[s].at = "back tree"
          /\ tree' \in {run[s].sha, tree, Half}
      BY <1>4 DEF BackTree
    <2>2. /\ Onward(s, "back state")
          /\ run'[s].clean => run[s].clean /\ tree' = run[s].sha
      BY <1>0, <1>4, GoOn, FumbleOn DEF BackTree, Held
    <2>3. tree' \in Trees BY <1>0, <2>1 DEF Script, Trees, Shape
    <2>4. SoundOf(s)' BY <1>0, <2>1, <2>2 DEF SoundOf, Archived, Laden, Shows, Onward, Held
    <2>5. There(s)' BY <2>2 DEF There, Untouched, Onward, Held
    <2>6. Homeward(s)'
      BY <1>0, <2>1, <2>2 DEF Homeward, HasSha, Untouched, Archived, Onward, Held
    <2>7. Shows(env, recorded)' BY <1>0, <2>1 DEF Shows
    <2> QED BY <1>0, <2>1, <2>2, <2>3, <2>4, <2>5, <2>6, <2>7, StepOn DEF Shape, Onward, Held
  <1>5. CASE BackState(s)
    <2>1. UNCHANGED <<tree, running, env, lock, wants>> /\ run[s].at = "back state"
      BY <1>5 DEF BackState
    <2>2. Laden(s) /\ run[s].saved.recorded \in Records
      BY <1>0, <2>1 DEF SoundOf, Archived, Laden, Archive, Held
    <2>3. kept \subseteq kept' BY <1>5 DEF BackState
    <2>4. recorded' \in {recorded, run[s].saved.recorded, NoFile, {}}
      BY <1>5 DEF BackState, Unpacked
    <2>5. recorded' \in Records BY <1>0, <2>2, <2>4 DEF Shape, Records
    <2>6. Names(recorded)' \in {Names(recorded), Names(run[s].saved.recorded), {}}
      BY <2>4 DEF Names
    <2>7. Shows(env, recorded)' BY <1>0, <2>1, <2>2, <2>3, <2>6 DEF Shows, Laden
    <2>8. PICK place \in {"back env", "rebuild"} :
            /\ Onward(s, place)
            /\ run'[s].clean => run[s].clean
            /\ place = "back env" => Names(recorded)' \ kept' \subseteq Names(run[s].saved.recorded)
            /\ run'[s].clean => recorded' = Unpacked(s)
      <3>1. CASE recorded' = Unpacked(s) /\ Go(s, "back env")
                 /\ kept' = kept \cup (IF run[s].saved.recorded = NoFile THEN Recorded ELSE {})
        <4>1. Onward(s, "back env") /\ run'[s].clean = run[s].clean BY <1>0, <3>1, GoOn DEF Held
        <4>2. Names(recorded)' \ kept' \subseteq Names(run[s].saved.recorded)
          BY <3>1 DEF Names, Unpacked, Recorded
        <4> QED BY <3>1, <4>1, <4>2
      <3>2. CASE Fumbled(s, "rebuild")
        BY <1>0, <3>2, FumbleOn DEF Held
      <3>3. CASE recorded' \in {NoFile, {}} /\ Fumbled(s, "back env")
        <4>1. Names(recorded)' = {} BY <3>3 DEF Names
        <4> QED BY <1>0, <3>3, <4>1, FumbleOn DEF Held
      <3> QED BY <1>5, <3>1, <3>2, <3>3 DEF BackState
    <2>9. Laden(s)' BY <2>1, <2>2, <2>3, <2>8 DEF Laden, Shows, Onward
    <2>10. SoundOf(s)' BY <2>8, <2>9 DEF SoundOf, Onward
    <2>11. There(s)' BY <2>8 DEF There, Untouched, Onward, Held
    <2>12. run[s].saved.recorded = run[s].was.recorded /\ run[s].saved.env = run[s].was.env
      BY <1>0, <2>1 DEF Homeward, Archived, Held
    <2>13. Homeward(s)'
      <3>1. run'[s].clean => run[s].was.recorded \in {NoFile, recorded'}
        BY <2>8, <2>12 DEF Unpacked
      <3>2. run'[s].clean => run'[s].at = "back env"
        BY <1>0, <1>5, <2>8, FumbleOn, GoOn DEF BackState, Onward, Held
      <3> QED BY <1>0, <2>1, <2>8, <2>12, <3>1, <3>2
          DEF Homeward, HasSha, Untouched, Archived, Onward, Held
    <2> QED BY <1>0, <2>1, <2>5, <2>7, <2>8, <2>10, <2>11, <2>13, StepOn DEF Shape, Onward, Held
  <1>6. CASE BackEnv(s)
    <2>1. /\ UNCHANGED <<tree, running, recorded, lock, wants, kept>> /\ run[s].at = "back env"
          /\ env' \in {run[s].saved.env, env, Half}
      BY <1>6 DEF BackEnv
    <2>2. /\ Onward(s, "rebuild")
          /\ run'[s].clean => run[s].clean /\ env' = run[s].saved.env
      BY <1>0, <1>6, GoOn, FumbleOn DEF BackEnv, Held
    <2>3. /\ Laden(s) /\ Names(recorded) \ kept \subseteq Names(run[s].saved.recorded)
      BY <1>0, <2>1 DEF SoundOf, Archived, Held
    <2>4. env' \in Envs BY <1>0, <2>1, <2>3 DEF Laden, Archive, Envs, Shape
    <2>5. Shows(env, recorded)' BY <1>0, <2>1, <2>3 DEF Shows, Laden
    <2>6. Laden(s)' BY <2>1, <2>2, <2>3 DEF Laden, Shows, Onward
    <2>7. SoundOf(s)' BY <2>2, <2>6 DEF SoundOf, Onward
    <2>8. There(s)' BY <2>2 DEF There, Untouched, Onward, Held
    <2>9. Homeward(s)'
      BY <1>0, <2>1, <2>2 DEF Homeward, HasSha, Untouched, Archived, Onward, Held
    <2> QED BY <1>0, <2>1, <2>2, <2>4, <2>5, <2>7, <2>8, <2>9, StepOn DEF Shape, Onward, Held
  <1>7. CASE Rebuild(s)
    <2>1. /\ UNCHANGED <<tree, recorded, lock, wants, kept>> /\ run[s].at = "rebuild"
          /\ running' \in {running, tree} /\ env' \in {env, Half}
      BY <1>7 DEF Rebuild
    <2>2. /\ Onward(s, "fail")
          /\ run'[s].clean => run[s].clean /\ env' = env /\ running' = tree
      BY <1>0, <1>7, GoOn, FumbleOn DEF Rebuild, Held
    <2>3. SoundOf(s)' BY <2>2 DEF SoundOf, Archived, Onward
    <2>4. There(s)' BY <2>2 DEF There, Untouched, Onward, Held
    <2>5. Homeward(s)'
      BY <1>0, <2>1, <2>2 DEF Homeward, HasSha, Untouched, Archived, Onward, Held
    <2>6. Shows(env, recorded)' BY <1>0, <2>1 DEF Shows
    <2> QED BY <1>0, <2>1, <2>2, <2>3, <2>4, <2>5, <2>6, StepOn DEF Shape, Envs, Onward, Held
  <1> HIDE DEF box, history
  <1> QED BY <1>1, <1>2, <1>3, <1>4, <1>5, <1>6, <1>7

\* Once two have looked at the lock together, that stays so.
LEMMA RacedStays ==
  ASSUME raced, [Next]_vars
  PROVE  raced'
  <1>1. CASE UNCHANGED vars BY <1>1 DEF vars, history
  <1>2. ASSUME NEW r \in Requests, Request(r) PROVE raced'
    BY <1>2 DEF Request, Press, Refused, Starting, Clear, Launch, LaunchFails, history
  <1>3. CASE Command \/ PowerCut BY <1>3 DEF Command, PowerCut, history
  <1>4. ASSUME NEW s \in Scripts, Forward(s) PROVE raced'
    BY <1>4 DEF Forward, FindFree, FindTaken, Take, Sanity, Tarball, Fetch, Checkout, Migrate,
       Record, NoneLeft, Install, Health, Finish, Unlock, history
  <1>5. ASSUME NEW s \in Scripts, Back(s) PROVE raced'
    BY <1>5 DEF Back, GivesUp, CheckoutFails, MigrateFails, InstallFails, BackTree, BackState,
       BackEnv, Rebuild, Fail, history
  <1> QED BY <1>1, <1>2, <1>3, <1>4, <1>5 DEF Next

LEMMA NextInv ==
  ASSUME IInv, [Next]_vars
  PROVE  IInv'
  <1>1. CASE raced BY <1>1, RacedStays DEF IInv
  <1>2. CASE Good
    <2>1. CASE UNCHANGED vars
      <3>1. UNCHANGED <<box, lock, wants, run, kept>> BY <2>1 DEF vars, history
      <3>2. Shape /\ Holding BY <1>2 DEF Good
      <3> QED BY <1>2, <3>1, <3>2, Elsewhere DEF Shape, Holding, IInv
    <2>2. CASE \E r \in Requests : Request(r) BY <1>2, <2>2, WebInv DEF IInv
    <2>3. CASE Command \/ PowerCut BY <1>2, <2>3, CommandInv, PowerCutInv DEF IInv
    <2>4. ASSUME NEW s \in Scripts, Forward(s) PROVE IInv'
      <3>1. CASE FindFree(s) \/ FindTaken(s) \/ Take(s) \/ Unlock(s) BY <1>2, <3>1, LockInv
      <3>2. CASE ~(FindFree(s) \/ FindTaken(s) \/ Take(s) \/ Unlock(s))
        BY <1>2, <2>4, <3>2, ForwardInv, PassInv DEF Forward, IInv
      <3> QED BY <3>1, <3>2
    <2>5. ASSUME NEW s \in Scripts, Back(s) PROVE IInv'
      BY <1>2, <2>5, BackInv, PassInv DEF Back, IInv
    <2> QED BY <2>1, <2>2, <2>3, <2>4, <2>5 DEF Next
  <1> QED BY <1>1, <1>2 DEF IInv

LEMMA Invariant == Spec => []IInv
  <1>1. Init => IInv BY InitInv
  <1>2. IInv /\ [Next]_vars => IInv' BY NextInv
  <1> QED BY <1>1, <1>2, PTL DEF Spec

\* Two scripts are never past the lock of self-update.sh together, however many
\* are started and removed, unless two looked at it before either took it.
THEOREM OneRunAtATime == Spec => []OneRun
  <1>1. IInv => OneRun
    <2> SUFFICES ASSUME Good PROVE ~Together BY DEF IInv, OneRun
    <2> DEFINE past == {s \in Scripts : run[s].at \in Held}
    <2>1. past = {} => Cardinality(past) = 0 BY FS_EmptySet
    <2>2. \A s \in past : past = {s} BY Alone DEF Good
    <2>3. \A s \in past : Cardinality(past) = 1 BY <2>2, FS_Singleton
    <2>4. Cardinality(past) = 0 \/ Cardinality(past) = 1 BY <2>1, <2>3
    <2>5. ~(Cardinality(past) > 1)
      <3> HIDE DEF past
      <3> QED BY <2>4
    <2> QED BY <2>5 DEF Together
  <1> QED BY <1>1, Invariant, PTL

\* No migration is ever recorded in migrations-done.json whose change is not
\* in .env, as long as that is whole, through failures, ways back that fail
\* half way, power cuts and records half written: but for those that were
\* recorded on a box with no record yet, and taken back.
THEOREM NoMigrationIsSkipped == Spec => []RecordedIsDone
  <1>1. IInv => RecordedIsDone BY DEF IInv, Good, Shows, Names, RecordedIsDone, Recorded
  <1> QED BY <1>1, Invariant, PTL

\* "landing back where it started" (self-update.sh): a run that fails, whose
\* checkout and way back met no error of their own, leaves the box as it found
\* it, whatever earlier runs, helpers removed in the middle and power cuts
\* left, and unless another script was past the lock with it.
THEOREM LandsBackAlways == Spec => LandsBack
  <1>1. IInv /\ [Next]_vars =>
          [\A s \in Scripts : (Fail(s) /\ run[s].clean /\ ~raced) =>
             /\ tree = run[s].was.tree
             /\ env = run[s].was.env
             /\ run[s].was.recorded \in {NoFile, recorded}
             /\ running \in {run[s].was.running, run[s].was.tree}]_vars
    BY DEF IInv, Good, Right, Homeward, Fail
  <1> QED BY <1>1, Invariant, PTL DEF Spec, LandsBack

\* A run that says "done" has the box on the release it was started for, the
\* dashboard rebuilt from it and, in an .env that is whole, every migration up
\* to it carried out, also those an earlier run was cut off in, but those a way
\* back took out and left recorded; unless another was past the lock with it.
THEOREM DoneAlwaysMeansNew == Spec => DoneMeansNew
  <1>1. IInv /\ [Next]_vars =>
          [\A s \in Scripts : (Finish(s) /\ ~raced) =>
             /\ tree = run[s].to /\ running = run[s].to
             /\ env # Half =>
                   \A m \in Migrating : m <= run[s].to => m \in env \cup kept]_vars
    BY DEF IInv, Good, Right, There, Has, Finish
  <1> QED BY <1>1, Invariant, PTL DEF Spec, DoneMeansNew

-----------------------------------------------------------------------------
(* ImageUpdates.                                                            *)

Fields == {"at", "kind", "tag", "was", "pinWas", "error", "result", "from", "sure", "strayed",
           "torn", "stuck"}
Pins == Image!Tags \cup {Image!NoTag}

WorldShape ==
    /\ reg \in [Image!Tags -> Nat] /\ local \in [Image!Tags -> Nat] /\ images \in Nat
    /\ ctr.image \in Nat \ {0} /\ ctr.tag \in Image!Tags
    /\ data \in Nat
    /\ \A c \in stray : c.tag \in Image!Tags /\ c.image \in Nat

ImageShape ==
    /\ WorldShape
    /\ archives \in Seq(Nat)
    /\ pin \in Pins /\ override \in Pins
    /\ cache.tag \in Image!Tags /\ cache.newer \in Pins
    /\ DOMAIN chk = {"on", "saw"} /\ chk.saw.tag \in Image!Tags
    /\ DOMAIN flow = Fields
    /\ flow.tag \in Image!Tags /\ flow.was \in Nat /\ flow.pinWas \in Pins
    /\ flow.kind \in {"apply", "upgrade"}
    /\ flow.kind = "apply" => flow.at \notin {"pin", "override", "unpin", "unoverride"}
    /\ flow.kind = "upgrade" => flow.at \notin {"record", "retag"}

LEMMA TagsNat == Image!Tags = 0..MaxTag /\ Image!NoTag = MaxTag + 1 /\ MaxTag \in Nat
BY ImagesAssumption DEF Image!Tags, Image!NoTag

LEMMA MaxIn ==
    ASSUME NEW S \in SUBSET Image!Tags, S # {}
    PROVE  Image!Max(S) \in S
<1> DEFINE T == {MaxTag - t : t \in S}
<1>1. \A t \in S : t \in Nat /\ t <= MaxTag /\ MaxTag - t \in Nat
    BY TagsNat
<1>2. T \subseteq Nat /\ T # {}
    BY <1>1
<1>3. \E k \in T : \A n \in T : ~(<<n, k>> \in OpToRel(<, Nat))
    BY <1>2, WFMin, NatLessThanWellFounded, Zenon
<1>4. PICK k \in T : \A n \in T : ~(n < k)
    BY <1>2, <1>3, Zenon DEF OpToRel
<1>5. PICK t \in S : k = MaxTag - t
    BY <1>4
<1>6. \A u \in S : t >= u
    <2> SUFFICES ASSUME NEW u \in S PROVE t >= u
        OBVIOUS
    <2>1. ~(MaxTag - u < MaxTag - t)
        BY <1>4, <1>5
    <2> QED
        BY <1>1, <2>1, TagsNat
<1> QED
    BY <1>5, <1>6 DEF Image!Max

(* The fields of a flow that no step changes.                               *)
Carries ==
    /\ DOMAIN flow' = Fields
    /\ flow'.kind = flow.kind /\ flow'.tag = flow.tag /\ flow'.from = flow.from
    /\ flow'.sure = flow.sure /\ flow'.strayed = flow.strayed

LEMMA CommandIs ==
    ASSUME ImageShape
    PROVE  /\ Image!Command.op = flow.at /\ Image!Command.image = flow.was
           /\ Image!Command.tag = IF flow.at = "retag" THEN flow.tag ELSE Image!Chosen
           /\ Image!Chosen \in Image!Tags /\ Image!Command.tag \in Image!Tags
<1>1. Image!Chosen \in Image!Tags
    BY TagsNat DEF ImageShape, Image!Chosen, Pins
<1> QED
    BY <1>1 DEF Image!Command, ImageShape

LEMMA Effect ==
    ASSUME WorldShape, NEW c, c.tag \in Image!Tags, c.image \in Nat,
           Image!Succeeds(c) \/ Image!Fails(c), UNCHANGED <<reg, images>>, stray' \subseteq stray
    PROVE  WorldShape'
<1>1. CASE UNCHANGED <<local, ctr, data>>
    BY <1>1 DEF WorldShape
<1>2. ASSUME NEW starts \in BOOLEAN, Image!Up(c.tag, starts)
      PROVE  WorldShape'
    BY <1>2 DEF WorldShape, Image!Up
<1>3. CASE Image!Pull(c.tag)
    BY <1>3 DEF WorldShape, Image!Pull
<1>4. CASE Image!Retag(c.image, c.tag)
    BY <1>4 DEF WorldShape, Image!Retag
<1> QED
    BY <1>1, <1>2, <1>3, <1>4 DEF Image!Succeeds, Image!Fails

LEMMA DoneDoes ==
    ASSUME ImageShape, Image!Done
    PROVE  /\ Carries /\ WorldShape'
           /\ UNCHANGED <<archives, pin, override, cache, chk>> /\ UNCHANGED <<stray, crashes>>
           /\ flow'.was = flow.was /\ flow'.pinWas = flow.pinWas /\ flow'.torn = flow.torn
           /\ flow'.stuck = flow.stuck /\ flow'.result = flow.result /\ flow'.error = flow.error
           /\ flow.at \in {"pull", "up", "retag", "up back"}
           /\ flow.at = "pull" => flow'.at = "up" /\ Image!Pull(Image!Chosen)
           /\ flow.at = "up" => flow'.at = "health" /\ Image!Up(Image!Chosen, TRUE)
           /\ flow.at = "retag" => flow'.at = "up back" /\ Image!Retag(flow.was, flow.tag)
           /\ flow.at = "up back" => /\ flow'.at \in {"idle", "health back"}
                                     /\ Image!Up(Image!Chosen, TRUE)
<1>1. /\ flow.at \in {"pull", "up", "retag", "up back"} /\ Image!Succeeds(Image!Command)
      /\ UNCHANGED <<reg, sick, images>> /\ UNCHANGED <<archives, pin, override, cache, chk>>
      /\ UNCHANGED <<stray, flows, crashes>>
    BY DEF Image!Done, Image!Commands, Image!box, Image!pinned
<1>2. PICK place : /\ flow' = Image!Go(place)
                   /\ flow.at = "pull" => place = "up"
                   /\ flow.at = "up" => place = "health"
                   /\ flow.at = "retag" => place = "up back"
                   /\ flow.at = "up back" => place \in {"idle", "health back"}
    BY <1>1, Zenon DEF Image!Done
<1>3. /\ Carries /\ flow'.at = place
      /\ flow'.was = flow.was /\ flow'.pinWas = flow.pinWas /\ flow'.torn = flow.torn
      /\ flow'.stuck = flow.stuck /\ flow'.result = flow.result /\ flow'.error = flow.error
    BY <1>2 DEF ImageShape, Image!Go, Carries, Fields
<1>4. WorldShape'
    BY <1>1, CommandIs, Effect DEF ImageShape
<1>5. /\ flow.at = "pull" => Image!Pull(Image!Chosen)
      /\ flow.at \in {"up", "up back"} => Image!Up(Image!Chosen, TRUE)
      /\ flow.at = "retag" => Image!Retag(flow.was, flow.tag)
    BY <1>1, CommandIs DEF Image!Succeeds
<1> QED
    BY <1>1, <1>2, <1>3, <1>4, <1>5

LEMMA FailedDoes ==
    ASSUME ImageShape, Image!Failed
    PROVE  /\ Carries /\ WorldShape'
           /\ UNCHANGED <<archives, pin, override, cache, chk>> /\ UNCHANGED <<stray, crashes>>
           /\ flow'.was = flow.was /\ flow'.pinWas = flow.pinWas /\ flow'.torn = flow.torn
           /\ flow.at \in {"pull", "up", "retag", "up back"}
           /\ \/ /\ flow.at \in {"pull", "up"} /\ flow.kind = "apply"
                 /\ flow'.at = "recheck" /\ flow'.result = "failed" /\ flow'.stuck = flow.stuck
              \/ /\ flow.at \in {"pull", "up"} /\ flow.kind = "upgrade"
                 /\ flow'.at = "unpin" /\ flow'.result = "failed" /\ flow'.stuck = flow.stuck
              \/ /\ flow.at \in {"retag", "up back"} /\ flow.kind = "apply"
                 /\ flow'.at = "recheck" /\ flow'.result = "not rolled back"
                 /\ flow'.stuck = flow.stuck
              \/ /\ flow.at = "up back" /\ flow.kind = "upgrade"
                 /\ flow'.at \in {"idle", "health back"} /\ flow'.result = flow.result
                 /\ flow'.stuck
           /\ flow.at \in {"pull", "retag"} => UNCHANGED <<local, ctr, data>>
           /\ \/ UNCHANGED <<local, ctr, data>>
              \/ flow.at \in {"up", "up back"} /\ Image!Up(Image!Chosen, FALSE)
<1>1. /\ flow.at \in {"pull", "up", "retag", "up back"} /\ Image!Fails(Image!Command)
      /\ UNCHANGED <<reg, sick, images>> /\ UNCHANGED <<archives, pin, override, cache, chk>>
      /\ UNCHANGED <<stray, flows, crashes>>
      /\ flow.kind \in {"apply", "upgrade"}
    BY DEF Image!Failed, Image!Commands, Image!box, Image!pinned, ImageShape
<1>2. \/ flow.at \in {"pull", "up"} /\ flow.kind = "apply" /\ flow' = Image!Throw
      \/ /\ flow.at \in {"pull", "up"} /\ flow.kind = "upgrade"
         /\ flow' = [Image!Go("unpin") EXCEPT !.error = TRUE, !.result = "failed"]
      \/ /\ flow.at \in {"retag", "up back"} /\ flow.kind = "apply"
         /\ flow' = [Image!Go("recheck") EXCEPT !.result = "not rolled back"]
      \/ /\ flow.at = "up back" /\ flow.kind = "upgrade"
         /\ \E place \in {"idle", "health back"} :
               flow' = [Image!Go(place) EXCEPT !.stuck = TRUE]
    <2>1. flow.at = "retag" => flow.kind = "apply"
        BY <1>1 DEF ImageShape
    <2> QED
        BY <1>1, <2>1, Zenon DEF Image!Failed
<1>3. /\ Carries
      /\ flow'.was = flow.was /\ flow'.pinWas = flow.pinWas /\ flow'.torn = flow.torn
      /\ \/ /\ flow.at \in {"pull", "up"} /\ flow.kind = "apply"
            /\ flow'.at = "recheck" /\ flow'.result = "failed" /\ flow'.stuck = flow.stuck
         \/ /\ flow.at \in {"pull", "up"} /\ flow.kind = "upgrade"
            /\ flow'.at = "unpin" /\ flow'.result = "failed" /\ flow'.stuck = flow.stuck
         \/ /\ flow.at \in {"retag", "up back"} /\ flow.kind = "apply"
            /\ flow'.at = "recheck" /\ flow'.result = "not rolled back"
            /\ flow'.stuck = flow.stuck
         \/ /\ flow.at = "up back" /\ flow.kind = "upgrade"
            /\ flow'.at \in {"idle", "health back"} /\ flow'.result = flow.result
            /\ flow'.stuck
    BY <1>2 DEF ImageShape, Image!Go, Image!Throw, Carries, Fields
<1>4. WorldShape'
    BY <1>1, CommandIs, Effect DEF ImageShape
<1>5. \/ UNCHANGED <<local, ctr, data>>
      \/ flow.at \in {"up", "up back"} /\ Image!Up(Image!Chosen, FALSE)
    BY <1>1, CommandIs DEF Image!Fails
<1> QED
    BY <1>1, <1>3, <1>4, <1>5

(* The rest of the flow, and the world, as they were.                       *)
Keeps ==
    /\ flow'.was = flow.was /\ flow'.torn = flow.torn /\ flow'.stuck = flow.stuck
Still == UNCHANGED <<local, ctr, data>> /\ UNCHANGED <<reg, images, stray>>

(* An error thrown out of applyOne() or upgrade().                          *)
Throws ==
    /\ flow'.result = "failed"
    /\ flow'.at = IF flow.kind = "apply" THEN "recheck" ELSE "idle"

LEMMA GoDoes ==
    ASSUME ImageShape, NEW place, flow' = Image!Go(place)
    PROVE  Carries /\ Keeps /\ flow'.at = place /\ flow'.pinWas = flow.pinWas
           /\ flow'.result = flow.result
BY DEF Image!Go, ImageShape, Carries, Keeps, Fields

LEMMA ThrowDoes ==
    ASSUME ImageShape, flow' = Image!Throw
    PROVE  Carries /\ Keeps /\ Throws /\ flow'.pinWas = flow.pinWas
BY DEF Image!Throw, ImageShape, Carries, Keeps, Fields, Throws

LEMMA TornDoes ==
    ASSUME ImageShape, flow' = [Image!Throw EXCEPT !.torn = TRUE]
    PROVE  Carries /\ flow'.torn /\ Throws /\ flow'.pinWas = flow.pinWas /\ flow'.was = flow.was
BY DEF Image!Throw, ImageShape, Carries, Fields, Throws

LEMMA GoTornDoes ==
    ASSUME ImageShape, NEW place, flow' = [Image!Go(place) EXCEPT !.torn = TRUE]
    PROVE  Carries /\ flow'.torn /\ flow'.at = place /\ flow'.pinWas = flow.pinWas
           /\ flow'.was = flow.was /\ flow'.result = flow.result
BY DEF Image!Go, ImageShape, Carries, Fields

LEMMA EndsDoes ==
    ASSUME ImageShape, NEW place, NEW r, flow' = [Image!Go(place) EXCEPT !.result = r]
    PROVE  Carries /\ Keeps /\ flow'.at = place /\ flow'.pinWas = flow.pinWas
           /\ flow'.result = r
BY DEF Image!Go, ImageShape, Carries, Keeps, Fields

LEMMA StillShape ==
    ASSUME WorldShape, Still
    PROVE  WorldShape'
BY DEF WorldShape, Still

LEMMA BackupDoes ==
    ASSUME ImageShape, Image!Backup
    PROVE  /\ Carries /\ Keeps /\ Still /\ UNCHANGED <<pin, override, cache, chk>>
           /\ flow.at = "backup" /\ flow'.pinWas = flow.pinWas
           /\ \/ /\ archives' = Image!Prune(Append(archives, data)) /\ flow'.result = flow.result
                 /\ flow'.at = IF flow.kind = "apply" THEN "record" ELSE "pin"
              \/ archives' = archives /\ Throws
BY GoDoes, ThrowDoes DEF Image!Backup, Image!box, Image!pinned, Still

LEMMA RecordDoes ==
    ASSUME ImageShape, Image!Record
    PROVE  /\ Carries /\ Still /\ UNCHANGED <<pin, override, cache, chk>> /\ UNCHANGED archives
           /\ flow.at = "record" /\ flow'.pinWas = flow.pinWas /\ flow'.torn = flow.torn
           /\ flow'.stuck = flow.stuck /\ flow'.was \in Nat
           /\ \/ /\ flow'.at = "pull" /\ flow'.result = flow.result
                 /\ flow'.was = ctr.image \/ (~ctr.up /\ flow'.was = 0)
              \/ Throws
<1>1. /\ flow.at = "record" /\ Still /\ UNCHANGED <<pin, override, cache, chk>>
      /\ UNCHANGED archives
    BY DEF Image!Record, Image!box, Image!pinned, Still
<1>2. CASE flow' = Image!Throw
    BY <1>1, <1>2, ThrowDoes DEF Keeps, ImageShape
<1>3. ASSUME NEW id \in {ctr.image} \cup (IF ctr.up THEN {} ELSE {0}),
             flow' = [Image!Go("pull") EXCEPT !.was = id]
      PROVE  /\ Carries /\ flow'.pinWas = flow.pinWas /\ flow'.torn = flow.torn
             /\ flow'.stuck = flow.stuck /\ flow'.was = id
             /\ flow'.at = "pull" /\ flow'.result = flow.result
    BY <1>3 DEF ImageShape, Image!Go, Carries, Fields
<1>4. ctr.image \in Nat
    BY DEF ImageShape, WorldShape
<1> QED
    BY <1>1, <1>2, <1>3, <1>4 DEF Image!Record

LEMMA SetPinDoes ==
    ASSUME ImageShape, Image!SetPin
    PROVE  /\ Carries /\ Keeps /\ Still /\ UNCHANGED <<archives, override, cache, chk>>
           /\ flow.at = "pin"
           /\ \/ /\ flow'.at = "override" /\ flow'.result = flow.result
                 /\ pin' = flow.tag /\ flow'.pinWas = pin
              \/ pin' = pin /\ flow'.pinWas = flow.pinWas /\ Throws
<1>1. flow.at = "pin" /\ Still /\ UNCHANGED <<archives, override, cache, chk>>
    BY DEF Image!SetPin, Image!box, Still
<1>2. ASSUME flow' = [Image!Go("override") EXCEPT !.pinWas = pin]
      PROVE  Carries /\ Keeps /\ flow'.at = "override" /\ flow'.result = flow.result
             /\ flow'.pinWas = pin
    BY <1>2 DEF ImageShape, Image!Go, Carries, Keeps, Fields
<1> QED
    BY <1>1, <1>2, ThrowDoes DEF Image!SetPin

LEMMA SetOverrideDoes ==
    ASSUME ImageShape, Image!SetOverride
    PROVE  /\ Carries /\ Still /\ UNCHANGED <<archives, pin, cache, chk>>
           /\ flow.at = "override" /\ flow'.pinWas = flow.pinWas /\ flow'.was = flow.was
           /\ \/ /\ flow'.at = "pull" /\ flow'.result = flow.result /\ Keeps
                 /\ override' = pin
              \/ override' = override /\ Throws /\ flow'.torn
BY GoDoes, TornDoes DEF Image!SetOverride, Image!box, Still, Keeps

LEMMA HealthDoes ==
    ASSUME ImageShape, Image!CameBack \/ Image!DidNotComeBack \/ Image!HealthUnknown
    PROVE  /\ Carries /\ Still /\ UNCHANGED <<pin, override, cache, chk>> /\ UNCHANGED archives
           /\ flow.at = "health" /\ flow'.pinWas = flow.pinWas /\ flow'.was = flow.was
           /\ \/ flow'.at = "recheck" /\ flow'.result = "ok" /\ Keeps
              \/ /\ flow.kind = "apply" /\ flow'.at = "recheck"
                 /\ flow'.result = "not rolled back" /\ Keeps
              \/ flow.kind = "upgrade" /\ flow'.at = "unpin" /\ flow'.result = flow.result /\ Keeps
              \/ flow.kind = "apply" /\ flow'.at = "retag" /\ flow'.result = flow.result /\ Keeps
              \/ flow'.torn /\ Throws
<1>1. /\ flow.at = "health" /\ Still /\ UNCHANGED <<pin, override, cache, chk>>
      /\ UNCHANGED archives
    BY DEF Image!CameBack, Image!DidNotComeBack, Image!HealthUnknown, Image!box,
       Image!pinned,
           Still
<1>2. CASE Image!CameBack
    BY <1>1, <1>2, EndsDoes DEF Image!CameBack, Keeps
<1>3. CASE Image!DidNotComeBack
    <2>1. \/ flow.kind = "upgrade" /\ flow' = Image!Go("unpin")
          \/ flow.kind = "apply" /\ flow' = Image!Go("retag")
          \/ /\ flow.kind = "apply"
             /\ flow' = [Image!Go("recheck") EXCEPT !.result = "not rolled back"]
        BY <1>3, Zenon DEF Image!DidNotComeBack, ImageShape
    <2> QED
        BY <1>1, <2>1, GoDoes, EndsDoes DEF Keeps
<1>4. CASE Image!HealthUnknown
    BY <1>1, <1>4, TornDoes DEF Image!HealthUnknown
<1> QED
    BY <1>2, <1>3, <1>4

(* Where a way back goes on that cannot be finished.                        *)
Abandons == flow'.torn /\ flow'.at \in {"idle", "health back"} /\ flow'.result = flow.result

LEMMA BackDoes ==
    ASSUME ImageShape, Image!Unpin \/ Image!Unoverride
    PROVE  /\ Carries /\ Still /\ UNCHANGED <<archives, cache, chk>>
           /\ flow'.pinWas = flow.pinWas /\ flow'.was = flow.was
           /\ flow.at \in {"unpin", "unoverride"}
           /\ \/ flow.at = "unpin" /\ flow'.at = "unoverride" /\ Keeps /\ flow'.result = flow.result
                 /\ pin' = flow.pinWas /\ override' = override
              \/ flow.at = "unoverride" /\ flow'.at = "up back" /\ Keeps
                 /\ flow'.result = flow.result /\ override' = pin /\ pin' = pin
              \/ UNCHANGED <<pin, override>> /\ Abandons
<1>1. /\ Still /\ UNCHANGED <<archives, cache, chk>>
    BY DEF Image!Unpin, Image!Unoverride, Image!box, Still
<1>2. ASSUME flow' = [Image!Go(IF flow.error THEN "idle" ELSE "health back")
                        EXCEPT !.torn = TRUE]
      PROVE  Carries /\ Abandons /\ flow'.pinWas = flow.pinWas /\ flow'.was = flow.was
    BY <1>2, GoTornDoes DEF Abandons
<1>3. CASE Image!Unpin
    BY <1>1, <1>2, <1>3, GoDoes DEF Image!Unpin, Keeps
<1>4. CASE Image!Unoverride
    BY <1>1, <1>2, <1>4, GoDoes DEF Image!Unoverride, Keeps
<1> QED
    BY <1>3, <1>4

LEMMA BackHealthDoes ==
    ASSUME ImageShape, Image!WentBack \/ Image!StillDown
    PROVE  /\ Carries /\ Keeps /\ Still /\ UNCHANGED <<pin, override, cache, chk>>
           /\ UNCHANGED archives
           /\ flow.at = "health back" /\ flow'.pinWas = flow.pinWas
           /\ flow'.at = IF flow.kind = "apply" THEN "recheck" ELSE "idle"
           /\ \/ flow'.result = "rolled back" /\ ctr.up
              \/ flow'.result = "not rolled back"
<1>1. /\ flow.at = "health back" /\ Still /\ UNCHANGED <<pin, override, cache, chk>>
      /\ UNCHANGED archives
    BY DEF Image!WentBack, Image!StillDown, Image!box, Image!pinned, Still
<1>2. PICK r \in {"rolled back", "not rolled back"} :
          /\ flow' = [Image!Go(IF flow.kind = "apply" THEN "recheck" ELSE "idle")
                        EXCEPT !.result = r]
          /\ r = "rolled back" => ctr.up
    BY DEF Image!WentBack, Image!StillDown, Image!Healthy
<1> QED
    BY <1>1, <1>2, EndsDoes

LEMMA RecheckDoes ==
    ASSUME ImageShape, Image!Recheck
    PROVE  /\ Carries /\ Keeps /\ Still /\ UNCHANGED <<pin, override, cache>>
           /\ UNCHANGED archives
           /\ flow.at = "recheck" /\ flow'.pinWas = flow.pinWas /\ flow'.result = flow.result
           /\ flow'.at \in {"idle", "checking"}
           /\ chk' = chk \/ chk' = [on |-> TRUE, saw |-> ctr]
BY GoDoes DEF Image!Recheck, Image!box, Image!pinned, Still

(* What is not the flow's own step.                                         *)
LEMMA OutsideDoes ==
    ASSUME ImageShape, Image!Publish \/ Image!CheckStart
    PROVE  /\ UNCHANGED <<local, ctr, data>> /\ UNCHANGED <<pin, override, cache>>
           /\ UNCHANGED <<archives, flow, stray>> /\ WorldShape'
           /\ chk' = chk \/ chk' = [on |-> TRUE, saw |-> ctr]
<1>1. CASE Image!Publish
    BY <1>1 DEF Image!Publish, Image!pinned, ImageShape, WorldShape
<1>2. CASE Image!CheckStart
    BY <1>2 DEF Image!CheckStart, Image!pinned, Image!box, ImageShape, WorldShape
<1> QED
    BY <1>1, <1>2

LEMMA CheckEndDoes ==
    ASSUME ImageShape, Image!CheckEnd
    PROVE  /\ Carries /\ Keeps /\ Still /\ UNCHANGED <<pin, override>>
           /\ UNCHANGED archives
           /\ flow'.pinWas = flow.pinWas /\ flow'.result = flow.result
           /\ flow'.at = flow.at \/ (flow.at = "checking" /\ flow'.at = "idle")
           /\ cache'.tag \in Image!Tags /\ cache'.newer \in Pins
           /\ DOMAIN chk' = {"on", "saw"} /\ chk'.saw = chk.saw
<1>1. /\ Still /\ UNCHANGED <<pin, override>> /\ UNCHANGED archives
      /\ chk' = [chk EXCEPT !.on = FALSE]
      /\ cache' \in {Image!Offer(chk.saw), Image!NoOffer}
      /\ flow' = IF flow.at = "checking" THEN [flow EXCEPT !.at = "idle"] ELSE flow
    BY DEF Image!CheckEnd, Image!box, Image!pinned, Still
<1>2. /\ Carries /\ Keeps /\ flow'.pinWas = flow.pinWas /\ flow'.result = flow.result
      /\ flow'.at = flow.at \/ (flow.at = "checking" /\ flow'.at = "idle")
    BY <1>1 DEF ImageShape, Carries, Keeps, Fields
<1>3. Image!NoOffer.tag \in Image!Tags /\ Image!NoOffer.newer \in Pins
    BY TagsNat DEF Image!NoOffer, Pins
<1>4. Image!Offer(chk.saw).tag \in Image!Tags /\ Image!Offer(chk.saw).newer \in Pins
    <2> DEFINE later == {t \in Image!Tags : t > chk.saw.tag /\ reg[t] # 0}
    <2>1. later # {} => Image!Max(later) \in Image!Tags
        <3>1. later \in SUBSET Image!Tags
            OBVIOUS
        <3>2. ASSUME later # {} PROVE Image!Max(later) \in later
            <4> HIDE DEF later
            <4> QED
                BY <3>1, <3>2, MaxIn
        <3> QED
            BY <3>1, <3>2
    <2>2. Image!Offer(chk.saw) = IF ~chk.saw.up THEN Image!NoOffer
             ELSE [rebuild |-> reg[chk.saw.tag] # chk.saw.image, tag |-> chk.saw.tag,
                   newer |-> IF later = {} THEN Image!NoTag ELSE Image!Max(later)]
        BY Zenon DEF Image!Offer
    <2> HIDE DEF later
    <2>3. chk.saw.tag \in Image!Tags
        BY DEF ImageShape
    <2>4. PICK b, n : /\ n \in Pins
                      /\ \/ Image!Offer(chk.saw) = Image!NoOffer
                         \/ Image!Offer(chk.saw) = [rebuild |-> b, tag |-> chk.saw.tag,
                                                    newer |-> n]
        <3>1. (IF later = {} THEN Image!NoTag ELSE Image!Max(later)) \in Pins
            BY <2>1 DEF Pins
        <3> QED
            BY <2>2, <3>1, Zenon
    <2> QED
        BY <1>3, <2>3, <2>4
<1> QED
    BY <1>1, <1>2, <1>3, <1>4 DEF ImageShape

LEMMA BeginDoes ==
    ASSUME ImageShape, Image!Begin
    PROVE  /\ Still /\ UNCHANGED <<pin, override, cache, chk>> /\ UNCHANGED archives
           /\ DOMAIN flow' = Fields
           /\ flow'.at = "backup" /\ flow'.tag \in Image!Tags /\ flow'.pinWas = pin
           /\ flow'.from = ctr /\ flow'.was = 0 /\ flow'.result = "none"
           /\ ~flow'.strayed /\ ~flow'.torn /\ ~flow'.stuck
           /\ flow'.kind \in {"apply", "upgrade"}
           /\ flow.at = "idle"
           /\ flow'.sure <=> Image!Sure(flow'.kind, flow'.tag)
<1>1. PICK k \in {"apply", "upgrade"}, t \in {cache.tag, cache.newer} :
          /\ k = "upgrade" => t # Image!NoTag
          /\ k = "apply" => t = cache.tag
          /\ Image!BeginOn(k, t)
    BY DEF Image!Begin
<1>2. t \in Image!Tags
    BY <1>1 DEF ImageShape, Pins
<1>3. /\ Still /\ UNCHANGED <<pin, override, cache, chk>> /\ UNCHANGED archives
      /\ flow.at = "idle"
    BY <1>1 DEF Image!BeginOn, Image!box, Image!pinned, Image!Applying, Still
<1>4. PICK s \in BOOLEAN :
          /\ s <=> Image!Sure(k, t)
          /\ flow' = [Image!NoFlow EXCEPT !.at = "backup", !.kind = k, !.tag = t, !.from = ctr,
                                          !.pinWas = pin, !.sure = s]
    <2>1. Image!Sure(k, t) \in BOOLEAN
        BY DEF Image!Sure
    <2> QED
        BY <1>1, <2>1, Zenon DEF Image!BeginOn
<1>5. /\ DOMAIN flow' = Fields /\ flow'.at = "backup" /\ flow'.kind = k /\ flow'.tag = t
      /\ flow'.from = ctr /\ flow'.pinWas = pin /\ flow'.sure = s /\ flow'.was = 0
      /\ flow'.result = "none"
      /\ flow'.strayed = FALSE /\ flow'.torn = FALSE /\ flow'.stuck = FALSE
    BY <1>4 DEF Image!NoFlow, Fields
<1>6. flow'.sure <=> Image!Sure(flow'.kind, flow'.tag)
    BY <1>4, <1>5, Zenon
<1> QED
    BY <1>1, <1>2, <1>3, <1>5, <1>6

LEMMA CrashDoes ==
    ASSUME ImageShape, Image!Crash
    PROVE  /\ UNCHANGED <<local, ctr, data>> /\ UNCHANGED <<pin, override, cache>>
           /\ UNCHANGED archives /\ WorldShape'
           /\ DOMAIN chk' = {"on", "saw"} /\ chk'.saw = chk.saw
           /\ flow' = Image!NoFlow
           /\ DOMAIN flow' = Fields /\ flow'.at = "idle" /\ flow'.kind = "apply"
           /\ flow'.result = "none" /\ ~flow'.sure
           /\ flow'.tag = 0 /\ flow'.was = 0 /\ flow'.pinWas = Image!NoTag
<1>1. /\ UNCHANGED <<local, ctr, data>> /\ UNCHANGED <<pin, override, cache>>
      /\ UNCHANGED <<archives, reg, images>>
      /\ chk' = [chk EXCEPT !.on = FALSE] /\ flow' = Image!NoFlow
      /\ stray' = stray \/ stray' = stray \cup {Image!Command}
    BY DEF Image!Crash, Image!box, Image!pinned
<1>2. Image!Command.tag \in Image!Tags /\ Image!Command.image \in Nat
    BY CommandIs DEF ImageShape
<1>3. WorldShape'
    BY <1>1, <1>2 DEF ImageShape, WorldShape
<1>4. DOMAIN chk' = {"on", "saw"} /\ chk'.saw = chk.saw
    BY <1>1 DEF ImageShape
<1>5. /\ DOMAIN flow' = Fields /\ flow'.at = "idle" /\ flow'.kind = "apply"
      /\ flow'.result = "none" /\ flow'.sure = FALSE
      /\ flow'.tag = 0 /\ flow'.was = 0 /\ flow'.pinWas = Image!NoTag
    BY <1>1 DEF Image!NoFlow, Fields
<1> QED
    BY <1>1, <1>3, <1>4, <1>5

LEMMA StrayDoes ==
    ASSUME ImageShape, NEW c \in stray, Image!StrayLands(c)
    PROVE  /\ WorldShape' /\ UNCHANGED <<pin, override, cache, chk>> /\ UNCHANGED archives
           /\ DOMAIN flow' = Fields /\ flow'.at = flow.at /\ flow'.kind = flow.kind
           /\ flow'.tag = flow.tag /\ flow'.was = flow.was /\ flow'.pinWas = flow.pinWas
           /\ flow'.result = flow.result /\ flow'.torn = flow.torn
           /\ flow'.strayed /\ stray' # stray
<1>1. /\ UNCHANGED <<pin, override, cache, chk>> /\ UNCHANGED <<archives, reg, images>>
      /\ Image!Succeeds(c) \/ Image!Fails(c)
      /\ stray' = stray \ {c} /\ flow' = [flow EXCEPT !.strayed = TRUE]
    BY DEF Image!StrayLands, Image!box, Image!pinned
<1>2. c.tag \in Image!Tags /\ c.image \in Nat
    BY DEF ImageShape, WorldShape
<1>3. WorldShape'
    BY <1>1, <1>2, Effect DEF ImageShape
<1> QED
    BY <1>1, <1>3 DEF ImageShape, Fields

LEMMA ShapeInit == Image!Init => ImageShape
<1> SUFFICES ASSUME Image!Init PROVE ImageShape
    OBVIOUS
<1>1. 0 \in Image!Tags /\ Image!NoTag \in Pins
    BY TagsNat DEF Pins
<1>2. WorldShape
    BY <1>1 DEF Image!Init, WorldShape, Image!First
<1>3. archives \in Seq(Nat) /\ pin \in Pins /\ override \in Pins
      /\ cache.tag \in Image!Tags /\ cache.newer \in Pins
    BY <1>1 DEF Image!Init, Image!NoOffer
<1>4. DOMAIN chk = {"on", "saw"} /\ chk.saw.tag \in Image!Tags
    BY <1>1 DEF Image!Init, Image!First
<1>5. /\ DOMAIN flow = Fields /\ flow.tag = 0 /\ flow.was = 0 /\ flow.pinWas = Image!NoTag
      /\ flow.kind = "apply" /\ flow.at = "idle"
    BY DEF Image!Init, Image!NoFlow, Fields
<1> QED
    BY <1>1, <1>2, <1>3, <1>4, <1>5 DEF ImageShape

LEMMA LastStays ==
    ASSUME NEW S, NEW all \in Seq(S), Len(all) > 0
    PROVE  /\ Image!Prune(all) \in Seq(S)
           /\ \E i \in DOMAIN Image!Prune(all) : Image!Prune(all)[i] = all[Len(all)]
<1>1. Kept \in Nat /\ Kept >= 1 /\ Len(all) \in Nat /\ DOMAIN all = 1..Len(all)
    BY ImagesAssumption
<1>2. CASE Len(all) <= Kept
    <2>1. Image!Prune(all) = all
        BY <1>1, <1>2 DEF Image!Prune
    <2> QED
        BY <1>1, <2>1
<1>3. CASE Len(all) > Kept
    <2> DEFINE m == Len(all) - Kept + 1
    <2>1. m \in 2..Len(all) /\ Len(all) - m + 1 = Kept /\ m + Kept - 1 = Len(all)
        BY <1>1, <1>3
    <2> HIDE DEF m
    <2>2. Image!Prune(all) = SubSeq(all, m, Len(all))
        BY <1>3 DEF Image!Prune, m
    <2>3. /\ SubSeq(all, m, Len(all)) \in Seq(S)
          /\ Len(SubSeq(all, m, Len(all))) = Kept
        BY <1>1, <1>3, <2>1, SubSeqProperties
    <2>4. SubSeq(all, m, Len(all))[Kept] = all[Len(all)]
        BY <1>1, <2>1, SubSeqProperties
    <2>5. Kept \in DOMAIN SubSeq(all, m, Len(all))
        BY <1>1, <2>3
    <2> QED
        BY <2>2, <2>3, <2>4, <2>5
<1> QED
    BY <1>1, <1>2, <1>3

LEMMA KeptLast ==
    ASSUME NEW S, NEW as \in Seq(S), NEW d \in S
    PROVE  /\ Image!Prune(Append(as, d)) \in Seq(S)
           /\ \E i \in DOMAIN Image!Prune(Append(as, d)) : Image!Prune(Append(as, d))[i] = d
<1>1. PICK all : all = Append(as, d)
    OBVIOUS
<1>2. all \in Seq(S) /\ Len(all) > 0 /\ all[Len(all)] = d
    <2>1. all \in Seq(S) /\ Len(all) = Len(as) + 1 /\ all[Len(as) + 1] = d
        BY <1>1, AppendProperties
    <2>2. PICK n \in Nat : n = Len(as)
        BY LenProperties
    <2>3. Len(all) = n + 1
        BY <2>1, <2>2
    <2>4. all[n + 1] = d
        BY <2>1, <2>2
    <2>5. n + 1 > 0
        OBVIOUS
    <2> QED
        BY <2>1, <2>3, <2>4, <2>5
<1> QED
    BY <1>1, <1>2, LastStays

LEMMA ShapeNext == ImageShape /\ Image!Next => ImageShape'
<1> SUFFICES ASSUME ImageShape, Image!Next PROVE ImageShape'
    OBVIOUS
<1>a. DOMAIN [on |-> TRUE, saw |-> ctr] = {"on", "saw"} /\ [on |-> TRUE, saw |-> ctr].saw = ctr
    OBVIOUS
<1>1. CASE Image!Publish \/ Image!CheckStart
    BY <1>1, <1>a, OutsideDoes DEF ImageShape, WorldShape
<1>2. CASE Image!CheckEnd
    BY <1>2, CheckEndDoes, StillShape DEF ImageShape, Carries, Keeps
<1>3. CASE Image!Begin
    BY <1>3, BeginDoes, StillShape DEF ImageShape
<1>4. CASE Image!Crash
    BY <1>4, CrashDoes, TagsNat DEF ImageShape, Pins
<1>5. ASSUME NEW c \in stray, Image!StrayLands(c) PROVE ImageShape'
    BY <1>5, StrayDoes DEF ImageShape
<1>6. CASE Image!Backup
    <2>1. archives' \in Seq(Nat)
        <3>1. Image!Prune(Append(archives, data)) \in Seq(Nat)
            BY KeptLast DEF ImageShape, WorldShape
        <3> QED
            BY <1>6, <3>1, BackupDoes DEF ImageShape
    <2> QED
        BY <1>6, <2>1, BackupDoes, StillShape DEF ImageShape, Carries, Keeps, Throws
<1>7. CASE Image!Record
    BY <1>7, RecordDoes, StillShape DEF ImageShape, Carries, Throws
<1>8. CASE Image!SetPin
    BY <1>8, SetPinDoes, StillShape DEF ImageShape, Carries, Keeps, Throws, Pins
<1>9. CASE Image!SetOverride
    BY <1>9, SetOverrideDoes, StillShape DEF ImageShape, Carries, Keeps, Throws, Pins
<1>10. CASE Image!Done
    BY <1>10, DoneDoes DEF ImageShape, Carries
<1>11. CASE Image!Failed
    BY <1>11, FailedDoes DEF ImageShape, Carries
<1>12. CASE Image!CameBack \/ Image!DidNotComeBack \/ Image!HealthUnknown
    BY <1>12, HealthDoes, StillShape DEF ImageShape, Carries, Keeps, Throws
<1>13. CASE Image!Unpin \/ Image!Unoverride
    BY <1>13, BackDoes, StillShape DEF ImageShape, Carries, Keeps, Abandons
<1>14. CASE Image!WentBack \/ Image!StillDown
    BY <1>14, BackHealthDoes, StillShape DEF ImageShape, Carries, Keeps
<1>15. CASE Image!Recheck
    BY <1>15, <1>a, RecheckDoes, StillShape DEF ImageShape, WorldShape, Carries, Keeps
<1> QED
    BY <1>1, <1>2, <1>3, <1>4, <1>5, <1>6, <1>7, <1>8, <1>9, <1>10, <1>11, <1>12, <1>13,
       <1>14, <1>15 DEF Image!Next, Image!FlowStep

(* Between its backup and its way back a flow's pin is the one it found; it *)
(* forgets the one it found only with an update that came out well.         *)
PinAsFound ==
    flow.kind = "upgrade" /\ ~flow.torn =>
        /\ flow.at \in {"backup", "pin", "unoverride", "up back", "health back"}
             => pin = flow.pinWas
        /\ flow.at \in {"recheck", "checking"} => flow.result = "ok"
        /\ flow.at \notin {"record", "retag"}
        /\ flow.at = "idle" /\ flow.result \notin {"none", "ok"} => pin = flow.pinWas

LEMMA PinNext == ImageShape /\ PinAsFound /\ Image!Next => PinAsFound'
<1> SUFFICES ASSUME ImageShape, PinAsFound, Image!Next PROVE PinAsFound'
    OBVIOUS
<1>1. CASE Image!Publish \/ Image!CheckStart
    BY <1>1, OutsideDoes DEF PinAsFound
<1>2. CASE Image!CheckEnd
    BY <1>2, CheckEndDoes DEF PinAsFound, Carries, Keeps
<1>3. CASE Image!Begin
    BY <1>3, BeginDoes DEF PinAsFound
<1>4. CASE Image!Crash
    BY <1>4, CrashDoes DEF PinAsFound
<1>5. ASSUME NEW c \in stray, Image!StrayLands(c) PROVE PinAsFound'
    BY <1>5, StrayDoes DEF PinAsFound
<1>6. CASE Image!Backup
    BY <1>6, BackupDoes DEF PinAsFound, Carries, Keeps, Throws
<1>7. CASE Image!Record
    BY <1>7, RecordDoes DEF PinAsFound, Carries, Keeps, Throws
<1>8. CASE Image!SetPin
    BY <1>8, SetPinDoes DEF PinAsFound, Carries, Keeps, Throws
<1>9. CASE Image!SetOverride
    BY <1>9, SetOverrideDoes DEF PinAsFound, Carries, Keeps, Throws
<1>10. CASE Image!Done
    BY <1>10, DoneDoes DEF PinAsFound, Carries
<1>11. CASE Image!Failed
    BY <1>11, FailedDoes DEF PinAsFound, Carries
<1>12. CASE Image!CameBack \/ Image!DidNotComeBack \/ Image!HealthUnknown
    BY <1>12, HealthDoes DEF PinAsFound, Carries, Keeps, Throws
<1>13. CASE Image!Unpin \/ Image!Unoverride
    BY <1>13, BackDoes DEF PinAsFound, Carries, Keeps, Abandons
<1>14. CASE Image!WentBack \/ Image!StillDown
    BY <1>14, BackHealthDoes DEF PinAsFound, Carries, Keeps
<1>15. CASE Image!Recheck
    BY <1>15, RecheckDoes DEF PinAsFound, Carries, Keeps
<1> QED
    BY <1>1, <1>2, <1>3, <1>4, <1>5, <1>6, <1>7, <1>8, <1>9, <1>10, <1>11, <1>12, <1>13,
       <1>14, <1>15 DEF Image!Next, Image!FlowStep

(* From its backup to its switch, a flow's archive holds the data.          *)
DataKept ==
    flow.at \in {"record", "pin", "override", "pull", "up"} /\ ~flow.strayed
        => \E i \in DOMAIN archives : archives[i] = data

LEMMA DataNext == ImageShape /\ DataKept /\ Image!Next => DataKept'
<1> SUFFICES ASSUME ImageShape, DataKept, Image!Next PROVE DataKept'
    OBVIOUS
<1>1. CASE Image!Publish \/ Image!CheckStart
    BY <1>1, OutsideDoes DEF DataKept
<1>2. CASE Image!CheckEnd
    BY <1>2, CheckEndDoes DEF DataKept, Carries, Still
<1>3. CASE Image!Begin
    BY <1>3, BeginDoes DEF DataKept
<1>4. CASE Image!Crash
    BY <1>4, CrashDoes DEF DataKept
<1>5. ASSUME NEW c \in stray, Image!StrayLands(c) PROVE DataKept'
    BY <1>5, StrayDoes DEF DataKept
<1>6. CASE Image!Backup
    <2>1. \E i \in DOMAIN Image!Prune(Append(archives, data)) :
             Image!Prune(Append(archives, data))[i] = data
        <3>1. archives \in Seq(Nat) /\ data \in Nat
            BY DEF ImageShape, WorldShape
        <3> QED
            BY <3>1, KeptLast, Zenon
    <2> QED
        BY <1>6, <2>1, BackupDoes DEF DataKept, Still, Throws
<1>7. CASE Image!Record
    BY <1>7, RecordDoes DEF DataKept, Carries, Still, Throws
<1>8. CASE Image!SetPin
    BY <1>8, SetPinDoes DEF DataKept, Carries, Still, Throws
<1>9. CASE Image!SetOverride
    BY <1>9, SetOverrideDoes DEF DataKept, Carries, Still, Throws
<1>10. CASE Image!Done
    BY <1>10, DoneDoes DEF DataKept, Carries, Image!Pull
<1>11. CASE Image!Failed
    BY <1>11, FailedDoes DEF DataKept, Carries
<1>12. CASE Image!CameBack \/ Image!DidNotComeBack \/ Image!HealthUnknown
    BY <1>12, HealthDoes DEF DataKept, Carries, Throws
<1>13. CASE Image!Unpin \/ Image!Unoverride
    BY <1>13, BackDoes DEF DataKept, Carries, Abandons
<1>14. CASE Image!WentBack \/ Image!StillDown
    BY <1>14, BackHealthDoes DEF DataKept
<1>15. CASE Image!Recheck
    BY <1>15, RecheckDoes DEF DataKept
<1> QED
    BY <1>1, <1>2, <1>3, <1>4, <1>5, <1>6, <1>7, <1>8, <1>9, <1>10, <1>11, <1>12, <1>13,
       <1>14, <1>15 DEF Image!Next, Image!FlowStep

(* The tag compose makes of an override.                                    *)
ChosenBy(o) == IF o = Image!NoTag THEN 0 ELSE o

(* A flow whose start was plain and which nothing has disturbed knows its   *)
(* way back.                                                                *)
Clean == flow.sure /\ ~flow.strayed /\ ~flow.torn /\ ~flow.stuck

AsFound == ctr.image = flow.from.image /\ ctr.tag = flow.from.tag

WayOfApply ==
    /\ flow.at \in {"backup", "record", "pull", "up", "health", "retag", "up back"}
         => flow.tag = flow.from.tag /\ ChosenBy(override) = flow.from.tag
    /\ flow.at \in {"pull", "up", "health", "retag", "up back"} => flow.was = flow.from.image
    /\ flow.at = "up back" => local[flow.from.tag] = flow.from.image

WayOfUpgrade ==
    /\ flow.tag # flow.from.tag
    /\ flow.at \in {"backup", "pin"} => pin = override /\ ChosenBy(override) = flow.from.tag
    /\ flow.at = "override" => pin = flow.tag
    /\ flow.at \in {"pull", "up", "health"} => override = flow.tag
    /\ flow.at \in {"override", "pull", "up", "health", "unpin", "unoverride"}
         => ChosenBy(flow.pinWas) = flow.from.tag
    /\ flow.at = "unoverride" => pin = flow.pinWas
    /\ flow.at = "up back" => ChosenBy(override) = flow.from.tag
    /\ flow.at \in {"backup", "pin", "override", "pull", "up", "health", "unpin", "unoverride",
                    "up back"}
         => local[flow.from.tag] = flow.from.image

WayBack ==
    Clean =>
        /\ flow.from.tag \in Image!Tags /\ flow.from.image # 0
        /\ flow.at \in {"backup", "record", "pin", "override"} => AsFound /\ ctr.up
        /\ flow.at = "health back" => AsFound
        /\ flow.kind = "apply" => WayOfApply
        /\ flow.kind = "upgrade" => WayOfUpgrade

LEMMA ChosenIs ==
    ASSUME ImageShape
    PROVE  /\ Image!Chosen \in Image!Tags /\ Image!Chosen = ChosenBy(override)
           /\ ChosenBy(flow.tag) = flow.tag
<1>1. Image!Chosen \in Image!Tags /\ Image!Chosen = ChosenBy(override)
    BY CommandIs DEF Image!Chosen, ChosenBy
<1>2. flow.tag \in 0..MaxTag /\ MaxTag \in Nat /\ Image!NoTag = MaxTag + 1
    BY TagsNat DEF ImageShape
<1>3. flow.tag # Image!NoTag
    BY <1>2
<1> QED
    BY <1>1, <1>3 DEF ChosenBy

LEMMA TagsMove ==
    ASSUME ImageShape, NEW t \in Image!Tags
    PROVE  /\ Image!Pull(t) => \A u \in Image!Tags \ {t} : local'[u] = local[u]
           /\ \A image \in Nat :
                  Image!Retag(image, t) => ctr' = ctr /\ local'[t] = image
           /\ \A starts \in BOOLEAN :
                  Image!Up(t, starts) =>
                      /\ \A u \in Image!Tags \ {t} : local'[u] = local[u]
                      /\ ctr'.tag = t
                      /\ local[t] # 0 => ctr'.image = local[t]
BY DEF ImageShape, WorldShape, Image!Pull, Image!Retag, Image!Up

LEMMA WayNext == ImageShape /\ WayBack /\ Image!Next => WayBack'
<1> SUFFICES ASSUME ImageShape, WayBack, Image!Next PROVE WayBack'
    OBVIOUS
<1> USE DEF WayBack, Clean, AsFound, WayOfApply, WayOfUpgrade
<1>1. CASE Image!Publish \/ Image!CheckStart
    BY <1>1, OutsideDoes
<1>2. CASE Image!CheckEnd
    BY <1>2, CheckEndDoes DEF Carries, Keeps, Still
<1>3. CASE Image!Begin
    BY <1>3, BeginDoes DEF Still, Image!Sure, ChosenBy, Image!Chosen, ImageShape, WorldShape
<1>4. CASE Image!Crash
    BY <1>4, CrashDoes
<1>5. ASSUME NEW c \in stray, Image!StrayLands(c) PROVE WayBack'
    BY <1>5, StrayDoes
<1>6. CASE Image!Backup
    BY <1>6, BackupDoes DEF Carries, Keeps, Still, Throws, ImageShape
<1>7. CASE Image!Record
    BY <1>7, RecordDoes DEF Carries, Still, Throws, ImageShape
<1>8. CASE Image!SetPin
    BY <1>8, SetPinDoes DEF Carries, Keeps, Still, Throws
<1>9. CASE Image!SetOverride
    BY <1>9, SetOverrideDoes DEF Carries, Keeps, Still, Throws, ImageShape
<1>10. CASE Image!Done
    <2>1. Carries /\ (Clean' => Clean)
        BY <1>10, DoneDoes DEF Carries
    <2>3. CASE flow.at = "pull"
        <3>1. /\ \A u \in Image!Tags \ {Image!Chosen} : local'[u] = local[u]
              /\ flow'.at = "up" /\ UNCHANGED <<pin, override>>
              /\ flow'.was = flow.was /\ flow'.pinWas = flow.pinWas
            BY <1>10, <2>3, DoneDoes, TagsMove, ChosenIs
        <3> QED
            BY <2>1, <2>3, <3>1, ChosenIs DEF Carries
    <2>4. CASE flow.at = "up"
        <3>1. /\ \A u \in Image!Tags \ {Image!Chosen} : local'[u] = local[u]
              /\ flow'.at = "health" /\ UNCHANGED <<pin, override>>
              /\ flow'.was = flow.was /\ flow'.pinWas = flow.pinWas
            BY <1>10, <2>4, DoneDoes, TagsMove, ChosenIs
        <3> QED
            BY <2>1, <2>4, <3>1, ChosenIs DEF Carries
    <2>5. CASE flow.at = "retag"
        <3>1. /\ flow.tag \in Image!Tags /\ flow.was \in Nat /\ flow.kind = "apply"
            BY <2>5 DEF ImageShape
        <3>2. /\ local'[flow.tag] = flow.was
              /\ flow'.at = "up back" /\ UNCHANGED <<pin, override>>
              /\ flow'.was = flow.was /\ flow'.pinWas = flow.pinWas
            BY <1>10, <2>5, <3>1, DoneDoes, TagsMove
        <3> QED
            BY <2>1, <2>5, <3>1, <3>2 DEF Carries
    <2>6. CASE flow.at = "up back"
        <3>1. /\ ctr'.tag = Image!Chosen
              /\ local[Image!Chosen] # 0 => ctr'.image = local[Image!Chosen]
              /\ flow'.at \in {"idle", "health back"} /\ UNCHANGED <<pin, override>>
              /\ flow'.was = flow.was /\ flow'.pinWas = flow.pinWas
            BY <1>10, <2>6, DoneDoes, TagsMove, ChosenIs
        <3> QED
            BY <2>1, <2>6, <3>1, ChosenIs DEF Carries, ImageShape
    <2> QED
        BY <1>10, <2>3, <2>4, <2>5, <2>6, DoneDoes
<1>11. CASE Image!Failed
    <2>1. CASE UNCHANGED <<local, ctr, data>>
        BY <1>11, <2>1, FailedDoes DEF Carries
    <2>2. CASE flow.at \in {"up", "up back"} /\ Image!Up(Image!Chosen, FALSE)
        <3>1. /\ Carries /\ (Clean' => Clean) /\ UNCHANGED <<pin, override>>
              /\ flow'.was = flow.was /\ flow'.pinWas = flow.pinWas
            BY <1>11, FailedDoes DEF Carries
        <3>2. \A u \in Image!Tags \ {Image!Chosen} : local'[u] = local[u]
            BY <2>2, TagsMove, ChosenIs
        <3>3. \/ flow.kind = "apply" /\ flow'.at = "recheck"
              \/ flow.at = "up" /\ flow.kind = "upgrade" /\ flow'.at = "unpin"
              \/ flow'.stuck
            BY <1>11, <2>2, FailedDoes
        <3> QED
            BY <2>2, <3>1, <3>2, <3>3, ChosenIs DEF Carries
    <2> QED
        BY <1>11, <2>1, <2>2, FailedDoes
<1>12. CASE Image!CameBack \/ Image!DidNotComeBack \/ Image!HealthUnknown
    BY <1>12, HealthDoes DEF Carries, Keeps, Still, Throws
<1>13. CASE Image!Unpin \/ Image!Unoverride
    BY <1>13, BackDoes DEF Carries, Keeps, Still, Abandons, ImageShape
<1>14. CASE Image!WentBack \/ Image!StillDown
    BY <1>14, BackHealthDoes DEF Carries, Keeps, Still
<1>15. CASE Image!Recheck
    BY <1>15, RecheckDoes DEF Carries, Keeps, Still
<1> QED
    BY <1>1, <1>2, <1>3, <1>4, <1>5, <1>6, <1>7, <1>8, <1>9, <1>10, <1>11, <1>12, <1>13,
       <1>14, <1>15 DEF Image!Next, Image!FlowStep

ImageInv == ImageShape /\ PinAsFound /\ DataKept /\ WayBack

LEMMA ImageInit == Image!Init => ImageInv
<1>1. Image!Init => /\ flow.at = "idle" /\ flow.kind = "apply" /\ flow.sure = FALSE
    BY DEF Image!Init, Image!NoFlow
<1> QED
    BY <1>1, ShapeInit DEF ImageInv, PinAsFound, DataKept, WayBack, Clean

LEMMA ImageNext == ImageInv /\ [Image!Next]_Image!vars => ImageInv'
<1>1. ImageInv /\ Image!Next => ImageInv'
    BY ShapeNext, PinNext, DataNext, WayNext DEF ImageInv
<1>2. ImageInv /\ UNCHANGED Image!vars => ImageInv'
    <2>1. SUFFICES ASSUME ImageInv, UNCHANGED Image!vars PROVE ImageInv'
        OBVIOUS
    <2>2. /\ UNCHANGED <<reg, images, local, ctr, data>>
          /\ UNCHANGED <<archives, pin, override, cache, chk, flow, stray>>
        BY <2>1 DEF Image!vars, Image!box, Image!pinned
    <2>3. ImageShape'
        BY <2>1, <2>2 DEF ImageInv, ImageShape, WorldShape
    <2>4. PinAsFound' /\ DataKept'
        BY <2>1, <2>2 DEF ImageInv, PinAsFound, DataKept
    <2>5. WayBack'
        BY <2>1, <2>2 DEF ImageInv, WayBack, Clean, AsFound, WayOfApply, WayOfUpgrade
    <2> QED
        BY <2>3, <2>4, <2>5 DEF ImageInv
<1> QED
    BY <1>1, <1>2

LEMMA ImageAlways == Image!Init /\ [][Image!Next]_Image!vars => []ImageInv
BY ImageInit, ImageNext, PTL

(* An upgrade that ends other than well has the pin it found back in        *)
(* image-pins.json, whatever else happened but a write of it that failed or *)
(* docker not answering (updates.js:613-615).                               *)
THEOREM PinsGoBack == Image!Spec => []PinPutBack
<1>1. ImageInv => PinPutBack
    BY DEF ImageInv, PinAsFound, PinPutBack, Image!PinPutBack, Image!Over
<1> QED
    BY <1>1, ImageAlways, PTL DEF Image!Spec

(* When a flow's switch lets a new image migrate the app's data, an archive *)
(* has that very data, however few archives are kept and whatever earlier   *)
(* flows left behind (updates.js:21).                                       *)
THEOREM MigrationsAlwaysBackedUp == Image!Spec => MigrationsBackedUp
<1>1. ImageInv /\ [Image!Next]_Image!vars =>
        [data' # data /\ flow.at = "up" /\ stray' = stray /\ ~flow.strayed
           => \E i \in DOMAIN archives : archives[i] = data]_Image!vars
    BY DEF ImageInv, DataKept
<1> QED
    BY <1>1, ImageAlways, PTL DEF Image!Spec, MigrationsBackedUp, Image!MigrationsBackedUp

(* Only the end of the way back says so.                                    *)
LEMMA SaysRolledBack ==
    ASSUME ImageShape, Image!Next, flow'.result = "rolled back", flow.result # "rolled back"
    PROVE  /\ flow.at = "health back" /\ flow'.torn = flow.torn
           /\ ctr.up
<1>1. CASE Image!Publish \/ Image!CheckStart
    BY <1>1, OutsideDoes
<1>2. CASE Image!CheckEnd
    BY <1>2, CheckEndDoes
<1>3. CASE Image!Begin
    BY <1>3, BeginDoes
<1>4. CASE Image!Crash
    BY <1>4, CrashDoes
<1>5. ASSUME NEW c \in stray, Image!StrayLands(c) PROVE FALSE
    BY <1>5, StrayDoes
<1>6. CASE Image!Backup
    BY <1>6, BackupDoes DEF Throws
<1>7. CASE Image!Record
    BY <1>7, RecordDoes DEF Throws
<1>8. CASE Image!SetPin
    BY <1>8, SetPinDoes DEF Throws
<1>9. CASE Image!SetOverride
    BY <1>9, SetOverrideDoes DEF Throws
<1>10. CASE Image!Done
    BY <1>10, DoneDoes
<1>11. CASE Image!Failed
    BY <1>11, FailedDoes
<1>12. CASE Image!CameBack \/ Image!DidNotComeBack \/ Image!HealthUnknown
    BY <1>12, HealthDoes DEF Throws
<1>13. CASE Image!Unpin \/ Image!Unoverride
    BY <1>13, BackDoes DEF Abandons
<1>14. CASE Image!WentBack \/ Image!StillDown
    BY <1>14, BackHealthDoes DEF Keeps
<1>15. CASE Image!Recheck
    BY <1>15, RecheckDoes
<1> QED
    BY <1>1, <1>2, <1>3, <1>4, <1>5, <1>6, <1>7, <1>8, <1>9, <1>10, <1>11, <1>12, <1>13,
       <1>14, <1>15 DEF Image!Next, Image!FlowStep

(* A flow that says "rolled back" and met no error of compose on its way    *)
(* back has the image and the tag it started from, up (updates.js:614).     *)
THEOREM WayBackIsExact == Image!Spec => CleanRollback
<1>1. ImageInv /\ [Image!Next]_Image!vars => [~flow.stuck => Image!Exactly]_Image!vars
    <2>1. SUFFICES ASSUME ImageInv, Image!Next, ~flow.stuck
                   PROVE  Image!Exactly
        OBVIOUS
    <2>2. SUFFICES ASSUME flow'.result = "rolled back", flow.result # "rolled back",
                          flow.sure, ~flow.strayed, ~flow.torn
                   PROVE  ctr.image = flow.from.image /\ ctr.tag = flow.from.tag /\ ctr.up
        BY DEF Image!Exactly
    <2>3. flow.at = "health back" /\ ctr.up
        BY <2>1, <2>2, SaysRolledBack DEF ImageInv
    <2> QED
        BY <2>1, <2>2, <2>3 DEF ImageInv, WayBack, Clean, AsFound
<1> QED
    BY <1>1, ImageAlways, PTL DEF Image!Spec, CleanRollback, Image!CleanRollback

=============================================================================
