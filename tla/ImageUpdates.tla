---------------------------- MODULE ImageUpdates ----------------------------
(***************************************************************************)
(* The Updates page for one service: lib/updates.js asks the registry for   *)
(* rebuilds of the tag a container runs and for newer tags, and on request  *)
(* applies either, with a backup first and a way back after; lib/pins.js    *)
(* keeps the tag chosen. Docker's side of pull, up and tag is what          *)
(* lib/compose-privileged.js makes the worker run.                          *)
(*                                                                          *)
(* Images are numbered in the order they are published; image 0 is none.    *)
(* Tag 0 is the one the module's compose file names, later tags are newer   *)
(* versions.                                                                *)
(***************************************************************************)
EXTENDS Naturals, Sequences, FiniteSetsExt

CONSTANTS
    MaxTag,     \* newer versions there may be
    MaxImages,  \* bound: images ever published
    MaxRuns,    \* bound: updates and upgrades ever begun
    MaxCrashes, \* bound: deaths of the dashboard
    Kept        \* BACKUPS_KEPT

VARIABLES
    reg,        \* the registry: the image under each tag
    sick,       \* published images that never become healthy
    images,     \* images published so far
    local,      \* docker: the image each tag names on this box
    ctr,        \* the service's container: its image, its tag, whether it is up
    data,       \* the latest image that has started on the module's data
    archives,   \* state/update-backups: the data in each, oldest first
    pin,        \* image-pins.json: the tag pinned, or NoTag
    override,   \* state/overrides/<module>.yml: the tag it names, or NoTag
    cache,      \* updates.json: the rebuild and the newer version on offer
    chk,        \* a check under way, the container it saw
    flow,       \* the update or upgrade under way
    stray,      \* compose commands whose dashboard has died
    runs, crashes

box == <<reg, sick, images>>
pinned == <<pin, override>>
vars == <<box, local, ctr, data, archives, pinned, cache, chk, flow, stray, runs, crashes>>

Tags == 0..MaxTag

NoTag == MaxTag + 1

Images == 0..MaxImages

Container == [image : Images, tag : Tags, up : BOOLEAN]

NoOffer == [rebuild |-> FALSE, tag |-> 0, newer |-> NoTag]

Offers == [rebuild : BOOLEAN, tag : Tags, newer : Tags \cup {NoTag}]

Commands == {"pull", "up", "retag", "up back"}

Places == Commands \cup {"idle", "backup", "record", "pin", "override", "health", "unpin",
                         "unoverride", "health back", "recheck", "checking"}

Results == {"none", "ok", "rolled back", "not rolled back", "failed"}

(* `was` is previousImageId, `pinWas` what pins.set() returned, `error`     *)
(* that upgrade() will throw when it has put things back. The rest is       *)
(* history: the container at the start, whether it was what docker would    *)
(* make of its tag and what the offer was made for, whether a command from  *)
(* before a crash landed meanwhile, whether a pin could not be written or   *)
(* docker not be asked, whether the way back failed.                        *)
Flow == [at : Places, kind : {"apply", "upgrade"}, tag : Tags, was : Images,
         pinWas : Tags \cup {NoTag}, error : BOOLEAN, result : Results,
         from : Container, sure : BOOLEAN, strayed : BOOLEAN, torn : BOOLEAN, stuck : BOOLEAN]

TypeOK ==
    /\ reg \in [Tags -> Images] /\ local \in [Tags -> Images]
    /\ images \in 1..MaxImages /\ sick \in SUBSET (1..images)
    /\ ctr \in Container
    /\ data \in 1..images
    /\ archives \in UNION {[1..n -> 1..images] : n \in 0..Kept}
    /\ pin \in Tags \cup {NoTag} /\ override \in Tags \cup {NoTag}
    /\ cache \in Offers
    /\ chk \in [on : BOOLEAN, saw : Container]
    /\ flow \in Flow
    /\ stray \in SUBSET [op : Commands, tag : Tags, image : Images]
    /\ runs \in 0..MaxRuns /\ crashes \in 0..MaxCrashes

(* Tag 0 is pulled, runs, and is all there is.                              *)
First == [image |-> 1, tag |-> 0, up |-> TRUE]

NoFlow == [at |-> "idle", kind |-> "apply", tag |-> 0, was |-> 0, pinWas |-> NoTag,
           error |-> FALSE, result |-> "none", from |-> First, sure |-> FALSE, strayed |-> FALSE, torn |-> FALSE, stuck |-> FALSE]

Init ==
    /\ reg = [t \in Tags |-> IF t = 0 THEN 1 ELSE 0] /\ local = reg
    /\ images = 1 /\ sick = {}
    /\ ctr = First /\ data = 1
    /\ archives = <<>>
    /\ pin = NoTag /\ override = NoTag
    /\ cache = NoOffer
    /\ chk = [on |-> FALSE, saw |-> First]
    /\ flow = NoFlow
    /\ stray = {}
    /\ runs = 0 /\ crashes = 0

(* The tag compose reads from the module's file and its override.           *)
Chosen == IF override = NoTag THEN 0 ELSE override

(* Someone publishes a rebuild of a tag, or a new tag; it may be no good.   *)
Publish ==
    /\ images < MaxImages
    /\ images' = images + 1
    /\ \E t \in Tags : reg' = [reg EXCEPT ![t] = images + 1]
    /\ sick' \in {sick, sick \cup {images + 1}}
    /\ UNCHANGED <<local, ctr, data, archives, pinned, cache, chk, flow, stray, runs, crashes>>

-----------------------------------------------------------------------------
(* Docker's side of a command, for the worker.                              *)

(* docker compose pull: the tag moves, what it named stays on disk.         *)
Pull(tag) ==
    /\ local' = [local EXCEPT ![tag] = IF reg[tag] = 0 THEN @ ELSE reg[tag]]
    /\ UNCHANGED <<ctr, data>>

(* docker compose up -d --no-deps: the container is replaced if it is not   *)
(* what it should be, and the app may migrate its data as it starts. When   *)
(* compose fails late, the old container is gone and the new one not up.    *)
Up(tag, starts) ==
    LET image == IF local[tag] = 0 THEN reg[tag] ELSE local[tag]
    IN  /\ image # 0
        /\ local' = [local EXCEPT ![tag] = image]
        /\ ctr' = [image |-> image, tag |-> tag, up |-> starts]
        /\ data' = IF starts /\ image > data THEN image ELSE data

Retag(image, tag) ==
    /\ local' = [local EXCEPT ![tag] = image]
    /\ UNCHANGED <<ctr, data>>

Succeeds(c) ==
    CASE c.op = "pull" -> Pull(c.tag)
      [] c.op = "retag" -> Retag(c.image, c.tag)
      [] OTHER -> Up(c.tag, TRUE)

Fails(c) ==
    \/ UNCHANGED <<local, ctr, data>>
    \/ c.op \in {"up", "up back"} /\ Up(c.tag, FALSE)

-----------------------------------------------------------------------------
(* check(): targets() first, then the registry, then the cache.             *)

CheckStart ==
    /\ ~chk.on
    /\ chk' = [on |-> TRUE, saw |-> ctr]
    /\ UNCHANGED <<box, local, ctr, data, archives, pinned, cache, flow, stray, runs, crashes>>

(* checkOne(): a rebuild is another digest under the same tag; a newer      *)
(* version is the highest of the tags listed. A stopped container is        *)
(* nothing to update; a registry that does not answer offers nothing.       *)
Offer(c) ==
    LET newer == {t \in Tags : t > c.tag /\ reg[t] # 0}
    IN  IF ~c.up THEN NoOffer
        ELSE [rebuild |-> reg[c.tag] # c.image, tag |-> c.tag,
              newer |-> IF newer = {} THEN NoTag ELSE Max(newer)]

CheckEnd ==
    /\ chk.on
    /\ cache' \in {Offer(chk.saw), NoOffer}
    /\ chk' = [chk EXCEPT !.on = FALSE]
    /\ flow' = IF flow.at = "checking" THEN [flow EXCEPT !.at = "idle"] ELSE flow
    /\ UNCHANGED <<box, local, ctr, data, archives, pinned, stray, runs, crashes>>

-----------------------------------------------------------------------------
(* apply() and applyOne(), upgrade().                                       *)

(* applying is true until the flow is over: one at a time.                  *)
Applying == flow.at # "idle"

Sure(kind, tag) ==
    /\ ctr.up /\ pin = override /\ ctr.tag = Chosen /\ local[ctr.tag] = ctr.image
    /\ kind = "apply" <=> tag = ctr.tag

BeginOn(kind, tag) ==
    /\ ~Applying /\ runs < MaxRuns
    /\ runs' = runs + 1
    /\ flow' = [NoFlow EXCEPT !.at = "backup", !.kind = kind, !.tag = tag, !.from = ctr,
                              !.pinWas = pin, !.sure = Sure(kind, tag)]
    /\ UNCHANGED <<box, local, ctr, data, archives, pinned, cache, chk, stray, crashes>>

Begin ==
    \/ cache.rebuild /\ BeginOn("apply", cache.tag)
    \/ cache.newer # NoTag /\ BeginOn("upgrade", cache.newer)

(* What apply() does when applyOne() throws: note it and check again; an    *)
(* upgrade() that throws is over.                                           *)
Throw == [flow EXCEPT !.at = IF flow.kind = "apply" THEN "recheck" ELSE "idle",
                      !.result = "failed"]

Go(place) == [flow EXCEPT !.at = place]

(* pruneBackups(): the last ones stay.                                      *)
Prune(as) == IF Len(as) > Kept THEN SubSeq(as, Len(as) - Kept + 1, Len(as)) ELSE as

(* Slip: a backup that is there already is good enough.                     *)
BackupOnce ==
    /\ flow.at = "backup"
    /\ archives' = IF archives = <<>> THEN <<data>> ELSE archives
    /\ flow' = Go(IF flow.kind = "apply" THEN "record" ELSE "pin")
    /\ UNCHANGED <<box, local, ctr, data, pinned, cache, chk, stray, runs, crashes>>

(* backupModule()                                                           *)
Backup ==
    /\ flow.at = "backup"
    /\ \/ /\ archives' = Prune(Append(archives, data))
          /\ flow' = Go(IF flow.kind = "apply" THEN "record" ELSE "pin")
       \/ flow' = Throw /\ UNCHANGED archives
    /\ UNCHANGED <<box, local, ctr, data, pinned, cache, chk, stray, runs, crashes>>

(* "Recorded BEFORE the pull"; compose may have left no container at all.   *)
Record ==
    /\ flow.at = "record"
    /\ \/ \E id \in {ctr.image} \cup (IF ctr.up THEN {} ELSE {0}) :
            flow' = [Go("pull") EXCEPT !.was = id]
       \/ flow' = Throw
    /\ UNCHANGED <<box, local, ctr, data, archives, pinned, cache, chk, stray, runs, crashes>>

(* pins.set(): the JSON first, then the override made from it. A failed     *)
(* write leaves the rest undone.                                            *)
SetPin ==
    /\ flow.at = "pin"
    /\ \/ /\ pin' = flow.tag
          /\ flow' = [Go("override") EXCEPT !.pinWas = pin]
       \/ flow' = Throw /\ UNCHANGED pin
    /\ UNCHANGED <<box, local, ctr, data, archives, override, cache, chk, stray, runs, crashes>>

SetOverride ==
    /\ flow.at = "override"
    /\ \/ override' = pin /\ flow' = Go("pull")
       \/ flow' = [Throw EXCEPT !.torn = TRUE] /\ UNCHANGED override
    /\ UNCHANGED <<box, local, ctr, data, archives, pin, cache, chk, stray, runs, crashes>>

Command == [op |-> flow.at, tag |-> IF flow.at = "retag" THEN flow.tag ELSE Chosen,
            image |-> flow.was]

(* A call to the worker that comes back.                                    *)
Done ==
    /\ flow.at \in Commands
    /\ Succeeds(Command)
    /\ flow' = Go(CASE flow.at = "pull" -> "up"
                    [] flow.at = "up" -> "health"
                    [] flow.at = "retag" -> "up back"
                    [] flow.at = "up back" -> IF flow.error THEN "idle" ELSE "health back")
    /\ UNCHANGED <<box, archives, pinned, cache, chk, stray, runs, crashes>>

(* apply() has no way back from here; upgrade() catches and puts the pin    *)
(* back. A way back that fails is only noted: apply() gives up, upgrade()   *)
(* looks whether the container came back all the same.                      *)
Failed ==
    /\ flow.at \in Commands
    /\ Fails(Command)
    /\ flow' =
         CASE flow.at \in {"pull", "up"} /\ flow.kind = "apply" -> Throw
           [] flow.at \in {"pull", "up"} /\ flow.kind = "upgrade" ->
                [Go("unpin") EXCEPT !.error = TRUE, !.result = "failed"]
           [] flow.at \in {"retag", "up back"} /\ flow.kind = "apply" ->
                [Go("recheck") EXCEPT !.result = "not rolled back"]
           [] OTHER -> [Go(IF flow.error THEN "idle" ELSE "health back") EXCEPT !.stuck = TRUE]
    /\ UNCHANGED <<box, archives, pinned, cache, chk, stray, runs, crashes>>

(* waitHealthy(): a good image may be too slow for the deadline; docker may *)
(* not answer, and the flow throws.                                         *)
Healthy == ctr.up /\ ctr.image \notin sick

CameBack ==
    /\ flow.at = "health" /\ Healthy
    /\ flow' = [Go("recheck") EXCEPT !.result = "ok"]
    /\ UNCHANGED <<box, local, ctr, data, archives, pinned, cache, chk, stray, runs, crashes>>

DidNotComeBack ==
    /\ flow.at = "health"
    /\ flow' = IF flow.kind = "upgrade" THEN Go("unpin")
               ELSE IF flow.was # 0 THEN Go("retag")
               ELSE [Go("recheck") EXCEPT !.result = "not rolled back"]
    /\ UNCHANGED <<box, local, ctr, data, archives, pinned, cache, chk, stray, runs, crashes>>

HealthUnknown ==
    /\ flow.at = "health"
    /\ flow' = [Throw EXCEPT !.torn = TRUE]
    /\ UNCHANGED <<box, local, ctr, data, archives, pinned, cache, chk, stray, runs, crashes>>

(* Slip: back means no pin.                                                 *)
UnpinAlways ==
    /\ flow.at = "unpin"
    /\ pin' = NoTag /\ flow' = Go("unoverride")
    /\ UNCHANGED <<box, local, ctr, data, archives, override, cache, chk, stray, runs, crashes>>

(* restore() of upgrade(): the pin as it was, then its override.            *)
Unpin ==
    /\ flow.at = "unpin"
    /\ \/ pin' = flow.pinWas /\ flow' = Go("unoverride")
       \/ /\ flow' = [Go(IF flow.error THEN "idle" ELSE "health back") EXCEPT !.torn = TRUE]
          /\ UNCHANGED pin
    /\ UNCHANGED <<box, local, ctr, data, archives, override, cache, chk, stray, runs, crashes>>

(* Slip: pins.clear() does not write the override.                          *)
UnoverrideForgets ==
    /\ flow.at = "unoverride"
    /\ flow' = Go("up back")
    /\ UNCHANGED <<box, local, ctr, data, archives, pinned, cache, chk, stray, runs, crashes>>

Unoverride ==
    /\ flow.at = "unoverride"
    /\ \/ override' = pin /\ flow' = Go("up back")
       \/ /\ flow' = [Go(IF flow.error THEN "idle" ELSE "health back") EXCEPT !.torn = TRUE]
          /\ UNCHANGED override
    /\ UNCHANGED <<box, local, ctr, data, archives, pin, cache, chk, stray, runs, crashes>>

WentBack ==
    /\ flow.at = "health back"
    /\ flow' = [Go(IF flow.kind = "apply" THEN "recheck" ELSE "idle") EXCEPT
                  !.result = IF Healthy THEN "rolled back" ELSE "not rolled back"]
    /\ UNCHANGED <<box, local, ctr, data, archives, pinned, cache, chk, stray, runs, crashes>>

StillDown ==
    /\ flow.at = "health back"
    /\ flow' = [Go(IF flow.kind = "apply" THEN "recheck" ELSE "idle") EXCEPT
                  !.result = "not rolled back"]
    /\ UNCHANGED <<box, local, ctr, data, archives, pinned, cache, chk, stray, runs, crashes>>

(* Slip: it waits for its turn to check.                                    *)
RecheckWaits ==
    /\ flow.at = "recheck" /\ ~chk.on
    /\ flow' = Go("checking")
    /\ chk' = [on |-> TRUE, saw |-> ctr]
    /\ UNCHANGED <<box, local, ctr, data, archives, pinned, cache, stray, runs, crashes>>

(* await check().catch(() => {}): a check that is running already is left   *)
(* to it, whatever it saw.                                                  *)
Recheck ==
    /\ flow.at = "recheck"
    /\ flow' = Go(IF chk.on THEN "idle" ELSE "checking")
    /\ chk' = IF chk.on THEN chk ELSE [on |-> TRUE, saw |-> ctr]
    /\ UNCHANGED <<box, local, ctr, data, archives, pinned, cache, stray, runs, crashes>>

(* The dashboard dies; what it asked of the worker goes on.                 *)
Crash ==
    /\ crashes < MaxCrashes
    /\ crashes' = crashes + 1
    /\ stray' = IF flow.at \in Commands THEN stray \cup {Command} ELSE stray
    /\ flow' = NoFlow
    /\ chk' = [chk EXCEPT !.on = FALSE]
    /\ UNCHANGED <<box, local, ctr, data, archives, pinned, cache, runs>>

StrayLands(c) ==
    /\ Succeeds(c) \/ Fails(c)
    /\ stray' = stray \ {c}
    /\ flow' = [flow EXCEPT !.strayed = TRUE]
    /\ UNCHANGED <<box, archives, pinned, cache, chk, runs, crashes>>

FlowStep ==
    \/ Backup \/ Record \/ SetPin \/ SetOverride \/ Done \/ Failed
    \/ CameBack \/ DidNotComeBack \/ HealthUnknown
    \/ Unpin \/ Unoverride \/ WentBack \/ StillDown \/ Recheck

Next ==
    \/ Publish \/ CheckStart \/ CheckEnd \/ Begin \/ FlowStep \/ Crash
    \/ \E c \in stray : StrayLands(c)

(* Every call has a deadline of its own, so a flow and a check go on.       *)
Fairness == WF_vars(FlowStep) /\ WF_vars(CheckEnd)

Spec == Init /\ [][Next]_vars /\ Fairness

-----------------------------------------------------------------------------
Over == flow.at = "idle"

(* "Backing up before anything changes": whenever a flow's switch makes a   *)
(* new image migrate the app's data, an archive of that data is there.      *)
(* A command left by a dashboard that died may spoil it for the flow it     *)
(* lands in.                                                                *)
MigrationsBackedUp ==
    [][data' # data /\ flow.at = "up" /\ stray' = stray /\ ~flow.strayed
         => \E i \in DOMAIN archives : archives[i] = data]_vars

Exactly ==
    flow'.result = "rolled back" /\ flow.result # "rolled back"
    /\ flow.sure /\ ~flow.strayed /\ ~flow.torn
      => ctr.image = flow.from.image /\ ctr.tag = flow.from.tag /\ ctr.up

(* "putting the pin back and recreating restores it exactly"                *)
(* (updates.js:614): a flow that says it rolled back left the container *)
(* on the very image it had, unless docker's tags had moved on before.      *)
RolledBackIsBack == [][Exactly]_vars

(* The same of the flows whose way back met no error of compose.            *)
CleanRollback == [][~flow.stuck => Exactly]_vars

(* An upgrade that did not end well left the pin as it was, unless a write  *)
(* of it failed or docker did not answer.                                   *)
PinPutBack ==
    Over /\ flow.kind = "upgrade" /\ flow.result # "ok" /\ ~flow.torn /\ runs > 0
      => flow.result = "none" \/ pin = flow.pinWas

(* An update never stays "already running".                                 *)
Released == Applying ~> ~Applying

(* "If it does not come back healthy, the recorded image is re-tagged and   *)
(* the service recreated from it -- the box ends up where it started rather *)
(* than half updated" (updates.js:28-30).                                   *)
NotHalfUpdated ==
    Over /\ flow.kind = "apply" /\ flow.result = "failed" /\ ~flow.strayed /\ ~flow.torn
      => ctr = flow.from

=============================================================================
