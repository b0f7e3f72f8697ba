---------------------------- MODULE ReleaseCheck ----------------------------
(***************************************************************************)
(* Is there a newer Podhouse: check() and status() of lib/platform.js, over *)
(* the manifest the maintainer publishes and the answer that is kept in     *)
(* state/platform-check.json. Checks come from the timer, the page and the  *)
(* upgrade itself, so that two may be under way at once.                    *)
(***************************************************************************)
EXTENDS Naturals

CONSTANTS
    Versions,   \* releases, in order
    Floors,     \* oldest release that a manifest may carry forward from
    Checks,     \* checks that may be under way at once
    MaxEvents   \* bound: what the maintainer, the network and updates do

VARIABLES
    manifest,   \* what is published; its number is its ETag
    current,    \* VERSION of this box
    online,
    cache,      \* the answer that was kept
    dot,        \* knownPlatformVersion: what an open page names as available
    card,       \* the release its card has a button for
    check,      \* each check
    events

vars == <<manifest, current, online, cache, dot, card, check, events>>

Idle == [at |-> "idle"]
NoTag == 0
NoRelease == 0

(* `why` is the reason there is no button: none, or a box that is too old.  *)
Answer(tag, latest, frozen, why, failed) ==
    [tag |-> tag, latest |-> latest, frozen |-> frozen, why |-> why, failed |-> failed]

NeverChecked == Answer(NoTag, NoRelease, FALSE, "none", FALSE)

Init ==
    /\ \E v \in Versions, f \in Floors :
         manifest = [number |-> 1, stable |-> v, freeze |-> FALSE, floor |-> f]
    /\ current \in Versions
    /\ online = TRUE
    /\ cache = NeverChecked
    /\ dot = NoRelease /\ card = NoRelease
    /\ check = [c \in Checks |-> Idle]
    /\ events = 0

Event == events < MaxEvents /\ events' = events + 1

Publish ==
    /\ Event
    /\ \E v \in Versions, freeze \in BOOLEAN, f \in Floors :
         manifest' = [number |-> manifest.number + 1, stable |-> v, freeze |-> freeze, floor |-> f]
    /\ UNCHANGED <<current, online, cache, dot, card, check>>

NetworkChanges ==
    /\ Event
    /\ online' = ~online
    /\ UNCHANGED <<manifest, current, cache, dot, card, check>>

(* By the button, the command, or by hand.                                  *)
Updated ==
    /\ Event
    /\ current' \in {v \in Versions : v > current}
    /\ UNCHANGED <<manifest, online, cache, dot, card, check>>

(* check(): what was kept, and VERSION, are read before the network is. The *)
(* button's upgrade({to}) begins with a check of its own.                   *)
Start(c, to) ==
    /\ check[c] = Idle
    /\ check' = [check EXCEPT ![c] =
                    [at |-> "fetch", kept |-> cache, current |-> current, to |-> to]]
    /\ UNCHANGED <<manifest, current, online, cache, dot, card, events>>

Press(c) == card # NoRelease /\ Start(c, card)

(* The order matters: the freeze is looked at first, then the floor.        *)
Read(m, on) ==
    IF m.freeze THEN Answer(m.number, NoRelease, TRUE, "none", FALSE)
    ELSE Answer(m.number, m.stable, FALSE, IF on < m.floor THEN "too old" ELSE "none", FALSE)

(* Slip: an answer that says nothing has changed is kept whole, however old *)
(* the one it answers for.                                                  *)
FetchedAnyTag(q) ==
    IF ~online THEN Answer(NoTag, NoRelease, FALSE, "none", TRUE)
    ELSE IF q.kept.tag # NoTag THEN q.kept
    ELSE Read(manifest, q.current)

(* fetchManifest(): 304 where the ETag is that of the manifest.             *)
Fetched(q) ==
    IF ~online THEN Answer(NoTag, NoRelease, FALSE, "none", TRUE)
    ELSE IF q.kept.tag = manifest.number THEN q.kept
    ELSE Read(manifest, q.current)

(* Release notes are asked for between the answer and the file.             *)
Fetch(c) ==
    /\ check[c].at = "fetch"
    /\ check' = [check EXCEPT ![c] =
                    [at |-> "write", answer |-> Fetched(check[c]), to |-> check[c].to]]
    /\ UNCHANGED <<manifest, current, online, cache, dot, card, events>>

(* A check that failed has nothing to say against the release that the page *)
(* named; the script asks once more whether updates are paused, and stops   *)
(* if it cannot tell.                                                       *)
Accepts(answer) == ~answer.frozen /\ online /\ ~manifest.freeze

Write(c) ==
    /\ check[c].at = "write"
    /\ cache' = check[c].answer
    /\ current' = IF check[c].to # NoRelease /\ Accepts(check[c].answer)
                  THEN check[c].to ELSE current
    /\ check' = [check EXCEPT ![c] = Idle]
    /\ UNCHANGED <<manifest, online, dot, card, events>>

(* status(): where the box is is read now, the rest comes from the file.    *)
Offers == ~cache.frozen /\ cache.why = "none" /\ cache.latest > current

(* renderPlatform(), when the Updates page is opened.                       *)
Look ==
    /\ card' = IF Offers THEN cache.latest ELSE NoRelease
    /\ UNCHANGED <<manifest, current, online, cache, dot, check, events>>

(* refreshUpdateBadge(): every five minutes, and when the page is opened.   *)
Badge ==
    /\ dot' = IF Offers THEN cache.latest ELSE NoRelease
    /\ UNCHANGED <<manifest, current, online, cache, card, check, events>>

Next ==
    \/ Publish \/ NetworkChanges \/ Updated
    \/ Badge \/ Look
    \/ \E c \in Checks : Start(c, NoRelease) \/ Press(c) \/ Fetch(c) \/ Write(c)

(* The timer checks every fifteen minutes whatever the file says, every      *)
(* request has a deadline, and an open page asks on a timer of its own.      *)
Spec ==
    /\ Init /\ [][Next]_vars
    /\ WF_vars(Badge)
    /\ \A c \in Checks : WF_vars(Start(c, NoRelease) \/ Fetch(c) \/ Write(c))

-----------------------------------------------------------------------------
(* "so a release discovered to be bad stops being offered even to a box that *)
(* has already seen it advertised" (platform.js:205): once the maintainer    *)
(* has paused updates, an open page comes to name none, whatever checks were *)
(* under way.                                                                *)
FreezeReaches == <>[](online /\ manifest.freeze) => <>[](dot = NoRelease)

(* "304 means the MANIFEST has not changed. It says nothing at all about     *)
(* this box" (platform.js:229): a release this box may move to comes to be   *)
(* named. It does not: a box that was too old once, and was then updated by  *)
(* hand, keeps the reason for as long as the manifest stays as it is.        *)
MayMove == online /\ ~manifest.freeze /\ manifest.stable > current /\ current >= manifest.floor
OfferReaches == <>[]MayMove => <>[](dot = manifest.stable)

(* A page opened before another update still has its button: what it names   *)
(* is older than what is there, and upgrade({to}) does not compare.          *)
NeverBack == [][current' >= current]_current

=============================================================================
