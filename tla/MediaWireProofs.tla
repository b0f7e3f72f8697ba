-------------------------- MODULE MediaWireProofs --------------------------
(***************************************************************************)
(* A link is made once, stays deleted when the user deletes it, and is on   *)
(* record for what it was made for: for any box, number of passes, values of *)
(* the settings and events.                                                 *)
(*                                                                          *)
(* The argument: there is one pass at a time, so what the other program has *)
(* of the link in hand changes by that pass or by the user only. A pass's   *)
(* stamp is taken before the keys it writes are read: what is written is    *)
(* never older than its stamp, and no key is newer than its app.            *)
(***************************************************************************)
EXTENDS MediaWire, TLAPS, WellFoundedInduction, NaturalsInduction

(* The apps whose keys go into a stamp of l.                                *)
Keys(l) == l.needs \cap IDENTITY
Turn(q) == First(q.todo)
Ours(l) == thing[l.id].by = "us"

(* The list of links.                                                       *)
LEMMA LinkList ==
    \A l \in Links :
        \E i \in DOMAIN LINKS : i \in 1..13 /\ l = LINKS[i]
BY DEF Links, ToSet, LINKS

(* Every link has its place in the list, so of any links one is the first.  *)
LEMMA Places ==
    ASSUME NEW l \in Links
    PROVE  Place(l) \in Nat
<1>1. PICK i \in DOMAIN LINKS : l = LINKS[i]
    BY LinkList
<1>2. Place(l) \in DOMAIN LINKS
    BY <1>1 DEF Place
<1>3. DOMAIN LINKS \subseteq Nat
    BY DEF LINKS
<1> QED
    BY <1>2, <1>3

LEMMA FirstIn ==
    ASSUME NEW ls \in SUBSET Links, ls # {}
    PROVE  First(ls) \in ls
<1> DEFINE places == {Place(l) : l \in ls}
<1>1. places \subseteq Nat /\ places # {}
    BY Places
<1>2. \E k \in places : \A n \in places : ~(<<n, k>> \in OpToRel(<, Nat))
    BY <1>1, WFMin, NatLessThanWellFounded, Zenon
<1>3. PICK k \in places : \A n \in places : ~(n < k)
    BY <1>1, <1>2, Zenon DEF OpToRel
<1>4. PICK l \in ls : k = Place(l)
    BY <1>3
<1>5. \A m \in ls : Place(l) <= Place(m)
    BY <1>1, <1>3, <1>4, Places
<1> QED
    BY <1>4, <1>5 DEF First

(* What the list says of its links.                                         *)
LEMMA LinkFacts ==
    ASSUME NEW l \in Links
    PROVE  /\ l.id \in Ids
           /\ l.host \in l.needs /\ l.needs \subseteq Apps
           /\ l.id \in {"arr-rootfolder", "prowlarr-flaresolverr", "bazarr-languages",
                        "jellyfin-setup"} => Keys(l) = {l.host} /\ l.host \in IDENTITY
           /\ l.id \in {"prowlarr-flaresolverr", "bazarr-languages", "jellyfin-setup"} => ~l.extra
<1>1. PICK i \in 1..13 : l = LINKS[i]
    BY LinkList
<1>2. l.id \in Ids /\ l.needs \subseteq Apps
    BY DEF Ids, Apps
<1>3. l.host \in l.needs
    BY <1>1 DEF LINKS, Link
<1>4. l.id \in {"arr-rootfolder", "prowlarr-flaresolverr", "bazarr-languages",
                        "jellyfin-setup"} => Keys(l) = {l.host} /\ l.host \in IDENTITY
    BY <1>1 DEF LINKS, Link, Keys, IDENTITY
<1>5. l.id \in {"prowlarr-flaresolverr", "bazarr-languages", "jellyfin-setup"} => ~l.extra
    BY <1>1 DEF LINKS, Link
<1> QED
    BY <1>2, <1>3, <1>4, <1>5

(* No two links have the same name.                                         *)
LEMMA OneLink ==
    ASSUME NEW l \in Links, NEW m \in Links, l.id = m.id
    PROVE  l = m
<1>1. PICK i \in 1..13 : l = LINKS[i]
    BY LinkList
<1>2. PICK j \in 1..13 : m = LINKS[j]
    BY LinkList
<1> QED
    BY <1>1, <1>2 DEF LINKS, Link

LEMMA NamedLink ==
    ASSUME NEW l \in Links
    PROVE  Named(l.id) = l
BY OneLink DEF Named

(* Every link's run() looks first, and adds only what it does not find.     *)
LEMMA AddsWhatIsMissing ==
    ASSUME NEW l \in Links, NEW t, NEW prev, NEW settings,
           Decide(l, t, prev, settings) = "add"
    PROVE  t = None
<1>1. PICK i \in 1..13 : l = LINKS[i]
    BY LinkList
<1>2. l.id \in {"qbittorrent-paths", "arr-settings", "arr-rootfolder", "arr-import",
                "arr-qbittorrent", "prowlarr-arr", "prowlarr-flaresolverr", "bazarr-arr",
                "bazarr-languages", "jellyfin-setup", "jellyfin-libraries", "seerr-setup",
                "seerr-arr"}
    BY <1>1 DEF LINKS, Link
<1> QED
    BY <1>2 DEF Decide, UnlessTheirs, DownloadClient, ArrSettings, BazarrLink, SeerrArr,
        JellyfinLibraries, IfMissing, FlareSolverr, BazarrLanguages, JellyfinSetup,
        SeerrSetup, Wizard, ProwlarrApp, RootFolder, ImportLibrary, QbitPaths

(* A run() that leaves alone what Podhouse made has no record of it, or     *)
(* found the folder it set already, or another one than the one on record.  *)
LEMMA KeepsWhatIsThere ==
    ASSUME NEW l \in Links, NEW t, NEW prev, NEW settings,
           Decide(l, t, prev, settings) = "keep", t.by = "us", l.id # "seerr-setup"
    PROVE  \/ prev = Never
           \/ /\ l.id # "qbittorrent-paths"
              /\ Keys(l) = {l.host} /\ l.host \in IDENTITY
              /\ t.for.extra = settings \/ ~l.extra
           \/ l.id = "qbittorrent-paths" /\ ~(prev.set /\ prev.stamp.extra = t.for.extra)
<1>1. PICK i \in 1..13 : l = LINKS[i]
    BY LinkList
<1>2. l.id \in {"qbittorrent-paths", "arr-settings", "arr-rootfolder", "arr-import",
                "arr-qbittorrent", "prowlarr-arr", "prowlarr-flaresolverr", "bazarr-arr",
                "bazarr-languages", "jellyfin-setup", "jellyfin-libraries", "seerr-setup",
                "seerr-arr"}
    BY <1>1 DEF LINKS, Link
<1>3. t # None
    BY DEF None
<1> QED
    BY <1>2, <1>3, LinkFacts
       DEF Decide, UnlessTheirs, DownloadClient, ArrSettings, BazarrLink,
        SeerrArr, JellyfinLibraries, IfMissing, FlareSolverr, BazarrLanguages,
        JellyfinSetup,
        SeerrSetup, Wizard, ProwlarrApp, RootFolder, ImportLibrary, QbitPaths

(* A pass after a link's turn.                                              *)
LEMMA Afterwards ==
    ASSUME NEW q
    PROVE  \/ After(q) = Idle
           \/ After(q) = [at |-> "next", env |-> q.env, done |-> q.done,
                          todo |-> q.todo \ {First(q.todo)}]
BY DEF After

-----------------------------------------------------------------------------
(* The shape of what the invariant speaks of.                               *)
IsStamp(s, l) == s = [keys |-> s.keys, extra |-> s.extra] /\ s.keys \in [Keys(l) -> Nat]

IsPass(q) ==
    /\ q.at \in {"idle", "next", "look", "act", "save"}
    /\ q.at = "idle" => q = Idle
    /\ q.at # "idle" => q.todo \subseteq Links /\ q.done = [i \in Ids |-> q.done[i]]
    /\ q.at \in {"look", "act", "save"} => q.todo # {}
    /\ q.at \in {"act", "save"} =>
         DOMAIN q = {"at", "env", "done", "todo", "stamp", "plan", "for", "calls", "server"}

Shape ==
    /\ app \in [Apps -> [at : {"absent", "starting", "up", "stopped"}, install : Nat]]
    /\ thing = [i \in Ids |-> thing[i]]
    /\ rec = [i \in Ids |-> rec[i]]
    /\ declined \subseteq Ids
    /\ pass = [p \in Passes |-> pass[p]]
    /\ \A p \in Passes : IsPass(pass[p])

(* wire(): one pass at a time.                                              *)
OnePass == \A p, q \in Passes : pass[p].at # "idle" /\ pass[q].at # "idle" => p = q

(* No key is of an install still to come.                                   *)
Lasts(s, l) == \A a \in Keys(l) : s.keys[a] <= app[a].install

(* What Podhouse made goes when the app that has it goes, so a key of that  *)
(* app in it is the key it has now.                                         *)
ThingOk(l) ==
    /\ IsStamp(thing[l.id].for, l)
    /\ app[l.host].at # "absent"
    /\ l.host \in IDENTITY => thing[l.id].for.keys[l.host] = app[l.host].install
    /\ Lasts(thing[l.id].for, l)
    /\ l.extra \/ thing[l.id].for.extra = "none"

ThingInv == \A l \in Links : Ours(l) => ThingOk(l)

(* s has the settings of t, and no key newer than t's.                      *)
NoMore(s, t, l) == s.extra = t.extra /\ \A a \in Keys(l) : s.keys[a] <= t.keys[a]
(* The links SettledIsCurrent says nothing about.                           *)
Excused(l) == l.id \in unsaved \cup torn \cup {"seerr-setup"}
(* What is there of the link in hand is ahead of its record.                *)
InHand(q) == (q.at = "act" /\ q.calls = 2) \/ (q.at = "save" /\ q.plan # "keep")

(* What a pass knows of the link in hand: its stamp, and what it writes.    *)
StampOk(q, l) ==
    /\ IsStamp(q.stamp, l)
    /\ q.stamp.extra = IF l.extra THEN q.env ELSE "none"
    /\ Lasts(q.stamp, l)

ForOk(q, l) ==
    /\ IsStamp(q.for, l)
    /\ NoMore(q.stamp, q.for, l)
    /\ Lasts(q.for, l)
    /\ l.host \in IDENTITY => q.for.keys[l.host] = q.server

(* What a pass leaves alone is good for the stamp that goes on record.      *)
KeepOk(q, l) ==
    q.at = "save" /\ q.plan = "keep" /\ Ours(l) /\ ~Excused(l) =>
        NoMore(q.stamp, thing[l.id].for, l) /\ l.id # "qbittorrent-paths"

RunInv ==
    \A p \in Passes : LET q == pass[p] l == Turn(pass[p]) IN
        /\ q.at \in {"look", "act", "save"} => StampOk(q, l)
        /\ q.at \in {"act", "save"} => ForOk(q, l)
        /\ q.at = "act" => q.plan # "keep"
        /\ q.at = "act" /\ q.plan = "add" /\ q.calls = 1 => ~Ours(l)
        /\ InHand(q) /\ Ours(l) => thing[l.id].for = q.for
        /\ KeepOk(q, l)

(* A pass has the record as it is, but for what could not be written.       *)
DoneInv ==
    \A p \in Passes : pass[p].at # "idle" =>
        \A i \in Ids : i \notin unsaved \/ i \in declined => pass[p].done[i] = rec[i]

(* What is on record is no newer than what is there.                        *)
Settled(l) ==
    Ours(l) /\ ~Excused(l) /\ (\A p \in Passes : InHand(pass[p]) => Turn(pass[p]) # l) =>
        /\ rec[l.id] # Never
        /\ NoMore(rec[l.id].stamp, thing[l.id].for, l)
        /\ l.id = "qbittorrent-paths" => rec[l.id].set

SettledInv == \A l \in Links : Settled(l)

(* What the user took away is on record for the apps and settings there are *)
(* now, for every pass too: none of them finds it due.                      *)
DeclinedOk(l) ==
    /\ ~Ours(l)
    /\ rec[l.id] # Never
    /\ rec[l.id].stamp = Now(l)
    /\ \A p \in Passes : pass[p].at # "idle" => Stamp(l, app, pass[p].env) = Now(l)
    /\ \A p \in Passes : pass[p].at \in {"look", "act", "save"} => Turn(pass[p]) # l

DeclinedInv == \A l \in Links : l.id \in declined => DeclinedOk(l)

MediaInv == Shape /\ OnePass /\ ThingInv /\ RunInv /\ DoneInv /\ SettledInv /\ DeclinedInv

(* At first nothing is made and nothing runs.                               *)
LEMMA InitInv == Init => MediaInv
<1> SUFFICES ASSUME Init PROVE MediaInv
    OBVIOUS
<1>1. \A i \in Ids : ~(thing[i].by = "us")
    BY DEF Init, None
<1>2. \A p \in Passes : pass[p] = Idle /\ pass[p].at = "idle"
    BY DEF Init, Idle
<1>3. \A l \in Links : ~Ours(l)
    BY <1>1, LinkFacts DEF Ours
<1>4. Shape
    BY <1>2 DEF Init, Shape, IsPass, Absent
<1> QED
    BY <1>2, <1>3, <1>4
       DEF MediaInv, Init, OnePass, ThingInv, RunInv, DoneInv, SettledInv, Settled,
       DeclinedInv, InHand, KeepOk

(* While one pass is under way the others rest.                             *)
LEMMA Others ==
    ASSUME MediaInv, NEW p \in Passes, pass[p].at # "idle"
    PROVE  \A q \in Passes : q # p => pass[q] = Idle /\ pass[q].at = "idle"
BY DEF MediaInv, OnePass, Shape, IsPass

LEMMA TurnIn ==
    ASSUME MediaInv, NEW p \in Passes, pass[p].at \in {"look", "act", "save"}
    PROVE  Turn(pass[p]) \in Links
BY FirstIn DEF MediaInv, Shape, IsPass, Turn

(* The steps of a pass.                                                     *)
LEMMA StartInv ==
    ASSUME MediaInv, NEW p \in Passes, Start(p)
    PROVE  MediaInv'
<1> DEFINE q == pass'[p]
<1>1. \A r \in Passes : pass[r] = Idle
    BY DEF Start, Free
<1>2. /\ q.at = "next" /\ q.env = env /\ q.done = rec /\ q.todo \subseteq Links
      /\ \A r \in Passes : r # p => pass'[r] = Idle /\ pass'[r].at = "idle"
    BY <1>1 DEF MediaInv, Shape, Start, Idle, Mine
<1>3. Shape'
    BY <1>2, Zenon DEF MediaInv, Shape, Start, Same, IsPass
<1>4. UNCHANGED <<app, env, thing, rec, declined, unsaved, torn>>
    BY DEF Start, Same
<1>5. OnePass' /\ ThingInv' /\ RunInv'
    BY <1>2, <1>4
       DEF MediaInv, OnePass, ThingInv, RunInv, Ours, ThingOk, Lasts, InHand, KeepOk
<1>6. DoneInv'
    BY <1>2, <1>4 DEF DoneInv
<1>7. SettledInv'
    BY <1>1, <1>2, <1>4 DEF MediaInv, SettledInv, Settled, Ours, Excused, InHand, Idle
<1>8. DeclinedInv'
    BY <1>2, <1>4 DEF MediaInv, DeclinedInv, DeclinedOk, Ours, Now
<1> QED
    BY <1>3, <1>5, <1>6, <1>7, <1>8 DEF MediaInv

LEMMA StampLinkInv ==
    ASSUME MediaInv, NEW p \in Passes, StampLink(p)
    PROVE  MediaInv'
<1> DEFINE o == pass[p]
           q == pass'[p]
           l == Turn(o)
<1>1. /\ o.at = "next" /\ o.todo \subseteq Links /\ o.done = [i \in Ids |-> o.done[i]]
      /\ \A r \in Passes : r # p => pass'[r] = Idle /\ pass'[r].at = "idle" /\ pass[r] = Idle
    BY Others DEF MediaInv, Shape, IsPass, StampLink, Idle
<1>2. UNCHANGED <<app, env, thing, rec, declined, unsaved, torn>>
    BY DEF StampLink, Same
<1>3. \/ q = Idle /\ q.at = "idle"
      \/ q.at = "next" /\ q.env = o.env /\ q.done = o.done /\ q.todo \subseteq Links
      \/ /\ q.at = "look" /\ q.env = o.env /\ q.done = o.done /\ q.todo = o.todo /\ o.todo # {}
         /\ q.stamp = Stamp(l, app, o.env) /\ Due(l, o.done, q.stamp)
    <2> DEFINE new == IF Due(l, o.done, Stamp(l, app, o.env))
                      THEN [at |-> "look", env |-> o.env, done |-> o.done, todo |-> o.todo,
                            stamp |-> Stamp(l, app, o.env)]
                      ELSE After(o)
    <2>1. \/ q = Idle
          \/ o.todo # {} /\ q = new
        BY DEF MediaInv, Shape, StampLink, Current, Turn
    <2>2. new = After(o) \/ (/\ Due(l, o.done, Stamp(l, app, o.env))
                             /\ new = [at |-> "look", env |-> o.env, done |-> o.done,
                                       todo |-> o.todo, stamp |-> Stamp(l, app, o.env)])
        OBVIOUS
    <2> HIDE DEF new, l
    <2> QED
        BY <1>1, <2>1, <2>2, Afterwards DEF Idle
<1>4. q.at = "look" => l \in Links
    BY <1>1, <1>3, FirstIn DEF Turn, Idle
<1> HIDE DEF l
<1>5. Shape'
    <2>1. \A r \in Passes : IsPass(pass'[r])
        BY <1>1, <1>3 DEF MediaInv, Shape, IsPass, Idle
    <2>2. pass' = [r \in Passes |-> pass'[r]]
        BY DEF MediaInv, Shape, StampLink
    <2> QED
        BY <1>2, <2>1, <2>2 DEF MediaInv, Shape, IsPass
<1>6. OnePass' /\ ThingInv'
    BY <1>1, <1>2 DEF MediaInv, OnePass, ThingInv, Ours, ThingOk, Lasts
<1>7. q.at = "look" => StampOk(q, l)
    <2> SUFFICES ASSUME q.at = "look" PROVE StampOk(q, l)
        OBVIOUS
    <2>1. q.stamp = Stamp(l, app, o.env) /\ q.env = o.env
        BY <1>3 DEF Idle
    <2>2. \A a \in Keys(l) : a \in Apps /\ app[a].install \in Nat
        BY <1>4, LinkFacts DEF Keys, MediaInv, Shape
    <2> QED
        BY <2>1, <2>2 DEF StampOk, IsStamp, Stamp, Lasts, Keys
<1>8. RunInv'
    BY <1>1, <1>2, <1>3, <1>7 DEF RunInv, InHand, KeepOk, StampOk, Lasts, l, Turn, Idle
<1>9. DoneInv'
    BY <1>1, <1>2, <1>3 DEF MediaInv, DoneInv, Idle
<1>10. SettledInv'
    BY <1>1, <1>2, <1>3 DEF MediaInv, SettledInv, Settled, Ours, Excused, InHand, Idle
<1>11. DeclinedInv'
    <2> SUFFICES ASSUME NEW m \in Links, m.id \in declined
                 PROVE  DeclinedOk(m)'
        BY <1>2 DEF DeclinedInv
    <2>1. DeclinedOk(m) /\ o.done[m.id] = rec[m.id] /\ Stamp(m, app, o.env) = Now(m)
        BY <1>1, LinkFacts DEF MediaInv, DeclinedInv, DeclinedOk, DoneInv
    <2>2. q.at = "look" => l # m
        BY <1>3, <2>1 DEF DeclinedOk, Due, Idle
    <2> QED
        BY <1>1, <1>2, <1>3, <2>1, <2>2 DEF DeclinedOk, Ours, Now, l, Turn, Idle
<1> QED
    BY <1>5, <1>6, <1>8, <1>9, <1>10, <1>11 DEF MediaInv

LEMMA LookInv ==
    ASSUME MediaInv, NEW p \in Passes, Look(p)
    PROVE  MediaInv'
<1> DEFINE o == pass[p]
           q == pass'[p]
           l == Turn(o)
           plan == Decide(l, thing[l.id], o.done[l.id], o.env)
<1>1. /\ o.at = "look" /\ o.todo \subseteq Links /\ o.done = [i \in Ids |-> o.done[i]]
      /\ o.todo # {}
      /\ \A r \in Passes : r # p => pass'[r] = Idle /\ pass'[r].at = "idle" /\ pass[r] = Idle
    BY Others DEF MediaInv, Shape, IsPass, Look, Idle
<1>2. UNCHANGED <<app, env, thing, rec, declined, unsaved, torn>>
    BY DEF Look, Same
<1>3. l \in Links /\ l.id \in Ids /\ l.host \in Apps /\ Keys(l) \subseteq Apps
    BY <1>1, TurnIn, LinkFacts DEF Keys
<1>4. /\ Up(l)
      /\ q = [at |-> IF plan = "keep" THEN "save" ELSE "act",
              env |-> o.env, done |-> o.done, todo |-> o.todo, stamp |-> o.stamp,
              plan |-> plan, for |-> Stamp(l, app, o.env), calls |-> 1,
              server |-> app[l.host].install]
      /\ pass' = [r \in Passes |-> pass'[r]]
    BY DEF MediaInv, Shape, Look, Current, Turn
<1>5. StampOk(o, l)
    BY <1>1 DEF MediaInv, RunInv
<1>6. plan = "add" => ~Ours(l)
    BY <1>3, AddsWhatIsMissing DEF Ours, None
<1> HIDE DEF l, plan
<1>7. /\ q.at \in {"act", "save"} /\ (q.at = "save") = (plan = "keep")
      /\ q.env = o.env /\ q.done = o.done /\ q.todo = o.todo /\ q.stamp = o.stamp
      /\ q.plan = plan /\ q.for = Stamp(l, app, o.env) /\ q.calls = 1
      /\ q.server = app[l.host].install
      /\ DOMAIN q = {"at", "env", "done", "todo", "stamp", "plan", "for", "calls", "server"}
      /\ Turn(q) = l
    BY <1>4 DEF l, Turn
<1>8. Shape'
    <2>1. \A r \in Passes : IsPass(pass'[r])
        BY <1>1, <1>7 DEF IsPass, Idle
    <2> QED
        BY <1>2, <1>4, <2>1 DEF MediaInv, Shape, IsPass
<1>9. OnePass' /\ ThingInv'
    BY <1>1, <1>2 DEF MediaInv, OnePass, ThingInv, Ours, ThingOk, Lasts
<1>10. StampOk(q, l)
    BY <1>5, <1>7 DEF StampOk, Lasts
<1>11. ForOk(q, l)
    <2>1. \A a \in Keys(l) : app[a].install \in Nat
        BY <1>3 DEF MediaInv, Shape
    <2>2. q.for = [keys |-> [a \in Keys(l) |-> app[a].install],
                   extra |-> IF l.extra THEN o.env ELSE "none"]
        BY <1>7 DEF Stamp, Keys
    <2>3. IsStamp(q.for, l) /\ Lasts(q.for, l)
        BY <2>1, <2>2 DEF IsStamp, Lasts
    <2>4. NoMore(q.stamp, q.for, l)
        BY <1>5, <1>7, <2>1, <2>2 DEF NoMore, StampOk, Lasts
    <2>5. l.host \in IDENTITY => q.for.keys[l.host] = q.server
        BY <1>3, <1>7, <2>2, LinkFacts DEF Keys
    <2> QED
        BY <2>3, <2>4, <2>5 DEF ForOk
<1>12. KeepOk(q, l)
    <2> SUFFICES ASSUME q.at = "save", q.plan = "keep", Ours(l), ~Excused(l)
                 PROVE  NoMore(q.stamp, thing[l.id].for, l) /\ l.id # "qbittorrent-paths"
        BY DEF KeepOk
    <2> DEFINE t == thing[l.id]
    <2>1. /\ rec[l.id] # Never /\ NoMore(rec[l.id].stamp, t.for, l)
          /\ l.id = "qbittorrent-paths" => rec[l.id].set
        BY <1>1, <1>3 DEF MediaInv, SettledInv, Settled, InHand, Idle
    <2>2. o.done[l.id] = rec[l.id]
        BY <1>1, <1>3 DEF MediaInv, DoneInv, Excused
    <2>3. ThingOk(l)
        BY <1>3 DEF MediaInv, ThingInv
    <2>4. /\ l.id # "qbittorrent-paths"
          /\ Keys(l) = {l.host} /\ l.host \in IDENTITY
          /\ t.for.extra = o.env \/ ~l.extra
        <3>1. l.id # "seerr-setup" /\ t.by = "us" /\ plan = "keep"
            BY <1>7 DEF Excused, Ours
        <3>2. rec[l.id].stamp.extra = t.for.extra
            BY <2>1 DEF NoMore
        <3> QED
            BY <1>3, <2>1, <2>2, <3>1, <3>2, KeepsWhatIsThere DEF plan
    <2>5. q.stamp.extra = t.for.extra
        BY <1>5, <1>7, <2>3, <2>4 DEF StampOk, ThingOk
    <2> QED
        BY <1>5, <1>7, <2>3, <2>4, <2>5 DEF NoMore, StampOk, Lasts, ThingOk
<1>13. RunInv'
    BY <1>1, <1>2, <1>6, <1>7, <1>10, <1>11, <1>12
       DEF RunInv, InHand, KeepOk, StampOk, ForOk, Lasts, Ours, Excused
<1>14. DoneInv'
    BY <1>1, <1>2, <1>7 DEF MediaInv, DoneInv
<1>15. SettledInv'
    BY <1>1, <1>2, <1>7 DEF MediaInv, SettledInv, Settled, Ours, Excused, InHand, Idle
<1>16. DeclinedInv'
    BY <1>1, <1>2, <1>7 DEF MediaInv, DeclinedInv, DeclinedOk, Ours, Now, l
<1> QED
    BY <1>8, <1>9, <1>13, <1>14, <1>15, <1>16 DEF MediaInv

LEMMA ActInv ==
    ASSUME MediaInv, NEW p \in Passes, Act(p)
    PROVE  MediaInv'
<1> DEFINE o == pass[p]
           q == pass'[p]
           l == Turn(o)
<1>1. /\ o.at = "act" /\ o.todo \subseteq Links /\ o.done = [i \in Ids |-> o.done[i]]
      /\ o.todo # {}
      /\ DOMAIN o = {"at", "env", "done", "todo", "stamp", "plan", "for", "calls", "server"}
      /\ \A r \in Passes : r # p => pass'[r] = Idle /\ pass'[r].at = "idle" /\ pass[r] = Idle
    BY Others DEF MediaInv, Shape, IsPass, Act, Idle
<1>2. UNCHANGED <<app, env, rec, declined, unsaved>>
    BY DEF Act, Same
<1>3. l \in Links /\ l.id \in Ids /\ l.host \in Apps
    BY <1>1, TurnIn, LinkFacts
<1>4. /\ app[l.host].at = "up" /\ app[l.host].install = o.server
      /\ thing' = [thing EXCEPT ![l.id] = Made(l, o)]
      /\ q = IF Made(l, o).whole THEN [o EXCEPT !.at = "save"] ELSE [o EXCEPT !.calls = 2]
      /\ pass' = [r \in Passes |-> pass'[r]]
      /\ torn' = torn \/ torn' = torn \ {l.id}
    BY DEF MediaInv, Shape, Act, Reachable, Current, Turn
<1>5. StampOk(o, l) /\ ForOk(o, l) /\ o.plan # "keep"
    BY <1>1 DEF MediaInv, RunInv
<1>6. Made(l, o).by = "us" /\ Made(l, o).for = o.for
    BY DEF Made
<1> HIDE DEF l
<1>7. /\ (q.at = "save" \/ (q.at = "act" /\ q.calls = 2))
      /\ q.env = o.env /\ q.done = o.done /\ q.todo = o.todo /\ q.stamp = o.stamp
      /\ q.plan = o.plan /\ q.for = o.for /\ q.server = o.server
      /\ DOMAIN q = {"at", "env", "done", "todo", "stamp", "plan", "for", "calls", "server"}
      /\ Turn(q) = l
    <2>1. q = [o EXCEPT !.at = "save"] \/ q = [o EXCEPT !.calls = 2]
        BY <1>4
    <2> QED
        BY <1>1, <2>1 DEF l, Turn
<1>8. /\ thing'[l.id].by = "us" /\ thing'[l.id].for = o.for
      /\ \A m \in Links : m # l => thing'[m.id] = thing[m.id]
      /\ thing' = [i \in Ids |-> thing'[i]]
    BY <1>3, <1>4, <1>6, OneLink, LinkFacts DEF MediaInv, Shape
<1>9. Shape'
    <2>1. \A r \in Passes : IsPass(pass'[r])
        BY <1>1, <1>7 DEF IsPass, Idle
    <2> QED
        BY <1>2, <1>4, <1>8, <2>1 DEF MediaInv, Shape, IsPass
<1>10. OnePass'
    BY <1>1 DEF OnePass
<1>11. ThingInv'
    <2> SUFFICES ASSUME NEW m \in Links, Ours(m)' PROVE ThingOk(m)'
        BY DEF ThingInv
    <2>1. CASE m = l
        BY <1>2, <1>4, <1>5, <1>8, <2>1 DEF ThingOk, ForOk, StampOk, NoMore, Lasts
    <2>2. CASE m # l
        BY <1>2, <1>8, <2>2 DEF MediaInv, ThingInv, ThingOk, Ours, Lasts
    <2> QED
        BY <2>1, <2>2
<1>12. RunInv'
    <2>1. StampOk(q, l) /\ ForOk(q, l)
        BY <1>2, <1>5, <1>7 DEF StampOk, ForOk, Lasts
    <2> QED
        BY <1>1, <1>2, <1>5, <1>7, <1>8, <2>1
           DEF RunInv, InHand, KeepOk, StampOk, ForOk, Lasts, Ours
<1>13. DoneInv'
    BY <1>1, <1>2, <1>7 DEF MediaInv, DoneInv
<1>14. SettledInv'
    <2> SUFFICES ASSUME NEW m \in Links PROVE Settled(m)'
        BY DEF SettledInv
    <2>1. CASE m = l
        <3>1. InHand(q)
            BY <1>5, <1>7 DEF InHand
        <3> QED
            BY <1>7, <2>1, <3>1 DEF Settled
    <2>2. CASE m # l
        <3>1. Settled(m) /\ (Excused(m)' = Excused(m)) /\ m.id # l.id
            BY <1>2, <1>3, <1>4, <2>2, OneLink DEF MediaInv, SettledInv, Excused
        <3>2. \A r \in Passes : InHand(pass[r]) => Turn(pass[r]) # m
            BY <1>1, <2>2 DEF InHand, Idle, l
        <3> QED
            BY <1>2, <1>8, <2>2, <3>1, <3>2 DEF Settled, Ours
    <2> QED
        BY <2>1, <2>2
<1>15. DeclinedInv'
    <2> SUFFICES ASSUME NEW m \in Links, m.id \in declined
                 PROVE  DeclinedOk(m)'
        BY <1>2 DEF DeclinedInv
    <2>1. DeclinedOk(m) /\ m # l
        BY <1>1 DEF MediaInv, DeclinedInv, DeclinedOk, l
    <2> QED
        BY <1>1, <1>2, <1>7, <1>8, <2>1 DEF DeclinedOk, Ours, Now
<1> QED
    BY <1>9, <1>10, <1>11, <1>12, <1>13, <1>14, <1>15 DEF MediaInv

(* A link's turn that ends with nothing done, whatever stopped it.          *)
GivesUp(p) ==
    /\ pass[p].at \in {"next", "look", "act"}
    /\ pass' = [pass EXCEPT ![p] = After(@)]
    /\ torn' = IF pass[p].at = "act" /\ pass[p].calls = 2 THEN torn \cup {Current(p).id} ELSE torn
    /\ UNCHANGED <<app, env, thing, rec, declined, unsaved>>

LEMMA GivesUpInv ==
    ASSUME MediaInv, NEW p \in Passes, GivesUp(p)
    PROVE  MediaInv'
<1> DEFINE o == pass[p]
           q == pass'[p]
           l == Turn(o)
<1>1. /\ o.at \in {"next", "look", "act"} /\ o.todo \subseteq Links
      /\ o.done = [i \in Ids |-> o.done[i]]
      /\ \A r \in Passes : r # p => pass'[r] = Idle /\ pass'[r].at = "idle" /\ pass[r] = Idle
    BY Others DEF MediaInv, Shape, IsPass, GivesUp, Idle
<1>2. UNCHANGED <<app, env, thing, rec, declined, unsaved>>
    BY DEF GivesUp
<1>3. /\ q = After(o)
      /\ pass' = [r \in Passes |-> pass'[r]]
      /\ torn \subseteq torn' /\ (InHand(o) => l.id \in torn')
    BY <1>1 DEF MediaInv, Shape, GivesUp, Current, Turn, InHand
<1>4. \/ q = Idle /\ q.at = "idle"
      \/ q.at = "next" /\ q.env = o.env /\ q.done = o.done /\ q.todo \subseteq Links
    BY <1>1, <1>3, Afterwards DEF Idle
<1>5. Shape'
    <2>1. \A r \in Passes : IsPass(pass'[r])
        BY <1>1, <1>4 DEF IsPass, Idle
    <2> QED
        BY <1>2, <1>3, <2>1 DEF MediaInv, Shape, IsPass
<1>6. OnePass' /\ ThingInv' /\ RunInv'
    BY <1>1, <1>2, <1>4
       DEF MediaInv, OnePass, ThingInv, Ours, ThingOk, Lasts, RunInv, InHand, KeepOk
<1>7. DoneInv'
    BY <1>1, <1>2, <1>4 DEF MediaInv, DoneInv
<1>8. SettledInv'
    <2> SUFFICES ASSUME NEW m \in Links, ~Excused(m)' PROVE Settled(m)'
        BY DEF SettledInv, Settled
    <2>1. Settled(m) /\ ~Excused(m)
        BY <1>2, <1>3 DEF MediaInv, SettledInv, Excused
    <2>2. \A r \in Passes : InHand(pass[r]) => Turn(pass[r]) # m
        BY <1>1, <1>3 DEF Excused, InHand, Idle
    <2> QED
        BY <1>2, <2>1, <2>2 DEF Settled, Ours
<1>9. DeclinedInv'
    BY <1>1, <1>2, <1>4 DEF MediaInv, DeclinedInv, DeclinedOk, Ours, Now
<1> QED
    BY <1>5, <1>6, <1>7, <1>8, <1>9 DEF MediaInv

LEMMA FailsInv ==
    ASSUME MediaInv, NEW p \in Passes, Fails(p) \/ Refused(p)
    PROVE  MediaInv'
<1>1. GivesUp(p)
    BY DEF Fails, Refused, GivesUp, Same
<1> QED
    BY <1>1, GivesUpInv

(* A pass that goes on with a changed record in memory.                     *)
LEMMA NextTurn ==
    ASSUME NEW o, NEW done, o.todo \subseteq Links,
           DOMAIN o = {"at", "env", "done", "todo", "stamp", "plan", "for", "calls", "server"}
    PROVE  LET q == After([o EXCEPT !.done = done])
           IN  \/ q = Idle /\ q.at = "idle"
               \/ q.at = "next" /\ q.env = o.env /\ q.done = done /\ q.todo \subseteq Links
<1> DEFINE d == [o EXCEPT !.done = done]
<1>1. d.env = o.env /\ d.done = done /\ d.todo = o.todo
    OBVIOUS
<1> HIDE DEF d
<1>2. \/ After(d) = Idle
      \/ After(d) = [at |-> "next", env |-> d.env, done |-> d.done, todo |-> d.todo \ {First(d.todo)}]
    BY Afterwards
<1>3. \/ After(d) = Idle /\ After(d).at = "idle"
      \/ /\ After(d).at = "next" /\ After(d).env = o.env /\ After(d).done = done
         /\ After(d).todo \subseteq Links
    BY <1>1, <1>2 DEF Idle
<1> QED
    BY <1>3 DEF d

LEMMA SaveInv ==
    ASSUME MediaInv, NEW p \in Passes, Save(p)
    PROVE  MediaInv'
<1> DEFINE o == pass[p]
           q == pass'[p]
           l == Turn(o)
           record == [stamp |-> o.stamp, set |-> o.plan # "keep"]
           done == [o.done EXCEPT ![l.id] = record]
<1>1. /\ o.at = "save" /\ o.todo \subseteq Links /\ o.done = [i \in Ids |-> o.done[i]]
      /\ o.todo # {}
      /\ DOMAIN o = {"at", "env", "done", "todo", "stamp", "plan", "for", "calls", "server"}
      /\ \A r \in Passes : r # p => pass'[r] = Idle /\ pass'[r].at = "idle" /\ pass[r] = Idle
    BY Others DEF MediaInv, Shape, IsPass, Save, Idle
<1>2. UNCHANGED <<app, env, thing, declined, torn>>
    BY DEF Save, Same
<1>3. l \in Links /\ l.id \in Ids
    BY <1>1, TurnIn, LinkFacts
<1>4. /\ rec' = done
      /\ unsaved' = {i \in unsaved : i # l.id \/ o.plan = "keep"}
      /\ q = After([o EXCEPT !.done = done])
      /\ pass' = [r \in Passes |-> pass'[r]]
    BY DEF MediaInv, Shape, Save, Current, Turn
<1>5. StampOk(o, l) /\ ForOk(o, l) /\ KeepOk(o, l)
    BY <1>1 DEF MediaInv, RunInv
<1>6. o.plan # "keep" /\ Ours(l) => thing[l.id].for = o.for
    BY <1>1 DEF MediaInv, RunInv, InHand
<1>7. /\ record # Never /\ record.stamp = o.stamp
      /\ o.plan # "keep" => record.set
    BY DEF Never
<1> HIDE DEF l, record
<1>8. /\ done[l.id] = record
      /\ \A m \in Links : m # l => done[m.id] = o.done[m.id]
      /\ done = [i \in Ids |-> done[i]]
    BY <1>1, <1>3, OneLink, LinkFacts
<1> HIDE DEF done
<1>9. \/ q = Idle /\ q.at = "idle"
      \/ q.at = "next" /\ q.env = o.env /\ q.done = done /\ q.todo \subseteq Links
    BY <1>1, <1>4, NextTurn
<1>10. Shape'
    <2>1. \A r \in Passes : IsPass(pass'[r])
        BY <1>1, <1>8, <1>9 DEF IsPass, Idle
    <2> QED
        BY <1>2, <1>4, <1>8, <2>1 DEF MediaInv, Shape, IsPass
<1>11. OnePass' /\ ThingInv' /\ RunInv'
    BY <1>1, <1>2, <1>9
       DEF MediaInv, OnePass, ThingInv, Ours, ThingOk, Lasts, RunInv, InHand, KeepOk
<1>12. DoneInv'
    BY <1>1, <1>4, <1>9 DEF DoneInv
<1>13. SettledInv'
    <2> SUFFICES ASSUME NEW m \in Links, ~Excused(m)', Ours(m)
                 PROVE  /\ rec'[m.id] # Never
                        /\ NoMore(rec'[m.id].stamp, thing[m.id].for, m)
                        /\ m.id = "qbittorrent-paths" => rec'[m.id].set
        BY <1>2 DEF SettledInv, Settled, Ours
    <2>1. CASE m # l
        <3>1. Settled(m) /\ ~Excused(m) /\ rec'[m.id] = rec[m.id]
            BY <1>1, <1>2, <1>3, <1>4, <1>8, <2>1, OneLink, LinkFacts
               DEF MediaInv, SettledInv, Excused, DoneInv
        <3>2. \A r \in Passes : InHand(pass[r]) => Turn(pass[r]) # m
            BY <1>1, <2>1 DEF l, InHand, Idle
        <3> QED
            BY <3>1, <3>2 DEF Settled
    <2>2. CASE m = l /\ o.plan # "keep"
        BY <1>4, <1>5, <1>6, <1>7, <1>8, <2>2 DEF ForOk
    <2>3. CASE m = l /\ o.plan = "keep"
        <3>1. ~Excused(l)
            BY <1>2, <1>4, <2>3 DEF Excused
        <3>2. NoMore(o.stamp, thing[l.id].for, l) /\ l.id # "qbittorrent-paths"
            BY <1>1, <1>5, <2>3, <3>1 DEF KeepOk
        <3> QED
            BY <1>4, <1>7, <1>8, <2>3, <3>2
    <2> QED
        BY <2>1, <2>2, <2>3
<1>14. DeclinedInv'
    <2> SUFFICES ASSUME NEW m \in Links, m.id \in declined
                 PROVE  DeclinedOk(m)'
        BY <1>2 DEF DeclinedInv
    <2>1. DeclinedOk(m) /\ m # l
        BY <1>1 DEF MediaInv, DeclinedInv, DeclinedOk, l
    <2>2. rec'[m.id] = rec[m.id]
        BY <1>1, <1>4, <1>8, <2>1, LinkFacts DEF MediaInv, DoneInv
    <2> QED
        BY <1>1, <1>2, <1>9, <2>1, <2>2 DEF DeclinedOk, Ours, Now
<1> QED
    BY <1>10, <1>11, <1>12, <1>13, <1>14 DEF MediaInv

LEMMA LapseInv ==
    ASSUME MediaInv, NEW p \in Passes, Lapse(p)
    PROVE  MediaInv'
<1> DEFINE o == pass[p]
           q == pass'[p]
           l == Turn(o)
           done == [o.done EXCEPT ![l.id] = [stamp |-> o.stamp, set |-> o.plan # "keep"]]
<1>1. /\ o.at \in {"act", "save"} /\ o.todo \subseteq Links /\ o.done = [i \in Ids |-> o.done[i]]
      /\ o.todo # {}
      /\ DOMAIN o = {"at", "env", "done", "todo", "stamp", "plan", "for", "calls", "server"}
      /\ \A r \in Passes : r # p => pass'[r] = Idle /\ pass'[r].at = "idle" /\ pass[r] = Idle
    BY Others DEF MediaInv, Shape, IsPass, Lapse, Idle
<1>2. UNCHANGED <<app, env, rec, declined>>
    BY DEF Lapse, Same
<1>3. l \in Links /\ l.id \in Ids /\ l.host \in Apps
    BY <1>1, TurnIn, LinkFacts
<1>4. /\ unsaved' = unsaved \cup {l.id} /\ torn \subseteq torn'
      /\ q \in {After(o), After([o EXCEPT !.done = done])}
      /\ pass' = [r \in Passes |-> pass'[r]]
      /\ \/ thing' = thing
         \/ /\ thing' = [thing EXCEPT ![l.id] = Made(l, o)]
            /\ app[l.host].at = "up" /\ app[l.host].install = o.server
    BY DEF MediaInv, Shape, Lapse, Current, Turn, Reachable
<1>5. StampOk(o, l) /\ ForOk(o, l)
    BY <1>1 DEF MediaInv, RunInv
<1>6. Made(l, o).by = "us" /\ Made(l, o).for = o.for
    BY DEF Made
<1> HIDE DEF l
<1>7. /\ \A m \in Links : m # l => thing'[m.id] = thing[m.id] /\ done[m.id] = o.done[m.id]
      /\ thing' = [i \in Ids |-> thing'[i]]
      /\ done = [i \in Ids |-> done[i]]
    BY <1>1, <1>3, <1>4, OneLink, LinkFacts DEF MediaInv, Shape
<1> HIDE DEF done
<1>8. \/ q = Idle /\ q.at = "idle"
      \/ /\ q.at = "next" /\ q.env = o.env /\ q.done \in {o.done, done}
         /\ q.todo \subseteq Links
    <2>1. CASE q = After(o)
        BY <1>1, <2>1, Afterwards DEF Idle
    <2>2. CASE q = After([o EXCEPT !.done = done])
        BY <1>1, <2>2, NextTurn
    <2> QED
        BY <1>4, <2>1, <2>2
<1>9. Shape'
    <2>1. \A r \in Passes : IsPass(pass'[r])
        BY <1>1, <1>7, <1>8 DEF IsPass, Idle
    <2> QED
        BY <1>2, <1>4, <1>7, <2>1 DEF MediaInv, Shape, IsPass
<1>10. OnePass'
    BY <1>1 DEF OnePass
<1>11. ThingInv'
    <2> SUFFICES ASSUME NEW m \in Links, Ours(m)' PROVE ThingOk(m)'
        BY DEF ThingInv
    <2>1. CASE thing'[m.id] = thing[m.id]
        BY <1>2, <2>1 DEF MediaInv, ThingInv, ThingOk, Ours, Lasts
    <2>2. CASE m = l /\ thing' # thing
        <3>1. thing'[m.id] = Made(l, o)
            BY <1>3, <1>4, <2>2 DEF MediaInv, Shape
        <3> QED
            BY <1>2, <1>4, <1>5, <1>6, <2>2, <3>1 DEF ThingOk, ForOk, StampOk, NoMore, Lasts
    <2> QED
        BY <1>7, <2>1, <2>2
<1>12. RunInv'
    BY <1>1, <1>8 DEF RunInv, InHand, KeepOk
<1>13. DoneInv'
    <2> SUFFICES ASSUME q.at # "idle", NEW m \in Links, m.id \notin unsaved' \/ m.id \in declined
                 PROVE  q.done[m.id] = rec[m.id]
        BY <1>1, <1>2 DEF DoneInv, Ids
    <2>1. m # l
        BY <1>1, <1>3, <1>4 DEF MediaInv, DeclinedInv, DeclinedOk, l
    <2>2. o.done[m.id] = rec[m.id]
        BY <1>1, <1>4, LinkFacts DEF MediaInv, DoneInv
    <2> QED
        BY <1>7, <1>8, <2>1, <2>2 DEF Idle
<1>14. SettledInv'
    <2> SUFFICES ASSUME NEW m \in Links, ~Excused(m)' PROVE Settled(m)'
        BY DEF SettledInv, Settled
    <2>1. m # l /\ Settled(m) /\ ~Excused(m)
        BY <1>4 DEF MediaInv, SettledInv, Excused
    <2>2. \A r \in Passes : InHand(pass[r]) => Turn(pass[r]) # m
        BY <1>1, <2>1 DEF l, InHand, Idle
    <2> QED
        BY <1>2, <1>7, <2>1, <2>2 DEF Settled, Ours
<1>15. DeclinedInv'
    <2> SUFFICES ASSUME NEW m \in Links, m.id \in declined
                 PROVE  DeclinedOk(m)'
        BY <1>2 DEF DeclinedInv
    <2>1. DeclinedOk(m) /\ m # l
        BY <1>1 DEF MediaInv, DeclinedInv, DeclinedOk, l
    <2> QED
        BY <1>1, <1>2, <1>7, <1>8, <2>1 DEF DeclinedOk, Ours, Now
<1> QED
    BY <1>9, <1>10, <1>11, <1>12, <1>13, <1>14, <1>15 DEF MediaInv

LEMMA CrashInv ==
    ASSUME MediaInv, Crash
    PROVE  MediaInv'
<1>1. /\ \A r \in Passes : pass'[r] = Idle /\ pass'[r].at = "idle"
      /\ pass' = [r \in Passes |-> Idle]
      /\ UNCHANGED <<app, env, thing, rec, declined>>
    BY DEF Crash, Same, Idle
<1>2. /\ unsaved \subseteq unsaved' /\ torn \subseteq torn'
      /\ \A r \in Passes : InHand(pass[r]) => Turn(pass[r]).id \in unsaved' \cup torn'
    BY DEF Crash, InHand, Turn, Current
<1>3. Shape'
    BY <1>1 DEF MediaInv, Shape, IsPass
<1>4. OnePass' /\ ThingInv' /\ RunInv' /\ DoneInv' /\ DeclinedInv'
    BY <1>1 DEF MediaInv, OnePass, ThingInv, Ours, ThingOk, Lasts, RunInv, InHand, KeepOk,
       DoneInv, DeclinedInv, DeclinedOk, Now
<1>5. SettledInv'
    <2> SUFFICES ASSUME NEW m \in Links, ~Excused(m)' PROVE Settled(m)'
        BY DEF SettledInv, Settled
    <2>1. Settled(m) /\ ~Excused(m) /\ \A r \in Passes : InHand(pass[r]) => Turn(pass[r]) # m
        BY <1>2 DEF MediaInv, SettledInv, Excused
    <2> QED
        BY <1>1, <2>1 DEF Settled, Ours
<1> QED
    BY <1>3, <1>4, <1>5 DEF MediaInv

AppTypes == [Apps -> [at : {"absent", "starting", "up", "stopped"}, install : Nat]]

(* What happens outside a pass: installs only count up, and what Podhouse   *)
(* made stays as it is or goes together with its app.                       *)
LEMMA OutsideInv ==
    ASSUME MediaInv,
           app' \in AppTypes,
           \A a \in Apps : app[a].install <= app'[a].install,
           thing' = [i \in Ids |-> thing'[i]],
           \A l \in Links : Ours(l)' => /\ thing'[l.id] = thing[l.id]
                                        /\ app'[l.host].at # "absent"
                                        /\ app'[l.host].install = app[l.host].install,
           UNCHANGED <<rec, pass, unsaved, torn>>,
           declined' \subseteq Ids,
           \A i \in declined' : i \in declined \/ \A p \in Passes : pass[p].at = "idle",
           \A l \in Links : l.id \in declined' => DeclinedOk(l)'
    PROVE  MediaInv'
<1>1. Shape' /\ OnePass'
    BY DEF MediaInv, Shape, OnePass, AppTypes
<1>2. \A l \in Links : Keys(l) \subseteq Apps
    BY LinkFacts DEF Keys
<1>3. \A l \in Links : \A s : IsStamp(s, l) /\ Lasts(s, l) => Lasts(s, l)'
    <2> SUFFICES ASSUME NEW l \in Links, NEW s, IsStamp(s, l), Lasts(s, l), NEW a \in Keys(l)
                 PROVE  s.keys[a] <= app'[a].install
        BY DEF Lasts
    <2>1. s.keys[a] <= app[a].install /\ app[a].install <= app'[a].install
        BY <1>2 DEF Lasts
    <2>2. s.keys[a] \in Nat /\ app[a].install \in Nat /\ app'[a].install \in Nat
        BY <1>2 DEF IsStamp, MediaInv, Shape, AppTypes
    <2> QED
        BY <2>1, <2>2
<1>4. ThingInv'
    <2> SUFFICES ASSUME NEW l \in Links, Ours(l)' PROVE ThingOk(l)'
        BY DEF ThingInv
    <2>1. thing'[l.id] = thing[l.id] /\ ThingOk(l)
        BY DEF MediaInv, ThingInv, Ours
    <2> QED
        BY <1>3, <2>1 DEF ThingOk
<1>5. RunInv'
    <2> SUFFICES ASSUME NEW p \in Passes
                 PROVE  LET q == pass[p] l == Turn(pass[p]) IN
                        /\ q.at \in {"look", "act", "save"} => StampOk(q, l)'
                        /\ q.at \in {"act", "save"} => ForOk(q, l)'
                        /\ q.at = "act" => q.plan # "keep"
                        /\ q.at = "act" /\ q.plan = "add" /\ q.calls = 1 => ~Ours(l)'
                        /\ InHand(q) /\ Ours(l)' => thing'[l.id].for = q.for
                        /\ KeepOk(q, l)'
        BY DEF RunInv
    <2> DEFINE q == pass[p]
               l == Turn(pass[p])
    <2>1. q.at \in {"look", "act", "save"} => l \in Links
        BY TurnIn
    <2>2. q.at \in {"look", "act", "save"} => StampOk(q, l)'
        BY <1>3, <2>1 DEF MediaInv, RunInv, StampOk
    <2>3. q.at \in {"act", "save"} => ForOk(q, l)'
        BY <1>3, <2>1 DEF MediaInv, RunInv, ForOk
    <2>4. q.at = "act" /\ q.plan = "add" /\ q.calls = 1 => ~Ours(l)'
        BY <2>1 DEF MediaInv, RunInv, Ours
    <2>5. InHand(q) /\ Ours(l)' => thing'[l.id].for = q.for
        BY <2>1 DEF MediaInv, RunInv, Ours, InHand
    <2>6. KeepOk(q, l)'
        BY <2>1 DEF MediaInv, RunInv, KeepOk, Ours, Excused
    <2> QED
        BY <2>2, <2>3, <2>4, <2>5, <2>6 DEF MediaInv, RunInv
<1>6. DoneInv'
    BY DEF MediaInv, DoneInv
<1>7. SettledInv'
    BY DEF MediaInv, SettledInv, Settled, Ours, Excused
<1>8. DeclinedInv'
    BY DEF DeclinedInv
<1> QED
    BY <1>1, <1>4, <1>5, <1>6, <1>7, <1>8 DEF MediaInv

(* What was declined is, while the stamps of its link are the same.         *)
LEMMA StillDeclined ==
    ASSUME MediaInv, NEW l \in Links, l.id \in declined,
           UNCHANGED <<rec, pass>>, ~Ours(l)',
           Stamp(l, app', env') = Stamp(l, app, env),
           \A p \in Passes : pass[p].at # "idle" =>
               Stamp(l, app', pass[p].env) = Stamp(l, app, pass[p].env)
    PROVE  DeclinedOk(l)'
BY DEF MediaInv, DeclinedInv, DeclinedOk, Now

LEMMA SameStamps ==
    ASSUME NEW l \in Links, NEW e, \A a \in l.needs : app'[a].install = app[a].install
    PROVE  Stamp(l, app', e) = Stamp(l, app, e)
BY DEF Stamp

(* An app that only comes to answer, or stops answering.                    *)
LEMMA SwitchInv ==
    ASSUME MediaInv, NEW a \in Apps, NEW at \in {"up", "stopped"}, app[a].at # "absent",
           app' = [app EXCEPT ![a].at = at],
           UNCHANGED <<env, thing, rec, pass, declined, unsaved, torn>>
    PROVE  MediaInv'
<1>1. /\ app' \in AppTypes
      /\ \A b \in Apps : /\ app'[b].install = app[b].install /\ app[b].install \in Nat
                         /\ app[b].at # "absent" => app'[b].at # "absent"
    BY DEF MediaInv, Shape, AppTypes
<1>2. \A l \in Links : Ours(l)' => /\ thing'[l.id] = thing[l.id]
                                   /\ app'[l.host].at # "absent"
                                   /\ app'[l.host].install = app[l.host].install
    BY <1>1, LinkFacts DEF MediaInv, ThingInv, ThingOk, Ours
<1>3. \A l \in Links : l.id \in declined' => DeclinedOk(l)'
    <2> SUFFICES ASSUME NEW l \in Links, l.id \in declined PROVE DeclinedOk(l)'
        OBVIOUS
    <2>1. ~Ours(l)'
        BY DEF MediaInv, DeclinedInv, DeclinedOk, Ours
    <2>2. \A b \in l.needs : app'[b].install = app[b].install
        BY <1>1, LinkFacts
    <2> QED
        BY <2>1, <2>2, SameStamps, StillDeclined
<1>4. thing' = [i \in Ids |-> thing'[i]] /\ declined' \subseteq Ids
    BY DEF MediaInv, Shape
<1>5. \A b \in Apps : app[b].install <= app'[b].install
    BY <1>1
<1> QED
    BY <1>1, <1>2, <1>3, <1>4, <1>5, OutsideInv

(* An install makes every record of a link of the app old.                  *)
LEMMA InstallInv ==
    ASSUME MediaInv, NEW a \in Apps, Install(a)
    PROVE  MediaInv'
<1>1. /\ app' \in AppTypes
      /\ app[a].at = "absent"
      /\ \A b \in Apps : app[b].install <= app'[b].install
      /\ \A b \in Apps : b # a => app'[b] = app[b]
    BY DEF MediaInv, Shape, AppTypes, Install
<1>2. UNCHANGED <<env, thing, rec, pass, unsaved, torn>> /\ declined' = declined \ LinksOf(a)
    BY DEF Install
<1>3. \A l \in Links : Ours(l)' => /\ thing'[l.id] = thing[l.id]
                                   /\ app'[l.host].at # "absent"
                                   /\ app'[l.host].install = app[l.host].install
    BY <1>1, <1>2, LinkFacts DEF MediaInv, ThingInv, ThingOk, Ours
<1>4. \A l \in Links : l.id \in declined' => DeclinedOk(l)'
    <2> SUFFICES ASSUME NEW l \in Links, l.id \in declined, l.id \notin LinksOf(a)
                 PROVE  DeclinedOk(l)'
        BY <1>2
    <2>1. ~Ours(l)'
        BY <1>2 DEF MediaInv, DeclinedInv, DeclinedOk, Ours
    <2>2. \A b \in l.needs : app'[b].install = app[b].install
        BY <1>1, LinkFacts, NamedLink DEF LinksOf
    <2> QED
        BY <1>2, <2>1, <2>2, SameStamps, StillDeclined
<1>5. thing' = [i \in Ids |-> thing'[i]] /\ declined' \subseteq declined /\ declined' \subseteq Ids
    BY <1>2 DEF MediaInv, Shape
<1> QED
    BY <1>1, <1>2, <1>3, <1>4, <1>5, OutsideInv

(* A purge takes what the app has with it.                                  *)
LEMMA PurgeInv ==
    ASSUME MediaInv, NEW a \in Apps, Purge(a)
    PROVE  MediaInv'
<1>1. /\ app' \in AppTypes
      /\ \A b \in Apps : app'[b].install = app[b].install /\ app[b].install \in Nat
      /\ \A b \in Apps : b # a => app'[b] = app[b]
    BY DEF MediaInv, Shape, AppTypes, Purge
<1>2. UNCHANGED <<env, rec, pass, unsaved, torn>> /\ declined' = declined \ LinksOf(a)
    BY DEF Purge
<1>3. \A l \in Links : thing'[l.id] = IF l.host = a THEN None ELSE thing[l.id]
    BY LinkFacts, NamedLink DEF Purge, Without
<1>4. \A l \in Links : Ours(l)' => /\ l.host # a
                                   /\ thing'[l.id] = thing[l.id]
                                   /\ app'[l.host].at # "absent"
                                   /\ app'[l.host].install = app[l.host].install
    BY <1>1, <1>3, LinkFacts DEF MediaInv, ThingInv, ThingOk, Ours, None
<1>5. \A l \in Links : l.id \in declined' => DeclinedOk(l)'
    <2> SUFFICES ASSUME NEW l \in Links, l.id \in declined
                 PROVE  DeclinedOk(l)'
        BY <1>2
    <2>1. ~Ours(l)'
        BY <1>4 DEF MediaInv, DeclinedInv, DeclinedOk, Ours
    <2>2. \A b \in l.needs : app'[b].install = app[b].install
        BY <1>1, LinkFacts
    <2> QED
        BY <1>2, <2>1, <2>2, SameStamps, StillDeclined
<1>6. thing' = [i \in Ids |-> thing'[i]]
    BY DEF Purge, Without
<1>7. declined' \subseteq declined /\ declined' \subseteq Ids
    BY <1>2 DEF MediaInv, Shape
<1>8. \A b \in Apps : app[b].install <= app'[b].install
    BY <1>1
<1> QED
    BY <1>1, <1>2, <1>4, <1>5, <1>6, <1>7, <1>8, OutsideInv

(* A setting that is saved makes the links old that depend on it.           *)
LEMMA SaveSettingsInv ==
    ASSUME MediaInv, NEW v \in Values, SaveSettings(v)
    PROVE  MediaInv'
<1>1. /\ UNCHANGED <<app, thing, rec, pass, unsaved, torn>>
      /\ declined' = {i \in declined : ~Named(i).extra}
    BY DEF SaveSettings
<1>2. \A l \in Links : l.id \in declined' => DeclinedOk(l)'
    <2> SUFFICES ASSUME NEW l \in Links, l.id \in declined, ~l.extra
                 PROVE  DeclinedOk(l)'
        BY <1>1, NamedLink
    <2>1. ~Ours(l)'
        BY <1>1 DEF MediaInv, DeclinedInv, DeclinedOk, Ours
    <2>2. Stamp(l, app', env') = Stamp(l, app, env)
        BY <1>1 DEF Stamp
    <2> QED
        BY <1>1, <2>1, <2>2, StillDeclined
<1>3. thing' = [i \in Ids |-> thing'[i]] /\ app' \in AppTypes
      /\ declined' \subseteq declined /\ declined' \subseteq Ids
    BY <1>1 DEF MediaInv, Shape, AppTypes
<1>4. \A l \in Links : Ours(l)' => /\ thing'[l.id] = thing[l.id]
                                   /\ app'[l.host].at # "absent"
                                   /\ app'[l.host].install = app[l.host].install
    BY <1>1 DEF MediaInv, ThingInv, ThingOk, Ours
<1>5. \A b \in Apps : app[b].install <= app'[b].install
    BY <1>1 DEF MediaInv, Shape
<1> QED
    BY <1>1, <1>2, <1>3, <1>4, <1>5, OutsideInv

(* What a user adds is not ours, nor what is gone.                          *)
LEMMA UserInv ==
    ASSUME MediaInv, NEW l \in Links, UserAdds(l) \/ UserDeletes(l)
    PROVE  MediaInv'
<1>1. /\ UNCHANGED <<app, env, rec, pass, unsaved, torn>>
      /\ thing' = [thing EXCEPT ![l.id] = Theirs] \/ thing' = [thing EXCEPT ![l.id] = None]
    BY DEF UserAdds, UserDeletes, Same
<1>2. /\ ~Ours(l)' /\ \A m \in Links : m # l => thing'[m.id] = thing[m.id]
      /\ thing' = [i \in Ids |-> thing'[i]]
    BY <1>1, OneLink, LinkFacts DEF MediaInv, Shape, Ours, None, Theirs
<1>3. \/ declined' = declined
      \/ /\ declined' = declined \cup {l.id}
         /\ rec[l.id] # Never /\ rec[l.id].stamp = Now(l)
         /\ \A p \in Passes : pass[p] = Idle
    BY DEF UserAdds, UserDeletes
<1>4. \A m \in Links : Ours(m)' => /\ thing'[m.id] = thing[m.id]
                                   /\ app'[m.host].at # "absent"
                                   /\ app'[m.host].install = app[m.host].install
    BY <1>1, <1>2 DEF MediaInv, ThingInv, ThingOk, Ours
<1>5. \A m \in Links : m.id \in declined' => DeclinedOk(m)'
    <2> SUFFICES ASSUME NEW m \in Links, m.id \in declined' PROVE DeclinedOk(m)'
        OBVIOUS
    <2>1. CASE m.id \in declined
        <3>1. ~Ours(m)'
            BY <1>2, <2>1 DEF MediaInv, DeclinedInv, DeclinedOk, Ours
        <3> QED
            BY <1>1, <2>1, <3>1, StillDeclined
    <2>2. CASE m.id \notin declined
        <3>1. m = l /\ rec[l.id] # Never /\ rec[l.id].stamp = Now(l)
              /\ \A p \in Passes : pass[p].at = "idle"
            BY <1>3, <2>2, OneLink DEF Idle
        <3> QED
            BY <1>1, <1>2, <3>1 DEF DeclinedOk, Now
    <2> QED
        BY <2>1, <2>2
<1>6. /\ app' \in AppTypes /\ declined' \subseteq Ids
      /\ \A b \in Apps : app[b].install <= app'[b].install
    BY <1>1, <1>3, LinkFacts DEF MediaInv, Shape, AppTypes
<1>7. \A i \in declined' : i \in declined \/ \A p \in Passes : pass[p].at = "idle"
    BY <1>3 DEF Idle
<1> QED
    BY <1>1, <1>2, <1>4, <1>5, <1>6, <1>7, OutsideInv

(* A password changed in an app's own pages, and nothing at all.            *)
LEMMA StutterInv ==
    ASSUME MediaInv, UNCHANGED <<app, env, thing, rec, pass, declined, unsaved, torn>>
    PROVE  MediaInv'
BY DEF MediaInv, Shape, OnePass, ThingInv, RunInv, DoneInv, SettledInv, DeclinedInv,
    Ours, ThingOk, Lasts, StampOk, ForOk, KeepOk, Excused, Settled, DeclinedOk, Now

-----------------------------------------------------------------------------
(* Every step keeps the invariant.                                          *)
LEMMA NextInv ==
    ASSUME MediaInv, [Next]_vars
    PROVE  MediaInv'
<1>1. ASSUME NEW p \in Passes,
             Start(p) \/ StampLink(p) \/ Look(p) \/ Act(p) \/ Fails(p) \/ Save(p)
      PROVE  MediaInv'
    BY <1>1, StartInv, StampLinkInv, LookInv, ActInv, FailsInv, SaveInv
<1>2. ASSUME NEW a \in Apps, Answers(a)
      PROVE  MediaInv'
    <2>1. /\ app' = [app EXCEPT ![a].at = "up"] /\ app[a].at # "absent"
          /\ UNCHANGED <<env, thing, rec, pass, declined, unsaved, torn>>
        BY <1>2 DEF Answers
    <2> QED
        BY <2>1, SwitchInv
<1>3. ASSUME NEW a \in Apps, Stop(a)
      PROVE  MediaInv'
    <2>1. /\ app' = [app EXCEPT ![a].at = "stopped"] /\ app[a].at # "absent"
          /\ UNCHANGED <<env, thing, rec, pass, declined, unsaved, torn>>
        BY <1>3 DEF Stop
    <2> QED
        BY <2>1, SwitchInv
<1>4. ASSUME NEW a \in Apps, Restart(a)
      PROVE  MediaInv'
    <2>1. /\ app' = [app EXCEPT ![a].at = "up"] /\ app[a].at # "absent"
          /\ UNCHANGED <<env, thing, rec, pass, declined, unsaved, torn>>
        BY <1>4 DEF Restart
    <2> QED
        BY <2>1, SwitchInv
<1>5. ASSUME NEW a \in LoginApps, NEW v \in Values, UserLogin(a, v)
      PROVE  MediaInv'
    BY <1>5, StutterInv DEF UserLogin
<1>6. ASSUME NEW p \in Passes, Refused(p)
      PROVE  MediaInv'
    BY <1>6, FailsInv
<1>7. CASE Next
    BY <1>1, <1>2, <1>3, <1>4, <1>5, <1>6, <1>7, LapseInv, CrashInv, InstallInv, PurgeInv,
       SaveSettingsInv,
       UserInv DEF Next, PassStep
<1> QED
    BY <1>7, StutterInv DEF vars

(* The invariant of a pass, its record and what is there, at every moment.  *)
THEOREM MediaAlways == Spec => []MediaInv
<1>1. Init => MediaInv
    BY InitInv
<1>2. MediaInv /\ [Next]_vars => MediaInv'
    BY NextInv
<1> QED
    BY <1>1, <1>2, PTL DEF Spec

(* A link on record for the installs and settings there are now was made    *)
(* for them: the record is never ahead of what is there.                    *)
THEOREM AlwaysSettled == Spec => []SettledIsCurrent
<1>1. MediaInv => SettledIsCurrent
    <2> SUFFICES ASSUME MediaInv, NEW l \in Mine, \A p \in Passes : pass[p] = Idle,
                        rec[l.id] # Never, rec[l.id].stamp = Now(l), Ours(l), ~Excused(l)
                 PROVE  thing[l.id].for = Now(l)
        BY DEF SettledIsCurrent, Ours, Excused
    <2> DEFINE for == thing[l.id].for
    <2>1. l \in Links
        BY DEF Mine
    <2>2. /\ ThingOk(l)
          /\ NoMore(Now(l), for, l)
        BY <2>1 DEF MediaInv, ThingInv, SettledInv, Settled, InHand, Idle
    <2>3. Now(l) = [keys |-> [a \in Keys(l) |-> app[a].install], extra |-> Now(l).extra]
        BY DEF Now, Stamp, Keys
    <2>4. \A a \in Keys(l) : /\ app[a].install \in Nat /\ Now(l).keys[a] = app[a].install
                             /\ for.keys[a] \in Nat
        BY <2>1, <2>2, <2>3, LinkFacts DEF Keys, MediaInv, Shape, ThingOk, IsStamp
    <2>5. \A a \in Keys(l) : for.keys[a] = app[a].install
        BY <2>2, <2>4 DEF ThingOk, Lasts, NoMore
    <2>6. for = [keys |-> for.keys, extra |-> for.extra] /\ for.keys \in [Keys(l) -> Nat]
        BY <2>2 DEF ThingOk, IsStamp
    <2>7. for.keys = [a \in Keys(l) |-> app[a].install]
        BY <2>5, <2>6
    <2> QED
        BY <2>2, <2>3, <2>6, <2>7 DEF NoMore
<1> QED
    BY <1>1, MediaAlways, PTL

(* No call adds a second copy of what Podhouse has made.                    *)
THEOREM MadeOnce == Spec => NeverTwice
<1> DEFINE Once == \A p \in Passes :
                      /\ pass[p].at = "act" /\ pass[p].plan = "add" /\ pass[p].calls = 1
                      /\ Act(p) \/ Lapse(p)
                      => thing[Current(p).id].by # "us"
<1>1. MediaInv /\ [Next]_vars => [Once]_vars
    BY DEF MediaInv, RunInv, Ours, Turn, Current
<1> QED
    BY <1>1, MediaAlways, PTL DEF Spec, NeverTwice

(* What the user took away is not put back while the installs and settings  *)
(* it was made for are the same.                                            *)
THEOREM ChoiceStands == Spec => DeletedStaysDeleted
<1> DEFINE Stays == \A i \in declined : thing'[i].by # "us"
<1>1. ASSUME MediaInv, [Next]_vars
      PROVE  Stays
    <2> SUFFICES ASSUME NEW l \in Links, l.id \in declined
                 PROVE  thing'[l.id].by # "us"
        BY <1>1 DEF MediaInv, Shape, Ids
    <2>1. thing[l.id].by # "us" /\ l.id \in Ids /\ thing = [i \in Ids |-> thing[i]]
        BY <1>1, LinkFacts DEF MediaInv, Shape, DeclinedInv, DeclinedOk, Ours
    <2>2. ASSUME NEW p \in Passes, pass[p].at = "act", NEW new,
                 thing' = [thing EXCEPT ![Current(p).id] = new]
          PROVE  thing'[l.id].by # "us"
        <3>1. Current(p) # l /\ Current(p) \in Links
            BY <1>1, <2>2, TurnIn DEF MediaInv, DeclinedInv, DeclinedOk, Turn, Current
        <3> QED
            BY <2>1, <2>2, <3>1, OneLink
    <2>3. ASSUME NEW p \in Passes, Act(p) \/ Lapse(p)
          PROVE  thing'[l.id].by # "us"
        <3>1. thing' = thing \/ (/\ pass[p].at = "act"
                                 /\ \E new : thing' = [thing EXCEPT ![Current(p).id] = new])
            BY <2>3 DEF Act, Lapse
        <3> QED
            BY <2>1, <2>2, <3>1
    <2>4. ASSUME NEW m \in Links, NEW new \in {None, Theirs},
                 thing' = [thing EXCEPT ![m.id] = new]
          PROVE  thing'[l.id].by # "us"
        BY <2>1, <2>4 DEF None, Theirs
    <2>5. ASSUME NEW m \in Links, UserAdds(m) \/ UserDeletes(m)
          PROVE  thing'[l.id].by # "us"
        BY <2>4, <2>5 DEF UserAdds, UserDeletes
    <2>6. ASSUME NEW a \in Apps, Purge(a)
          PROVE  thing'[l.id].by # "us"
        BY <2>1, <2>6 DEF Purge, Without, None
    <2>7. ASSUME UNCHANGED thing
          PROVE  thing'[l.id].by # "us"
        BY <2>1, <2>7
    <2>8. CASE Next
        BY <2>3, <2>5, <2>6, <2>7, <2>8
           DEF Next, PassStep, Start, StampLink, Look, Fails, Save, Crash,
           Refused, Install, Answers, Stop, Restart, SaveSettings, UserLogin
    <2> QED
        BY <1>1, <2>7, <2>8 DEF vars
<1>2. MediaInv /\ [Next]_vars => [Stays]_vars
    BY <1>1
<1> QED
    BY <1>2, MediaAlways, PTL DEF Spec, DeletedStaysDeleted

=============================================================================
