----------------------------- MODULE MediaWire -----------------------------
(***************************************************************************)
(* Connecting the media apps to one another: lib/media-wire.js. A pass goes *)
(* over a fixed list of links, makes the ones whose apps run and that are   *)
(* due, and keeps a stamp of each in state/media-wired.json. The stamp says *)
(* which installs of the apps, and which settings, the link was made for.   *)
(*                                                                         *)
(* "arr" stands for Radarr and for Sonarr, whose links are made alike. What *)
(* the other program keeps of a link is one thing of its kind.              *)
(***************************************************************************)
EXTENDS Naturals, Sequences, SequencesExt

CONSTANTS
    Boxes,      \* sets of links that a box may have the apps of
    Passes,     \* numbers for the passes over the list that may be under way at once
    Values,     \* values of the settings that links depend on
    MaxEvents   \* bound: what users, crashes and failures may do

ASSUME MediaAssumption == Passes \subseteq Nat

VARIABLES
    box,        \* the links of this box
    app,        \* each app: whether it answers, which install of it it is
    env,        \* the settings in .env
    works,      \* the settings whose login opens an app, or that its wizard takes
    thing,      \* what the other program has of each link
    rec,        \* media-wired.json
    pass,       \* each pass
    declined,   \* history: links whose thing the user took away again
    unsaved,    \* history: links made with no record of it kept
    torn,       \* history: links that a pass was cut off in the middle of
    events

vars == <<box, app, env, works, thing, rec, pass, declined, unsaved, torn, events>>

Link(id, host, needs, extra) == [id |-> id, host |-> host, needs |-> needs, extra |-> extra]

LINKS == <<
    Link("qbittorrent-paths", "qbittorrent", {"qbittorrent"}, TRUE),
    Link("arr-settings", "arr", {"arr"}, FALSE),
    Link("arr-rootfolder", "arr", {"arr"}, TRUE),
    Link("arr-import", "arr", {"arr"}, TRUE),
    Link("arr-qbittorrent", "arr", {"arr", "qbittorrent"}, TRUE),
    Link("prowlarr-arr", "prowlarr", {"prowlarr", "arr"}, FALSE),
    Link("prowlarr-flaresolverr", "prowlarr", {"prowlarr", "flaresolverr"}, FALSE),
    Link("bazarr-arr", "bazarr", {"bazarr", "arr"}, FALSE),
    Link("bazarr-languages", "bazarr", {"bazarr"}, FALSE),
    Link("jellyfin-setup", "jellyfin", {"jellyfin"}, FALSE),
    Link("jellyfin-libraries", "jellyfin", {"jellyfin"}, TRUE),
    Link("seerr-setup", "seerr", {"seerr", "jellyfin"}, FALSE),
    Link("seerr-arr", "seerr", {"seerr", "arr"}, TRUE) >>

Links == ToSet(LINKS)
Ids == {l.id : l \in Links}
Apps == UNION {l.needs : l \in Links}
Named(id) == CHOOSE l \in Links : l.id = id
Mine == {l \in Links : l.id \in box}

(* Apps that write a key of their own, which a new install makes anew.      *)
IDENTITY == {"arr", "prowlarr", "bazarr", "jellyfin", "seerr"}

(* Apps that Podhouse signs in to with the login of .env. The wizard of a   *)
(* new Jellyfin takes a password of six characters or more.                 *)
LoginApps == {"qbittorrent", "jellyfin"}
Uses == LoginApps \cup {"wizard"}

None == [by |-> "nobody"]
Theirs == [by |-> "user"]
Never == [stamp |-> "never"]

Stamp(l, installs, settings) ==
    [keys |-> [a \in l.needs \cap IDENTITY |-> installs[a].install],
     extra |-> IF l.extra THEN settings ELSE "none"]

Now(l) == Stamp(l, app, env)

Up(l) == \A a \in l.needs : app[a].at = "up"

Idle == [at |-> "idle"]

Absent == [at |-> "absent", install |-> 0]

Init ==
    /\ box \in Boxes
    /\ app \in [Apps -> {Absent, [at |-> "up", install |-> 1]}]
    /\ \A a \in Apps : app[a] = Absent \/ \E l \in Mine : a \in l.needs
    /\ env \in Values
    /\ works \in [Uses -> {{}, {env}, Values}]
    /\ \A a \in LoginApps : works[a] \subseteq {env} /\ (works[a] # {} => app[a] # Absent)
    /\ "jellyfin-setup" \in box => works["jellyfin"] = {}
    /\ works["wizard"] \in {Values \ {env}, Values}
    /\ "jellyfin-setup" \notin box => works["wizard"] = Values
    /\ thing = [i \in Ids |-> None]
    /\ rec = [i \in Ids |-> Never]
    /\ pass = [p \in Passes |-> Idle]
    /\ declined = {} /\ unsaved = {} /\ torn = {}
    /\ events = 0

Same == UNCHANGED <<box, app, env, works>>

-----------------------------------------------------------------------------
(* What each link's run() does about what it finds: "keep" it, "add" one,   *)
(* "change" the one there, or "throw". prev is the link's record; settings   *)
(* are those of .env when the pass began.                                   *)

(* qbitSession(), jfSession(): the saved login may not be the app's own.    *)
SignsIn(a, settings) == settings \in works[a]

UnlessTheirs(t, prev) ==
    CASE t = None -> "add" [] t # None /\ prev = Never -> "keep" [] OTHER -> "change"

DownloadClient(t, prev) == UnlessTheirs(t, prev)

ArrSettings(t, prev) == UnlessTheirs(t, prev)
BazarrLink(t, prev) == UnlessTheirs(t, prev)

JellyfinLibraries(t, prev, settings) ==
    IF ~SignsIn("jellyfin", settings) THEN "throw" ELSE UnlessTheirs(t, prev)

IfMissing(t) == IF t = None THEN "add" ELSE "keep"

FlareSolverr(t) == IfMissing(t)
BazarrLanguages(t) == IfMissing(t)

(* Wizards: one left half way is taken up where it stopped. Seerr's signs in *)
(* through Jellyfin, and has to be over before Seerr is told of anything.   *)
Finished(t) == t # None /\ (t.by = "us" => t.whole)
Wizard(t, opens) ==
    IF Finished(t) THEN "keep" ELSE IF ~opens THEN "throw" ELSE IF t = None THEN "add" ELSE "change"

JellyfinSetup(t, settings) == Wizard(t, settings \in works["wizard"])
SeerrSetup(t, settings) == Wizard(t, SignsIn("jellyfin", settings))

SeerrArr(t, prev, setup) == IF ~Finished(setup) THEN "throw" ELSE UnlessTheirs(t, prev)

(* `prev` is no parameter of this run(): reading it throws, and it is read  *)
(* whenever Prowlarr has an application of that kind.                       *)
ProwlarrApp(t) == IF t = None THEN "add" ELSE "throw"

RootFolder(t, prev, settings) ==
    IF t = None THEN "add"
    ELSE IF prev = Never \/ (t.by = "us" /\ t.for.extra = settings) THEN "keep"
    ELSE "change"

NoFolder(root, settings) == root = None \/ (root.by = "us" /\ root.for.extra # settings)

ImportLibrary(t, prev, root, settings) ==
    IF t # None /\ prev = Never THEN "keep"
    ELSE IF NoFolder(root, settings) THEN "throw"
    ELSE UnlessTheirs(t, prev)

(* The path set before is known from the record alone.                      *)
QbitPaths(t, prev, settings) ==
    IF ~SignsIn("qbittorrent", settings) THEN "throw"
    ELSE IF t = None THEN "add"
    ELSE IF t.by = "us" /\ (\/ t.for.extra = settings
                           \/ (prev # Never /\ prev.set /\ prev.stamp.extra = t.for.extra))
    THEN "change" ELSE "keep"

Decide(l, t, prev, settings) ==
    CASE l.id = "qbittorrent-paths" -> QbitPaths(t, prev, settings)
      [] l.id = "arr-settings" -> ArrSettings(t, prev)
      [] l.id = "arr-rootfolder" -> RootFolder(t, prev, settings)
      [] l.id = "arr-import" -> ImportLibrary(t, prev, thing["arr-rootfolder"], settings)
      [] l.id = "arr-qbittorrent" -> DownloadClient(t, prev)
      [] l.id = "prowlarr-arr" -> ProwlarrApp(t)
      [] l.id = "prowlarr-flaresolverr" -> FlareSolverr(t)
      [] l.id = "bazarr-arr" -> BazarrLink(t, prev)
      [] l.id = "bazarr-languages" -> BazarrLanguages(t)
      [] l.id = "jellyfin-setup" -> JellyfinSetup(t, settings)
      [] l.id = "jellyfin-libraries" -> JellyfinLibraries(t, prev, settings)
      [] l.id = "seerr-setup" -> SeerrSetup(t, settings)
      [] l.id = "seerr-arr" -> SeerrArr(t, prev, thing["seerr-setup"])

(* Links that take more than one call that changes something.               *)
TwoCalls == {"jellyfin-setup", "jellyfin-libraries", "seerr-setup"}

-----------------------------------------------------------------------------
(* A pass. It looks at the containers, the record and .env once.            *)

(* Slip: a second caller starts a pass of its own.                          *)
FreeOwn(p) == pass[p] = Idle

(* wire(): whoever asks while one is running joins it.                      *)
Free(p) == \A q \in Passes : pass[q] = Idle

(* A pass takes the first number there is.                                  *)
Start(p) ==
    /\ Free(p)
    /\ \A q \in Passes : q < p => pass[q] # Idle
    /\ pass' = [pass EXCEPT ![p] =
         [at |-> "next", env |-> env, done |-> rec,
          todo |-> {l \in Mine : \A a \in l.needs : app[a].at \in {"starting", "up"}}]]
    /\ Same /\ UNCHANGED <<thing, rec, declined, unsaved, torn, events>>

(* The links take their turns in the order of the list.                     *)
Place(l) == CHOOSE k \in DOMAIN LINKS : LINKS[k] = l
First(ls) == CHOOSE l \in ls : \A m \in ls : Place(l) <= Place(m)
Current(p) == First(pass[p].todo)

(* The next link's turn; a pass with none left is over.                     *)
After(q) ==
    LET rest == q.todo \ {First(q.todo)}
    IN  IF rest = {} THEN Idle
        ELSE [at |-> "next", env |-> q.env, done |-> q.done, todo |-> rest]

(* Slips: a link once made is made; every pass makes every link.            *)
DueOnce(l, done, stamp) == done[l.id] = Never
DueAlways(l, done, stamp) == TRUE

Due(l, done, stamp) == done[l.id] = Never \/ done[l.id].stamp # stamp

(* stampOf(): from the apps' own files, or from Jellyfin itself.            *)
StampLink(p) ==
    /\ pass[p].at = "next"
    /\ IF pass[p].todo = {} THEN pass' = [pass EXCEPT ![p] = Idle]
       ELSE LET l == Current(p)
                stamp == Stamp(l, app, pass[p].env)
            IN  /\ \A a \in l.needs \cap IDENTITY : app[a].at \in {"up", "stopped"}
                /\ pass' = [pass EXCEPT ![p] =
                     IF Due(l, @.done, stamp)
                     THEN [at |-> "look", env |-> @.env, done |-> @.done, todo |-> @.todo,
                           stamp |-> stamp]
                     ELSE After(@)]
    /\ Same /\ UNCHANGED <<thing, rec, declined, unsaved, torn, events>>

(* The run reads what is there, and the keys it is about to write.          *)
Look(p) ==
    LET l == Current(p)
        q == pass[p]
        plan == Decide(l, thing[l.id], q.done[l.id], q.env)
    IN  /\ q.at = "look"
        /\ Up(l)
        /\ plan # "throw"
        /\ pass' = [pass EXCEPT ![p] =
             [at |-> IF plan = "keep" THEN "save" ELSE "act",
              env |-> q.env, done |-> q.done, todo |-> q.todo, stamp |-> q.stamp,
              plan |-> plan, for |-> Stamp(l, app, q.env), calls |-> 1,
              server |-> app[l.host].install]]
        /\ Same /\ UNCHANGED <<thing, rec, declined, unsaved, torn, events>>

Made(l, q) ==
    [by |-> "us", for |-> q.for, whole |-> l.id \notin TwoCalls \/ q.calls = 2]

Login(l, q) == IF l.id = "jellyfin-setup" THEN [works EXCEPT !["jellyfin"] = {q.env}] ELSE works

Reachable(l, q) == app[l.host].at = "up" /\ app[l.host].install = q.server

(* The call lands. A key of an install that is gone opens nothing. A wizard  *)
(* gives Jellyfin the login it was sent.                                    *)
Act(p) ==
    LET l == Current(p)
        q == pass[p]
    IN  /\ q.at = "act" /\ Reachable(l, q)
        /\ thing' = [thing EXCEPT ![l.id] = Made(l, q)]
        /\ pass' = [pass EXCEPT ![p] = IF Made(l, q).whole THEN [q EXCEPT !.at = "save"]
                                       ELSE [q EXCEPT !.calls = 2]]
        /\ torn' = IF Made(l, q).whole /\ (q.plan = "add" \/ l.id # "jellyfin-libraries")
                   THEN torn \ {l.id} ELSE torn
        /\ works' = Login(l, q)
        /\ UNCHANGED <<box, app, env, rec, declined, unsaved, events>>

(* The catch: why a link is not made is kept in memory only. Sonarr and      *)
(* Radarr may try the login they are given and refuse one that does not work. *)
Fails(p) ==
    LET l == Current(p)
        q == pass[p]
    IN  /\ \/ q.at = "next" /\ q.todo # {}
              /\ \E a \in l.needs \cap IDENTITY : app[a].at \in {"starting", "absent"}
           \/ q.at = "look" /\ ~Up(l)
           \/ q.at = "look" /\ Up(l) /\ Decide(l, thing[l.id], q.done[l.id], q.env) = "throw"
           \/ q.at = "act" /\ ~Reachable(l, q)
           \/ q.at = "act" /\ l.id = "arr-qbittorrent" /\ ~SignsIn("qbittorrent", q.env)
        /\ pass' = [pass EXCEPT ![p] = After(@)]
        /\ torn' = IF q.at = "act" /\ q.calls = 2 THEN torn \cup {l.id} ELSE torn
        /\ Same /\ UNCHANGED <<thing, rec, declined, unsaved, events>>

(* Slip: the stamp is taken when the record is made.                        *)
SaveLate(p) ==
    LET l == Current(p)
        q == pass[p]
        done == [q.done EXCEPT ![l.id] = [stamp |-> Now(l), set |-> q.plan # "keep"]]
    IN  /\ q.at = "save"
        /\ rec' = done
        /\ unsaved' = {i \in unsaved : i # l.id \/ q.plan = "keep"}
        /\ pass' = [pass EXCEPT ![p] = After([q EXCEPT !.done = done])]
        /\ Same /\ UNCHANGED <<thing, declined, torn, events>>

(* The record of a link is its stamp, and whether the link was set by us.   *)
Save(p) ==
    LET l == Current(p)
        q == pass[p]
        done == [q.done EXCEPT ![l.id] = [stamp |-> q.stamp, set |-> q.plan # "keep"]]
    IN  /\ q.at = "save"
        /\ rec' = done
        /\ unsaved' = {i \in unsaved : i # l.id \/ q.plan = "keep"}
        /\ pass' = [pass EXCEPT ![p] = After([q EXCEPT !.done = done])]
        /\ Same /\ UNCHANGED <<thing, declined, torn, events>>

-----------------------------------------------------------------------------
(* What may go wrong, and what users do meanwhile.                          *)
Event == events < MaxEvents /\ events' = events + 1

(* The answer of a call that landed is lost, or the record is not written.  *)
Lapse(p) ==
    LET l == Current(p)
        q == pass[p]
        done == [q.done EXCEPT ![l.id] = [stamp |-> q.stamp, set |-> q.plan # "keep"]]
    IN  /\ Event
        /\ \/ /\ q.at = "act" /\ Reachable(l, q)
              /\ thing' = [thing EXCEPT ![l.id] = Made(l, q)]
              /\ torn' = IF Made(l, q).whole THEN torn ELSE torn \cup {l.id}
              /\ pass' = [pass EXCEPT ![p] = After(q)]
           \/ /\ q.at = "save"
              /\ pass' = [pass EXCEPT ![p] = After([q EXCEPT !.done = done])]
              /\ UNCHANGED <<thing, torn>>
        /\ unsaved' = unsaved \cup {l.id}
        /\ works' = IF q.at = "act" THEN Login(l, q) ELSE works
        /\ UNCHANGED <<box, app, env, rec, declined>>

(* A call is refused, or never gets there.                                  *)
Refused(p) ==
    LET q == pass[p]
    IN  /\ Event
        /\ q.at \in {"look", "act"}
        /\ pass' = [pass EXCEPT ![p] = After(q)]
        /\ torn' = IF q.at = "act" /\ q.calls = 2 THEN torn \cup {Current(p).id} ELSE torn
        /\ Same /\ UNCHANGED <<thing, rec, declined, unsaved>>

Crash ==
    /\ Event
    /\ pass' = [p \in Passes |-> Idle]
    /\ LET cut == {p \in Passes : pass[p].at \in {"act", "save"}}
       IN  /\ unsaved' = unsaved \cup {Current(p).id : p \in {q \in cut : pass[q].at = "save"}}
           /\ torn' = torn \cup {Current(p).id : p \in {q \in cut :
                                   pass[q].at = "act" /\ pass[q].calls = 2}}
    /\ Same /\ UNCHANGED <<thing, rec, declined>>

(* What an app has of its links goes with it.                               *)
Without(a) == [i \in Ids |-> IF Named(i).host = a THEN None ELSE thing[i]]

LinksOf(a) == {i \in Ids : a \in Named(i).needs}

(* The setup script of qBittorrent gives it the login of .env, if it can.   *)
Install(a) ==
    /\ Event
    /\ app[a].at = "absent" /\ \E l \in Mine : a \in l.needs
    /\ app' = [app EXCEPT ![a] = [at |-> "starting", install |-> @.install + 1]]
    /\ declined' = declined \ LinksOf(a)
    /\ works' \in IF a = "qbittorrent" THEN {works, [works EXCEPT ![a] = {env}]} ELSE {works}
    /\ UNCHANGED <<box, env, thing, rec, pass, unsaved, torn>>

Answers(a) ==
    /\ app[a].at = "starting"
    /\ app' = [app EXCEPT ![a].at = "up"]
    /\ UNCHANGED <<box, env, works, thing, rec, pass, declined, unsaved, torn, events>>

Purge(a) ==
    /\ Event
    /\ app[a].at \notin {"absent"}
    /\ app' = [app EXCEPT ![a].at = "absent"]
    /\ works' = IF a \in LoginApps THEN [works EXCEPT ![a] = {}] ELSE works
    /\ thing' = Without(a)
    /\ declined' = declined \ LinksOf(a)
    /\ UNCHANGED <<box, env, rec, pass, unsaved, torn>>

Stop(a) ==
    /\ Event
    /\ app[a].at = "up"
    /\ app' = [app EXCEPT ![a].at = "stopped"]
    /\ UNCHANGED <<box, env, works, thing, rec, pass, declined, unsaved, torn>>

Restart(a) ==
    /\ app[a].at = "stopped"
    /\ app' = [app EXCEPT ![a].at = "up"]
    /\ UNCHANGED <<box, env, works, thing, rec, pass, declined, unsaved, torn, events>>

(* A login changed under Settings is changed in the app first, by way of    *)
(* the old one; or it is what the app has already.                          *)
SaveSettings(v) ==
    /\ Event
    /\ env # v
    /\ env \in works["wizard"] => v \in works["wizard"]
    /\ env' = v
    /\ \E told \in SUBSET {a \in LoginApps : app[a].at = "up"} :
         works' = [a \in Uses |->
                     IF a = "wizard" \/ ~SignsIn(a, env) THEN works[a]
                     ELSE IF a \in told THEN {v} ELSE works[a] \cup {v}]
    /\ declined' = {i \in declined : ~Named(i).extra}
    /\ UNCHANGED <<box, app, thing, rec, pass, unsaved, torn>>

(* The password is changed in the app's own pages.                          *)
UserLogin(a, v) ==
    /\ Event
    /\ app[a].at = "up" /\ works[a] # {v}
    /\ works' = [works EXCEPT ![a] = {v}]
    /\ UNCHANGED <<box, app, env, thing, rec, pass, declined, unsaved, torn>>

UserAdds(l) ==
    /\ Event
    /\ l \in Mine /\ app[l.host].at = "up" /\ thing[l.id] = None
    /\ thing' = [thing EXCEPT ![l.id] = Theirs]
    /\ Same /\ UNCHANGED <<rec, pass, declined, unsaved, torn>>

UserDeletes(l) ==
    /\ Event
    /\ l \in Mine /\ app[l.host].at = "up" /\ thing[l.id] # None
    /\ thing' = [thing EXCEPT ![l.id] = None]
    /\ declined' = IF rec[l.id] # Never /\ rec[l.id].stamp = Now(l)
                      /\ \A p \in Passes : pass[p] = Idle
                   THEN declined \cup {l.id} ELSE declined
    /\ Same /\ UNCHANGED <<rec, pass, unsaved, torn>>

PassStep == \E p \in Passes : Start(p) \/ StampLink(p) \/ Look(p) \/ Act(p) \/ Fails(p) \/ Save(p)

Next ==
    \/ PassStep
    \/ \E p \in Passes : Lapse(p) \/ Refused(p)
    \/ Crash
    \/ \E a \in Apps : Install(a) \/ Answers(a) \/ Purge(a) \/ Stop(a) \/ Restart(a)
    \/ \E v \in Values : SaveSettings(v) \/ \E a \in LoginApps : UserLogin(a, v)
    \/ \E l \in Links : UserAdds(l) \/ UserDeletes(l)

Spec == Init /\ [][Next]_vars

(* A timer starts a pass every five minutes, every call of a pass has a     *)
(* deadline (server.js:1653), and an app that was started comes to answer.  *)
FairSpec == Spec /\ WF_vars(PassStep) /\ \A a \in Apps : WF_vars(Answers(a) \/ Restart(a))

-----------------------------------------------------------------------------
(* "A link is made ONCE" (17): no call adds a second copy of what Podhouse  *)
(* has put there already, whoever asked for the pass, and also when the     *)
(* record of the first was lost.                                            *)
NeverTwice ==
    [][\A p \in Passes :
         /\ pass[p].at = "act" /\ pass[p].plan = "add" /\ pass[p].calls = 1
         /\ Act(p) \/ Lapse(p)
         => thing[Current(p).id].by # "us"]_vars

(* "If the user later deletes the download client in Sonarr, that was their *)
(* choice and it stays deleted" (17-18), as long as the apps and settings   *)
(* the link was made for are the same.                                      *)
DeletedStaysDeleted == [][\A i \in declined : thing'[i].by # "us"]_vars

(* A link whose record says that it was made for the installs and settings  *)
(* there are now was: what changes in the middle of a pass makes it due.    *)
(* (Not where the record of a later change was lost; and a Seerr that is    *)
(* set up is never set up again, whatever becomes of Jellyfin.)             *)
SettledIsCurrent ==
    \A l \in Mine :
        /\ \A p \in Passes : pass[p] = Idle
        /\ rec[l.id] # Never /\ rec[l.id].stamp = Now(l) /\ thing[l.id].by = "us"
        /\ l.id \notin unsaved \cup torn \cup {"seerr-setup"}
        => thing[l.id].for = Now(l)

(* "A link that fails (an app still starting) is retried next run": a link  *)
(* whose apps stay up comes to be on record for what they are. Not one whose *)
(* run() throws: an application Prowlarr has already, an import into a       *)
(* folder that the link before it left alone, a login in .env that is not   *)
(* the app's, a Seerr whose wizard is not over.                             *)
Throws(l) ==
    \/ l.id = "prowlarr-arr" /\ thing[l.id] # None
    \/ l.id = "arr-import" /\ NoFolder(thing["arr-rootfolder"], env)
    \/ l.id \in {"qbittorrent-paths", "arr-qbittorrent"} /\ ~SignsIn("qbittorrent", env)
    \/ l.id \in {"jellyfin-libraries", "seerr-setup"} /\ ~SignsIn("jellyfin", env)
    \/ l.id = "jellyfin-setup" /\ env \notin works["wizard"]
    \/ l.id = "seerr-arr" /\ ~Finished(thing["seerr-setup"])
Wired ==
    \A l \in Links :
        []<>(l \in Mine /\ Up(l) =>
               \/ rec[l.id] # Never /\ rec[l.id].stamp = Now(l)
               \/ Throws(l))

-----------------------------------------------------------------------------
(* A statement of the source that the code does not keep.                   *)

(* "A link whose target already has one of its kind (the user wired it by   *)
(* hand before this existed) is recorded as done without adding a second    *)
(* copy" (19-20).                                                           *)
HandWiredIsDone ==
    \A l \in Links :
        []<>(l \in Mine /\ Up(l) /\ thing[l.id] = Theirs => rec[l.id] # Never)

=============================================================================
