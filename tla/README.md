# Podhouse in TLA+

Podhouse (`homebox` on the command line) is a self-hosted app platform: a web
page on a small box, from which its owner installs, updates, backs up and
restores apps that run in containers. This directory holds models of the parts
of it that are hard to get right and hard to test (two operations that overlap,
a process that dies half way, a step that fails after another has been done, a
page that acts on what it read earlier), configurations that check them with
TLC, and proofs of the main results for every size of the system. All paths
below are relative to the repository.

## 1. The system

    page  --HTTP-->  dashboard process  --unix socket-->  worker  -->  docker
    (app.js)         (server.js, lib/*)   one call per    (worker.js,
                       |  |               connection       *-privileged.js)
                       |  +-- state/*.json, .env               |
                       +----- backups/, state/overrides/       v
    ssh  --homebox----------------------------------->  scripts on the host

The dashboard has no docker socket: whatever changes a container, a mount or an
app's settings it asks of the worker, one call to a connection. A call carries
on in the worker when the dashboard that asked for it is gone. Both are single
node processes; everything that overlaps does so at an `await`, between the two
processes, or with a script on the host: `homebox backup` and
`homebox bootstrap-token` run the dashboard's own code in a process of their
own, beside it, on the same files. Nothing is transactional: durable
state is a dozen small JSON files, `.env`, the containers themselves and the
archives. The page is one script too: it keeps what it was told, and acts on it
minutes later.

### Inventory

| Component | State it keeps | Operations | What makes it correct |
|---|---|---|---|
| Exact-copy backup (`lib/backup.js`, `homebox backup`) | `inFlight` in the memory of each process, one marker `backup-quiesce.json` | `create` with or without apps stopped, `resumeAfterQuiesce` at start | an app taken down is on record until it is up again; no archive is published with apps down |
| Archives (`lib/backup.js`, `lib/archive-copy.js`) | archives, the schedule, copies on a NAS | `create`, publish, prune, delete, schedule, copy | a copy on the NAS is whole; no slot of the schedule is missed |
| Restore (`lib/restore.js`) | an upload area, settings moved aside | receive, open, inspect, apply, discard | what the box had is never lost; stopped apps come back |
| Module operations (`server.js` `runAction`, `worker-client.js`, `worker.js`, `compose-privileged.js`) | `inFlight` set, a connection and a job per call, the containers | install, start, stop, restart, update, remove, purge | "ok" means it was done; one operation per module; the flag is dropped whatever dies; the proxy stays |
| Sign-in (`lib/auth.js`) | `auth.json` (password, token, sessions), counters of failed attempts in memory | claim, login, logout, change of password, `homebox bootstrap-token` | a replaced password and its sessions stay dead; guesses are limited; the queue moves |
| State files (`lib/state-store.js`) | each `state/*.json` and its temporary file | `readJson`, `writeJson` | a reader gets one whole document; writers do not trip over each other |
| Secrets (`lib/secrets.js`) and settings (`lib/config.js`, `server.js`, settings page) | `.env`, what each container was created with, fields of a page | `ensureFor`, `forgetFor`, `save`, `applySaved` | a key that protects data is not lost; what was saved reaches who uses it, or the answer says where it did not |
| Image updates (`lib/updates.js`, `lib/pins.js`) | `updates.json`, `image-pins.json`, `state/overrides/`, update archives, `applying` and `checking` in memory | check, apply a rebuild, upgrade to a newer tag, go back, pin | data is archived before a new image migrates it; going back lands on the old image; nothing stays "running" |
| Newer versions (`lib/versions.js`, `lib/registry.js`) | none | list tags page by page, compare | no newer version is skipped; a database keeps its major version |
| Platform self-update (`lib/platform.js`, `scripts/self-update.sh`) | working tree, lock, progress, `migrations-done.json`, archive for the way back | button, `homebox self-update`, migrate, rebuild, roll back | one run at a time; a recorded migration is a done one; "done" and "rolled back" are true |
| Release check (`lib/platform.js`, page) | `platform-check.json`, the dot and the card of a page | check, status, upgrade to what the card names | a paused release is no longer named; one that fits comes to be |
| Media wiring (`lib/media-wire.js`) | stamps of links made, `media-wired.json` | a pass over the links, retries | a link is made once, again after a reinstall, never what the user took away |
| Apps page (`public/js/app.js`) | choices queued, dialogs, the list of apps, a shared progress handle | queue, review, apply, remove, install the media set, poll | data goes only where a ticked box said so; a dialog says what happened; the list catches up |
| Updates page and rings (`app.js`) | a chain of upgrades, the ring of each, the poll through a restart | upgrade one or all, watch Podhouse update itself | a chain and a ring come to an end and say what happened |
| Bookmarks, catalog, own apps, icons (`lib/bookmarks.js`, `catalog.js`, `icons.js`) | one JSON file each, pictures on disk, lists in open tabs | save, remove, move, override, reset, prune | no update is lost; a picture that is named is there |
| Mounts (`lib/storage*.js`, `scripts/mount-remote.sh`) | systemd units, an SMB login, the folder beneath | ask, mount, detach | no app is given an empty folder for its library |
| Clearing an app's login (`lib/reset.js`) | copies of the app's file | stop, copy, forget, start | the account is in the file or in a copy |
| Activity, statistics, endpoints, YAML, insights, install scripts, site, app modules | little or none | - | see section 7 |

How they interact: a backup and an action of a user stop and start the same
containers through the same worker without excluding each other, and so do a
backup of the dashboard and one begun on the host, over one marker; an install and
Settings rewrite the same `.env` from two processes; an update takes an archive,
writes a pin and recreates a container that `runAction` may also be working on;
a restore takes a backup first, then replaces files the process has in use; a
platform update replaces the code and restarts the very process that showed its
progress; a saved setting, a fresh install or a purge makes links of the media
apps due again; every page acts on a list another page may have changed.

### What is hard here

- **State read before an await and used after it**: `inFlight` in `runAction`,
  the lines of `.env`, the schedule, a list of links while a picture is fetched,
  `auth.json` in the CLI, the manifest that was kept.
- **Jobs that outlive who asked for them**: the dashboard restarts, the worker
  goes on; a deadline fires and compose goes on; a helper container copies an
  archive to a share that goes away, or mounts a share after its `docker run`
  client was killed.
- **Two processes on one file**: a marker that two backups write and clear, an
  `auth.json` that two token commands replace, a lock that is a test and then a
  write.
- **One of several steps failing**: stop three apps, start two; pull, but not
  up; migrate, but no health; two logins told, the third refused; the way back
  itself.
- **Power**: a marker, lock or record that says something is going on when
  nothing is; settings half copied; an `.env` that is written in place.
- **The record and what it records**: marker and containers, pin and override,
  stamp and link, `migrations-done.json` and `.env`, `.env` and what containers
  were created with.
- **A page and the box**: answers that overtake one another, a flag that belongs
  to the page and is read by a chain minutes later, a poll through a restart.

`PROJECT.json` lists each hazard at its line with the property that covers it,
or why none does.

## 2. The modules

| Module | Stands for | How its state and steps correspond |
|---|---|---|
| `QuiesceBackup` | `create`, `restartQuiesced`, `resumeAfterQuiesce`, `stoppableModules`, in the dashboard and in each `homebox backup` | per process: `pc`, and `todo`, `stopped`, `remaining`, `create`'s locals; `mark` the one marker on disk; `inFlight` the dashboard's flag; `awaited`, `dead` and `late` the worker's jobs, with and without a caller that waits; `debt` why an app a backup stopped is still down, `mixed` whether two processes were between their two writes of the marker; one action per call and one per way it ends, a tar that nothing reads any more (`TarStalls`) and a directory that cannot be made (`CreateNoDir`) included |
| `QuiescePromise` | the comments on the marker | `held` apps and their `record`; QuiesceBackup implements it |
| `Archives` | `create` without the stopping, `prune`, `nextSlot`, the scheduler, `archive-copy.js` | `job[m]` is each of the four makers of archives (clock, page, shell, restore), `Stuck` being one whose flag is never dropped; `local` and `nas` the files; `sched` and `saving` the schedule on disk and in a request; `clock` counts half days |
| `Restore` (extends `Archives`) | `lib/restore.js` and its routes | `staged[s]` is a directory of `state/restore`, with what is opened, what is moved aside and what is copied; `req[r]` each request's place in `apply`, `inspect` or `discard`, item by item |
| `ModuleOps` | `runAction` to compose and back | a request is one HTTP call, with `req` its stage in the dashboard and `job` its stage in the worker |
| `Auth` | `lib/auth.js` behind `serialized`, with any number of token commands outside it | one action per await: arrive, begin, load, decide, commit or fail; `cli[c]` what a token command has read, `late` those another has overtaken |
| `StateFile` | `readJson` and `writeJson`, system call by system call | files are inodes with two halves, names point at them |
| `AtomicFile` | what the comments of `state-store.js` promise | a `value` replaced at one moment; StateFile implements it |
| `EnvFile` | read, write and rename of `.env` by three operations in two processes | one step per await; `held` is the key the app's data was made with |
| `Settings` | the settings page, `POST /api/config`, `save`, `applySaved` | `tab` is what a page loaded and what is typed over it; `real` the login that opens an app; `made` what each container was created with; one step per login told, then the write, the list of containers (which may not be had), and one per container recreated, the dashboard last; `untold` what the answer says nothing of |
| `MediaWire` | the whole of `lib/media-wire.js` | `LINKS` is the list with what each needs; `thing` what the other program has of a link, `rec` the stamps; `pass[p]` goes from link to link, `todo` being what is left and `First` the next in the order of the list, its `plan` what `run()` decides on what it finds, which may be to throw, `calls` the requests it makes; `works` the logins that open an app |
| `ImageUpdates` | check, apply, upgrade and the ways back of one service | `flow` is the update under way, `stray` the commands of dead dashboards, `archives` and `data` what can be gone back to |
| `NewerVersion` | `listFrom`, `listTags`, `newerThan`, `crossesMajor`, `checkOne` | a tag is its numbers and the shape around them; `walk` the pages read so far while `pushed` goes on changing |
| `PlatformUpdate` | the button, the CLI and `self-update.sh` | `run[s]` is each script, `web[r]` each request; one action per phase, one per failure, one per step of the rollback; `Half` an `.env` or a tree that was being written when its writer stopped; `raced` whether two scripts looked at the lock before either took it, `kept` migrations that a way back took out and left recorded |
| `ReleaseCheck` | `check`, `status`, `upgrade({to})`, `refreshUpdateBadge`, the card | `manifest` is what is published, its number the ETag; `cache` the kept answer; `check[c]` each check between its reads and its write |
| `UpdateRing` | the dialog and poll of the page, `status` and the files of the script | `files` are progress, lock, log and history; `ring` and `shown` the page's, `asked` the requests that have not landed and what they found; `gaveUp` whether the page stopped asking |
| `UpdatesPage` | the list, one upgrade or a chain, `upOverall` | `chain` is what is still to do, `ring` what the stream said, `told` what the page said in the end |
| `Page` | queue, review, chain of actions, sheets, the media set, lists | `flow[f]` is one click's chain; `layers` the dialogs, topmost last; `progress` the shared handle; `lists` the answers that have not landed; `box.lets` whether the session still reads or writes; `reached` and `mixed` whether a user has worked behind a dialog, and which chains shared the flag and the handle |
| `Lists` | `bookmarks.js`, `catalog.js`, `icons.js` and the pages that use them | `req` holds the list a request read until it writes it; `tab` the list a page has; `disk` the pictures |
| `Storage` | the form, `/api/storage`, the worker's half, `mount-remote.sh` | `job[j]` is where each script is, whether somebody still waits for it and whether it has run alone; `beneath` what is in the directory under the share, `frozen` its immutable bit; `bind` what each container was created on |
| `ResetLogin` | `run` and the three strategies of `lib/reset.js` | `db` and `mem` are the app's accounts in its file and in its memory; `backups` the copies by the second in their name; `live` whether one was taken while the app ran |
| `Dialogs` (extends `StateFile`) | `Settings`, `Storage` and `ResetLogin` beside the state file | instances of the three on variables of their own; states the properties the proofs speak of |
| `Updates` (extends `PlatformUpdate`) | `ImageUpdates` beside the platform's update | the same |

`MC*` modules give the constants values. `*Proofs` modules hold theorems:
`QuiesceBackupProofs`, `ModuleOpsProofs`, `AuthProofs`, `RestoreProofs`,
`PageProofs` and `MediaWireProofs` those of the module they are named for,
`DialogsProofs` those of `StateFile`, `Settings`, `Storage`, `ResetLogin` and `Lists`,
`UpdatesProofs` those of `PlatformUpdate` and `ImageUpdates`.

What is composed. `Restore` extends `Archives`: the backup a restore takes, and
the archives it reads, are the ones the clock makes, prunes and copies.
`QuiescePromise` and `AtomicFile` are abstract specifications, implemented by
`QuiesceBackup` and `StateFile` under a refinement mapping. `MCPage`,
`MCImageUpdates` and `MCDialogs` put parts that share **no** state side by side
in one configuration: `part` says whose behaviour it is, the others are frozen
at one initial place, and fairness is gated by `part`. That is a convenience of
checking and claims nothing of an interaction. `Dialogs` and `Updates` put parts
side by side in the same sense, and their theorems are of each part's own
specification. A property of a part is restated by name in the module that
instantiates it.

Where the code keeps a promise only under a condition, the condition is part of
the property, as a variable that records what has happened (`mixed`, `late`,
`raced`, `kept`, `reached`, `gaveUp`, `untold`, `live`, `alone`), never as a
choice of constants: the run and the theorem still hold every behaviour, those
after the condition was broken included. The promise without the condition is
stated beside it in the module, and section 6 says how it is broken.

Recurring abstractions. Passwords, tokens, images and secret values are small
numbers in the order they were made up, so that "old" can be said. A call to
another process is a step that begins it and several that may end it: done,
failed with nothing changed, failed with part changed, no answer. What a
deadline leaves behind stays as a job. An action of a page is the code between
two awaits. Wording, logs, transcripts and rendering are left out.

Definitions that end in what a plausible slip would do (`OpenInPlace`,
`StartFailsForAll`, `FreezeQuietly`, ...) are used by no specification: each is a
small fault that the property it is paired with in `PROJECT.json` must notice.

## 3. The runs

| Run | What it asks | What it shows |
|---|---|---|
| `quiesce` | does the marker list what the latest run holds down, through everything that can go wrong; does no run publish over an app it has down; does a run end; does all of it implement QuiescePromise; with a backup begun on the host beside the dashboard's | holds: of the marker, as long as no two processes were between their writes of it; of the end, unless tar stalls |
| `moduleops` | are flags dropped, is "ok" true, is every request answered | holds |
| `auth` | do old passwords and sessions stay dead, are guesses limited, does the queue move, with two token commands beside the dashboard | holds, but for the write of a token command that another has overtaken |
| `env_lost` | does the key of an app's data stay in `.env` | violated: the later of two renames undoes the earlier (finding 1) |
| `media` | is no link made twice, does what the user deletes stay deleted, is a settled link the one its apps and settings call for, is every link made in the end | holds, but for the links `Wired` and `SettledIsCurrent` name |
| `media_handwired` | is a link the user made by hand put on record | violated for Prowlarr's applications (finding 2) |
| `restore` | are copies on the NAS whole, is every slot of the schedule served, is what the box had never lost, do stopped apps come back | holds; no slot is served while the flag of a stuck backup is held |
| `restore_wayback` | does what was replaced stay until the restore is discarded | violated by a second apply after one that was cut off (finding 3) |
| `page` | four modules: does data go only where the box of its own dialog was ticked, is "Done" true, does the list catch up; does a paused release cease to be named; does a ring come to an end; does a chain of upgrades go on | holds: of the box and of Done, for a chain no other shared its dialog's time with; of the ring, unless the page gave up asking |
| `updates` | is data archived before it migrates, does the pin go back, does a clean way back land on the old image, does every update end; beside it, is no newer tag within reach skipped | holds |
| `platform` | one run at a time, recorded is done, done means new, failed and cleanly gone back means the old box | holds, until two scripts look at the lock before either takes it; of what is recorded, but for migrations a way back took out on a box that had no record, and for a half written `.env` |
| `dialogs` | five parts: is `state/*.json` an atomic file; is a container with old settings named in the answer; does the account survive its reset; does a move lose no link; is no library invented on an empty folder | holds, with the exceptions `ReportedIsDone`, `OwnerIsKept` and `LibraryOrNothing` name |

### Bounds, and why they are enough

- `quiesce`: two ordinary apps and the proxy with the dashboard alone, and one
  app with the dashboard and one `homebox backup` (`scene`): one app that fails
  and one that does not are the least that tell "the list" from "its member",
  and two processes the least that write over each other. Both at once are some
  ten million states. No counter is bounded: crashes, runs and reboots are
  without limit, the state space is finite by itself.
- `moduleops`: three modules (one that replaces another, one required), two
  requests at a time; every overlap in the properties is of two. Unbounded
  crashes.
- `auth`: two requests and two token commands, one address, `FAIL_MAX = 1`, `CLAIM_MAX = 2` (the code
  has larger limits; two distinct small ones tell them apart), `MaxSerial = 4`
  fresh names: a token and three claims, logins or changes of password, so that
  a stale session, a change and a later login can meet. With addresses apart the
  counters do not meet, so one is enough.
- `env_lost`: two apps and one setting, two tasks, `MaxValue = 3`.
- `media`: `MCBoxes` holds boxes of one or two links each, every kind of link in
  one of them, those that read one another's result together. Two passes, since
  a pass can be overtaken by the one a page asks for; two values of a setting;
  `MaxEvents = 3` of installs, purges, stops, settings, deletions, lost answers,
  lost records and crashes, enough for an event before, in and after a pass.
  `media_handwired` needs one pass and two events.
- `restore`: one app and `.env`, so that a restore has a first and a last item;
  two archives, retentions 1 and 2, presets with a month of 3 days, times at
  which a slot is just ahead, just past and long past (`{0, 2, 15}` half days);
  one staged restore with two requests on it, `MaxUses = 4` things asked or
  failing. `MCInit` lets either the archives be busy or restores be made; that
  the two cannot lose anything together is not left to this run,
  `NeverLostAlways` and `CopiesAlwaysWhole` (section 5) being proved of `Spec`
  without that choice. `restore_wayback`: one archive, one request,
  `MaxUses = 5`.
- `page`: two apps, one of them installed and one in the media set; two events.
  The apps page is explored twice. "apps": one chain of clicks with everything
  the box, another browser and failures do. "chains": two chains with a user who
  reaches behind dialogs, while no list is answered; what is asked of two chains
  does not speak of lists. The release check: releases and floors 1 and 2, two
  checks under way, two events. The ring: two updates, so that one reads the
  other's files, a line of log, one failure or reload. The updates page: two
  apps, two layers, three events.
- `updates`: `MaxTag = 1`, `MaxImages = 3` (the first image, a rebuild and a
  newer version, in any order), `MaxFlows = 2` updates, `MaxCrashes = 1`,
  `Kept = 1` archive, so that pruning happens at once. Tags: six, of which 8.10
  sorts before 8.9 and 10.1 before 9.1 as text and one has another shape; three
  pages of two; at most four tags published, four events. The platform's own
  update, whose variables the module brings along, stays at its beginning.
- `platform`: releases 1 and 2, both with a migration, one request at a time,
  `MaxRuns = 2` scripts (each may be the button's or the CLI's), `MaxLosses = 1`
  power cut, which may tear whatever is being written in place. The box has a
  record of migrations at first, or none. The first run can fail half way and
  the second find what it left. A behaviour is not followed further once two
  scripts are past their look at the lock (`raced`): no property of the run
  speaks of such a state, and `raced` stays. No liveness is checked there.
- `dialogs`: two writers, a reader and `MaxFiles = 4` inodes, which lets each
  writer write twice, a document having two halves so that a torn one can be
  told. Settings: two apps, a tab, two logins and two other keys, of which one
  is a list of media folders, three values of which one is refused and two are
  the same folders spelt differently, three events. Lists: three links, a
  shipped app and one of the user's own, two tabs, one request at a time under
  way (two are in section 6), four events. A share with one container on it, two
  scripts at a time, five events. Resets: each of the three strategies, two
  resets, five events.

Freezing the other parts of a composed run removes no behaviour of the one under
way. What the runs leave out beside their bounds is named above: the scenes of
`quiesce`, of `restore` and of the apps page, and what follows `raced`.

`CHECK_DEADLOCK FALSE` stands only where a bound lets the model stop: once every
value has been made up, every update begun, every event spent or every script
started and cut off, nothing else need happen. `quiesce`, `moduleops` and `auth`
check for deadlock.

## 4. Assumptions

**Fairness** is weak fairness of what a timer, a deadline or a browser drives,
never of what a user or a failure does.

| Module | Fair | Because |
|---|---|---|
| `QuiesceBackup` | each step of a backup, the boot | every call has a deadline (`worker-client.js`, `docker.js`), compose restarts the container; a tar whose output is not read stalls and nothing is assumed of it |
| `ModuleOps` | each request's steps, its job's end and answer included | compose is killed at its timeout (`compose-privileged.js:80`), a closed socket rejects the call |
| `Auth` | the request at the head of the queue | it reads and writes one small local file |
| `ImageUpdates` | each step of a flow, the end of a check | every call in a flow has a deadline |
| `MediaWire` | a step of a pass; each app comes to answer | a timer starts a pass every five minutes (`server.js:1653`), each call has a deadline |
| `Archives`, `Restore` | the scheduler's tick, each step of a maker, the end of a helper, each step of a request | a timer each minute (`backup.js:693`); the helper and each call have a deadline; tar has none, and one that stalls holds the flag (`Stuck`) |
| `Page` | the poll, the answer and landing of a list, the server, the page's own continuation | the poll's timer; the queue of the browser |
| `ReleaseCheck` | the page's badge; each check's start, fetch and write | timers of both sides, a deadline on the fetch |
| `UpdateRing` | the script, the grace period's end, the interval, the browser; not the page's giving up | see below |
| `UpdatesPage` | the stream and the continuation of the chain | the server's own deadlines end an update |

`StateFile`, `EnvFile`, `Settings`, `Lists`, `Storage`, `ResetLogin`,
`NewerVersion` and `PlatformUpdate` assume none. `install.sh` and `git` have no
deadline in `self-update.sh`, so that a platform update itself ends is not
claimed; that its ring does is claimed given that the script goes on or dies,
and that the page has not given up asking.

**Docker, registries, a NAS and the media apps** are external, and modelled by
what the code expects of them: an `up` replaces the container with an image its
tag names at that moment, a compose command may fail before, within or after its
effect; a share may be gone at any moment; docker makes the source of a bind
that is not there; a registry answers in the order `versions.js` says it does.

**Conditions of the promises.** These are no assumptions of the models, which
hold the behaviour on both sides of them, but of what is promised:

| Property | is promised | because |
|---|---|---|
| `Recorded`, `KeepsPromise` | of a marker whose writer was the only process between its two writes (`mixed`) | the marker is one file without a lock, and `homebox backup` has a flag of its own (`backup.js:326`) |
| `RunEnds`, `Served` | unless a tar has stalled (`AtRest`, `FlagStuck`) | nobody listens for the error of the staging file, and tar has no deadline (`backup.js:394-410`); a directory that cannot be made leaves the flag set (`backup.js:364`) |
| `OldPasswordStaysOld` | but for the write of a token command that another has overtaken (`late`) | the queue is the dashboard's own; `auth.js:84-86` and `docs/SECURITY.md` say as much |
| `Wired`, `SettledIsCurrent` | but for links whose `run()` throws (`Throws`) and those named there | a link that throws is retried and throws again |
| `BatchAsReviewed`, `SaysWhatHappened` | of a chain that no other shared the flag and the handle with (`mixed`) | the page has one of each; no dialog keeps the focus, so the keyboard reaches what lies behind one |
| `ListsFresh` | while the session lasts (`box.lets`) | an answer without a list empties the page (`app.js:4330`), and none comes without a session |
| `RingEnds` | unless the page gave up asking (`gaveUp`) | it stops its interval and leaves the ring as it is (`app.js:5599-5603`) |
| the four of `platform` | until two scripts have looked at the lock before either took it (`raced`) | the lock is a test and a write (`self-update.sh:157-165`) |
| `RecordedIsDone`, `DoneMeansNew` | but for migrations a way back took out and left recorded (`kept`), and of an `.env` that is whole (`Half`) | unpacking an archive without `migrations-done.json` removes none; nothing looks whether `.env` was written to its end |
| `LandsBack` | of the record, if there was one | the same |
| `ReportedIsDone` | but for what no message tells (`untold`) | a list of containers that cannot be had is an empty one (`server.js:698`); the page names failures only (`app.js:2806`); saving folders respells other keys (`server.js:717`) |
| `OwnerIsKept` | unless two resets began within one second, or the app ran while its file was copied (`live`) | the copies are named by the second, and nothing keeps the app from being started |
| `LibraryOrNothing` | of a mount whose script ran alone (`told = "yes"`) | a script goes on when its `docker run` client is killed (`compose-privileged.js:78-81`), and nothing keeps two apart |
| `NothingSkipped` | of tags within reach (`InReach`) | the narrowed listing relies on what its comment says of the registries |

**A migration's effect is in `.env`**, which is what the way back restores.
Those of 0.6.0 and 0.29.0 also touch folders and a container; these are not
taken back by a later failure and are outside the model.

## 5. What is proved

TLAPS proves these for every value of the constants: any number of apps,
modules, requests, writers, releases, scripts, items, stages and containers.
Where a run checks the same formula on a small instance the property is in
italics.

| Module | Theorem | States |
|---|---|---|
| `QuiesceBackupProofs` | `RecordedAlways` | *`Recorded`* |
| | `PublishedBack` | *`PublishedOnlyWhenBack`* |
| | `RequiredNeverStopped` | `RequiredUntouched` |
| | `PromiseKept` | *`KeepsPromise`* (QuiesceBackup implements QuiescePromise) |
| `ModuleOpsProofs` | `FlagsReleased`, `OkAlwaysTrue` | *`FlagTracksWork`*, *`OkIsTrue`* |
| | `RequiredStays`, `TypesKept` | `RequiredKept`, `TypeOK` |
| `AuthProofs` | `OldCredentialsStayDead`, `OldPasswordsStayOld`, `SignedOutForGood`, `GuessesAlwaysLimited` | *`OldCredentialsDie`*, *`OldPasswordStaysOld`*, *`SignedOutStaysOut`*, *`GuessesLimited`* |
| `UpdatesProofs` | `OneRunAtATime`, `NoMigrationIsSkipped`, `DoneAlwaysMeansNew`, `LandsBackAlways` | *`OneRun`*, *`RecordedIsDone`*, *`DoneMeansNew`*, *`LandsBack`* |
| | `PinsGoBack`, `MigrationsAlwaysBackedUp`, `WayBackIsExact` | *`PinPutBack`*, *`MigrationsBackedUp`*, *`CleanRollback`* |
| `RestoreProofs` | `CopiesAlwaysWhole`, `NeverLostAlways` | *`CopiesWhole`*, *`NeverLost`* |
| `MediaWireProofs` | `MadeOnce`, `ChoiceStands`, `AlwaysSettled` | *`NeverTwice`*, *`DeletedStaysDeleted`*, *`SettledIsCurrent`* |
| `PageProofs` | `BatchAlwaysAsReviewed`, `AlwaysSaysWhatHappened` | *`BatchAsReviewed`*, *`SaysWhatHappened`* |
| `DialogsProofs` | `ReadersSeeWhole`, `PromiseKept` | `ReadsWhole`, *`KeepsPromise`* (StateFile implements AtomicFile) |
| | `ReportedAlwaysDone` | *`ReportedIsDone`* |
| | `LibraryOrNothingAlways` | *`LibraryOrNothing`* |
| | `OwnerAlwaysKept` | *`OwnerIsKept`* |
| | `MovesKeepAll` | *`MoveKeepsAll`* |

Every safety invariant that a passing run checks has its theorem here, and every
action property but one (`NothingSkipped`).

What the theorems suppose is what each module's named ASSUME says of its
constants, and, of the state file, `Unique` temporary names, which the code
makes (`state-store.js:64`). `ProcsAssumption` tells the dashboard from the
processes on the host, `PlatformAssumption` numbers the releases and tells a
half written file from one, `MediaAssumption` numbers the passes, `PageAssumption`
has finitely many apps, `ImagesAssumption` at least one archive kept
(`BACKUPS_KEPT` is 10, `updates.js:383`), `DialogsAssumption` that no app is
called "dashboard".

The arguments, by the inductive invariant each needs:

- **Backup.** `Recorded` alone is not inductive: the marker is written again from
  `remaining`, so what a run holds down must be among `todo`, `remaining` and
  the app of the call under way. `Local` says so of each process's own lists,
  whatever the others do, and `PublishedOnlyWhenBack` follows from it alone: it
  holds of overlapping runs too. `Sole` adds the marker: as long as it is one
  process's own (`~mixed`), that process is the only one between its two writes
  and every list it works from is within the marker; recovery after a crash
  starts again from the marker, which is why it must have been right at every
  instant. `mixed` is set where a second process comes in between, and falls
  when a run writes its list with no other at work.
- **Module operations.** `IInv = Shape /\ Named /\ FlagTracksWork /\ NoDown /\
  RequiredKept`. `RequiredKept` needs `NoDown`: no request, at work or with
  an orphaned job, carries a `down` for a required module, because the guard
  came before the job. `OkIsTrue` needs `Truth`: once a job is done and nothing
  else has touched its module, docker is as asked already, before anybody is
  told.
- **Sign-in.** `Turn` (only the request whose turn it is has begun), `Fresh`
  (what it has read is on file still, but for a token the CLI added), `Sound`
  (every session on file was opened under the password on file and none was
  signed out) and `Ready` (the same of what is about to be written). `Fresh` is
  what the promise chain buys; a token command is `Harmless` because it means to
  write only while the box has neither password nor token, and until another one
  has written nothing the dashboard does makes that untrue. `Attempts`: the count an
  address was let through with is the count it still has when its password is
  looked at, since nobody else has a turn between.
- **State file.** `Progress` ties each writer's stage to the inode it fills,
  `Settled` says the inode under the real name is whole and nobody's to write.
  Both need each write to have its own temporary name (`Unique`).
- **Platform.** `Holding`: a script past the lock has it, and while one is about
  to take it nobody else is. `SoundOf`: what the archive of a run would put back
  is as sound as the box was when it was taken, and until its own `.env` is back
  the record it puts back names only migrations whose change is there, or that
  are `kept`. `There`: on the way there each phase has behind it what "done" will
  claim. `Homeward`: on the way back what is still to be put back is in the
  archive, and what has been is as it was found, while the script is `clean`.
  The four are one invariant with `raced` as the other side of it: two runs past
  the lock change each other's tree, and nothing is left to say. `Torn` goes
  through what a script that stops in the middle of its step may leave.
- **Copies.** `CopiesWhole` is inductive: a name is given in one action, to a
  file that was compared there, and a power cut or a share that goes away leaves
  only what has no name.
- **Restore.** Nothing can be said of one request alone, because requests on one
  restore are not kept apart. `NeverLostInv = Shape /\ (Writing => Kept) /\
  SomewhereSafe`: whatever writes to the box has a published backup behind it
  (`Kept`: each item the box had is in an archive that is kept, or its owner or
  the retention threw that archive away), and until somebody writes the item is
  in place. Moving aside, copying and discarding can then do as they like. The
  lemmas on sequences say what publishing, pruning and deleting do to the set
  of items archives hold.
- **Storage.** `NobodyBeside` (a script that has run alone is the only one there
  is), `WillFreeze` (past the step that sets the bit, such a script has set it or
  has warned), `Promised` (what was answered of such a script stays so until
  something else is asked for). A script left behind by an earlier request is
  what `alone` tells apart: it may take the bit off at any moment, and a mount
  that began while it was there, or that it began beside, is promised nothing.
- **Reset.** `Apart` (resets under way have names of their own for their copies),
  `Copied` (what is about to be emptied was copied with the owner in it), `Safe`
  (once the account is gone from the file there is a copy that no reset under
  way, or to come, writes to again), each as long as no two resets were asked for
  within a second and none copied the file of a running app.
- **Lists.** `ListsInv`: the list on file, the one each page has and the one each
  request has read name no link twice, and neither does an order a page sends.
  Then the ids an order knows and the links they name are as many (`AsMany`, by
  a bijection), so that the named ones and the others make up the list again:
  `Reorder` says so of every list and every order, whatever either leaves out.
  `Kept` says where what a filter keeps of a list is found.
- **Settings.** `Told`: a container that was made with another value than the
  file's is one that Docker has still to bring up (`owed`), one that no message
  tells of (`untold`), the dashboard about to recreate itself, or among what the
  save under way has to do, has failed at or hands to the owner. `DoneIsMade`
  keeps what the save counts as done out of that. `Settings` has one save at a
  time (what two do to the file is `EnvFile`'s question), so between the write
  and the answer the file is the one it wrote.
- **Page.** The page has one flag for the box that is ticked and one handle for
  what a chain prints, and nothing keeps the keyboard from a second dialog. Two
  chains that have a dialog at once are both `mixed` (`Alone`); of the others,
  what the flag says until the verb is read off it is what the chain's own box
  said (`AsTicked`), and the handle is theirs or nobody's (`Handle`). `Calm`: as
  long as nobody reaches behind a dialog no two chains ever have one, so nothing
  is `mixed`; a pointer alone keeps both promises for every chain.
- **Media.** `OnePass`: one pass is at work at a time, so that between its look
  and its call a link changes only by the user. `ThingInv`: what Podhouse made in
  another program is there as long as that program is installed, under its
  present key, and no key in it is newer than its app: a purge takes the things
  with the app. `RunInv`: a pass's stamp is no newer than the keys it then writes.
  `DoneInv`: a pass has the record as it is, but for what could not be written.
  `SettledInv`: so what is on record is no newer than what is there; `DeclinedInv`:
  what the user took away is on record for the apps and settings there are now,
  for every pass, and none finds it due.
- **Image updates.** `PinAsFound`: from its backup to its way back, but for the
  steps between setting and resetting the pin, the pin is the one the upgrade
  found. `DataKept`: from the backup to the switch an archive has the data as it
  is; it is inductive because only a switch migrates, and pruning keeps the
  newest. `WayBack`: as long as nothing from before a crash has landed, nothing
  was left half written and no command of the way back failed, the tag that the
  flow came from still names the image it came from (an upgrade pulls another
  tag; a rebuild has noted the image), and the pin or the tag to go back by is
  known. Those three suppositions are fields of the flow (`strayed`, `torn`,
  `stuck`); dropping the last gives `RolledBackIsBack`, which is false
  (section 6).

Only model-checked: liveness (`RunEnds`, `Answered`, `NeverWedged`, `Released`,
`Wired`, `Served`, `ComeBack`, `Fresh`, `FreezeReaches`, `RingEnds`, `GoesOn`),
which needs ENABLED and induction under fairness and is out of the prover's
reach; `NewerVersion.NothingSkipped`, which rests on what `SortSeq`, `FoldLeft`
and `SelectSeq` compute of a sequence: facts by induction over its length, of
operators the prover cannot unfold.
`RequiredUntouched`, `RequiredKept`, `ReadsWhole` and the type invariant of
`ModuleOps` are proved and have no run.

## 6. Findings

Each is the counterexample of a run marked "violation".

1. **A secret in use drops out of `.env`** (`lib/secrets.js:127`). Two
   operations that overlap rename what each had read.
2. **Prowlarr's applications made by hand are never on record**
   (`lib/media-wire.js:232`). `run()` of that link reads `prev`, which is not a
   parameter of it and is declared nowhere: whenever Prowlarr has an application
   of that kind the link throws, for ever, also after a reinstall.
3. **A second apply removes the way back** (`lib/restore.js:394`). It moves aside
   what is in place over what the first moved aside; when the first was cut off
   while it copied, what is in place is half a copy. The backup taken before is
   what is left (`NeverLost`).

### Divergences met while modelling

These are stated in their modules, TLC finds each violated under the bounds of
its module's run (the two of `ReleaseCheck` with `Versions = 1..3`: a box has to
be moved on past one release and short of another; `PlatformUpdate.OneRunEver`
under `SPECIFICATION Spec`, since the run itself follows no behaviour past
`raced`), and no run is kept for them.
`UpdatesPage.UpgradedIsNew`, `Auth.GivenIsOnFile` and `StateFile.NoClash` are
stated as well, and hold there.

| Statement | What the code does |
|---|---|
| `QuiesceBackup.AlwaysRecorded` | two backups, one of the dashboard and one of `homebox backup`, write over each other's marker: `inFlight` is a variable of each process (`backup.js:326`, `homebox:581-604`) |
| `QuiesceBackup.CopiedAtRest` | the recovery of a dashboard that starts during a backup on the host starts its apps again under that one's tar |
| `QuiesceBackup.NothingStaysStopped` | a tar whose staging file cannot be written never ends: nobody listens for the stream's error, and the finally clause is not reached (`backup.js:394-410`, `server.js:1636`) |
| `QuiesceBackup.EarlierStillRecorded` | `create` sets the marker to the apps running now; one the previous run could not start is not running, and is forgotten (`backup.js:376`) |
| `ModuleOps.OnePerModule` | `inFlight` is checked before `docker.listContainers()` and added to after it: two installs of one module run at once (`server.js:811-823`) |
| `Archives.ServedAnyway` | the same tar, or a backup directory that cannot be made (`backup.js:364`), leaves `inFlight` set: no backup is made until the dashboard is restarted |
| `Auth.NeverUnclaimed` | two token commands read the empty box, the first one's token claims it, the second one's write unclaims it (`auth.js:84-86` says that writers of two processes still race) |
| `ImageUpdates.RolledBackIsBack` | the error of the way back is swallowed and the outcome read off the health of whatever container is there (`updates.js:694`) |
| `ImageUpdates.NotHalfUpdated` | an `up` that rejects skips the way back of a rebuild (`updates.js:510`) |
| `PlatformUpdate.RefusedMeansRunning` | after a power cut `lock present` is taken for `alive`; only the script knows of stale locks (`platform.js:471`) |
| `PlatformUpdate.OneRunEver` | a button and a session on the box that look at the lock in the same instant both get through (`self-update.sh:157-165`) |
| `PlatformUpdate.RecordedAlwaysDone` | on a box that had no `migrations-done.json`, a migration that a failed update carried out and took back stays recorded, and the next update skips it (`self-update.sh:222`, `install.sh:513`) |
| `PlatformUpdate.RecordLandsBack` | the same: unpacking the archive of a box without that file removes none |
| `Page.AlwaysAsReviewed` | the keyboard reaches behind a dialog (no `inert`, no `showModal`), and the box of a second one is the flag that the first one's chain reads (`app.js:6531`) |
| `Page.DoneIsItsOwn` | of two chains with a window, the first to end says Done in the other's |
| `Page.OwnWindow` | output goes through one shared handle: of two chains, the first one's window stays "running" (`app.js:1857`) |
| `Page.TakesBack` | clicking a queued app again does not take the choice back while a chain has it |
| `ReleaseCheck.OfferReaches` | a 304 keeps the reason of an older answer: a box that was too old once and was then updated by hand is not offered the release (`platform.js:213-240`) |
| `ReleaseCheck.NeverBack` | an old page's button names an older release, and `upgrade({to})` does not compare |
| `UpdateRing.RingAlwaysEnds` | after five minutes of silence the page stops asking and leaves the ring without a Close button (`app.js:5599-5603`) |
| `UpdateRing.NoneLeftOpen` | a second ring is opened over one that has not been told, by the keyboard or once the page has given up |
| `UpdateRing.VerdictIsItsOwn` | while `done` is written and the history entry is not, the newest entry is another run's |
| `UpdateRing.NothingTwice` | an answer that was overtaken moves `platformShown` back, and lines are shown again |
| `UpdatesPage.PutBackIsBack` | a broken stream, a refusal and a failed way back are all told as "put back" |
| `Settings.AlwaysReported` | a list of containers that cannot be had restarts nothing and is answered as success (`server.js:698`); what is left to the owner is not shown beside a failure (`app.js:2806-2811`); the folders of the media modules are respelt behind the save (`server.js:717`) |
| `Settings.LoginsAgree` | an app that was given its new login is not asked again when the save is then refused (`server.js:708`) |
| `Lists.LinkIconsKept` | the catalog's prune looks at apps alone, and removes pictures of links (`catalog.js:138`) |
| `Lists.AppIconsKept` | a form filled before another tab's reset saves a picture that has been pruned |
| `Storage.LibraryWhateverRuns` | a script whose `docker run` client was killed at its time limit goes on (`compose-privileged.js:78-81`), and takes the immutable bit off after the next mount was answered (`mount-remote.sh:112`) |
| `Storage.DetachedIsGone` | a share that a container holds is answered as detached and stays mounted (`storage-privileged.js:271`) |
| `Storage.RightPasswordOpens` | the first SMB login is kept for all shares: a wrong one is never replaced (`mount-remote.sh:74-98`) |
| `ResetLogin.KeptWithinASecond` | two resets in one second name their copies alike (`reset.js:171`) |
| `ResetLogin.KeptWhoeverStartsIt` | the app may be started again before its file is copied, and a copy of a live SQLite file may be a broken one (`reset.js:289`) |
| `ResetLogin.ClosedWhenWritten` | the app may be started by hand, or by the other reset, between the stop and the write (`reset.js:168`) |
| `NewerVersion.NothingSkippedAtAll` | 10 sorts before 8, and a line that goes on beside a newer one is pushed after it (`versions.js:121`) |
| `NewerVersion.MinorsStillOffered` | once there is a newer major version, a database is told of that alone, and no longer of the next minor one |
| `Archives.FirstSlotCounts` | the first 02:00 is counted from the last run there ever was, not from when the schedule was switched on (`backup.js:631`) |

And without a statement of their own. *Backup and operations*: a stop that times
out counts as "not stopped" and its app drops off the marker (`backup.js:386`);
resume starts an app its owner removed meanwhile, `start` being `up -d`; an install is
admitted on the empty list a failed docker call stands for (`server.js:817`). *Archives
and restore*: a slot that passes while a backup runs is skipped; a schedule saved
during a scheduled backup is undone (`backup.js:687`); failed `.incoming-*`
copies stay on the NAS; a half unpacked tree is taken for a whole one; a failed
stop is read as "not running"; apps their owner had stopped are started.
*Sign-in*: an `auth.json` that cannot be read is taken for an empty one; claim
and login share a counter of failures that `auth.js:46-51` calls separate. *Updates*:
the check after an update is refused while another runs, which then offers the
version just installed; a failed write of the override leaves the pin; power
lost after the checkout leaves migrations that nobody resumes before the next
release, or an `.env` that was being written (`install.sh:302`,
`self-update.sh:223`); a rollback of `state/` undoes what users saved meanwhile.
*Media*: half-made Jellyfin
libraries are taken for "already had libraries"; qBittorrent is not among the
apps whose reinstall is noticed; Seerr is never set up again after a reinstall of
Jellyfin; a root folder whose record was lost keeps its old path, and the import
after it throws. *Page*: a stream that is refused counts as done (`app.js:6335`);
signing in again runs `init()` twice. *Settings and lists*: a save in another tab is cut while the dashboard recreates
itself; the catalog's form sends `name` and `ramMb`, `saveOverride` reads `title`
and `ram` (`app.js:3863-3880`, `catalog.js:35`); a link saved or removed while
another's picture is fetched is undone (`bookmarks.js:64`); a link deleted in one
tab and edited in another comes back. *Mounts and resets*: the password file
stays when the worker dies; `list()` says nothing is mounted when `findmnt`
fails; a reset that fails leaves its app stopped.

## 7. Not modelled, and the plan

Partly modelled, and what is missing:

- Module operations: the seven actions on one service or container, install's
  transcript, seeding of folders.
- Sign-in: cookies, the hash, an `auth.json` that cannot be read.
- Secrets and settings: random formats, the rules of each field.
- Image updates: several services in one "all", the user's own actions on the
  same app meanwhile (a composition of `ImageUpdates` with `ModuleOps` over one
  set of containers, where `inFlight` and `applying` do not exclude each other).
- Registry: tokens, digests of manifests, layer sizes.
- Platform update: signatures, pruning of archives, effects of a migration
  outside `.env`, what a box does after a power cut.
- Updates page: rebuilds (`applyUpdate`), notices of held-back versions.

Next, by what it would add:

1. `ImageUpdates` composed with `ModuleOps`, as above.
2. Proofs: `Auth.GivenIsOnFile`, `UpdatesPage.UpgradedIsNew` and the type
   invariants of `Restore` and `ImageUpdates`, which have neither run nor
   theorem.
3. A run of `Lists` with two requests under way (the theorem has any number):
   `MoveKeepsAll` speaks only of those whose list nobody else wrote meanwhile.
4. `PlatformUpdate` with recovery after a power cut.
5. The framing of the event stream, against a reference definition.

Left out for good: activity and statistics (a tail of docker's events and a
timed cache, in memory; a line that is lost is read again); the docker and
worker endpoints (thin layers, whose answers the modules above take in); YAML,
insights, weather and rendering (parsing and presentation, no state another
part relies on); install, uninstall and the `homebox` command (straight-line
shell); the maintainer's tools and the site (no state shared with a box);
cryptography (archives and signatures stand for whether they verify); the app
modules (data, and constants of the models). Of a power cut, what is being
written in place in the self-update may be left half written (`.env`, the tree,
`migrations-done.json`); the loss of data that was written and not yet synced is
modelled nowhere.
