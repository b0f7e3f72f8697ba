--------------------------- MODULE QuiesceBackup ---------------------------
(***************************************************************************)
(* The exact-copy backup of dashboard/lib/backup.js: stop the apps, copy    *)
(* the files, start the apps again, with a marker file (QUIESCE_MARK) that  *)
(* must survive whatever happens in between.                                *)
(*                                                                          *)
(* The dashboard runs it, and so does every `homebox backup` on the host,   *)
(* in a node process of its own: the processes share docker, the worker and *)
(* the one marker file, while the flag that refuses a second run is a       *)
(* variable of each process.  The privileged worker, another container,     *)
(* runs the `docker compose` commands it is asked for and goes on running   *)
(* them when the caller dies.  Every `await` of the code is a step boundary *)
(* here.                                                                    *)
(***************************************************************************)
EXTENDS Naturals, FiniteSets

CONSTANTS
    Apps,       \* the module ids under modules/
    Required,   \* those whose metadata says `required` (proxy, dashboard)
    Server,     \* the dashboard process
    Clis        \* the processes of `homebox backup` on the host

Procs == Clis \cup {Server}

(***************************************************************************)
(* debt[a] is "none" unless a job of a backup took a down and nothing has   *)
(* started, stopped or removed it since:                                    *)
(*   a process  by a stop of that process's latest run, not reported failed *)
(*   "earlier"  by a stop of a run over which another has begun since       *)
(*   "loose"    by a stop reported failed, or one that outlived its caller  *)
(***************************************************************************)
Reasons == {"none", "earlier", "loose"}

ASSUME AppsAssumption == Required \subseteq Apps
ASSUME ProcsAssumption == Server \notin Clis /\ Procs \cap Reasons = {}

VARIABLES
    running,    \* the apps whose containers docker shows running
    mark,       \* contents of state/backup-quiesce.json: the ids in `stopped`
    pc,         \* where each process is in create() or at startup
    inFlight,   \* the module-level flag of backup.js, in the dashboard
    todo,       \* ids the running `for` loop of each process has still to visit
    stopped,    \* create()'s local `stopped`
    remaining,  \* restartQuiesced()'s local `remaining`
    awaited,    \* the worker call each process awaits: {} or one job
    dead,       \* worker jobs whose caller died, nothing written over since
    late,       \* worker jobs older than the latest recovery or run
    debt,       \* history: why an app that a backup stopped is still down
    mixed       \* history: another process was at work when this marker was made

vars == <<running, mark, pc, inFlight, todo, stopped, remaining,
          awaited, dead, late, debt, mixed>>

locals  == <<todo, stopped, remaining>>
orphans == <<dead, late>>

PC == {"down", "resume", "idle", "list", "mark", "stop",
       "tar", "stalled", "restart", "encrypt", "finally", "clean"}

Job == [op : {"stop", "start"}, app : Apps, by : Procs]

TypeOK ==
    /\ running \in SUBSET Apps
    /\ mark \in SUBSET Apps
    /\ pc \in [Procs -> PC]
    /\ inFlight \in BOOLEAN
    /\ todo \in [Procs -> SUBSET Apps]
    /\ stopped \in [Procs -> SUBSET Apps]
    /\ remaining \in [Procs -> SUBSET Apps]
    /\ awaited \in [Procs -> SUBSET Job]
    /\ dead \in SUBSET Job
    /\ late \in SUBSET Job
    /\ debt \in [Apps -> Reasons \cup Procs]
    /\ mixed \in BOOLEAN

Nothing == [p \in Procs |-> {}]

Init ==
    /\ running \in SUBSET Apps
    /\ mark = {}
    /\ pc = [p \in Procs |-> IF p = Server THEN "idle" ELSE "down"]
    /\ inFlight = FALSE
    /\ todo = Nothing /\ stopped = Nothing /\ remaining = Nothing
    /\ awaited = Nothing /\ dead = {} /\ late = {}
    /\ debt = [a \in Apps |-> "none"]
    /\ mixed = FALSE

-----------------------------------------------------------------------------
(* What a compose command does to an app.  `start` is `up -d`, so it also   *)
(* creates the containers of an app that has none: one without containers   *)
(* counts as one that does not run.                                         *)

StopEffect(a, why) ==
    IF a \in running
    THEN /\ running' = running \ {a}
         /\ debt' = [debt EXCEPT ![a] = why]
    ELSE UNCHANGED <<running, debt>>

StartEffect(a) ==
    /\ running' = running \cup {a}
    /\ debt' = [debt EXCEPT ![a] = "none"]

Effect(j, why) ==
    \/ j.op = "stop" /\ StopEffect(j.app, why)
    \/ j.op = "start" /\ StartEffect(j.app)

(* The process goes on at `where`; the rest of what it keeps stays.         *)
Goto(p, where) == pc' = [pc EXCEPT ![p] = where]

(* Entering the loop of restartQuiesced over the set S.                     *)
Restarting(p, where, S) ==
    /\ Goto(p, where)
    /\ todo' = [todo EXCEPT ![p] = S]
    /\ remaining' = [remaining EXCEPT ![p] = {}]

(* Leaving the try block: the finally clause starts what is in S again, or  *)
(* goes straight to the cleanup when there is nothing to start.             *)
Finally(p, S) ==
    IF S = {} THEN Restarting(p, "clean", {}) ELSE Restarting(p, "finally", S)

(* Between the first line of a process in the marker and its last one.      *)
InSpan(p) == \/ pc[p] \in {"stop", "restart", "finally", "resume"}
             \/ pc[p] \in {"tar", "stalled"} /\ stopped[p] # {}

OtherInSpan(p) == \E q \in Procs \ {p} : InSpan(q)

-----------------------------------------------------------------------------
(* create(): entered by the backup routes and the scheduler of the          *)
(* dashboard, when its flag is clear, and by a new process on the host.     *)

Free(p) == IF p = Server THEN pc[p] = "idle" /\ ~inFlight ELSE pc[p] = "down"

Create(p, quiesce) ==
    /\ Free(p)
    /\ inFlight' = (inFlight \/ p = Server)
    /\ Goto(p, IF quiesce THEN "list" ELSE "tar")
    /\ stopped' = [stopped EXCEPT ![p] = {}]
    /\ UNCHANGED <<running, mark, todo, remaining, awaited, orphans, debt, mixed>>

(* ensureDir() throws: it is awaited after the flag is set, before the try, *)
(* so the dashboard refuses every later run; a process on the host exits.   *)
CreateNoDir ==
    /\ Free(Server)
    /\ inFlight' = TRUE
    /\ UNCHANGED <<running, mark, pc, locals, awaited, orphans, debt, mixed>>

(* stoppableModules(): a docker that does not answer reads as no containers *)
Stoppable == running \ Required

ListModules(p) ==
    /\ pc[p] = "list"
    /\ Goto(p, "mark")
    /\ \E wanted \in {Stoppable, {}} : todo' = [todo EXCEPT ![p] = wanted]
    /\ UNCHANGED <<running, mark, inFlight, stopped, remaining, awaited,
                   orphans, debt, mixed>>

(* History kept when a run writes its list over the marker: what the ended  *)
(* runs left down is an earlier debt, their jobs are late ones, and the     *)
(* marker is nobody's own while another process is between its two writes.  *)
BeginRecord(p) ==
    /\ debt' = [a \in Apps |->
                  IF debt[a] = p \/ (debt[a] \in Procs /\ ~InSpan(debt[a]))
                  THEN "earlier" ELSE debt[a]]
    /\ late' = late \cup dead
    /\ dead' = {}
    /\ mixed' = OtherInSpan(p)

(* Slip: the first write is dropped, the second one is thought to suffice.  *)
WriteWantedSkipped(p) ==
    /\ pc[p] = "mark"
    /\ Goto(p, "stop")
    /\ BeginRecord(p)
    /\ UNCHANGED <<running, mark, inFlight, locals, awaited>>

(* The marker is replaced by this run's list.                               *)
WriteWanted(p) ==
    /\ pc[p] = "mark"
    /\ mark' = todo[p]
    /\ Goto(p, "stop")
    /\ BeginRecord(p)
    /\ UNCHANGED <<running, inFlight, locals, awaited>>

WriteWantedFails(p) ==
    /\ pc[p] = "mark"
    /\ Finally(p, {})
    /\ UNCHANGED <<running, mark, inFlight, stopped, awaited, orphans, debt, mixed>>

Call(p, op, a) ==
    /\ awaited[p] = {}
    /\ a \in todo[p]
    /\ todo' = [todo EXCEPT ![p] = @ \ {a}]
    /\ awaited' = [awaited EXCEPT ![p] = {[op |-> op, app |-> a, by |-> p]}]
    /\ UNCHANGED <<running, mark, pc, inFlight, stopped, remaining, orphans, debt, mixed>>

Answered(p, j) == j \in awaited[p] /\ awaited' = [awaited EXCEPT ![p] = {}]

CallStop(p, a) == pc[p] = "stop" /\ Call(p, "stop", a)

StopReplied(p, j) ==
    /\ pc[p] = "stop"
    /\ Answered(p, j)
    /\ stopped' = [stopped EXCEPT ![p] = @ \cup {j.app}]
    /\ StopEffect(j.app, p)
    /\ UNCHANGED <<mark, pc, inFlight, todo, remaining, orphans, mixed>>

(* The worker died, timed out or saw compose fail: the app may be down or   *)
(* not, and create() goes on to the next one.                               *)
StopFailed(p, j) ==
    /\ pc[p] = "stop"
    /\ Answered(p, j)
    /\ StopEffect(j.app, "loose") \/ UNCHANGED <<running, debt>>
    /\ UNCHANGED <<mark, pc, inFlight, locals, orphans, mixed>>

LoopOver(p) == todo[p] = {} /\ awaited[p] = {}

WriteStopped(p) ==
    /\ pc[p] = "stop" /\ LoopOver(p)
    /\ mark' = stopped[p]
    /\ Goto(p, "tar")
    /\ UNCHANGED <<running, inFlight, locals, awaited, orphans, debt, mixed>>

WriteStoppedFails(p) ==
    /\ pc[p] = "stop" /\ LoopOver(p)
    /\ Finally(p, stopped[p])
    /\ UNCHANGED <<running, mark, inFlight, stopped, awaited, orphans, debt, mixed>>

TarDone(p) ==
    /\ pc[p] = "tar"
    /\ IF stopped[p] = {} THEN Restarting(p, "encrypt", {})
                          ELSE Restarting(p, "restart", stopped[p])
    /\ UNCHANGED <<running, mark, inFlight, stopped, awaited, orphans, debt, mixed>>

TarFails(p) ==
    /\ pc[p] = "tar"
    /\ Finally(p, stopped[p])
    /\ UNCHANGED <<running, mark, inFlight, stopped, awaited, orphans, debt, mixed>>

(* The staging file cannot be written: nobody listens for the stream's       *)
(* error, the dashboard logs it and lives on (server.js 1636), and a tar     *)
(* that nothing reads never closes.  On the host the process dies: Crash.    *)
TarStalls ==
    /\ pc[Server] = "tar"
    /\ Goto(Server, "stalled")
    /\ UNCHANGED <<running, mark, inFlight, locals, awaited, orphans, debt, mixed>>

(* Encrypting, verifying, pruning and copying the archive off the box, or   *)
(* any of them throwing: either way the finally clause follows.             *)
Encrypt(p) ==
    /\ pc[p] = "encrypt"
    /\ Finally(p, stopped[p])
    /\ UNCHANGED <<running, mark, inFlight, stopped, awaited, orphans, debt, mixed>>

(* rm of the staging file, which can itself throw, then the flag; a process *)
(* on the host exits.                                                       *)
Clean(p, removed) ==
    /\ pc[p] = "clean"
    /\ Goto(p, IF p = Server THEN "idle" ELSE "down")
    /\ inFlight' = (inFlight /\ (p # Server \/ ~removed))
    /\ stopped' = [stopped EXCEPT ![p] = {}]
    /\ UNCHANGED <<running, mark, todo, remaining, awaited, orphans, debt, mixed>>

-----------------------------------------------------------------------------
(* restartQuiesced(): called by create() after the copy, by its finally     *)
(* clause, and by resumeAfterQuiesce() at startup.                          *)

InRestart(p) == pc[p] \in {"restart", "finally", "resume"}

CallStart(p, a) == InRestart(p) /\ Call(p, "start", a)

StartReplied(p, j) ==
    /\ InRestart(p)
    /\ Answered(p, j)
    /\ StartEffect(j.app)
    /\ UNCHANGED <<mark, pc, inFlight, locals, orphans, mixed>>

StartFailed(p, j) ==
    /\ InRestart(p)
    /\ Answered(p, j)
    /\ remaining' = [remaining EXCEPT ![p] = @ \cup {j.app}]
    /\ StartEffect(j.app) \/ UNCHANGED <<running, debt>>
    /\ UNCHANGED <<mark, pc, inFlight, todo, stopped, orphans, mixed>>

(* Slips: going on although an app is still down; retrying for ever.        *)
AfterRestartIgnoresLeft(p, left) ==
    \/ pc[p] = "restart" /\ Restarting(p, "encrypt", {})
    \/ pc[p] = "finally" /\ Restarting(p, "clean", {})
    \/ pc[p] = "resume" /\ Restarting(p, "idle", {})

AfterRestartInsists(p, left) ==
    \/ pc[p] = "restart" /\ left = {} /\ Restarting(p, "encrypt", {})
    \/ pc[p] = "restart" /\ left # {} /\ Finally(p, left)
    \/ pc[p] = "finally" /\ Finally(p, left)
    \/ pc[p] = "resume" /\ Restarting(p, "idle", {})

(* The caller goes on with `stopped = result.remaining`: create() throws    *)
(* into its finally clause when something is left, the finally clause goes  *)
(* to the cleanup whatever is left, and startup goes on to serve.           *)
AfterRestart(p, left) ==
    \/ pc[p] = "restart" /\ left = {} /\ Restarting(p, "encrypt", {})
    \/ pc[p] = "restart" /\ left # {} /\ Finally(p, left)
    \/ pc[p] = "finally" /\ Restarting(p, "clean", {})
    \/ pc[p] = "resume" /\ Restarting(p, "idle", {})

(* `stopped = result.remaining`; startup keeps no such list.                *)
TakeRemaining(p) ==
    stopped' = [stopped EXCEPT ![p] = IF pc[p] = "resume" THEN @ ELSE remaining[p]]

(* Slip: one failed start clears the whole marker.                          *)
WriteRemainingClears(p) ==
    /\ InRestart(p) /\ LoopOver(p)
    /\ mark' = {}
    /\ TakeRemaining(p)
    /\ AfterRestart(p, remaining[p])
    /\ UNCHANGED <<running, inFlight, awaited, orphans, debt, mixed>>

WriteRemaining(p) ==
    /\ InRestart(p) /\ LoopOver(p)
    /\ mark' = remaining[p]
    /\ TakeRemaining(p)
    /\ AfterRestart(p, remaining[p])
    /\ UNCHANGED <<running, inFlight, awaited, orphans, debt, mixed>>

(* writeJson throws: the marker and the caller's list stay as they were.    *)
WriteRemainingFails(p) ==
    /\ InRestart(p) /\ LoopOver(p)
    /\ AfterRestart(p, stopped[p])
    /\ UNCHANGED <<running, mark, inFlight, stopped, awaited, orphans, debt, mixed>>

-----------------------------------------------------------------------------
(* A process dies at any moment; docker starts the dashboard again.         *)

Crash(p) ==
    /\ pc[p] # "down"
    /\ Goto(p, "down")
    /\ inFlight' = (inFlight /\ p # Server)
    /\ todo' = [todo EXCEPT ![p] = {}]
    /\ stopped' = [stopped EXCEPT ![p] = {}]
    /\ remaining' = [remaining EXCEPT ![p] = {}]
    /\ awaited' = [awaited EXCEPT ![p] = {}]
    /\ dead' = dead \cup awaited[p]
    /\ UNCHANGED <<running, mark, late, debt, mixed>>

(* main(): resumeAfterQuiesce() before the scheduler and before listen().   *)
Boot ==
    /\ pc[Server] = "down"
    /\ IF mark = {} THEN Restarting(Server, "idle", {})
                    ELSE Restarting(Server, "resume", mark)
    /\ late' = late \cup dead
    /\ dead' = {}
    /\ mixed' = (mixed \/ (mark # {} /\ OtherInSpan(Server)))
    /\ UNCHANGED <<running, mark, inFlight, stopped, awaited, debt>>

(* A job without a caller ends in the worker, or dies with it.              *)
DeadJob(j) ==
    /\ j \in dead
    /\ dead' = dead \ {j}
    /\ Effect(j, j.by) \/ UNCHANGED <<running, debt>>
    /\ UNCHANGED <<mark, pc, inFlight, locals, awaited, late, mixed>>

LateJob(j) ==
    /\ j \in late
    /\ late' = late \ {j}
    /\ Effect(j, "loose") \/ UNCHANGED <<running, debt>>
    /\ UNCHANGED <<mark, pc, inFlight, locals, awaited, dead, mixed>>

-----------------------------------------------------------------------------
(* What people do to apps meanwhile, from the page or with the homebox      *)
(* command on the host: runAction() asks nothing of backup.js.              *)

UserStart(a) ==
    /\ StartEffect(a)
    /\ UNCHANGED <<mark, pc, inFlight, locals, awaited, orphans, mixed>>

(* Stopping an app, or removing its containers: not of a required one.      *)
UserStop(a) ==
    /\ a \notin Required
    /\ running' = running \ {a}
    /\ debt' = [debt EXCEPT ![a] = "none"]
    /\ UNCHANGED <<mark, pc, inFlight, locals, awaited, orphans, mixed>>

-----------------------------------------------------------------------------

BackupStep(p) ==
    \/ ListModules(p)
    \/ WriteWanted(p) \/ WriteWantedFails(p)
    \/ \E a \in Apps : CallStop(p, a) \/ CallStart(p, a)
    \/ \E j \in awaited[p] : \/ StopReplied(p, j) \/ StopFailed(p, j)
                             \/ StartReplied(p, j) \/ StartFailed(p, j)
    \/ WriteStopped(p) \/ WriteStoppedFails(p)
    \/ TarDone(p) \/ TarFails(p)
    \/ Encrypt(p)
    \/ \E removed \in BOOLEAN : Clean(p, removed)
    \/ WriteRemaining(p) \/ WriteRemainingFails(p)

Orphan == \/ \E j \in dead : DeadJob(j)
          \/ \E j \in late : LateJob(j)

User == \E a \in Apps : UserStart(a) \/ UserStop(a)

Next ==
    \/ \E p \in Procs : \/ \E quiesce \in BOOLEAN : Create(p, quiesce)
                        \/ BackupStep(p)
                        \/ Crash(p)
    \/ CreateNoDir
    \/ TarStalls
    \/ Boot
    \/ Orphan
    \/ User

Spec == Init /\ [][Next]_vars

(* Every step of a run is either local or an awaited call that the worker    *)
(* always answers: run() kills a command at its timeout, and a closed        *)
(* connection rejects the call.  A tar that is being read ends; one that is  *)
(* not has stalled, and nothing is assumed of it.  Docker restarts the       *)
(* dashboard container.                                                      *)
FairSpec == Spec /\ (\A p \in Procs : WF_vars(BackupStep(p))) /\ WF_vars(Boot)

-----------------------------------------------------------------------------
(* An app that the latest run of a process stopped, and that nothing started *)
(* since, is in the marker: a crash at any instant, a full disk under the    *)
(* marker or a failed start leaves "a list rather than a mystery" (backup.js *)
(* 338-343).  It is promised of a run that began with no other process       *)
(* between its two writes: the marker is one file without a lock, and two    *)
(* overlapping runs, or a recovery during a run, write over each other.      *)
Recorded == ~mixed => \A a \in Apps : debt[a] \in Procs => a \in mark

(* A run that stopped apps goes on to publish its archive only when all that *)
(* it stopped run again; otherwise it throws into its finally clause         *)
(* (415-427).  It holds of every run, beside whatever others are doing; the  *)
(* apps another run has stopped are not this one's to wait for.              *)
PublishedOnlyWhenBack ==
    [][\A p \in Procs : pc[p] = "restart" /\ pc'[p] = "encrypt"
                           => \A a \in Apps : debt'[a] # p]_vars

(* The proxy and the dashboard are never taken down by a backup, not even by *)
(* a job that outlives the process (comment at 298, filter at 308).         *)
RequiredUntouched == \A a \in Required : debt[a] = "none" /\ a \notin mark

(* The marker keeps the promise that its comments make, of the runs that had *)
(* it to themselves: the steps of the backup, its crashes and its recovery   *)
(* are steps of QuiescePromise.                                             *)
Held == IF mixed THEN {} ELSE {a \in Apps : debt[a] \in Procs}
Promise == INSTANCE QuiescePromise WITH held <- Held, record <- mark
KeepsPromise == Promise!Spec

(* A run never gets stuck half way, whatever fails in it and whatever other  *)
(* processes do: it ends, dies, or is in a tar that nothing reads any more   *)
(* (the finally clause runs once, it does not insist).                      *)
AtRest == {"idle", "down", "stalled"}
RunEnds == \A p \in Procs : pc[p] \notin AtRest ~> pc[p] \in AtRest

-----------------------------------------------------------------------------
(* Statements of the source that the code does not keep.                    *)

(* "Clearing the whole marker after one failed start loses the only durable *)
(* record of an app the backup left down. A later dashboard restart must    *)
(* retry those failures" (316-318): also when another run comes in between. *)
EarlierStillRecorded == \A a \in Apps : debt[a] = "earlier" => a \in mark

(* The same of runs that overlap: Recorded without its condition.            *)
AlwaysRecorded == \A a \in Apps : debt[a] \in Procs => a \in mark

(* "Whatever went wrong above, nothing stays stopped because of a backup"    *)
(* (439): a run that stopped apps comes to start them again, or dies.        *)
NothingStaysStopped ==
    \A p \in Procs : stopped[p] # {} ~> InRestart(p) \/ pc[p] = "down"

(* "stop, copy, start": no job of a backup starts an app whose files a run   *)
(* that stopped it is still copying.                                         *)
CopiedAtRest ==
    [][\A p \in Procs, a \in Apps :
         pc[p] = "tar" /\ a \in stopped[p] /\ a \in running' \ running
            => awaited' = awaited /\ orphans' = orphans]_vars
=============================================================================
