----------------------------- MODULE ModuleOps -----------------------------
(***************************************************************************)
(* Installing, starting, stopping, updating and removing apps: runAction()  *)
(* of dashboard/server.js, the one-call-per-connection protocol between the *)
(* dashboard and the privileged worker (lib/worker-client.js, worker.js),   *)
(* and the compose commands the worker runs (lib/compose-privileged.js).    *)
(*                                                                          *)
(* A request is one HTTP call to runAction with the worker job it starts.   *)
(* The dashboard or the worker may die at any moment; jobs outlive the      *)
(* dashboard that asked for them.                                           *)
(***************************************************************************)
EXTENDS Naturals, FiniteSets

CONSTANTS
    Modules,        \* the module ids
    NoModule,       \* the id of a request that has been answered
    Required,       \* modules whose metadata says `required`
    Conflicts,      \* Conflicts[m]: the `conflicts` list of module m
    ReplacedBy,     \* ReplacedBy[m]: the `replaced_by` list of module m
    Requests        \* requests that may be under way at once

ASSUME ModulesAssumption ==
    /\ NoModule \notin Modules
    /\ Required \subseteq Modules
    /\ Conflicts \in [Modules -> SUBSET Modules]
    /\ ReplacedBy \in [Modules -> SUBSET Modules]

VARIABLES
    app,        \* what docker has of each module
    inFlight,   \* server.js: ids of modules with an operation under way
    req,        \* each request: where it is and what it asks for
    job         \* each request's job in the worker

vars == <<app, inFlight, req, job>>

Actions == {"install", "start", "stop", "restart", "update", "remove", "purge"}

(* The compose command an action comes down to: an install and an update    *)
(* pull first, a purge wipes the module's config after.                     *)
Compose(action) ==
    CASE action \in {"install", "start", "update"} -> "up"
      [] action \in {"remove", "purge"} -> "down"
      [] OTHER -> action

Commands == {"none", "up", "stop", "restart", "down"}

App == {"none", "running", "stopped"}

(* The last answer of a request that rests, as the page sees it; a refusal  *)
(* is an error too.                                                         *)
Rest == {"ok", "error"}

Where == Rest \cup {"listing", "listed", "working"}

Jobs == {"none", "sent", "running", "done", "failed", "lost"}

(* `crossed` is history: whose jobs touched the module meanwhile.           *)
TypeOK ==
    /\ app \in [Modules -> App]
    /\ inFlight \in SUBSET Modules
    /\ req \in [Requests -> [at : Where, id : Modules \cup {NoModule},
                             cmd : Commands,
                             installed : SUBSET Modules, crossed : SUBSET Requests]]
    /\ job \in [Requests -> Jobs]

At(where, id, cmd) ==
    [at |-> where, id |-> id, cmd |-> cmd, installed |-> {}, crossed |-> {}]

Resting(what) == At(what, NoModule, "none")

Init ==
    /\ app \in [Modules -> App]
    /\ \A m \in Modules : /\ m \in Required => app[m] # "none"
                          /\ app[m] # "none" => \A c \in Conflicts[m] : app[c] = "none"
    /\ inFlight = {}
    /\ req = [r \in Requests |-> Resting("ok")]
    /\ job = [r \in Requests |-> "none"]

Installed == {m \in Modules : app[m] # "none"}

Active(r) == job[r] \in {"sent", "running"}

-----------------------------------------------------------------------------
(* The dashboard: runAction().                                              *)

(* Required modules are restart-only.                                       *)
Forbidden(id, action) == id \in Required /\ action \in {"stop", "remove", "purge"}

(* inFlight.add(id), then the call over the worker's socket.                *)
Begin(r, id, cmd) ==
    /\ inFlight' = inFlight \cup {id}
    /\ req' = [req EXCEPT ![r] = At("working", id, cmd)]
    /\ job' = [job EXCEPT ![r] = "sent"]

Submit(r, id, action) ==
    /\ req[r] \in {Resting(what) : what \in Rest}
    /\ IF Forbidden(id, action) \/ id \in inFlight
       THEN req' = [req EXCEPT ![r] = Resting("error")] /\ UNCHANGED <<inFlight, job>>
       ELSE IF action = "install"
       THEN req' = [req EXCEPT ![r] = At("listing", id, "up")] /\ UNCHANGED <<inFlight, job>>
       ELSE Begin(r, id, Compose(action))
    /\ UNCHANGED app

(* await docker.listContainers().catch(() => []): one read of the box, and  *)
(* an unreachable docker reads as an empty box.                             *)
List(r) ==
    /\ req[r].at = "listing"
    /\ \E seen \in {Installed, {}} :
         req' = [req EXCEPT ![r].at = "listed", ![r].installed = seen]
    /\ UNCHANGED <<app, inFlight, job>>

(* installBlocker() over what was listed.                                   *)
Blocked(id, installed) ==
    \/ ReplacedBy[id] # {} /\ id \notin installed
    \/ Conflicts[id] \cap installed # {}

Admit(r) ==
    /\ req[r].at = "listed"
    /\ IF Blocked(req[r].id, req[r].installed)
       THEN req' = [req EXCEPT ![r] = Resting("error")] /\ UNCHANGED <<inFlight, job>>
       ELSE Begin(r, req[r].id, req[r].cmd)
    /\ UNCHANGED app

(* worker.call() settles: a terminal frame decides, and a connection that   *)
(* closes without one is an error.                                          *)
(* Slip: a closed connection settles the promise as if it were an answer.   *)
OutcomeCloseResolves(r) == IF job[r] \in {"done", "lost"} THEN "ok" ELSE "error"

Outcome(r) == IF job[r] = "done" THEN "ok" ELSE "error"

(* Slip: the flag is dropped at the end of the try block only.              *)
SettleKeepsFlag(r) ==
    /\ req[r].at = "working"
    /\ job[r] \in {"done", "failed", "lost"}
    /\ req' = [req EXCEPT ![r] = Resting(Outcome(r))]
    /\ job' = [job EXCEPT ![r] = "none"]
    /\ inFlight' = IF Outcome(r) = "ok" THEN inFlight \ {req[r].id} ELSE inFlight
    /\ UNCHANGED app

(* Slip: nobody listens for a connection that closes without an answer.     *)
SettleMissesClose(r) ==
    /\ req[r].at = "working"
    /\ job[r] \in {"done", "failed"}
    /\ req' = [req EXCEPT ![r] = Resting(Outcome(r))]
    /\ job' = [job EXCEPT ![r] = "none"]
    /\ inFlight' = inFlight \ {req[r].id}
    /\ UNCHANGED app

(* The finally clause drops the flag.                                       *)
Settle(r) ==
    /\ req[r].at = "working"
    /\ job[r] \in {"done", "failed", "lost"}
    /\ req' = [req EXCEPT ![r] = Resting(Outcome(r))]
    /\ job' = [job EXCEPT ![r] = "none"]
    /\ inFlight' = inFlight \ {req[r].id}
    /\ UNCHANGED app

-----------------------------------------------------------------------------
(* The worker: serve() and the op it runs.                                  *)

(* What the containers of a module are after a compose command that worked. *)
(* `restart` and `stop` find nothing to act on in a module without          *)
(* containers; `up` creates what is missing.                                *)
Result(m, cmd) ==
    IF cmd = "up" THEN "running"
    ELSE IF cmd = "down" \/ app[m] = "none" THEN "none"
    ELSE IF cmd = "stop" THEN "stopped" ELSE "running"

(* What it may leave when it fails, times out or dies half way: also        *)
(* containers that are stopped, or created and never started.               *)
Partial(m, cmd) ==
    {app[m], Result(m, cmd)}
      \cup (IF {app[m], Result(m, cmd)} = {"none"} THEN {} ELSE {"stopped"})

(* The answer of a job whose caller is gone is written to nobody: the slot  *)
(* is free again.                                                           *)
JobsEnd(over, how) ==
    /\ job' = [q \in Requests |-> IF q \notin over THEN job[q]
                                  ELSE IF req[q].at = "working" THEN how ELSE "none"]
    /\ req' = [q \in Requests |->
                 IF q \in over /\ req[q].at # "working" THEN Resting("error")
                 ELSE [req[q] EXCEPT !.crossed =
                         @ \cup {r \in over \ {q} : req[r].id = req[q].id}]]

(* connect() reaches the worker, or it is not running: ENOENT, ECONNREFUSED *)
Accept(r) ==
    /\ job[r] = "sent"
    /\ \/ job' = [job EXCEPT ![r] = "running"] /\ UNCHANGED req
       \/ JobsEnd({r}, "lost")
    /\ UNCHANGED <<app, inFlight>>

Finish(r) ==
    /\ job[r] = "running"
    /\ JobsEnd({r}, "done")
    /\ app' = [app EXCEPT ![req[r].id] = Result(req[r].id, req[r].cmd)]
    /\ UNCHANGED inFlight

Fail(r) ==
    /\ job[r] = "running"
    /\ JobsEnd({r}, "failed")
    /\ \E s \in Partial(req[r].id, req[r].cmd) : app' = [app EXCEPT ![req[r].id] = s]
    /\ UNCHANGED inFlight

(* The worker dies: every job of it ends where it is, every connection      *)
(* closes.                                                                  *)
WorkerDies ==
    LET over == {r \in Requests : job[r] = "running"}
        On(m) == {r \in over : req[r].id = m}
    IN  /\ over # {}
        /\ JobsEnd(over, "lost")
        /\ app' \in {f \in [Modules -> App] : \A m \in Modules :
                       f[m] \in {app[m]} \cup UNION {Partial(m, req[r].cmd) : r \in On(m)}}
        /\ UNCHANGED inFlight

(* The dashboard dies: its requests and its flags go with it; the worker    *)
(* does not watch the connection and its jobs go on.                        *)
DashboardDies ==
    /\ \E r \in Requests : req[r].at \notin Rest
    /\ inFlight' = {}
    /\ req' = [r \in Requests |->
                 IF req[r].at \in Rest THEN req[r]
                 ELSE IF Active(r) THEN [req[r] EXCEPT !.at = "error"] ELSE Resting("error")]
    /\ job' = [r \in Requests |-> IF Active(r) THEN job[r] ELSE "none"]
    /\ UNCHANGED app

-----------------------------------------------------------------------------

Next ==
    \/ \E r \in Requests, id \in Modules, action \in Actions : Submit(r, id, action)
    \/ \E r \in Requests : List(r) \/ Admit(r) \/ Settle(r)
                           \/ Accept(r) \/ Finish(r) \/ Fail(r)
    \/ WorkerDies
    \/ DashboardDies

Spec == Init /\ [][Next]_vars

(* Every await of runAction ends: docker answers or its client times out,   *)
(* run() kills a command at its timeout, and a dead worker closes the       *)
(* connection.                                                              *)
FairSpec ==
    Spec /\ \A r \in Requests : WF_vars(List(r) \/ Admit(r) \/ Settle(r)
                                        \/ Accept(r) \/ Finish(r) \/ Fail(r))

-----------------------------------------------------------------------------
(* Every flag in inFlight belongs to a request that is still at work: an    *)
(* operation that failed, or whose dashboard died, never leaves its module  *)
(* "already busy" (server.js:811, 838).                                     *)
FlagTracksWork ==
    \A m \in inFlight : \E r \in Requests : req[r].at = "working" /\ req[r].id = m

(* No operation of the page, complete or half done, leaves a required       *)
(* module without its containers, so there is always a page to click in     *)
(* (server.js:806-810).                                                     *)
RequiredKept == \A m \in Required : app[m] # "none"

Asked(m, cmd) ==
    CASE cmd = "up" -> app[m] = "running"
      [] cmd = "restart" -> app[m] # "stopped"
      [] cmd = "stop" -> app[m] # "running"
      [] OTHER -> app[m] = "none"

(* The page is told ok only about an operation that ran to its end: unless  *)
(* another job worked on the same module, docker is as asked, whoever died  *)
(* or closed a connection meanwhile (worker-client.js, `close`).            *)
OkIsTrue ==
    [][\A r \in Requests :
         req[r].at = "working" /\ req'[r].at = "ok" /\ req[r].crossed = {}
         => Asked(req[r].id, req[r].cmd)]_vars

(* Every request ends with an answer, whatever dies while it is under way.  *)
Answered == \A r \in Requests : req[r].at \notin Rest ~> req[r].at \in Rest

(* "One operation per module at a time" (server.js:779): the dashboard      *)
(* never has two requests at work on the same module.                       *)
OnePerModule ==
    \A r, q \in Requests :
        r # q /\ req[r].at = "working" /\ req[q].at = "working" => req[r].id # req[q].id

=============================================================================
