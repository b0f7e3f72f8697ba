--------------------------- MODULE ModuleOpsProofs ---------------------------
(***************************************************************************)
(* What holds of ModuleOps for any set of modules, any metadata and any     *)
(* number of requests: no flag outlives its request, and a required module  *)
(* keeps its containers.                                                    *)
(***************************************************************************)
EXTENDS ModuleOps, TLAPS

(* No request, resting, working or orphaned, carries a `down` for a         *)
(* required module: what makes RequiredKept inductive.                      *)
NoDown == \A r \in Requests : req[r].id \in Required => req[r].cmd # "down"

(* The records that steps take fields of.                                   *)
Request == [at : Where, id : Modules \cup {NoModule}, cmd : Commands,
            installed : SUBSET Modules, crossed : SUBSET Requests]

(* A request that is under way, or whose job is, is about a module; an      *)
(* install that still looks around has no job.                              *)
Named ==
    \A r \in Requests :
        /\ req[r].at \notin Rest \/ Active(r) => req[r].id \in Modules
        /\ req[r].at \in {"listing", "listed"} => ~Active(r)

Shape ==
    /\ app \in [Modules -> App]
    /\ req \in [Requests -> Request]
    /\ job \in [Requests -> Jobs]

IInv == Shape /\ Named /\ FlagTracksWork /\ NoDown /\ RequiredKept

LEMMA AtRequest ==
  ASSUME NEW w \in Where, NEW id \in Modules \cup {NoModule}, NEW cmd \in Commands
  PROVE  /\ At(w, id, cmd) \in Request
         /\ At(w, id, cmd).at = w /\ At(w, id, cmd).id = id /\ At(w, id, cmd).cmd = cmd
  BY DEF At, Request

LEMMA RestingRequest ==
  ASSUME NEW w \in Rest
  PROVE  /\ Resting(w) \in Request
         /\ Resting(w).at = w /\ Resting(w).id = NoModule /\ Resting(w).cmd = "none"
  BY AtRequest DEF Resting, Where, Commands

LEMMA InitInv == Init => IInv
  <1> SUFFICES ASSUME Init PROVE IInv
    OBVIOUS
  <1>1. "ok" \in Rest BY DEF Rest
  <1>2. \A r \in Requests : req[r] = Resting("ok") BY DEF Init
  <1>3. Shape BY <1>1, RestingRequest DEF Init, Shape, Jobs
  <1>4. Named BY <1>1, <1>2, RestingRequest DEF Named, Init, Active
  <1>5. NoDown BY <1>1, <1>2, RestingRequest DEF NoDown
  <1>6. FlagTracksWork /\ RequiredKept
    BY ModulesAssumption DEF Init, FlagTracksWork, RequiredKept
  <1> QED BY <1>3, <1>4, <1>5, <1>6 DEF IInv

(* A command that is not `down`, whole or half done, leaves containers      *)
(* where there were some.                                                   *)
LEMMA KeepsContainers ==
  ASSUME NEW m, app[m] # "none", NEW cmd, cmd # "down"
  PROVE  Result(m, cmd) # "none" /\ "none" \notin Partial(m, cmd)
  BY DEF Partial, Result

LEMMA ResultApp ==
  ASSUME NEW m, app[m] \in App, NEW cmd
  PROVE  Result(m, cmd) \in App /\ Partial(m, cmd) \subseteq App
  BY DEF Result, Partial, App

(* The end of a set of jobs keeps the shape of the requests and what they   *)
(* ask for, and takes no request out of `working`.                          *)
LEMMA JobsEndKeeps ==
  ASSUME Shape, Named, NoDown, NEW over \in SUBSET Requests,
         NEW how \in Jobs \ {"sent", "running"}, JobsEnd(over, how)
  PROVE  /\ req' \in [Requests -> Request]
         /\ job' \in [Requests -> Jobs]
         /\ Named'
         /\ NoDown'
         /\ \A r \in Requests : req[r].at = "working" =>
                                  req'[r].at = "working" /\ req'[r].id = req[r].id
  <1> DEFINE Kept(r) == req'[r].at = req[r].at /\ req'[r].id = req[r].id
                        /\ req'[r].cmd = req[r].cmd /\ req'[r] \in Request
  <1>0. "error" \in Rest BY DEF Rest
  <1>1. \A r \in Requests :
           (r \in over /\ req[r].at # "working" /\ req'[r] = Resting("error")) \/ Kept(r)
    <2> TAKE r \in Requests
    <2>1. req[r] \in Request BY DEF Shape
    <2>2. CASE r \in over /\ req[r].at # "working"
      BY <2>2 DEF JobsEnd
    <2>3. CASE ~(r \in over /\ req[r].at # "working")
      <3> DEFINE more == {q \in over \ {r} : req[q].id = req[r].id}
      <3>1. req'[r] = [req[r] EXCEPT !.crossed = @ \cup more] BY <2>3 DEF JobsEnd
      <3>2. more \in SUBSET Requests OBVIOUS
      <3> HIDE DEF more
      <3> QED BY <2>1, <3>1, <3>2 DEF Request
    <2> QED BY <2>2, <2>3
  <1>2. \A r \in Requests : job'[r] = job[r] \/ (r \in over /\ job'[r] \in {how, "none"})
    BY DEF JobsEnd
  <1>3. job' \in [Requests -> Jobs]
    <2>1. job' = [r \in Requests |-> job'[r]] BY DEF JobsEnd
    <2>2. \A r \in Requests : job'[r] \in Jobs BY <1>2 DEF Shape, Jobs
    <2> QED BY <2>1, <2>2
  <1>4. req' \in [Requests -> Request]
    <2>1. \A r \in Requests : req'[r] \in Request BY <1>0, <1>1, RestingRequest
    <2>2. req' = [r \in Requests |-> req'[r]] BY DEF JobsEnd
    <2> QED BY <2>1, <2>2
  <1>5. Named'
    <2> SUFFICES ASSUME NEW r \in Requests, req'[r].at \notin Rest \/ job'[r] \in {"sent", "running"}
                 PROVE  req'[r].id \in Modules
      <3>1. \A r \in Requests : req'[r].at \in {"listing", "listed"} =>
                                  job'[r] \notin {"sent", "running"}
        BY <1>0, <1>1, <1>2, RestingRequest DEF Named, Active, Rest
      <3> QED BY <3>1 DEF Named, Active
    <2>1. CASE Kept(r)
      <3>1. job'[r] \in {"sent", "running"} => job[r] \in {"sent", "running"} BY <1>2
      <3> QED BY <2>1, <3>1 DEF Named, Active
    <2>2. CASE r \in over /\ req[r].at # "working" /\ req'[r] = Resting("error")
      <3>1. job'[r] = "none" BY <2>2 DEF JobsEnd
      <3> QED BY <3>1, <2>2, <1>0, RestingRequest
    <2> QED BY <1>1, <2>1, <2>2
  <1>6. NoDown' BY <1>0, <1>1, RestingRequest DEF NoDown
  <1>7. ASSUME NEW r \in Requests, req[r].at = "working"
        PROVE  req'[r].at = "working" /\ req'[r].id = req[r].id
    BY <1>1, <1>7
  <1> QED BY <1>3, <1>4, <1>5, <1>6, <1>7

(* Jobs that end, whatever they did to the apps short of taking the         *)
(* containers of a required module away, keep the invariant.                *)
LEMMA WorkerKeeps ==
  ASSUME IInv, NEW over \in SUBSET Requests, NEW how \in Jobs \ {"sent", "running"},
         JobsEnd(over, how), UNCHANGED inFlight, app' \in [Modules -> App],
         \A m \in Required : app'[m] # "none"
  PROVE  IInv'
  BY JobsEndKeeps DEF IInv, Shape, FlagTracksWork, RequiredKept

LEMMA BeginKeeps ==
  ASSUME IInv, NEW r \in Requests, NEW id \in Modules, NEW cmd \in Commands,
         req[r].at # "working", id \in Required => cmd # "down",
         Begin(r, id, cmd), UNCHANGED app
  PROVE  IInv'
  <1>1. At("working", id, cmd) \in Request /\ At("working", id, cmd).at = "working"
        /\ At("working", id, cmd).id = id /\ At("working", id, cmd).cmd = cmd
    BY AtRequest DEF Where
  <1>2. Shape' BY <1>1 DEF IInv, Shape, Begin, Jobs
  <1>3. Named' BY <1>1 DEF IInv, Shape, Begin, Named, Active
  <1>4. NoDown' BY <1>1 DEF IInv, Shape, Begin, NoDown
  <1>5. FlagTracksWork' BY <1>1 DEF IInv, Shape, Begin, FlagTracksWork
  <1>6. RequiredKept' BY DEF IInv, RequiredKept
  <1> QED BY <1>2, <1>3, <1>4, <1>5, <1>6 DEF IInv

(* A request that is not working may be replaced by one that is not         *)
(* working either and asks nothing forbidden.                               *)
LEMMA ReplaceKeeps ==
  ASSUME IInv, NEW r \in Requests, NEW q \in Request, req[r].at # "working",
         q.id \in Required => q.cmd # "down", q.at \notin Rest \/ Active(r) => q.id \in Modules,
         q.at \in {"listing", "listed"} => ~Active(r),
         req' = [req EXCEPT ![r] = q], UNCHANGED <<app, inFlight, job>>
  PROVE  IInv'
  BY DEF IInv, Shape, Named, NoDown, FlagTracksWork, RequiredKept, Active

LEMMA SubmitKeeps ==
  ASSUME IInv, NEW r \in Requests, NEW id \in Modules, NEW action \in Actions,
         Submit(r, id, action)
  PROVE  IInv'
  <1>1. req[r].at \in Rest /\ req[r].id = NoModule
    BY RestingRequest DEF Submit
  <1>2. "working" \notin Rest /\ "error" \in Rest /\ "listing" \in Where
    BY DEF Rest, Where
  <1>3. Compose(action) \in Commands
        /\ (id \in Required /\ ~Forbidden(id, action) => Compose(action) # "down")
    BY DEF Compose, Commands, Forbidden, Actions
  <1>4. ~Active(r) \/ NoModule \in Modules
    BY <1>1 DEF IInv, Named
  <1>5. NoModule \notin Modules BY ModulesAssumption
  <1>6. CASE req' = [req EXCEPT ![r] = Resting("error")] /\ UNCHANGED <<inFlight, job, app>>
    <2>1. NoModule \notin Required BY ModulesAssumption
    <2> QED BY <1>1, <1>2, <1>4, <1>5, <1>6, <2>1, RestingRequest, ReplaceKeeps DEF Rest
  <1>7. CASE req' = [req EXCEPT ![r] = At("listing", id, "up")]
             /\ UNCHANGED <<inFlight, job, app>>
    <2> DEFINE q == At("listing", id, "up")
    <2>1. q \in Request /\ q.id = id /\ q.cmd = "up" BY <1>2, AtRequest DEF Commands
    <2> HIDE DEF q
    <2>2. ~Active(r) /\ req[r].at # "working" BY <1>1, <1>2, <1>4, <1>5
    <2> QED BY <1>7, <2>1, <2>2, ReplaceKeeps DEF q
  <1>8. CASE Begin(r, id, Compose(action)) /\ ~Forbidden(id, action) /\ UNCHANGED app
    BY <1>1, <1>2, <1>3, <1>8, BeginKeeps
  <1> QED BY <1>6, <1>7, <1>8 DEF Submit

LEMMA ListKeeps == ASSUME IInv, NEW r \in Requests, List(r) PROVE IInv'
  <1>1. PICK seen \in {Installed, {}} :
          req' = [req EXCEPT ![r].at = "listed", ![r].installed = seen]
    BY DEF List
  <1> DEFINE q == [req[r] EXCEPT !.at = "listed", !.installed = seen]
  <1>2. req[r] \in Request /\ req[r].at = "listing" BY DEF IInv, Shape, List
  <1>3. seen \in SUBSET Modules BY DEF Installed
  <1>4. q \in Request /\ q.id = req[r].id /\ q.cmd = req[r].cmd
    BY <1>2, <1>3 DEF Request, Where
  <1>5. req' = [req EXCEPT ![r] = q] BY <1>1, <1>2 DEF IInv, Shape
  <1>6. req[r].id \in Modules BY <1>2 DEF IInv, Named, Rest
  <1> HIDE DEF q
  <1>7. ~Active(r) BY <1>2 DEF IInv, Named
  <1> QED BY <1>2, <1>4, <1>5, <1>6, <1>7, ReplaceKeeps DEF List, IInv, NoDown

LEMMA AdmitKeeps == ASSUME IInv, NEW r \in Requests, Admit(r) PROVE IInv'
  <1>1. req[r] \in Request /\ req[r].at = "listed" BY DEF IInv, Shape, Admit
  <1>2. req[r].id \in Modules /\ (req[r].id \in Required => req[r].cmd # "down")
        /\ req[r].cmd \in Commands
    BY <1>1 DEF IInv, Named, NoDown, Rest, Request
  <1>3. CASE Begin(r, req[r].id, req[r].cmd) /\ UNCHANGED app
    BY <1>1, <1>2, <1>3, BeginKeeps
  <1>4. CASE req' = [req EXCEPT ![r] = Resting("error")] /\ UNCHANGED <<inFlight, job, app>>
    <2>1. NoModule \notin Required /\ "error" \in Rest /\ ~Active(r)
      BY <1>1, ModulesAssumption DEF Rest, IInv, Named
    <2> QED BY <1>1, <1>4, <2>1, RestingRequest, ReplaceKeeps DEF Rest
  <1> QED BY <1>3, <1>4 DEF Admit

LEMMA SettleKeeps == ASSUME IInv, NEW r \in Requests, Settle(r) PROVE IInv'
  <1>1. Outcome(r) \in Rest BY DEF Outcome, Rest
  <1>2. Resting(Outcome(r)) \in Request /\ Resting(Outcome(r)).at \in Rest
        /\ Resting(Outcome(r)).cmd = "none" /\ "working" \notin Rest
        /\ "listing" \notin Rest /\ "listed" \notin Rest
    BY <1>1, RestingRequest DEF Rest
  <1> HIDE DEF Outcome
  <1>3. Shape' BY <1>2 DEF IInv, Shape, Settle, Jobs
  <1>4. Named' BY <1>2 DEF IInv, Shape, Named, Settle, Active
  <1>5. NoDown' BY <1>2 DEF IInv, Shape, NoDown, Settle
  <1>6. FlagTracksWork'
    <2> SUFFICES ASSUME NEW m \in inFlight, m # req[r].id
                 PROVE  \E q \in Requests : req'[q].at = "working" /\ req'[q].id = m
      BY DEF FlagTracksWork, Settle
    <2>1. PICK q \in Requests : req[q].at = "working" /\ req[q].id = m
      BY DEF IInv, FlagTracksWork
    <2>2. q # r BY <2>1
    <2> QED BY <2>1, <2>2 DEF Settle, IInv, Shape
  <1>7. RequiredKept' BY DEF IInv, RequiredKept, Settle
  <1> QED BY <1>3, <1>4, <1>5, <1>6, <1>7 DEF IInv

LEMMA AcceptKeeps == ASSUME IInv, NEW r \in Requests, Accept(r) PROVE IInv'
  <1>1. CASE job' = [job EXCEPT ![r] = "running"] /\ UNCHANGED <<app, inFlight, req>>
    <2>1. job[r] = "sent" BY DEF Accept
    <2> QED BY <1>1, <2>1 DEF IInv, Shape, Jobs, Named, NoDown, FlagTracksWork, RequiredKept, Active
  <1>2. CASE JobsEnd({r}, "lost") /\ UNCHANGED <<app, inFlight>>
    <2>1. app' \in [Modules -> App] /\ \A m \in Required : app'[m] # "none"
      BY <1>2 DEF IInv, Shape, RequiredKept
    <2> QED BY <1>2, <2>1, WorkerKeeps DEF Jobs
  <1> QED BY <1>1, <1>2 DEF Accept

LEMMA FinishKeeps == ASSUME IInv, NEW r \in Requests, Finish(r) PROVE IInv'
  <1> DEFINE to == Result(req[r].id, req[r].cmd)
  <1>1. req[r].id \in Modules /\ app' = [app EXCEPT ![req[r].id] = to]
    BY DEF Finish, IInv, Named, Active
  <1>2. to \in App BY <1>1, ResultApp DEF IInv, Shape
  <1>3. req[r].id \in Required => to # "none"
    BY KeepsContainers DEF IInv, NoDown, RequiredKept
  <1> HIDE DEF to
  <1>4. app' \in [Modules -> App] /\ \A m \in Required : app'[m] # "none"
    BY <1>1, <1>2, <1>3, ModulesAssumption DEF IInv, Shape, RequiredKept
  <1> QED BY <1>4, WorkerKeeps DEF Finish, Jobs

LEMMA FailKeeps == ASSUME IInv, NEW r \in Requests, Fail(r) PROVE IInv'
  <1>1. PICK s \in Partial(req[r].id, req[r].cmd) : app' = [app EXCEPT ![req[r].id] = s]
    BY DEF Fail
  <1>2. req[r].id \in Modules BY DEF Fail, IInv, Named, Active
  <1>3. s \in App BY <1>2, ResultApp DEF IInv, Shape
  <1>4. req[r].id \in Required => s # "none"
    BY KeepsContainers DEF IInv, NoDown, RequiredKept
  <1>5. app' \in [Modules -> App] /\ \A m \in Required : app'[m] # "none"
    BY <1>1, <1>2, <1>3, <1>4, ModulesAssumption DEF IInv, Shape, RequiredKept
  <1> QED BY <1>5, WorkerKeeps DEF Fail, Jobs

LEMMA WorkerDiesKeeps == ASSUME IInv, WorkerDies PROVE IInv'
  <1> DEFINE over == {r \in Requests : job[r] = "running"}
  <1>1. /\ JobsEnd(over, "lost") /\ UNCHANGED inFlight
        /\ app' \in [Modules -> App]
        /\ \A m \in Modules : app'[m] \in {app[m]} \cup
              UNION {Partial(m, req[r].cmd) : r \in {q \in over : req[q].id = m}}
    BY DEF WorkerDies
  <1>2. ASSUME NEW m \in Required PROVE app'[m] # "none"
    <2>1. m \in Modules /\ app[m] # "none" BY ModulesAssumption DEF IInv, RequiredKept
    <2>2. \A r \in over : req[r].id = m => "none" \notin Partial(m, req[r].cmd)
      BY <2>1, KeepsContainers DEF IInv, NoDown
    <2> QED BY <1>1, <2>1, <2>2
  <1>3. over \in SUBSET Requests /\ "lost" \in Jobs \ {"sent", "running"} BY DEF Jobs
  <1> HIDE DEF over
  <1> QED BY <1>1, <1>2, <1>3, WorkerKeeps

LEMMA DashboardDiesKeeps == ASSUME IInv, DashboardDies PROVE IInv'
  <1>1. "error" \in Rest /\ "error" \in Where /\ "listing" \notin Rest /\ "listed" \notin Rest
    BY DEF Rest, Where
  <1>2. \A r \in Requests :
          \/ req'[r] = req[r] /\ req[r].at \in Rest
          \/ req'[r] = [req[r] EXCEPT !.at = "error"] /\ Active(r)
          \/ req'[r] = Resting("error") /\ ~Active(r)
    BY DEF DashboardDies
  <1>3. \A r \in Requests : job'[r] = (IF Active(r) THEN job[r] ELSE "none")
    BY DEF DashboardDies
  <1>4. \A r \in Requests : req'[r] \in Request /\ req'[r].at \in Rest
                            /\ \/ (req'[r].id = req[r].id /\ req'[r].cmd = req[r].cmd)
                               \/ (req'[r].id = NoModule /\ req'[r].cmd = "none" /\ ~Active(r))
    <2> TAKE r \in Requests
    <2>1. req[r] \in Request BY DEF IInv, Shape
    <2>2. CASE req'[r] = req[r] /\ req[r].at \in Rest BY <2>1, <2>2
    <2>3. CASE req'[r] = [req[r] EXCEPT !.at = "error"] /\ Active(r)
      <3>1. [req[r] EXCEPT !.at = "error"] \in Request BY <1>1, <2>1 DEF Request
      <3>2. [req[r] EXCEPT !.at = "error"].at = "error"
            /\ [req[r] EXCEPT !.at = "error"].id = req[r].id
            /\ [req[r] EXCEPT !.at = "error"].cmd = req[r].cmd
        BY <2>1 DEF Request
      <3> QED BY <1>1, <2>3, <3>1, <3>2
    <2>4. CASE req'[r] = Resting("error") /\ ~Active(r) BY <1>1, <2>4, RestingRequest
    <2> QED BY <1>2, <2>2, <2>3, <2>4
  <1>5. Shape'
    <2>1. req' \in [Requests -> Request]
      <3>1. req' = [r \in Requests |-> req'[r]] BY DEF DashboardDies
      <3> QED BY <3>1, <1>4
    <2>2. job' \in [Requests -> Jobs] BY DEF DashboardDies, IInv, Shape, Jobs
    <2> QED BY <2>1, <2>2 DEF DashboardDies, IInv, Shape
  <1>6. Named' BY <1>1, <1>3, <1>4 DEF IInv, Named, Active
  <1>7. NoDown' BY <1>4 DEF IInv, NoDown
  <1>8. FlagTracksWork' /\ RequiredKept'
    BY DEF DashboardDies, IInv, FlagTracksWork, RequiredKept
  <1> QED BY <1>5, <1>6, <1>7, <1>8 DEF IInv

LEMMA NextInv == IInv /\ [Next]_vars => IInv'
  <1> SUFFICES ASSUME IInv, [Next]_vars PROVE IInv'
    OBVIOUS
  <1>1. CASE UNCHANGED vars
    BY <1>1 DEF vars, IInv, Shape, Named, NoDown, FlagTracksWork, RequiredKept, Active
  <1>2. CASE Next
    BY <1>2, SubmitKeeps, ListKeeps, AdmitKeeps, SettleKeeps, AcceptKeeps, FinishKeeps,
       FailKeeps, WorkerDiesKeeps, DashboardDiesKeeps DEF Next
  <1> QED BY <1>1, <1>2

LEMMA Invariance == Spec => []IInv
  BY InitInv, NextInv, PTL DEF Spec

(* No module stays "already busy" after its operation has ended, failed or  *)
(* lost its dashboard (server.js:811, 838).                                 *)
THEOREM FlagsReleased == Spec => []FlagTracksWork
  <1>1. IInv => FlagTracksWork BY DEF IInv
  <1> QED BY <1>1, Invariance, PTL

(* The proxy and the dashboard keep their containers through every          *)
(* operation, failure and orphaned job (server.js:806-810).                 *)
THEOREM RequiredStays == Spec => []RequiredKept
  <1>1. IInv => RequiredKept BY DEF IInv
  <1> QED BY <1>1, Invariance, PTL

(* The state keeps the types of the code's values: in particular inFlight   *)
(* never holds anything but module ids (server.js:782).                     *)
THEOREM TypesKept == Spec => []TypeOK
  <1>1. IInv => TypeOK
    BY DEF IInv, Shape, Named, FlagTracksWork, TypeOK, Request, Rest
  <1> QED BY <1>1, Invariance, PTL

-----------------------------------------------------------------------------
(* What is known of a request before it is answered: it asks for something, *)
(* and when its job is done and no other touched its module, docker is as   *)
(* asked already.                                                           *)
Truth(q) ==
    /\ req[q].at \notin Rest \/ Active(q) => req[q].cmd # "none"
    /\ req[q].at = "working" /\ job[q] = "done" /\ req[q].crossed = {}
         => Asked(req[q].id, req[q].cmd)

LEMMA SameTruth ==
  ASSUME UNCHANGED app, NEW q \in Requests, Truth(q), req'[q] = req[q], job'[q] = job[q]
  PROVE  Truth(q)'
  BY DEF Truth, Active, Asked

LEMMA JobsEndTruth ==
  ASSUME IInv, \A q \in Requests : Truth(q), NEW over \in SUBSET Requests,
         NEW how \in Jobs \ {"sent", "running"}, JobsEnd(over, how),
         \A m \in Modules : (\A r \in over : req[r].id # m) => app'[m] = app[m],
         how = "done" => \A r \in over : over = {r} /\ app'[req[r].id] = Result(req[r].id, req[r].cmd),
         \A r \in over : Active(r),
         NEW q \in Requests
  PROVE  Truth(q)'
  <1>0. req[q] \in Request /\ Truth(q)
    BY DEF IInv, Shape
  <1>1. CASE q \in over /\ req[q].at # "working"
    <2>1. req'[q] = Resting("error") /\ job'[q] = "none"
      BY <1>1 DEF JobsEnd
    <2>2. "error" \in Rest /\ Resting("error").at = "error"
      BY RestingRequest DEF Rest
    <2> QED
      BY <2>1, <2>2 DEF Truth, Active
  <1> DEFINE others == {r \in over \ {q} : req[r].id = req[q].id}
  <1>2. CASE ~(q \in over /\ req[q].at # "working")
    <2>1. req'[q] = [req[q] EXCEPT !.crossed = @ \cup others]
      BY <1>2 DEF JobsEnd
    <2> HIDE DEF others
    <2>2. /\ req'[q].at = req[q].at /\ req'[q].id = req[q].id /\ req'[q].cmd = req[q].cmd
          /\ req'[q].crossed = req[q].crossed \cup others
      BY <1>0, <2>1 DEF Request
    <2>3. CASE q \in over
      <3>1. job'[q] = how /\ req[q].at = "working"
        BY <1>2, <2>3 DEF JobsEnd
      <3>2. req[q].id \in Modules
        BY <3>1 DEF IInv, Named, Rest
      <3>3. req[q].cmd \in Commands \ {"none"}
        BY <1>0, <3>1 DEF Truth, Rest, Request
      <3>4. CASE how = "done"
        <4>1. app'[req[q].id] = Result(req[q].id, req[q].cmd) /\ app[req[q].id] \in App
          BY <2>3, <3>2, <3>4 DEF IInv, Shape
        <4>2. Asked(req[q].id, req[q].cmd)'
          BY <2>2, <3>3, <4>1 DEF Asked, Result, Commands, App
        <4> QED
          BY <2>2, <3>1, <3>3, <3>4, <4>2 DEF Truth, Active
      <3>5. CASE how # "done"
        BY <2>2, <3>1, <3>3, <3>5 DEF Truth, Active
      <3> QED
        BY <3>4, <3>5
    <2>4. CASE q \notin over
      <3>1. job'[q] = job[q]
        BY <2>4 DEF JobsEnd
      <3>2. (req[q].at \notin Rest \/ Active(q) => req[q].cmd # "none")'
        BY <1>0, <2>2, <3>1 DEF Truth, Active
      <3>3. ASSUME req[q].at = "working", job[q] = "done", req'[q].crossed = {}
            PROVE  Asked(req[q].id, req[q].cmd)'
        <4>1. req[q].crossed = {} /\ others = {}
          BY <2>2, <3>3
        <4>2. \A r \in over : req[r].id # req[q].id
          BY <2>4, <4>1 DEF others
        <4>3. req[q].id \in Modules
          BY <3>3 DEF IInv, Named, Rest
        <4>4. app'[req[q].id] = app[req[q].id]
          BY <4>2, <4>3
        <4>5. Asked(req[q].id, req[q].cmd)
          BY <1>0, <3>3, <4>1 DEF Truth
        <4> QED
          BY <2>2, <4>4, <4>5 DEF Asked
      <3> QED
        BY <2>2, <3>1, <3>2, <3>3 DEF Truth
    <2> QED
      BY <2>3, <2>4
  <1> QED
    BY <1>1, <1>2

(* The worker's steps.                                                      *)
LEMMA WorkerTruth ==
  ASSUME IInv, \A q \in Requests : Truth(q),
         \/ \E r \in Requests : Accept(r) \/ Finish(r) \/ Fail(r)
         \/ WorkerDies
  PROVE  \A q \in Requests : Truth(q)'
  <1> USE DEF Jobs
  <1>1. ASSUME NEW r \in Requests, Accept(r) PROVE \A q \in Requests : Truth(q)'
    <2>1. CASE job' = [job EXCEPT ![r] = "running"] /\ UNCHANGED req
      <3>1. job[r] = "sent" /\ UNCHANGED app
        BY <1>1 DEF Accept
      <3>2. \A q \in Requests : Active(q)' => Active(q)
        BY <2>1, <3>1 DEF IInv, Shape, Active
      <3>3. \A q \in Requests : job'[q] = "done" => job[q] = "done"
        BY <2>1, <3>1 DEF IInv, Shape
      <3> QED
        BY <2>1, <3>1, <3>2, <3>3 DEF Truth, Asked
    <2>2. CASE JobsEnd({r}, "lost")
      BY <1>1, <2>2, JobsEndTruth DEF Accept, Active
    <2> QED
      BY <1>1, <2>1, <2>2 DEF Accept
  <1>2. ASSUME NEW r \in Requests, Finish(r) PROVE \A q \in Requests : Truth(q)'
    <2>1. /\ JobsEnd({r}, "done") /\ Active(r)
          /\ app' = [app EXCEPT ![req[r].id] = Result(req[r].id, req[r].cmd)]
      BY <1>2 DEF Finish, Active
    <2>2. req[r].id \in Modules
      BY <2>1 DEF IInv, Named
    <2>3. /\ app'[req[r].id] = Result(req[r].id, req[r].cmd)
          /\ \A m \in Modules : m # req[r].id => app'[m] = app[m]
      BY <2>1, <2>2 DEF IInv, Shape
    <2> QED
      BY <2>1, <2>3, JobsEndTruth
  <1>3. ASSUME NEW r \in Requests, Fail(r) PROVE \A q \in Requests : Truth(q)'
    <2>1. PICK s \in Partial(req[r].id, req[r].cmd) : app' = [app EXCEPT ![req[r].id] = s]
      BY <1>3 DEF Fail
    <2>2. JobsEnd({r}, "failed") /\ Active(r)
      BY <1>3 DEF Fail, Active
    <2>3. \A m \in Modules : m # req[r].id => app'[m] = app[m]
      BY <2>1 DEF IInv, Shape
    <2> QED
      BY <2>2, <2>3, JobsEndTruth
  <1>4. CASE WorkerDies
    <2> DEFINE over == {r \in Requests : job[r] = "running"}
    <2>1. /\ JobsEnd(over, "lost")
          /\ \A m \in Modules : app'[m] \in {app[m]} \cup
                UNION {Partial(m, req[r].cmd) : r \in {q \in over : req[q].id = m}}
      BY <1>4 DEF WorkerDies
    <2>2. \A r \in over : Active(r)
      BY DEF Active
    <2>3. over \in SUBSET Requests
      OBVIOUS
    <2> HIDE DEF over
    <2>4. \A m \in Modules : (\A r \in over : req[r].id # m) => app'[m] = app[m]
      BY <2>1
    <2> QED
      BY <2>1, <2>2, <2>3, <2>4, JobsEndTruth
  <1> QED
    BY <1>1, <1>2, <1>3, <1>4

(* The dashboard's.                                                         *)
LEMMA DashboardTruth ==
  ASSUME IInv, \A q \in Requests : Truth(q),
         \/ \E r \in Requests, id \in Modules, action \in Actions : Submit(r, id, action)
         \/ \E r \in Requests : List(r) \/ Admit(r) \/ Settle(r)
         \/ DashboardDies
  PROVE  \A q \in Requests : Truth(q)'
  <1>0. "working" \notin Rest /\ "ok" \in Rest /\ "error" \in Rest
    BY DEF Rest
  (* A resting request carries no `none` that is under way.                 *)
  <1>1. ASSUME NEW r \in Requests, NEW w \in Rest, req' = [req EXCEPT ![r] = Resting(w)],
               ~(job'[r] \in {"sent", "running"}),
               \A q \in Requests \ {r} : job'[q] = job[q], UNCHANGED app
        PROVE  \A q \in Requests : Truth(q)'
    <2>1. Truth(r)'
      BY <1>0, <1>1, RestingRequest DEF Truth, Active, IInv, Shape
    <2>2. \A q \in Requests \ {r} : Truth(q)'
      BY <1>1, SameTruth DEF IInv, Shape
    <2> QED
      BY <2>1, <2>2
  <1>2. ASSUME NEW r \in Requests, NEW id \in Modules, NEW cmd \in Commands \ {"none"},
               Begin(r, id, cmd), UNCHANGED app
        PROVE  \A q \in Requests : Truth(q)'
    <2>1. At("working", id, cmd).cmd = cmd
      BY DEF At
    <2>2. Truth(r)'
      BY <1>2, <2>1 DEF Begin, Truth, IInv, Shape
    <2>3. \A q \in Requests \ {r} : Truth(q)'
      BY <1>2, SameTruth DEF Begin, IInv, Shape
    <2> QED
      BY <2>2, <2>3
  <1>3. ASSUME NEW r \in Requests, NEW id \in Modules, NEW action \in Actions, Submit(r, id, action)
        PROVE  \A q \in Requests : Truth(q)'
    <2>1. req[r].at \in Rest /\ req[r].id = NoModule
      BY <1>3, RestingRequest DEF Submit
    <2>2. ~Active(r)
      BY <2>1, ModulesAssumption DEF IInv, Named
    <2>3. Compose(action) \in Commands \ {"none"}
      BY DEF Compose, Commands, Actions
    <2>4. CASE req' = [req EXCEPT ![r] = Resting("error")] /\ UNCHANGED <<job, app>>
      BY <1>0, <1>1, <2>2, <2>4 DEF Active
    <2>5. CASE req' = [req EXCEPT ![r] = At("listing", id, "up")] /\ UNCHANGED <<job, app>>
      <3>1. At("listing", id, "up").cmd = "up" /\ At("listing", id, "up").at = "listing"
        BY DEF At
      <3>2. Truth(r)'
        BY <2>5, <3>1 DEF Truth, IInv, Shape
      <3>3. \A q \in Requests \ {r} : Truth(q)'
        BY <2>5, SameTruth DEF IInv, Shape
      <3> QED
        BY <3>2, <3>3
    <2>6. CASE Begin(r, id, Compose(action)) /\ UNCHANGED app
      BY <1>2, <2>3, <2>6
    <2> QED
      BY <1>3, <2>4, <2>5, <2>6 DEF Submit
  <1>4. ASSUME NEW r \in Requests, List(r) PROVE \A q \in Requests : Truth(q)'
    <2>1. req[r] \in Request /\ req[r].at = "listing"
      BY <1>4 DEF List, IInv, Shape
    <2>2. /\ req'[r].cmd = req[r].cmd /\ req'[r].at = "listed" /\ UNCHANGED <<app, job>>
          /\ \A q \in Requests \ {r} : req'[q] = req[q]
      BY <1>4, <2>1 DEF List, IInv, Shape, Request
    <2>3. req[r].cmd # "none"
      BY <2>1 DEF Truth, Rest
    <2>4. Truth(r)'
      BY <2>2, <2>3 DEF Truth
    <2> QED
      BY <2>2, <2>4, SameTruth
  <1>5. ASSUME NEW r \in Requests, Admit(r) PROVE \A q \in Requests : Truth(q)'
    <2>1. req[r] \in Request /\ req[r].at = "listed" /\ ~Active(r) /\ req[r].id \in Modules
      BY <1>5 DEF Admit, IInv, Shape, Named, Rest
    <2>2. req[r].cmd \in Commands \ {"none"}
      BY <2>1 DEF Truth, Rest, Request
    <2>3. CASE req' = [req EXCEPT ![r] = Resting("error")] /\ UNCHANGED <<job, app>>
      BY <1>0, <1>1, <2>1, <2>3 DEF Active
    <2>4. CASE Begin(r, req[r].id, req[r].cmd) /\ UNCHANGED app
      BY <1>2, <2>1, <2>2, <2>4
    <2> QED
      BY <1>5, <2>3, <2>4 DEF Admit
  <1>6. ASSUME NEW r \in Requests, Settle(r) PROVE \A q \in Requests : Truth(q)'
    <2>1. Outcome(r) \in Rest
      BY DEF Outcome, Rest
    <2>2. /\ req' = [req EXCEPT ![r] = Resting(Outcome(r))]
          /\ job' = [job EXCEPT ![r] = "none"] /\ UNCHANGED app
      BY <1>6 DEF Settle
    <2>3. job'[r] = "none" /\ \A q \in Requests \ {r} : job'[q] = job[q]
      BY <2>2 DEF IInv, Shape
    <2> QED
      BY <1>1, <2>1, <2>2, <2>3
  <1>7. CASE DashboardDies
    <2> SUFFICES ASSUME NEW q \in Requests PROVE Truth(q)'
      OBVIOUS
    <2>1. /\ req'[q] = IF req[q].at \in Rest THEN req[q]
                       ELSE IF Active(q) THEN [req[q] EXCEPT !.at = "error"] ELSE Resting("error")
          /\ job'[q] = (IF Active(q) THEN job[q] ELSE "none")
      BY <1>7 DEF DashboardDies
    <2>2. req[q] \in Request
      BY DEF IInv, Shape
    <2>3. CASE Active(q)
      <3>1. req'[q].cmd = req[q].cmd /\ req'[q].at # "working"
        BY <1>0, <2>1, <2>2, <2>3 DEF Request
      <3>2. req[q].cmd # "none"
        BY <2>3 DEF Truth
      <3> QED
        BY <3>1, <3>2 DEF Truth
    <2>4. CASE ~Active(q)
      <3>1. req'[q].at \in Rest /\ job'[q] = "none"
        BY <1>0, <2>1, <2>4, RestingRequest
      <3> QED
        BY <1>0, <3>1 DEF Truth, Active
    <2> QED
      BY <2>3, <2>4
  <1> QED
    BY <1>3, <1>4, <1>5, <1>6, <1>7

(* The only step that answers ok.                                           *)
LEMMA OkOnlyWhenDone ==
  ASSUME IInv, Next, NEW r \in Requests, req[r].at = "working", req'[r].at = "ok"
  PROVE  job[r] = "done"
  <1>0. req[r] \in Request /\ "working" \notin Rest
    BY DEF IInv, Shape, Rest
  <1>1. ASSUME NEW q \in Requests, NEW v, q # r, req' = [req EXCEPT ![q] = v] PROVE FALSE
    BY <1>1 DEF IInv, Shape
  <1>2. ASSUME NEW q \in Requests, NEW id \in Modules, NEW action \in Actions, Submit(q, id, action)
        PROVE  FALSE
    <2>1. q # r
      BY <1>0, <1>2, RestingRequest DEF Submit
    <2> QED
      BY <1>1, <1>2, <2>1 DEF Submit, Begin
  <1>3. ASSUME NEW q \in Requests, List(q) \/ Admit(q) PROVE FALSE
    <2>1. q # r
      BY <1>3 DEF List, Admit
    <2>2. \E v : req' = [req EXCEPT ![q] = v]
      BY <1>3 DEF List, Admit, Begin
    <2> QED
      BY <1>1, <2>1, <2>2
  <1>4. ASSUME NEW q \in Requests, Settle(q) PROVE job[r] = "done"
    <2>1. q = r
      BY <1>1, <1>4 DEF Settle
    <2>2. req'[r] = Resting(Outcome(r))
      BY <1>4, <2>1 DEF Settle, IInv, Shape
    <2>3. Outcome(r) = "ok"
      BY <2>2, RestingRequest DEF Outcome, Rest
    <2> QED
      BY <2>3 DEF Outcome
  <1>5. ASSUME NEW over, NEW how, JobsEnd(over, how) PROVE FALSE
    <2>1. req'[r].at = "working"
      BY <1>0, <1>5 DEF JobsEnd, Request
    <2> QED
      BY <2>1
  <1>6. ASSUME NEW q \in Requests, Accept(q) \/ Finish(q) \/ Fail(q) PROVE FALSE
    BY <1>5, <1>6 DEF Accept, Finish, Fail
  <1>7. CASE DashboardDies
    <2>1. req'[r].at = "error"
      BY <1>0, <1>7, RestingRequest DEF DashboardDies, Request, Rest
    <2> QED
      BY <2>1
  <1> QED
    BY <1>2, <1>3, <1>4, <1>5, <1>6, <1>7 DEF Next, WorkerDies

(* "ok" on the page is true unless another job worked on the same module:   *)
(* a connection that closes, a worker or a dashboard that dies never reads  *)
(* as an answer (worker-client.js).                                         *)
THEOREM OkAlwaysTrue == Spec => OkIsTrue
  <1> DEFINE Truths == \A q \in Requests : Truth(q)
  <1>1. Init => Truths
    <2> SUFFICES ASSUME Init, NEW q \in Requests PROVE Truth(q)
      OBVIOUS
    <2>1. req[q] = Resting("ok") /\ job[q] = "none" /\ "ok" \in Rest
      BY DEF Init, Rest
    <2>2. req[q].at = "ok"
      BY <2>1, RestingRequest
    <2> QED
      BY <2>1, <2>2 DEF Truth, Active
  <1>2. IInv /\ Truths /\ [Next]_vars => Truths'
    <2> SUFFICES ASSUME IInv, Truths, [Next]_vars PROVE \A q \in Requests : Truth(q)'
      OBVIOUS
    <2>1. CASE UNCHANGED vars
      BY <2>1, SameTruth DEF vars
    <2>2. CASE Next
      BY <2>2, WorkerTruth, DashboardTruth DEF Next
    <2> QED
      BY <2>1, <2>2
  <1>3. IInv /\ Truths /\ [Next]_vars =>
          [\A r \in Requests :
             req[r].at = "working" /\ req'[r].at = "ok" /\ req[r].crossed = {}
             => Asked(req[r].id, req[r].cmd)]_vars
    <2> SUFFICES ASSUME IInv, Truths, Next, NEW r \in Requests, req[r].at = "working",
                        req'[r].at = "ok", req[r].crossed = {}
                 PROVE  Asked(req[r].id, req[r].cmd)
      OBVIOUS
    <2>1. job[r] = "done"
      BY OkOnlyWhenDone
    <2> QED
      BY <2>1 DEF Truth
  <1> QED
    BY <1>1, <1>2, <1>3, Invariance, PTL DEF Spec, OkIsTrue

=============================================================================
