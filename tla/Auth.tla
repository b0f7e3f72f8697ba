-------------------------------- MODULE Auth --------------------------------
(***************************************************************************)
(* Signing in: dashboard/lib/auth.js. One document, state/auth.json, holds  *)
(* the password, the bootstrap token and every live session; claim, login,  *)
(* logout and changePassword each read it, decide and write all of it back, *)
(* one at a time behind `serialized`. `homebox bootstrap-token`, and the     *)
(* installer, run the same code in processes of their own, outside that     *)
(* queue and outside each other's.                                          *)
(*                                                                          *)
(* Passwords, tokens and session ids are numbers from one counter of fresh  *)
(* names; 0 is none, or a guess that matches nothing.                       *)
(***************************************************************************)
EXTENDS Naturals, Sequences, FiniteSets

CONSTANTS
    Requests,       \* requests that may be waiting at once
    Nobody,         \* not a request
    Clis,           \* `homebox bootstrap-token`, and install.sh, which asks too
    IPs,            \* client addresses
    FAIL_MAX,       \* wrong passwords an address may try in a window
    CLAIM_MAX,      \* failed claims an address may make in a window
    MaxSerial       \* bound: fresh names there are

ASSUME AuthAssumption ==
    /\ Nobody \notin Requests
    /\ IPs # {}
    /\ FAIL_MAX \in Nat \ {0} /\ CLAIM_MAX \in Nat \ {0}
    /\ MaxSerial \in Nat

VARIABLES
    file,       \* auth.json
    serial,     \* the last fresh name given
    queue,      \* requests waiting on authQueue
    running,    \* the request whose turn it is
    req,        \* each request
    failures,   \* failed attempts of each address in its window
    stale,      \* addresses whose window has passed
    expired,    \* sessions whose time is over
    cli,        \* each token command: the document it means to write
    late,       \* history: token commands another one has written since they read
    given,      \* history: sessions whose request was answered ok
    gone        \* history: sessions signed out, by logout or a new password

vars == <<file, serial, queue, running, req, failures, stale, expired, cli, late, given, gone>>

Names == 1..MaxSerial

(* `under` is history: the password a session was opened under.             *)
Session == [id : Names, under : Names]

Document == [password : 0..MaxSerial, bootstrapToken : 0..MaxSerial, sessions : SUBSET Session]

Empty == [password |-> 0, bootstrapToken |-> 0, sessions |-> {}]

Ops == {"claim", "login", "logout", "password"}

Request == [at : {"idle", "queued", "reading", "read", "writing"}, op : Ops, ip : IPs,
            cookie : 0..MaxSerial, knows : 0..MaxSerial, data : Document, opens : 0..MaxSerial]

TypeOK ==
    /\ file \in Document
    /\ serial \in 0..MaxSerial
    /\ queue \in Seq(Requests)
    /\ running \in Requests \cup {Nobody}
    /\ req \in [Requests -> Request]
    /\ failures \in [IPs -> Nat]
    /\ stale \subseteq IPs
    /\ expired \subseteq Names
    /\ cli \in [Clis -> Document \cup {Nobody}]
    /\ late \subseteq Clis
    /\ given \subseteq Names
    /\ gone \subseteq Names

At(where, op, ip, cookie, knows) ==
    [at |-> where, op |-> op, ip |-> ip, cookie |-> cookie, knows |-> knows,
     data |-> Empty, opens |-> 0]

Idle == At("idle", "logout", CHOOSE ip \in IPs : TRUE, 0, 0)

Init ==
    /\ file = Empty
    /\ serial = 0
    /\ queue = <<>>
    /\ running = Nobody
    /\ req = [r \in Requests |-> Idle]
    /\ failures = [ip \in IPs |-> 0]
    /\ stale = {}
    /\ expired = {}
    /\ cli = [c \in Clis |-> Nobody]
    /\ late = {}
    /\ given = {}
    /\ gone = {}

Ids(sessions) == {s.id : s \in sessions}

Opens(op) == op # "logout"

(* Bound: every request that may open a session has a fresh name to itself. *)
Spare ==
    serial + Cardinality({r \in Requests : req[r].at # "idle" /\ req[r].opens = 0}) < MaxSerial

-----------------------------------------------------------------------------
(* The queue.                                                               *)

(* A new link on the promise chain. Only logout looks at the cookie once it *)
(* is there; the password route asks for a signed-in session first.         *)
Arrive(r, op, ip, cookie, knows) ==
    /\ req[r].at = "idle"
    /\ Opens(op) => Spare /\ cookie = 0
    /\ op = "logout" => knows = 0
    /\ op = "password" => Ids(file.sessions) \ expired # {}
    /\ queue' = Append(queue, r)
    /\ req' = [req EXCEPT ![r] = At("queued", op, ip, cookie, knows)]
    /\ UNCHANGED <<file, serial, running, failures, stale, expired, cli, late, given, gone>>

Limit(op) == IF op = "claim" THEN CLAIM_MAX ELSE FAIL_MAX

Limited(r) == req[r].op \in {"claim", "login"}

(* Failures that still count: rateLimit() starts a new window after 15      *)
(* minutes.                                                                 *)
Count(ip) == IF ip \in stale THEN 0 ELSE failures[ip]

(* Slip: nothing waits for the link before it.                              *)
MyTurnNow(r) == \E i \in 1..Len(queue) : queue[i] = r

MyTurn(r) == running = Nobody /\ queue # <<>> /\ Head(queue) = r

(* The first lines of a link: rateLimit(), then the read begins.            *)
Begin(r) ==
    /\ req[r].at = "queued"
    /\ MyTurn(r)
    /\ queue' = SelectSeq(queue, LAMBDA q : q # r)
    /\ IF Limited(r)
       THEN /\ failures' = [failures EXCEPT ![req[r].ip] = Count(req[r].ip)]
            /\ stale' = stale \ {req[r].ip}
       ELSE UNCHANGED <<failures, stale>>
    /\ IF Limited(r) /\ Count(req[r].ip) >= Limit(req[r].op)
       THEN req' = [req EXCEPT ![r] = Idle] /\ UNCHANGED running
       ELSE req' = [req EXCEPT ![r].at = "reading"] /\ running' = r
    /\ UNCHANGED <<file, serial, expired, cli, late, given, gone>>

(* The chain goes on after either outcome of a link.                        *)
(* Slip: a failed link is not caught, and the chain ends with it.           *)
LeaveWedged(r, ok) ==
    /\ req' = [req EXCEPT ![r] = Idle]
    /\ running' = IF ok THEN Nobody ELSE running

Leave(r, ok) ==
    /\ req' = [req EXCEPT ![r] = Idle]
    /\ running' = Nobody

Load(r) ==
    /\ req[r].at = "reading"
    /\ req' = [req EXCEPT ![r].at = "read", ![r].data = file]
    /\ UNCHANGED <<file, serial, queue, running, failures, stale, expired, cli, late, given, gone>>

-----------------------------------------------------------------------------
(* What each link decides on the document it read.                          *)

Write(r, doc, opens) ==
    /\ req' = [req EXCEPT ![r].at = "writing", ![r].data = doc, ![r].opens = opens]
    /\ serial' = IF opens = 0 THEN serial ELSE opens
    /\ UNCHANGED running

(* createSession(): expired sessions go, a fresh one comes.                 *)
With(sessions, id, under) ==
    {s \in sessions : s.id \notin expired} \cup {[id |-> id, under |-> under]}

Refuse(r) == Leave(r, FALSE) /\ UNCHANGED serial

NoteFailure(r) == failures' = [failures EXCEPT ![req[r].ip] = @ + 1]

Forgive(r) == failures' = [failures EXCEPT ![req[r].ip] = 0]

Claim(r) ==
    LET data == req[r].data
        n == serial + 1
    IN  IF data.password # 0
        THEN Refuse(r) /\ UNCHANGED failures
        ELSE IF data.bootstrapToken = 0 \/ req[r].knows # data.bootstrapToken
        THEN Refuse(r) /\ NoteFailure(r)
        ELSE /\ Write(r, [password |-> n, bootstrapToken |-> 0,
                          sessions |-> With(data.sessions, n, n)], n)
             /\ Forgive(r)

Login(r) ==
    LET data == req[r].data
        n == serial + 1
    IN  IF data.password = 0
        THEN Refuse(r) /\ UNCHANGED failures
        ELSE IF req[r].knows # data.password
        THEN Refuse(r) /\ NoteFailure(r)
        ELSE /\ Write(r, [data EXCEPT !.sessions = With(@, n, data.password)], n)
             /\ Forgive(r)

Logout(r) ==
    LET data == req[r].data
    IN  /\ IF req[r].cookie \in Ids(data.sessions)
           THEN Write(r, [data EXCEPT !.sessions = {s \in @ : s.id # req[r].cookie}], 0)
           ELSE Leave(r, TRUE) /\ UNCHANGED serial
        /\ UNCHANGED failures

(* Slip: the sessions opened under the old password are kept.               *)
ChangePasswordKeepsSessions(r) ==
    LET data == req[r].data
        n == serial + 1
    IN  /\ IF data.password = 0 \/ req[r].knows # data.password
           THEN Refuse(r)
           ELSE Write(r, [data EXCEPT !.password = n, !.sessions = With(@, n, n)], n)
        /\ UNCHANGED failures

ChangePassword(r) ==
    LET data == req[r].data
        n == serial + 1
    IN  /\ IF data.password = 0 \/ req[r].knows # data.password
           THEN Refuse(r)
           ELSE Write(r, [data EXCEPT !.password = n, !.sessions = With({}, n, n)], n)
        /\ UNCHANGED failures

Decide(r) ==
    /\ req[r].at = "read"
    /\ CASE req[r].op = "claim" -> Claim(r)
         [] req[r].op = "login" -> Login(r)
         [] req[r].op = "logout" -> Logout(r)
         [] req[r].op = "password" -> ChangePassword(r)
    /\ UNCHANGED <<file, queue, stale, expired, cli, late, given, gone>>

(* The rename of writeJson(), then the answer.                              *)
Commit(r) ==
    /\ req[r].at = "writing"
    /\ file' = req[r].data
    /\ Leave(r, TRUE)
    /\ given' = IF req[r].opens = 0 THEN given ELSE given \cup {req[r].opens}
    /\ gone' = gone \cup CASE req[r].op = "logout" -> {req[r].cookie}
                           [] req[r].op = "password" -> (1..serial) \ {req[r].opens}
                           [] OTHER -> {}
    /\ UNCHANGED <<serial, queue, failures, stale, expired, cli, late>>

(* The write fails before the rename; the request is answered an error.     *)
CommitFails(r) ==
    /\ req[r].at = "writing"
    /\ Leave(r, FALSE)
    /\ UNCHANGED <<file, serial, queue, failures, stale, expired, cli, late, given, gone>>

-----------------------------------------------------------------------------
(* Everything else.                                                         *)

(* A token command shows a token that is there; only on an unclaimed box    *)
(* without one does it go on to write.                                      *)
(* Slip: a new token each time it is asked for one.                         *)
CliReadAlways(c) ==
    /\ cli[c] = Nobody
    /\ file.password = 0
    /\ Spare
    /\ cli' = [cli EXCEPT ![c] = file]
    /\ UNCHANGED <<file, serial, queue, running, req, failures, stale, expired, late, given, gone>>

CliRead(c) ==
    /\ cli[c] = Nobody
    /\ file.password = 0 /\ file.bootstrapToken = 0
    /\ Spare
    /\ cli' = [cli EXCEPT ![c] = file]
    /\ UNCHANGED <<file, serial, queue, running, req, failures, stale, expired, late, given, gone>>

CliWrite(c) ==
    /\ cli[c] # Nobody
    /\ Spare
    /\ file' = [cli[c] EXCEPT !.bootstrapToken = serial + 1]
    /\ serial' = serial + 1
    /\ cli' = [cli EXCEPT ![c] = Nobody]
    /\ late' = {d \in Clis \ {c} : cli[d] # Nobody}
    /\ UNCHANGED <<queue, running, req, failures, stale, expired, given, gone>>

(* The dashboard restarts, as `homebox unlock` makes it: requests, queue    *)
(* and failure counts go; a write that had not renamed yet never does.      *)
Restart ==
    /\ queue' = <<>>
    /\ running' = Nobody
    /\ req' = [r \in Requests |-> Idle]
    /\ failures' = [ip \in IPs |-> 0]
    /\ stale' = {}
    /\ UNCHANGED <<file, serial, expired, cli, late, given, gone>>

WindowPasses(ip) ==
    /\ failures[ip] > 0
    /\ stale' = stale \cup {ip}
    /\ UNCHANGED <<file, serial, queue, running, req, failures, expired, cli, late, given, gone>>

Expire(id) ==
    /\ id \in Ids(file.sessions)
    /\ expired' = expired \cup {id}
    /\ UNCHANGED <<file, serial, queue, running, req, failures, stale, cli, late, given, gone>>

Step(r) == Begin(r) \/ Load(r) \/ Decide(r) \/ Commit(r) \/ CommitFails(r)

Next ==
    \/ \E r \in Requests, op \in Ops, ip \in IPs, cookie, knows \in 0..serial :
         Arrive(r, op, ip, cookie, knows)
    \/ \E r \in Requests : Step(r)
    \/ \E c \in Clis : CliRead(c) \/ CliWrite(c)
    \/ Restart
    \/ \E ip \in IPs : WindowPasses(ip)
    \/ \E id \in Names : Expire(id)

Spec == Init /\ [][Next]_vars

(* Reads and writes of a small local file end, well or badly.               *)
FairSpec == Spec /\ \A r \in Requests : WF_vars(Step(r))

-----------------------------------------------------------------------------
(* Every session on file was opened under the password that is on file:     *)
(* "Everything signed in with the old password is signed out. That is the   *)
(* point of changing it." (auth.js:363-364)                                 *)
OldCredentialsDie == \A s \in file.sessions : s.under = file.password

(* A session once signed out, by a logout or by a new password, is never on *)
(* file again, whatever was in flight at the time.                          *)
SignedOutStaysOut == gone \cap Ids(file.sessions) = {}

Forward ==
    /\ file'.password >= file.password
    /\ file'.password # 0 => file'.bootstrapToken = 0

(* "the OLD password hash and the OLD sessions come back from the dead"     *)
(* (auth.js:73-76) never happens: no write of the dashboard, however old    *)
(* the document it read, puts back an earlier password, an unclaimed box or *)
(* a spent token; nor does a write of a token command, unless another token *)
(* command has written since it read. Passwords are numbered as they are    *)
(* set.                                                                     *)
OldPasswordStaysOld == [][Forward \/ \E c \in late : CliWrite(c)]_vars

(* Of the token commands that were overtaken too. It does not hold, as      *)
(* auth.js:84-86 and docs/SECURITY.md say: two of them read the empty box,  *)
(* the first one's token claims it, and the second one's write unclaims it. *)
NeverUnclaimed == [][Forward]_file

(* A browser that was told it is signed in is: its session is on file until *)
(* it is signed out or runs out.                                            *)
GivenIsOnFile == given \subseteq Ids(file.sessions) \cup gone \cup expired

(* No password is looked at for an address that has used up its attempts,   *)
(* however many it sends at once (auth.js:273-287, 316-327).                *)
GuessesLimited ==
    \A r \in Requests :
        req[r].at = "read" /\ req[r].op = "login" => failures[req[r].ip] < FAIL_MAX

(* "one failed mutation cannot wedge the queue" (auth.js:82): everything    *)
(* that waits gets its turn and ends.                                       *)
NeverWedged == \A r \in Requests : req[r].at # "idle" ~> req[r].at = "idle"

=============================================================================
