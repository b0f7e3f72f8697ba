----------------------------- MODULE AuthProofs -----------------------------
(***************************************************************************)
(* What the queue of Auth buys, for any number of requests, addresses and   *)
(* passwords. The invariant follows the document through one link of the    *)
(* chain: what a request has read is still what is on file when it decides, *)
(* and what it means to write is already free of revoked sessions. A token  *)
(* command is harmless because it writes an unclaimed box over an empty     *)
(* one; only one that another has overtaken can find anything there.        *)
(***************************************************************************)
EXTENDS Auth, TLAPS

Sess == [id : Nat \ {0}, under : Nat \ {0}]

Doc == [password : Nat, bootstrapToken : Nat, sessions : SUBSET Sess]

Asking == [at : {"idle", "queued", "reading", "read", "writing"}, op : Ops, ip : IPs,
           cookie : Nat, knows : Nat, data : Doc, opens : Nat]

Shape ==
    /\ file \in Doc
    /\ serial \in Nat
    /\ req \in [Requests -> Asking]
    /\ cli \in [Clis -> Doc \cup {Nobody}]
    /\ \A n \in gone : n \in Nat /\ n # 0 /\ n <= serial

(* Only the request whose turn it is has begun.                             *)
Turn == \A r \in Requests : req[r].at \in {"reading", "read", "writing"} => running = r

(* A document that may be on file.                                          *)
Sound(doc) ==
    /\ \A s \in doc.sessions : s.under = doc.password /\ s.id <= serial /\ s.id \notin gone
    /\ doc.password <= serial
    /\ doc.password # 0 => doc.bootstrapToken = 0

(* Somebody has asked for a token: from then on there is one, or a password. *)
Begun(doc) == doc.password # 0 \/ doc.bootstrapToken # 0

(* What the request whose turn it is has read is on file still, but for what *)
(* the token commands have written: a token, over an unclaimed box.         *)
Fresh ==
    \A r \in Requests : req[r].at = "read" =>
        /\ Sound(req[r].data)
        /\ req[r].data.password >= file.password
        /\ Begun(req[r].data) => Begun(file)

(* What it means to write.                                                  *)
Ready ==
    \A r \in Requests : req[r].at = "writing" =>
        /\ Sound(req[r].data)
        /\ req[r].data.password # 0 /\ req[r].data.password >= file.password
        /\ Begun(file)
        /\ req[r].op = "logout" => /\ req[r].cookie \notin Ids(req[r].data.sessions)
                                   /\ req[r].cookie # 0 /\ req[r].cookie <= serial
        /\ req[r].op = "password" => Ids(req[r].data.sessions) \subseteq {req[r].opens}

(* A token command means to write only an unclaimed box, and finds an empty *)
(* one unless another has written before it.                                *)
Harmless ==
    \A c \in Clis : cli[c] # Nobody =>
        /\ cli[c].password = 0 /\ cli[c].sessions = {}
        /\ c \notin late => ~Begun(file)

IInv == Shape /\ Turn /\ Sound(file) /\ Fresh /\ Ready /\ Harmless

LEMMA IdleAsking == Idle \in Asking /\ Idle.at = "idle"
  BY AuthAssumption DEF Idle, At, Asking, Ops, Empty, Doc

LEMMA InitInv == Init => IInv
  <1> SUFFICES ASSUME Init PROVE IInv
    OBVIOUS
  <1>1. \A r \in Requests : req[r].at = "idle" BY IdleAsking DEF Init
  <1>2. Shape BY IdleAsking DEF Init, Shape, Doc, Empty
  <1>3. Sound(file) BY DEF Init, Sound, Empty
  <1>4. Turn /\ Fresh /\ Ready BY <1>1 DEF Turn, Fresh, Ready
  <1>5. Harmless BY DEF Init, Harmless
  <1> QED BY <1>2, <1>3, <1>4, <1>5 DEF IInv

(* A session that createSession() adds to a sound set leaves it sound.      *)
LEMMA WithSound ==
  ASSUME Shape, NEW sessions \in SUBSET Sess, NEW under \in Nat \ {0},
         \A s \in sessions : s.under = under /\ s.id <= serial /\ s.id \notin gone
  PROVE  /\ With(sessions, serial + 1, under) \in SUBSET Sess
         /\ \A s \in With(sessions, serial + 1, under) :
              s.under = under /\ s.id <= serial + 1 /\ s.id \notin gone
  BY DEF With, Sess, Shape

(* A step that leaves the document, the names and the history alone, and    *)
(* either leaves a request as it was or takes it out of its turn.           *)
LEMMA QuietKeeps ==
  ASSUME IInv, UNCHANGED <<file, serial, gone, cli, late>>,
         req' \in [Requests -> Asking],
         \A r \in Requests : \/ req'[r].at \in {"idle", "queued"}
                             \/ req'[r] = req[r] /\ running' = running
                             \/ /\ req'[r].at = "reading" /\ running' = r
  PROVE  IInv'
  <1>1. Shape' BY DEF IInv, Shape
  <1>2. Turn' BY DEF IInv, Turn
  <1>3. Sound(file)' BY DEF IInv, Sound
  <1>4. Fresh' BY DEF IInv, Fresh, Sound, Begun
  <1>5. Ready' BY DEF IInv, Ready, Sound, Begun
  <1>6. Harmless' BY DEF IInv, Harmless, Begun
  <1> QED BY <1>1, <1>2, <1>3, <1>4, <1>5, <1>6 DEF IInv

(* While one request is past the queue, every other is idle or in it.       *)
LEMMA Alone ==
  ASSUME IInv, NEW r \in Requests, req[r].at \in {"reading", "read", "writing"}
  PROVE  /\ running = r
         /\ \A q \in Requests \ {r} : req[q].at \in {"idle", "queued"}
  BY DEF IInv, Turn, Shape, Asking

(* A request that leaves without having written anything.                   *)
LEMMA LeaveKeeps ==
  ASSUME IInv, NEW r \in Requests, req[r].at \in {"reading", "read", "writing"},
         NEW ok \in BOOLEAN, Leave(r, ok), UNCHANGED <<file, serial, gone, cli, late>>
  PROVE  IInv'
  <1>1. req' = [req EXCEPT ![r] = Idle] BY DEF Leave
  <1>2. req' \in [Requests -> Asking] BY <1>1, IdleAsking DEF IInv, Shape
  <1>3. \A q \in Requests : req'[q].at \in {"idle", "queued"}
    BY <1>1, Alone, IdleAsking DEF IInv, Shape
  <1> QED BY <1>2, <1>3, QuietKeeps

LEMMA ArriveKeeps ==
  ASSUME IInv, NEW r \in Requests, NEW op \in Ops, NEW ip \in IPs,
         NEW cookie \in 0..serial, NEW knows \in 0..serial, Arrive(r, op, ip, cookie, knows)
  PROVE  IInv'
  <1> DEFINE q == At("queued", op, ip, cookie, knows)
  <1>1. q \in Asking /\ q.at = "queued" BY DEF At, Asking, Empty, Doc, IInv, Shape
  <1>2. req' = [req EXCEPT ![r] = q] /\ running' = running BY DEF Arrive
  <1> HIDE DEF q
  <1>3. req' \in [Requests -> Asking] BY <1>1, <1>2 DEF IInv, Shape
  <1>4. \A p \in Requests : req'[p].at = "queued" \/ (req'[p] = req[p] /\ running' = running)
    BY <1>1, <1>2 DEF IInv, Shape
  <1> QED BY <1>3, <1>4, QuietKeeps DEF Arrive

LEMMA BeginKeeps == ASSUME IInv, NEW r \in Requests, Begin(r) PROVE IInv'
  <1>1. running = Nobody /\ UNCHANGED <<file, serial, gone, cli, late>> BY DEF Begin, MyTurn
  <1>2. \A q \in Requests : req[q].at \in {"idle", "queued"}
    BY <1>1, AuthAssumption DEF IInv, Turn, Shape, Asking
  <1>3. CASE req' = [req EXCEPT ![r] = Idle] /\ UNCHANGED running
    <2>1. req' \in [Requests -> Asking] BY <1>3, IdleAsking DEF IInv, Shape
    <2>2. \A q \in Requests : req'[q].at \in {"idle", "queued"}
      BY <1>2, <1>3, IdleAsking DEF IInv, Shape
    <2> QED BY <1>1, <2>1, <2>2, QuietKeeps
  <1>4. CASE req' = [req EXCEPT ![r].at = "reading"] /\ running' = r
    <2>1. req' \in [Requests -> Asking] BY <1>4 DEF IInv, Shape, Asking
    <2>2. \A q \in Requests : \/ req'[q].at \in {"idle", "queued"}
                              \/ req'[q].at = "reading" /\ running' = q
      BY <1>2, <1>4 DEF IInv, Shape, Asking
    <2> QED BY <1>1, <2>1, <2>2, QuietKeeps
  <1> QED BY <1>3, <1>4 DEF Begin

LEMMA LoadKeeps == ASSUME IInv, NEW r \in Requests, Load(r) PROVE IInv'
  <1> DEFINE q == [req[r] EXCEPT !.at = "read", !.data = file]
  <1>1. q \in Asking /\ q.at = "read" /\ q.data = file BY DEF IInv, Shape, Asking
  <1>2. req' = [req EXCEPT ![r] = q] BY DEF Load, IInv, Shape
  <1>3. running = r /\ \A p \in Requests \ {r} : req[p].at \in {"idle", "queued"}
    BY Alone DEF Load
  <1> HIDE DEF q
  <1>4. \A p \in Requests : (p = r /\ req'[p] = q) \/ (p # r /\ req'[p].at \in {"idle", "queued"})
    BY <1>2, <1>3 DEF IInv, Shape
  <1>5. UNCHANGED <<file, serial, gone, cli, late, running>> BY DEF Load
  <1>6. Shape' BY <1>1, <1>2, <1>5 DEF IInv, Shape
  <1>7. Turn' BY <1>3, <1>4, <1>5 DEF Turn
  <1>8. Sound(file)' BY <1>5 DEF IInv, Sound
  <1>9. Fresh'
    <2>1. file.password >= file.password BY DEF IInv, Shape, Doc
    <2> QED BY <1>1, <1>4, <1>5, <1>8, <2>1 DEF Fresh, Sound, Begun
  <1>10. Ready' BY <1>1, <1>4 DEF Ready
  <1>11. Harmless' BY <1>5 DEF IInv, Harmless, Begun
  <1> QED BY <1>6, <1>7, <1>8, <1>9, <1>10, <1>11 DEF IInv

(* A request that has decided to write a document that is sound with the    *)
(* names given by then.                                                     *)
LEMMA WriteKeeps ==
  ASSUME IInv, NEW r \in Requests, req[r].at = "read", NEW doc \in Doc,
         NEW opens \in {0, serial + 1}, Write(r, doc, opens), UNCHANGED <<file, gone, cli, late>>,
         \A s \in doc.sessions : s.under = doc.password /\ s.id <= serial' /\ s.id \notin gone,
         doc.password <= serial', doc.bootstrapToken = 0,
         doc.password # 0, doc.password >= file.password,
         Begun(file),
         req[r].op = "logout" => /\ req[r].cookie \notin Ids(doc.sessions)
                                 /\ req[r].cookie # 0 /\ req[r].cookie <= serial',
         req[r].op = "password" => Ids(doc.sessions) \subseteq {opens}
  PROVE  IInv'
  <1> DEFINE q == [req[r] EXCEPT !.at = "writing", !.data = doc, !.opens = opens]
  <1>0. serial' \in Nat /\ serial <= serial' BY DEF Write, IInv, Shape
  <1>1. q \in Asking /\ q.at = "writing" /\ q.data = doc /\ q.op = req[r].op
        /\ q.cookie = req[r].cookie /\ q.opens = opens
    <2>1. req[r] \in Asking /\ opens \in Nat BY DEF IInv, Shape
    <2> QED BY <2>1 DEF Asking
  <1>2. req' = [req EXCEPT ![r] = q] /\ running' = running BY DEF Write, IInv, Shape
  <1>3. running = r /\ \A p \in Requests \ {r} : req[p].at \in {"idle", "queued"}
    BY Alone
  <1> HIDE DEF q
  <1>4. \A p \in Requests : (p = r /\ req'[p] = q) \/ (p # r /\ req'[p].at \in {"idle", "queued"})
    BY <1>2, <1>3 DEF IInv, Shape
  <1>5. Shape' BY <1>0, <1>1, <1>2 DEF IInv, Shape
  <1>6. Turn' BY <1>2, <1>3, <1>4 DEF Turn
  <1>7. Sound(file)'
    <2>1. \A s \in file.sessions : s.id \in Nat BY DEF IInv, Shape, Doc, Sess
    <2>2. file.password \in Nat BY DEF IInv, Shape, Doc
    <2> QED BY <1>0, <2>1, <2>2 DEF IInv, Sound, Shape
  <1>8. Fresh' BY <1>1, <1>4 DEF Fresh
  <1>9. Ready' BY <1>1, <1>4 DEF Ready, Sound, Begun
  <1>10. Harmless' BY DEF IInv, Harmless, Begun
  <1> QED BY <1>5, <1>6, <1>7, <1>8, <1>9, <1>10 DEF IInv

LEMMA DecideKeeps == ASSUME IInv, NEW r \in Requests, Decide(r) PROVE IInv'
  <1> DEFINE data == req[r].data
             n == serial + 1
  <1>1. /\ req[r].at = "read" /\ UNCHANGED <<file, gone, cli, late>>
        /\ Sound(data) /\ data.password >= file.password
        /\ data.password # 0 \/ data.bootstrapToken # 0 => Begun(file)
    BY DEF Decide, IInv, Fresh, Begun
  <1>2. data \in Doc /\ file \in Doc /\ serial \in Nat /\ n \in Nat \ {0} /\ req[r].cookie \in Nat
    BY DEF IInv, Shape, Asking
  <1>3. /\ \A s \in data.sessions : s.under = data.password /\ s.id <= serial /\ s.id \notin gone
        /\ data.password <= serial
        /\ data.password # 0 => data.bootstrapToken = 0
    BY <1>1 DEF Sound
  <1>4. data.sessions \in SUBSET Sess /\ data.password \in Nat BY <1>2 DEF Doc
  <1>5. ASSUME NEW ok \in BOOLEAN, Leave(r, ok), UNCHANGED serial PROVE IInv'
    BY <1>1, <1>5, LeaveKeeps
  <1>6. CASE req[r].op = "claim" /\ Claim(r)
    <2>1. CASE Refuse(r) BY <1>5, <2>1 DEF Refuse
    <2> DEFINE doc == [password |-> n, bootstrapToken |-> 0,
                       sessions |-> With(data.sessions, n, n)]
    <2>2. CASE /\ data.password = 0 /\ data.bootstrapToken # 0
               /\ Write(r, doc, n)
      <3>1. data.sessions = {} BY <1>3, <1>4, <2>2 DEF Sess
      <3>2. /\ With({}, n, n) \in SUBSET Sess
            /\ \A s \in With({}, n, n) : s.under = n /\ s.id = n
        BY <1>2 DEF With, Sess
      <3>3. n \notin gone BY <1>2 DEF IInv, Shape
      <3>4. doc \in Doc /\ doc.password = n /\ doc.bootstrapToken = 0
            /\ doc.sessions = With({}, n, n)
        BY <1>2, <3>1, <3>2 DEF Doc
      <3>5. serial' = n BY <1>2, <2>2 DEF Write
      <3>6. Begun(file) BY <1>1, <2>2
      <3>7. doc.password >= file.password
        <4>1. file.password = 0 BY <1>1, <1>2, <2>2 DEF Doc
        <4> QED BY <1>2, <3>4, <4>1
      <3> HIDE DEF doc
      <3> QED BY <1>1, <1>2, <1>6, <2>2, <3>2, <3>3, <3>4, <3>5, <3>6, <3>7, WriteKeeps
    <2> QED BY <1>6, <2>1, <2>2 DEF Claim
  <1>7. CASE req[r].op = "login" /\ Login(r)
    <2>1. CASE Refuse(r) BY <1>5, <2>1 DEF Refuse
    <2> DEFINE doc == [data EXCEPT !.sessions = With(@, n, data.password)]
    <2>2. CASE data.password # 0 /\ Write(r, doc, n)
      <3>1. /\ With(data.sessions, n, data.password) \in SUBSET Sess
            /\ \A s \in With(data.sessions, n, data.password) :
                 s.under = data.password /\ s.id <= n /\ s.id \notin gone
        BY <1>3, <1>4, <2>2, WithSound DEF IInv
      <3>2. doc \in Doc /\ doc.password = data.password /\ doc.bootstrapToken = 0
            /\ doc.sessions = With(data.sessions, n, data.password)
        BY <1>2, <1>3, <2>2, <3>1 DEF Doc
      <3>3. serial' = n BY <1>2, <2>2 DEF Write
      <3> HIDE DEF doc
      <3> QED BY <1>1, <1>2, <1>3, <1>4, <1>7, <2>2, <3>1, <3>2, <3>3, WriteKeeps
    <2> QED BY <1>7, <2>1, <2>2 DEF Login
  <1>8. CASE req[r].op = "logout" /\ Logout(r)
    <2>1. CASE Leave(r, TRUE) /\ UNCHANGED serial BY <1>5, <2>1
    <2> DEFINE doc == [data EXCEPT !.sessions = {s \in @ : s.id # req[r].cookie}]
    <2>2. CASE req[r].cookie \in Ids(data.sessions) /\ Write(r, doc, 0)
      <3>1. doc \in Doc /\ doc.password = data.password
            /\ doc.sessions = {s \in data.sessions : s.id # req[r].cookie}
            /\ doc.bootstrapToken = data.bootstrapToken
        BY <1>2 DEF Doc
      <3>2. PICK s \in data.sessions : s.id = req[r].cookie BY <2>2 DEF Ids
      <3>3. data.password # 0 /\ req[r].cookie # 0 /\ req[r].cookie <= serial
        BY <1>3, <1>4, <3>2 DEF Sess
      <3>4. doc.bootstrapToken = 0 BY <1>3, <3>1, <3>3
      <3>5. serial' = serial BY <2>2 DEF Write
      <3>6. req[r].cookie \notin Ids(doc.sessions) BY <3>1 DEF Ids
      <3>7. \A t \in doc.sessions : t.under = doc.password /\ t.id <= serial' /\ t.id \notin gone
        BY <1>3, <3>1, <3>5
      <3>8. /\ doc.password <= serial' /\ doc.password # 0 /\ doc.password >= file.password
            /\ Begun(file)
        BY <1>1, <1>3, <1>4, <3>1, <3>3, <3>5
      <3> HIDE DEF doc
      <3> QED BY <1>1, <1>8, <2>2, <3>1, <3>3, <3>4, <3>5, <3>6, <3>7, <3>8, WriteKeeps
    <2> QED BY <1>8, <2>1, <2>2 DEF Logout
  <1>9. CASE req[r].op = "password" /\ ChangePassword(r)
    <2>1. CASE Refuse(r) BY <1>5, <2>1 DEF Refuse
    <2> DEFINE doc == [data EXCEPT !.password = n, !.sessions = With({}, n, n)]
    <2>2. CASE data.password # 0 /\ Write(r, doc, n)
      <3>1. /\ With({}, n, n) \in SUBSET Sess
            /\ \A s \in With({}, n, n) : s.under = n /\ s.id = n
        BY <1>2 DEF With, Sess
      <3>2. doc \in Doc /\ doc.password = n /\ doc.bootstrapToken = 0
            /\ doc.sessions = With({}, n, n)
        BY <1>2, <1>3, <2>2, <3>1 DEF Doc
      <3>3. n \notin gone BY <1>2 DEF IInv, Shape
      <3>4. serial' = n BY <1>2, <2>2 DEF Write
      <3>5. Ids(doc.sessions) \subseteq {n} BY <3>1, <3>2 DEF Ids
      <3>6. doc.password >= file.password /\ doc.password # 0 /\ doc.password <= n
        <4>1. file.password \in Nat BY <1>2 DEF Doc
        <4> QED BY <1>1, <1>2, <1>3, <1>4, <3>2, <4>1
      <3>7. Begun(file) BY <1>1, <2>2
      <3> HIDE DEF doc
      <3> QED BY <1>1, <1>2, <1>9, <2>2, <3>1, <3>2, <3>3, <3>4, <3>5, <3>6, <3>7, WriteKeeps
    <2> QED BY <1>9, <2>1, <2>2 DEF ChangePassword
  <1>10. req[r].op \in Ops BY DEF IInv, Shape, Asking
  <1> QED BY <1>6, <1>7, <1>8, <1>9, <1>10 DEF Decide, Ops

LEMMA CommitKeeps == ASSUME IInv, NEW r \in Requests, Commit(r) PROVE IInv'
  <1> DEFINE doc == req[r].data
  <1>1. /\ req[r].at = "writing" /\ file' = doc /\ UNCHANGED <<serial, cli, late>>
        /\ req' = [req EXCEPT ![r] = Idle]
    BY DEF Commit, Leave
  <1>2. /\ Sound(doc) /\ doc.password # 0 /\ Begun(file)
    BY <1>1 DEF IInv, Ready
  <1>3. \A c \in Clis : cli[c] # Nobody => c \in late
    BY <1>2 DEF IInv, Harmless
  <1>4. doc \in Doc /\ serial \in Nat BY DEF IInv, Shape, Asking
  <1>5. req' \in [Requests -> Asking] BY <1>1, IdleAsking DEF IInv, Shape
  <1>6. \A q \in Requests : req'[q].at \in {"idle", "queued"}
    BY <1>1, Alone, IdleAsking DEF IInv, Shape
  <1>7. \A m \in gone' : m \in Nat /\ m # 0 /\ m <= serial
    <2>1. req[r].op = "logout" => req[r].cookie \in Nat /\ req[r].cookie # 0
                                  /\ req[r].cookie <= serial
      BY <1>1 DEF IInv, Ready, Shape, Asking
    <2>2. \A m \in gone : m \in Nat /\ m # 0 /\ m <= serial BY DEF IInv, Shape
    <2> QED BY <1>4, <2>1, <2>2 DEF Commit
  <1>8. \A s \in doc.sessions : s.id \notin gone'
    <2> SUFFICES ASSUME NEW s \in doc.sessions PROVE s.id \notin gone'
      OBVIOUS
    <2>1. s.id \notin gone BY <1>2 DEF Sound
    <2>2. req[r].op = "logout" => s.id # req[r].cookie BY <1>1 DEF IInv, Ready, Ids
    <2>3. req[r].op = "password" => s.id = req[r].opens BY <1>1 DEF IInv, Ready, Ids
    <2> QED BY <2>1, <2>2, <2>3 DEF Commit
  <1>9. Shape' BY <1>1, <1>4, <1>5, <1>7 DEF IInv, Shape
  <1>10. Sound(file)' BY <1>1, <1>2, <1>8 DEF Sound
  <1>11. Turn' /\ Fresh' /\ Ready' BY <1>6 DEF Turn, Fresh, Ready
  <1>12. Harmless' BY <1>1, <1>3 DEF IInv, Harmless
  <1> QED BY <1>9, <1>10, <1>11, <1>12 DEF IInv

LEMMA CliReadKeeps == ASSUME IInv, NEW c \in Clis, CliRead(c) PROVE IInv'
  <1>1. /\ cli' = [cli EXCEPT ![c] = file]
        /\ UNCHANGED <<file, serial, req, running, gone, late>>
        /\ file.password = 0 /\ file.sessions = {} /\ ~Begun(file)
    BY DEF CliRead, IInv, Shape, Sound, Doc, Sess, Begun
  <1>2. Shape' BY <1>1 DEF IInv, Shape
  <1>3. Harmless'
    <2>1. \A d \in Clis \ {c} : cli'[d] = cli[d] BY <1>1 DEF IInv, Shape
    <2>2. cli'[c] = file BY <1>1 DEF IInv, Shape
    <2>3. Begun(file)' <=> Begun(file) BY <1>1 DEF Begun
    <2> QED BY <1>1, <2>1, <2>2, <2>3 DEF IInv, Harmless
  <1>4. Turn' /\ Sound(file)' BY <1>1 DEF IInv, Turn, Sound
  <1>5. Fresh' /\ Ready' BY <1>1 DEF IInv, Fresh, Ready, Sound, Begun
  <1> QED BY <1>2, <1>3, <1>4, <1>5 DEF IInv

(* Whatever was there, what a token command leaves is unclaimed and has a   *)
(* token; every other that has read is overtaken by it.                     *)
LEMMA CliWriteKeeps == ASSUME IInv, NEW c \in Clis, CliWrite(c) PROVE IInv'
  <1>1. cli[c] \in Doc /\ cli[c].password = 0 /\ cli[c].sessions = {} /\ serial \in Nat
    BY AuthAssumption DEF CliWrite, IInv, Harmless, Shape
  <1>2. /\ file' \in Doc /\ file'.password = 0 /\ file'.sessions = {}
        /\ file'.bootstrapToken = serial + 1
        /\ serial' = serial + 1 /\ UNCHANGED <<req, running, gone>>
        /\ cli' = [cli EXCEPT ![c] = Nobody]
        /\ late' = {d \in Clis \ {c} : cli[d] # Nobody}
    BY <1>1 DEF CliWrite, Doc
  <1>3. Shape' BY <1>1, <1>2 DEF IInv, Shape
  <1>4. Turn' BY <1>2 DEF IInv, Turn
  <1>5. Harmless'
    <2>1. cli'[c] = Nobody /\ \A d \in Clis \ {c} : cli'[d] = cli[d]
      BY <1>2 DEF IInv, Shape
    <2> QED BY <1>2, <2>1 DEF IInv, Harmless
  <1>6. Sound(file)' BY <1>1, <1>2 DEF Sound
  <1>7. Begun(file)' BY <1>1, <1>2 DEF Begun
  <1>8. \A doc \in Doc : Sound(doc) => Sound(doc)'
    BY <1>1, <1>2 DEF Sound, Doc, Sess
  <1>9. \A r \in Requests : req[r].data \in Doc /\ req'[r] = req[r] /\ req[r].data.password >= 0
    BY <1>2 DEF IInv, Shape, Asking, Doc
  <1>10. Fresh'
    BY <1>2, <1>7, <1>8, <1>9 DEF IInv, Fresh, Sound, Begun
  <1>11. Ready'
    <2> SUFFICES ASSUME NEW r \in Requests, req[r].at = "writing"
                 PROVE  /\ Sound(req[r].data)' /\ Begun(file)'
                        /\ req[r].data.password >= file'.password
                        /\ req[r].op = "logout" => req[r].cookie <= serial'
      BY <1>9 DEF IInv, Ready, Sound
    <2>1. req[r].cookie \in Nat BY DEF IInv, Shape, Asking
    <2> QED BY <1>1, <1>2, <1>7, <1>8, <1>9, <2>1 DEF IInv, Ready
  <1> QED BY <1>3, <1>4, <1>5, <1>6, <1>10, <1>11 DEF IInv

LEMMA RestartKeeps == ASSUME IInv, Restart PROVE IInv'
  <1>1. req' \in [Requests -> Asking] /\ \A r \in Requests : req'[r].at = "idle"
    BY IdleAsking DEF Restart
  <1> QED BY <1>1, QuietKeeps DEF Restart

LEMMA NextInv == IInv /\ [Next]_vars => IInv'
  <1> SUFFICES ASSUME IInv, [Next]_vars PROVE IInv'
    OBVIOUS
  <1>1. CASE UNCHANGED vars
    BY <1>1 DEF vars, IInv, Shape, Turn, Sound, Fresh, Ready, Harmless, Begun
  <1>2. ASSUME NEW r \in Requests, Step(r) PROVE IInv'
    <2>1. CASE CommitFails(r) BY <2>1, LeaveKeeps DEF CommitFails
    <2> QED BY <1>2, <2>1, BeginKeeps, LoadKeeps, DecideKeeps, CommitKeeps DEF Step
  <1>3. ASSUME NEW ip \in IPs, WindowPasses(ip) PROVE IInv'
    BY <1>3 DEF WindowPasses, IInv, Shape, Turn, Sound, Fresh, Ready, Harmless, Begun
  <1>4. ASSUME NEW id \in Names, Expire(id) PROVE IInv'
    BY <1>4 DEF Expire, IInv, Shape, Turn, Sound, Fresh, Ready, Harmless, Begun
  <1> QED BY <1>1, <1>2, <1>3, <1>4, ArriveKeeps, CliReadKeeps, CliWriteKeeps, RestartKeeps DEF Next

LEMMA Invariance == Spec => []IInv
  BY InitInv, NextInv, PTL DEF Spec

(* Every session on file was opened under the password on file, whatever    *)
(* logins and password changes were under way together (auth.js:363-364).   *)
THEOREM OldCredentialsStayDead == Spec => []OldCredentialsDie
  <1>1. IInv => OldCredentialsDie BY DEF IInv, Sound, OldCredentialsDie
  <1> QED BY <1>1, Invariance, PTL

(* A session that was signed out is never on file again, whatever was in    *)
(* flight when it was (auth.js:69-76).                                      *)
THEOREM SignedOutForGood == Spec => []SignedOutStaysOut
  <1>1. IInv => SignedOutStaysOut BY DEF IInv, Sound, SignedOutStaysOut, Ids
  <1> QED BY <1>1, Invariance, PTL

(* No write of the dashboard brings back an earlier password, an unclaimed  *)
(* box or a spent token, and none of a token command does, but of one that  *)
(* another token command has overtaken (auth.js:69-86, 127-139).            *)
THEOREM OldPasswordsStayOld == Spec => OldPasswordStaysOld
  <1> DEFINE Old == Forward \/ \E c \in late : CliWrite(c)
  <1>1. IInv /\ IInv' /\ [Next]_vars => [Old]_vars
    <2> SUFFICES ASSUME IInv, IInv', Next PROVE Old
      OBVIOUS
    <2>1. file'.password # 0 => file'.bootstrapToken = 0 BY DEF IInv, Sound
    <2>2. file.password >= file.password BY DEF IInv, Shape, Doc
    <2>3. CASE UNCHANGED file BY <2>1, <2>2, <2>3 DEF Forward
    <2>4. ASSUME NEW c \in Clis, CliWrite(c) PROVE Old
      <3>1. CASE c \in late BY <2>4, <3>1
      <3>2. CASE c \notin late
        <4>1. file.password = 0 /\ file'.password = 0
          BY <2>4, <3>2 DEF CliWrite, IInv, Harmless, Begun, Shape, Doc
        <4> QED BY <2>1, <4>1 DEF Forward
      <3> QED BY <3>1, <3>2
    <2>5. ASSUME NEW r \in Requests, Commit(r) PROVE Forward
      BY <2>1, <2>5 DEF Commit, IInv, Ready, Forward
    <2> QED
      BY <2>3, <2>4, <2>5 DEF Next, Step, Arrive, Begin, Load, Decide, CommitFails, CliRead,
                              Restart, WindowPasses, Expire
  <1> QED BY <1>1, Invariance, PTL DEF Spec, OldPasswordStaysOld

-----------------------------------------------------------------------------
(* Between the limit and the look at the password the count stays what it   *)
(* was: nobody else has a turn meanwhile.                                   *)
Attempts ==
    /\ failures \in [IPs -> Nat]
    /\ \A r \in Requests :
         req[r].at \in {"reading", "read"} /\ req[r].op = "login" => failures[req[r].ip] < FAIL_MAX

LEMMA BeginAttempts == ASSUME IInv, Attempts, NEW r \in Requests, Begin(r) PROVE Attempts'
  <1>1. running = Nobody
    BY DEF Begin, MyTurn
  <1>2. \A q \in Requests : req[q].at \in {"idle", "queued"}
    BY <1>1, AuthAssumption DEF IInv, Turn, Shape, Asking
  <1>3. req[r] \in Asking /\ req[r].ip \in IPs
    BY DEF IInv, Shape, Asking
  <1>4. failures' \in [IPs -> Nat]
    BY <1>3 DEF Begin, Count, Attempts
  <1>5. CASE req' = [req EXCEPT ![r] = Idle]
    <2>1. \A q \in Requests : req'[q].at \in {"idle", "queued"}
      BY <1>2, <1>5, IdleAsking DEF IInv, Shape
    <2> QED
      BY <1>4, <2>1 DEF Attempts
  <1>6. CASE req' = [req EXCEPT ![r].at = "reading"]
             /\ ~(Limited(r) /\ Count(req[r].ip) >= Limit(req[r].op))
    <2>1. \A q \in Requests \ {r} : req'[q] = req[q]
      BY <1>6 DEF IInv, Shape
    <2>2. req'[r].op = req[r].op /\ req'[r].ip = req[r].ip
      BY <1>3, <1>6 DEF IInv, Shape, Asking
    <2>3. req[r].op = "login" => failures'[req[r].ip] < FAIL_MAX
      <3> SUFFICES ASSUME req[r].op = "login" PROVE failures'[req[r].ip] < FAIL_MAX
        OBVIOUS
      <3>1. failures'[req[r].ip] = Count(req[r].ip)
        BY <1>3 DEF Begin, Limited, Attempts
      <3>2. Count(req[r].ip) \in Nat
        BY <1>3 DEF Count, Attempts
      <3>3. ~(Count(req[r].ip) >= FAIL_MAX)
        BY <1>6 DEF Limited, Limit
      <3> QED
        BY <3>1, <3>2, <3>3, AuthAssumption
    <2> QED
      BY <1>2, <1>4, <2>1, <2>2, <2>3 DEF Attempts
  <1> QED
    BY <1>5, <1>6 DEF Begin

(* The request whose turn it was is past the look.                          *)
LEMMA DecideAttempts == ASSUME IInv, Attempts, NEW r \in Requests, Decide(r) PROVE Attempts'
  <1>1. req[r].at = "read"
    BY DEF Decide
  <1>2. \A q \in Requests \ {r} : req[q].at \in {"idle", "queued"}
    BY <1>1, Alone
  <1>3. req[r].ip \in IPs
    BY DEF IInv, Shape, Asking
  <1>4. failures' \in [IPs -> Nat]
    <2>1. UNCHANGED failures \/ NoteFailure(r) \/ Forgive(r)
      BY DEF Decide, Claim, Login, Logout, ChangePassword, IInv, Shape, Asking, Ops
    <2> QED
      BY <1>3, <2>1 DEF NoteFailure, Forgive, Attempts
  <1>5. (\E ok : Leave(r, ok)) \/ (\E doc, opens : Write(r, doc, opens))
    BY DEF Decide, Claim, Login, Logout, ChangePassword, Refuse, IInv, Shape, Asking, Ops
  <1>6. /\ \A q \in Requests \ {r} : req'[q] = req[q]
        /\ req'[r].at \in {"idle", "writing"}
    <2>1. CASE \E ok : Leave(r, ok)
      BY <2>1, IdleAsking DEF Leave, IInv, Shape
    <2>2. CASE \E doc, opens : Write(r, doc, opens)
      BY <2>2 DEF Write, IInv, Shape, Asking
    <2> QED
      BY <1>5, <2>1, <2>2
  <1> QED
    BY <1>2, <1>4, <1>6 DEF Attempts

LEMMA StepAttempts == IInv /\ Attempts /\ [Next]_vars => Attempts'
  <1> SUFFICES ASSUME IInv, Attempts, [Next]_vars PROVE Attempts'
    OBVIOUS
  <1>1. ASSUME NEW r \in Requests, Step(r) PROVE Attempts'
    <2>1. CASE Load(r)
      BY <2>1 DEF Load, Attempts, IInv, Shape, Asking
    <2>2. CASE Commit(r) \/ CommitFails(r)
      BY <2>2, IdleAsking DEF Commit, CommitFails, Leave, Attempts, IInv, Shape
    <2> QED
      BY <1>1, <2>1, <2>2, BeginAttempts, DecideAttempts DEF Step
  <1>2. ASSUME NEW r \in Requests, NEW op \in Ops, NEW ip \in IPs,
               NEW cookie \in 0..serial, NEW knows \in 0..serial, Arrive(r, op, ip, cookie, knows)
        PROVE  Attempts'
    BY <1>2 DEF Arrive, At, Attempts, IInv, Shape
  <1>3. CASE Restart
    BY <1>3, IdleAsking DEF Restart, Attempts
  <1>4. ASSUME UNCHANGED vars \/ \E c \in Clis : CliRead(c) \/ CliWrite(c) PROVE Attempts'
    BY <1>4 DEF CliRead, CliWrite, vars, Attempts
  <1>5. ASSUME NEW ip \in IPs, WindowPasses(ip) PROVE Attempts'
    BY <1>5 DEF WindowPasses, Attempts
  <1>6. ASSUME NEW id \in Names, Expire(id) PROVE Attempts'
    BY <1>6 DEF Expire, Attempts
  <1> QED
    BY <1>1, <1>2, <1>3, <1>4, <1>5, <1>6 DEF Next

(* No password is looked at for an address that has used up its attempts,   *)
(* however many of its requests wait at once (auth.js:273-287, 316-327).    *)
THEOREM GuessesAlwaysLimited == Spec => []GuessesLimited
  <1>1. Init => Attempts
    BY IdleAsking DEF Init, Attempts
  <1>2. Attempts => GuessesLimited
    BY DEF Attempts, GuessesLimited
  <1> QED
    BY <1>1, <1>2, Invariance, StepAttempts, PTL DEF Spec

=============================================================================
