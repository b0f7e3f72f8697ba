---------------------------- MODULE DialogsProofs ----------------------------
(***************************************************************************)
(* What the dialogs and the file beneath them promise, for any number of    *)
(* writers, containers, keys and resets.                                    *)
(***************************************************************************)
EXTENDS Dialogs, FiniteSetTheorems, FunctionTheorems, SequenceTheorems, TLAPS

-----------------------------------------------------------------------------
(* A state file. With a temporary name for each write, a file is written by *)
(* one write only and never again once it has been renamed: so every file a *)
(* reader can have open is whole, and stays it.                             *)

(* What a write has put in its file so far.                                 *)
Progress(x) ==
    /\ w[x].fd # 0 /\ temp[x] = w[x].fd
    /\ w[x].at = "open" => content[w[x].fd] = Blank
    /\ w[x].at = "half" => content[w[x].fd] = <<x, Nobody>>
    /\ w[x].at = "written" => content[w[x].fd] = Doc(x)

(* A file that no write will touch again.                                   *)
Settled(f) == Whole(content[f]) /\ f <= files /\ \A x \in Writers : temp[x] # 0 => temp[x] # f

FileInv ==
    /\ TypeOK
    /\ \A x \in Writers : temp[x] <= files
    /\ \A x \in Writers : IF w[x].at = "idle" THEN temp[x] = 0 ELSE Progress(x)
    /\ \A x, y \in Writers : x # y /\ temp[x] # 0 => temp[x] # temp[y]
    /\ Settled(target)
    /\ \A x \in Readers :
         /\ r[x].at # "idle" => Settled(r[x].fd)
         /\ r[x].at = "half" => r[x].saw[1] = content[r[x].fd][1]
         /\ r[x].at = "done" => r[x].saw = content[r[x].fd]

LEMMA FileInit == Init => FileInv
  <1> SUFFICES ASSUME Init PROVE FileInv
    OBVIOUS
  <1>1. PICK z \in Writers : content = [f \in 0..MaxFiles |-> IF f = 0 THEN Doc(z) ELSE Blank]
    BY DEF Init
  <1>2. TypeOK
    BY <1>1, StateFileAssumption DEF Init, TypeOK, Doc, Blank, Halves
  <1>3. content[0] = Doc(z) BY <1>1, StateFileAssumption
  <1>4. Settled(target)
    <2>1. Whole(content[0]) BY <1>3 DEF Whole
    <2>2. target = 0 /\ files = 0 /\ \A x \in Writers : temp[x] = 0 BY DEF Init
    <2> QED BY <2>1, <2>2 DEF Settled
  <1>5. \A x \in Writers : temp[x] = 0 /\ w[x].at = "idle" BY DEF Init
  <1>6. \A x \in Readers : r[x].at = "idle" BY DEF Init
  <1>7. files = 0 BY DEF Init
  <1> QED BY <1>2, <1>4, <1>5, <1>6, <1>7 DEF FileInv

(* A step that settles no file and touches no settled one keeps every       *)
(* settled file settled.                                                    *)
LEMMA StaysSettled ==
  ASSUME NEW f, Settled(f), files \in Nat, files' \in Nat, files' >= files, f \in Nat,
         content'[f] = content[f],
         \A x \in Writers : temp'[x] # 0 => temp'[x] = temp[x] \/ temp'[x] > files
  PROVE  Settled(f)'
  BY DEF Settled, Whole

LEMMA OpenKeeps == ASSUME FileInv, Unique, NEW x \in Writers, Open(x) PROVE FileInv'
  <1>1. /\ w[x].at = "idle" /\ temp[x] = 0 /\ files < MaxFiles /\ files' = files + 1
        /\ temp' = [temp EXCEPT ![x] = files + 1]
        /\ UNCHANGED <<target, r>>
    BY DEF Open, Tmp, FileInv
  <1>2. temp'[x] = files + 1 BY <1>1 DEF FileInv, TypeOK
  <1>3. /\ w' = [w EXCEPT ![x] = [at |-> "open", fd |-> files + 1]]
        /\ content' = [content EXCEPT ![files + 1] = Blank]
        /\ told' = [told EXCEPT ![x] = "none"]
    BY <1>1, <1>2 DEF Open, Tmp
  <1>4. files \in Nat /\ MaxFiles \in Nat /\ files + 1 \in 0..MaxFiles
    BY <1>1, StateFileAssumption DEF FileInv, TypeOK
  <1>5. TypeOK'
    BY <1>1, <1>3, <1>4 DEF FileInv, TypeOK, Blank, Halves
  <1>6. content'[files + 1] = Blank /\ \A f \in 0..files : content'[f] = content[f]
    BY <1>3, <1>4 DEF FileInv, TypeOK
  <1>7. \A y \in Writers \ {x} : temp'[y] = temp[y] /\ w'[y] = w[y]
    BY <1>1, <1>3 DEF FileInv, TypeOK
  <1>8. \A f : Settled(f) /\ f \in Nat => Settled(f)'
    <2> TAKE f
    <2> HAVE Settled(f) /\ f \in Nat
    <2>1. f \in 0..files BY <1>4 DEF Settled
    <2>2. \A y \in Writers : temp'[y] # 0 => temp'[y] = temp[y] \/ temp'[y] > files
      BY <1>2, <1>4, <1>7
    <2> QED BY <1>1, <1>4, <1>6, <2>1, <2>2, StaysSettled
  <1>9. \A y \in Writers : temp'[y] <= files'
    BY <1>1, <1>2, <1>4, <1>7 DEF FileInv, TypeOK
  <1>10. \A y \in Writers : IF w'[y].at = "idle" THEN temp'[y] = 0 ELSE Progress(y)'
    <2> TAKE y \in Writers
    <2>1. CASE y = x
      <3>1. w'[x] = [at |-> "open", fd |-> files + 1] BY <1>3 DEF FileInv, TypeOK
      <3> QED BY <1>2, <1>4, <1>6, <2>1, <3>1 DEF Progress
    <2>2. CASE y # x
      <3>1. w[y].at # "idle" => w[y].fd \in 0..files
        BY DEF FileInv, Progress, TypeOK
      <3> QED BY <1>6, <1>7, <2>2, <3>1 DEF FileInv, Progress, Doc
    <2> QED BY <2>1, <2>2
  <1>11. \A y, z \in Writers : y # z /\ temp'[y] # 0 => temp'[y] # temp'[z]
    <2>1. \A y \in Writers : temp[y] \in Nat /\ temp[y] <= files BY DEF FileInv, TypeOK
    <2> QED BY <1>2, <1>4, <1>7, <2>1 DEF FileInv
  <1>12. Settled(target)' BY <1>1, <1>8 DEF FileInv, TypeOK
  <1>13. ASSUME NEW y \in Readers
         PROVE  /\ r'[y].at # "idle" => Settled(r[y].fd)'
                /\ r'[y].at = "half" => r'[y].saw[1] = content'[r'[y].fd][1]
                /\ r'[y].at = "done" => r'[y].saw = content'[r'[y].fd]
    <2>1. r'[y] = r[y] /\ r[y].fd \in Nat BY <1>1 DEF FileInv, TypeOK
    <2>2. r[y].at # "idle" => Settled(r[y].fd) /\ r[y].fd \in 0..files
      BY <1>4, <2>1 DEF FileInv, Settled
    <2>3. r[y].at # "idle" => Settled(r[y].fd)' BY <1>8, <2>1, <2>2
    <2> QED BY <1>1, <1>6, <2>1, <2>2, <2>3 DEF FileInv
  <1> QED BY <1>1, <1>5, <1>9, <1>10, <1>11, <1>12, <1>13 DEF FileInv

(* A write with a file open has it under its own name, and nobody settled   *)
(* on it.                                                                   *)
LEMMA HasItsOwn ==
  ASSUME FileInv, NEW x \in Writers, w[x].at # "idle"
  PROVE  /\ w[x].fd \in 1..files /\ temp[x] = w[x].fd
         /\ ~Settled(w[x].fd)
         /\ \A y \in Writers \ {x} : w[y].at # "idle" => w[y].fd # w[x].fd
         /\ target # w[x].fd
         /\ \A y \in Readers : r[y].at # "idle" => r[y].fd # w[x].fd
  <1>1. Progress(x) BY DEF FileInv
  <1>2. temp[x] # 0 /\ temp[x] = w[x].fd BY <1>1 DEF Progress
  <1>3. w[x].fd \in Nat /\ files \in Nat BY StateFileAssumption DEF FileInv, TypeOK
  <1>4. ~Settled(w[x].fd) BY <1>2 DEF Settled
  <1>5. \A y \in Writers \ {x} : w[y].at # "idle" => w[y].fd # w[x].fd
    BY <1>2 DEF FileInv, Progress
  <1>6. target # w[x].fd BY <1>4 DEF FileInv
  <1>7. \A y \in Readers : r[y].at # "idle" => r[y].fd # w[x].fd BY <1>4 DEF FileInv
  <1>8. temp[x] <= files BY DEF FileInv
  <1> QED BY <1>2, <1>3, <1>4, <1>5, <1>6, <1>7, <1>8

LEMMA FillKeeps == ASSUME FileInv, NEW x \in Writers, Fill(x) PROVE FileInv'
  <1> DEFINE f == w[x].fd
             i == IF w[x].at = "open" THEN 1 ELSE 2
             c == [content[f] EXCEPT ![i] = x]
  <1>1. w[x].at \in {"open", "half"} /\ UNCHANGED <<target, temp, files, r, told>>
    BY DEF Fill
  <1>2. f \in 0..MaxFiles /\ f \in 1..files /\ files \in Nat
    BY <1>1, HasItsOwn, StateFileAssumption DEF FileInv, TypeOK
  <1>3. content[f] \in Halves \X Halves BY <1>2 DEF FileInv, TypeOK
  <1>4. content' = [content EXCEPT ![f] = c] BY DEF Fill
  <1>5. c \in Halves \X Halves BY <1>3 DEF Halves
  <1>6. content' \in [0..MaxFiles -> Halves \X Halves] BY <1>2, <1>4, <1>5 DEF FileInv, TypeOK
  <1>7. content'[f] = c /\ \A g \in 0..MaxFiles : g # f => content'[g] = content[g]
    BY <1>2, <1>4 DEF FileInv, TypeOK
  <1>8. Progress(x) /\ temp[x] = f BY <1>1 DEF FileInv, Progress
  <1>9. c = IF w[x].at = "open" THEN <<x, Nobody>> ELSE Doc(x)
    BY <1>1, <1>8, <1>3 DEF Progress, Blank, Doc
  <1>10. w' = [w EXCEPT ![x].at = IF w[x].at = "open" THEN "half" ELSE "written"]
    BY <1>1 DEF Fill
  <1>11. /\ w' \in [Writers -> [at : {"idle", "open", "half", "written"}, fd : 0..MaxFiles]]
         /\ w'[x].at = IF w[x].at = "open" THEN "half" ELSE "written"
         /\ w'[x].fd = f
         /\ \A y \in Writers \ {x} : w'[y] = w[y]
    <2>1. w \in [Writers -> [at : {"idle", "open", "half", "written"}, fd : 0..MaxFiles]]
      BY DEF FileInv, TypeOK
    <2> HIDE DEF f
    <2>2. w[x].fd = f BY DEF f
    <2> QED BY <1>10, <2>1, <2>2
  <1>12. TypeOK' BY <1>1, <1>6, <1>11 DEF FileInv, TypeOK
  <1>13. \A g \in 0..MaxFiles : g # f /\ Settled(g) => Settled(g)'
    BY <1>1, <1>7 DEF Settled, Whole
  <1>14. \A y \in Writers : IF w'[y].at = "idle" THEN temp'[y] = 0 ELSE Progress(y)'
    <2> TAKE y \in Writers
    <2>1. CASE y = x
      <3>1. temp'[x] = f /\ f # 0 BY <1>1, <1>2, <1>8
      <3> QED BY <1>1, <1>7, <1>9, <1>11, <2>1, <3>1 DEF Progress
    <2>2. CASE y # x
      <3>1. w[y].at # "idle" => w[y].fd # f BY <1>1, <2>2, HasItsOwn
      <3>2. w[y].fd \in 0..MaxFiles BY DEF FileInv, TypeOK
      <3>3. w[y].at # "idle" => content'[w[y].fd] = content[w[y].fd] BY <1>7, <3>1, <3>2
      <3>4. w'[y] = w[y] /\ temp'[y] = temp[y] BY <1>1, <1>11, <2>2
      <3> QED BY <3>3, <3>4 DEF FileInv, Progress, Doc
    <2> QED BY <2>1, <2>2
  <1>15. Settled(target)'
    <2>1. target # f /\ target \in 0..MaxFiles /\ Settled(target) /\ target' = target
      BY <1>1, HasItsOwn DEF FileInv, TypeOK
    <2>2. \A y \in Writers : temp'[y] = temp[y] BY <1>1
    <2> QED BY <1>1, <1>7, <2>1, <2>2 DEF Settled, Whole
  <1>16. ASSUME NEW y \in Readers
         PROVE  /\ r'[y].at # "idle" => Settled(r[y].fd)'
                /\ r'[y].at = "half" => r'[y].saw[1] = content'[r'[y].fd][1]
                /\ r'[y].at = "done" => r'[y].saw = content'[r'[y].fd]
    <2>1. r'[y] = r[y] /\ r[y].fd \in 0..MaxFiles BY <1>1 DEF FileInv, TypeOK
    <2>2. r[y].at # "idle" => r[y].fd # f /\ Settled(r[y].fd) BY <1>1, HasItsOwn DEF FileInv
    <2>3. r[y].at # "idle" => content'[r[y].fd] = content[r[y].fd] BY <1>7, <2>1, <2>2
    <2>4. r[y].at # "idle" => Settled(r[y].fd)'
      BY <1>1, <2>1, <2>2, <2>3 DEF Settled, Whole
    <2> QED BY <2>1, <2>3, <2>4 DEF FileInv
  <1> QED BY <1>1, <1>12, <1>14, <1>15, <1>16 DEF FileInv

(* A step that writes nothing and gives out no name.                        *)
LEMMA QuietKeeps ==
  ASSUME FileInv, TypeOK', UNCHANGED <<content, files>>,
         \A x \in Writers : \/ temp'[x] = 0 /\ w'[x].at = "idle"
                            \/ temp'[x] = temp[x] /\ w'[x] = w[x],
         target' = target \/ \E x \in Writers : /\ Progress(x) /\ w[x].at = "written"
                                                /\ target' = temp[x] /\ temp'[x] = 0,
         \A y \in Readers :
           \/ r'[y] = r[y]
           \/ r'[y].at = "idle"
           \/ /\ r'[y].fd = target \/ (r'[y].fd = r[y].fd /\ r[y].at # "idle")
              /\ r'[y].at = "half" => r'[y].saw[1] = content[r'[y].fd][1]
              /\ r'[y].at = "done" => r'[y].saw = content[r'[y].fd]
  PROVE  FileInv'
  <1>1. \A x \in Writers : temp'[x] # 0 => temp'[x] = temp[x] /\ w'[x] = w[x]
    OBVIOUS
  <1>2. \A f : Settled(f) => Settled(f)' BY <1>1 DEF Settled, Whole
  <1>3. \A x \in Writers : temp'[x] <= files'
    <2>1. files \in Nat BY DEF FileInv, TypeOK
    <2> QED BY <1>1, <2>1 DEF FileInv
  <1>4. \A x \in Writers : IF w'[x].at = "idle" THEN temp'[x] = 0 ELSE Progress(x)'
    BY DEF FileInv, Progress, Doc
  <1>5. \A x, y \in Writers : x # y /\ temp'[x] # 0 => temp'[x] # temp'[y]
    BY DEF FileInv
  <1>6. Settled(target)'
    <2>1. CASE target' = target BY <1>2, <2>1 DEF FileInv, Settled, Whole
    <2>2. ASSUME NEW x \in Writers, Progress(x), w[x].at = "written",
                 target' = temp[x], temp'[x] = 0
          PROVE  Settled(target)'
      <3>1. content'[target'] = Doc(x) BY <2>2 DEF Progress
      <3>2. Whole(content[target])' BY <3>1 DEF Whole, Doc
      <3>3. target' <= files' BY <2>2 DEF FileInv
      <3>4. \A y \in Writers : temp'[y] # 0 => temp'[y] # target' BY <1>1, <2>2 DEF FileInv
      <3> QED BY <3>2, <3>3, <3>4 DEF Settled
    <2> QED BY <2>1, <2>2
  <1>7. ASSUME NEW y \in Readers
        PROVE  /\ r'[y].at # "idle" => Settled(r[y].fd)'
               /\ r'[y].at = "half" => r'[y].saw[1] = content'[r'[y].fd][1]
               /\ r'[y].at = "done" => r'[y].saw = content'[r'[y].fd]
    <2>1. r'[y].at # "idle" => Settled(r'[y].fd) BY DEF FileInv
    <2>2. ASSUME NEW f, f = r'[y].fd, Settled(f) PROVE Settled(r[y].fd)'
      BY <1>1, <2>2 DEF Settled, Whole
    <2> QED BY <2>1, <2>2 DEF FileInv
  <1> QED BY <1>3, <1>4, <1>5, <1>6, <1>7 DEF FileInv

LEMMA FillFailsKeeps == ASSUME FileInv, Unique, NEW x \in Writers, FillFails(x) PROVE FileInv'
  <1>1. /\ w' = [w EXCEPT ![x] = [at |-> "idle", fd |-> 0]]
        /\ temp' = [temp EXCEPT ![x] = 0] /\ told' = [told EXCEPT ![x] = "error"]
        /\ UNCHANGED <<target, content, files, r>>
    BY DEF FillFails, Tmp
  <1>2. TypeOK' BY <1>1, StateFileAssumption DEF FileInv, TypeOK
  <1>3. \A y \in Writers : \/ temp'[y] = 0 /\ w'[y].at = "idle"
                           \/ temp'[y] = temp[y] /\ w'[y] = w[y]
    BY <1>1 DEF FileInv, TypeOK
  <1> QED BY <1>1, <1>2, <1>3, QuietKeeps

LEMMA RenameKeeps == ASSUME FileInv, Unique, NEW x \in Writers, Rename(x) PROVE FileInv'
  <1>1. Progress(x) /\ w[x].at = "written" BY DEF Rename, FileInv
  <1>2. temp[x] # 0 BY <1>1 DEF Progress
  <1>3. /\ w' = [w EXCEPT ![x] = [at |-> "idle", fd |-> 0]]
        /\ target' = temp[x] /\ temp' = [temp EXCEPT ![x] = 0]
        /\ told' = [told EXCEPT ![x] = "ok"] /\ UNCHANGED <<content, files, r>>
    BY <1>2 DEF Rename, Tmp
  <1>4. TypeOK' BY <1>3, StateFileAssumption DEF FileInv, TypeOK
  <1>5. \A y \in Writers : \/ temp'[y] = 0 /\ w'[y].at = "idle"
                           \/ temp'[y] = temp[y] /\ w'[y] = w[y]
    BY <1>3 DEF FileInv, TypeOK
  <1>6. temp'[x] = 0 BY <1>3 DEF FileInv, TypeOK
  <1> QED BY <1>1, <1>3, <1>4, <1>5, <1>6, QuietKeeps

LEMMA ReadOpenKeeps == ASSUME FileInv, NEW x \in Readers, ReadOpen(x) PROVE FileInv'
  <1>1. /\ r' = [r EXCEPT ![x] = [at |-> "open", fd |-> target, saw |-> Blank]]
        /\ UNCHANGED <<target, temp, content, files, w, told>>
    BY DEF ReadOpen
  <1>2. TypeOK' BY <1>1 DEF FileInv, TypeOK, Blank, Halves
  <1>3. \A y \in Readers : r'[y] = r[y] \/ (r'[y].at = "open" /\ r'[y].fd = target)
    BY <1>1 DEF FileInv, TypeOK
  <1> QED BY <1>1, <1>2, <1>3, QuietKeeps

LEMMA ReadKeeps == ASSUME FileInv, NEW x \in Readers, Read(x) PROVE FileInv'
  <1> DEFINE f == r[x].fd
             i == IF r[x].at = "open" THEN 1 ELSE 2
             c == [r[x].saw EXCEPT ![i] = content[f][i]]
             at == IF r[x].at = "open" THEN "half" ELSE "done"
  <1>1. r[x].at \in {"open", "half"} /\ UNCHANGED <<target, temp, content, files, w, told>>
    BY DEF Read
  <1>2. /\ r[x] \in [at : {"idle", "open", "half", "done"}, fd : 0..MaxFiles,
                      saw : Halves \X Halves]
        /\ content[f] \in Halves \X Halves
    BY DEF FileInv, TypeOK
  <1>3. c \in Halves \X Halves BY <1>2
  <1>5. r' = [r EXCEPT ![x] = [at |-> at, fd |-> f, saw |-> c]]
    BY DEF Read
  <1>6. TypeOK' BY <1>1, <1>2, <1>3, <1>5 DEF FileInv, TypeOK
  <1>7. r'[x] = [at |-> at, fd |-> f, saw |-> c] /\ \A y \in Readers \ {x} : r'[y] = r[y]
    BY <1>5 DEF FileInv, TypeOK
  <1>8. CASE r[x].at = "open"
    <2>1. c[1] = content[f][1] BY <1>2, <1>8
    <2>2. r'[x].at = "half" /\ r'[x].fd = r[x].fd /\ r'[x].saw[1] = content[r'[x].fd][1]
      BY <1>7, <1>8, <2>1
    <2> HIDE DEF f, i, c, at
    <2> QED BY <1>1, <1>6, <1>7, <1>8, <2>2, QuietKeeps
  <1>9. CASE r[x].at = "half"
    <2>1. r[x].saw[1] = content[f][1] BY <1>9 DEF FileInv
    <2>2. c = content[f] BY <1>2, <1>9, <2>1
    <2> QED BY <1>1, <1>6, <1>7, <1>9, <2>2, QuietKeeps
  <1> QED BY <1>1, <1>8, <1>9

LEMMA CrashKeeps == ASSUME FileInv, Unique, Crash PROVE FileInv'
  <1>1. /\ w' = [x \in Writers |-> [at |-> "idle", fd |-> 0]]
        /\ r' = [x \in Readers |-> [at |-> "idle", fd |-> 0, saw |-> Blank]]
        /\ temp' = [x \in Writers |-> 0] /\ told' = [x \in Writers |-> "none"]
        /\ UNCHANGED <<target, content, files>>
    BY DEF Crash
  <1>2. TypeOK' BY <1>1, StateFileAssumption DEF FileInv, TypeOK, Blank, Halves
  <1> QED BY <1>1, <1>2, QuietKeeps

LEMMA FileStep == ASSUME FileInv, Unique, [Next]_vars PROVE FileInv'
  <1>1. CASE UNCHANGED vars
    <2>1. TypeOK' BY <1>1 DEF vars, FileInv, TypeOK
    <2> QED BY <1>1, <2>1, QuietKeeps DEF vars
  <1> QED
    BY <1>1, OpenKeeps, FillKeeps, FillFailsKeeps, RenameKeeps, ReadOpenKeeps, ReadKeeps,
       CrashKeeps DEF Next

LEMMA FileInvariance == ASSUME Unique PROVE Spec => []FileInv
  <1>1. FileInv /\ [Next]_vars => FileInv' BY FileStep
  <1> QED BY <1>1, FileInit, PTL DEF Spec

(* No read of a state file ever gets part of a document, or parts of two:   *)
(* for any number of writeJson and readJson calls, crashes and full disks.  *)
THEOREM ReadersSeeWhole == ASSUME Unique PROVE Spec => []ReadsWhole
  <1>1. FileInv => ReadsWhole BY DEF FileInv, ReadsWhole, Settled
  <1> QED BY <1>1, FileInvariance, PTL

(* The renames are the moments of an atomic file; every other step is       *)
(* either invisible or about who was told what.                             *)
LEMMA PromiseStep ==
  ASSUME Unique, FileInv, [Next]_vars
  PROVE  [Promise!Next]_<<content[target], told>>
  <1>1. target \in 0..MaxFiles /\ told \in [Writers -> {"none", "ok", "error"}]
    BY DEF FileInv, TypeOK
  <1>2. ASSUME NEW x \in Writers, Open(x) PROVE [Promise!Next]_<<content[target], told>>
    <2>1. temp[x] = 0 /\ files \in Nat /\ files < MaxFiles /\ temp' = [temp EXCEPT ![x] = files + 1]
      BY <1>2 DEF Open, Tmp, FileInv, TypeOK
    <2>2. temp'[x] = files + 1 BY <2>1 DEF FileInv, TypeOK
    <2>3. content' = [content EXCEPT ![files + 1] = Blank] BY <1>2, <2>2 DEF Open, Tmp
    <2>4. target # files + 1 BY <2>1 DEF FileInv, Settled, TypeOK
    <2>5. content'[target'] = content[target] BY <1>2, <2>3, <2>4 DEF Open, FileInv, TypeOK
    <2>6. told' = [told EXCEPT ![x] = "none"] BY <1>2 DEF Open
    <2> QED BY <2>5, <2>6 DEF Promise!Next, Promise!Start
  <1>3. ASSUME NEW x \in Writers, Fill(x) PROVE UNCHANGED <<content[target], told>>
    <2>1. target # w[x].fd BY <1>3, HasItsOwn DEF Fill
    <2> QED BY <1>1, <1>3, <2>1 DEF Fill, FileInv, TypeOK
  <1>4. ASSUME NEW x \in Writers, FillFails(x) PROVE Promise!Fail(x)
    BY <1>4 DEF FillFails, Promise!Fail
  <1>5. ASSUME NEW x \in Writers, Rename(x) PROVE Promise!Put(x)
    <2>1. Progress(x) /\ w[x].at = "written" BY <1>5 DEF Rename, FileInv
    <2>2. temp[x] # 0 /\ content[temp[x]] = Doc(x) BY <2>1 DEF Progress
    <2>3. target' = temp[x] /\ content' = content /\ told' = [told EXCEPT ![x] = "ok"]
      BY <1>5, <2>2 DEF Rename, Tmp
    <2> QED BY <2>2, <2>3 DEF Promise!Put
  <1>6. ASSUME NEW x \in Readers, ReadOpen(x) \/ Read(x) PROVE UNCHANGED <<content[target], told>>
    BY <1>6 DEF ReadOpen, Read
  <1>7. CASE Crash BY <1>7 DEF Crash, Promise!Next, Promise!Forget
  <1>8. CASE UNCHANGED vars BY <1>8 DEF vars
  <1> QED
    BY <1>2, <1>3, <1>4, <1>5, <1>6, <1>7, <1>8
       DEF Next, Promise!Next, Promise!Put, Promise!Fail

(* The temp-and-rename protocol of writeJson implements an atomic file.     *)
THEOREM PromiseKept == ASSUME Unique PROVE Spec => KeepsPromise
  <1>1. Init => Promise!Init
    <2> SUFFICES ASSUME Init PROVE Promise!Init
      OBVIOUS
    <2>1. PICK z \in Writers : content = [f \in 0..MaxFiles |-> IF f = 0 THEN Doc(z) ELSE Blank]
      BY DEF Init
    <2>2. content[target] = Doc(z) BY <2>1, StateFileAssumption DEF Init
    <2> QED BY <2>2 DEF Init, Promise!Init
  <1>2. FileInv /\ [Next]_vars => [Promise!Next]_<<content[target], told>> BY PromiseStep
  <1> QED BY <1>1, <1>2, FileInvariance, PTL DEF Spec, KeepsPromise, Promise!Spec
-----------------------------------------------------------------------------
(* Settings. Whatever step leaves a container with another value than the   *)
(* file's, the container is by then among those that are to be brought up,  *)
(* or that somebody was told of, or that are left out by name (Told).       *)

SaveShape ==
    /\ DOMAIN made = Installable \cup {"dashboard"} /\ has \subseteq Installable
    /\ \/ save = Settings!NoReq
       \/ /\ DOMAIN save = {"at", "login", "tab", "new", "folders", "todo", "done", "failed", "manual"}
          /\ save.at \in {"login", "save", "list", "apply"} /\ save.manual \subseteq {"dashboard"}
    /\ save.at \in {"login", "save"} => save.todo = {}
    /\ save.at # "apply" => save.done = {} /\ save.failed = {} /\ save.manual = {}
    /\ save.done \cap save.todo = {}

Told ==
    \A a \in Settings!Containers : Settings!Behind(a) =>
        \/ a \in owed \cup untold
        \/ a = "dashboard" /\ again
        \/ a \in save.todo \cup save.failed \cup save.manual

(* The answer takes a container that was brought up off those that are owed.*)
DoneIsMade ==
    \A a \in save.done \cap Settings!Containers : Settings!Behind(a) =>
        a \in untold \/ (a = "dashboard" /\ again)

SaveInv == SaveShape /\ Told /\ DoneIsMade

LEMMA SaveInit == Settings!Init => SaveInv
  <1> SUFFICES ASSUME Settings!Init PROVE SaveInv
    OBVIOUS
  <1>1. \A a \in Installable \cup {"dashboard"} : made[a] = file
    BY DEF Settings!Init
  <1>2. save = Settings!NoReq /\ save.at = "none" /\ save.todo = {} /\ save.done = {}
        /\ save.failed = {} /\ save.manual = {}
    BY DEF Settings!Init, Settings!NoReq
  <1>3. \A a \in Settings!Containers : ~Settings!Behind(a)
    BY <1>1 DEF Settings!Init, Settings!Containers, Settings!Behind
  <1>4. SaveShape
    BY <1>2 DEF Settings!Init, SaveShape
  <1> QED
    BY <1>2, <1>3, <1>4 DEF SaveInv, Told, DoneIsMade

LEMMA NothingAsked ==
    /\ Settings!NoReq.at = "none" /\ Settings!NoReq.todo = {} /\ Settings!NoReq.done = {}
    /\ Settings!NoReq.failed = {} /\ Settings!NoReq.manual = {}
  BY DEF Settings!NoReq

(* A step that changes neither the file nor a container, and ends a save at *)
(* most before there is anything to bring up.                               *)
LEMMA PageHolds ==
  ASSUME SaveInv, UNCHANGED <<file, made, has, again, owed, untold>>, SaveShape',
         \/ save' = save
         \/ save.at \in {"none", "login", "save"} /\ save'.at \in {"none", "login", "save"}
  PROVE  SaveInv'
  <1>1. save' = save \/ (save.todo = {} /\ save.failed = {} /\ save.manual = {} /\ save'.done = {})
    BY NothingAsked DEF SaveInv, SaveShape
  <1>2. (\A a : Settings!Behind(a)' <=> Settings!Behind(a)) /\ Settings!Containers' = Settings!Containers
    BY DEF Settings!Behind, Settings!Containers
  <1>3. Told'
    BY <1>1, <1>2 DEF SaveInv, Told
  <1>4. DoneIsMade'
    BY <1>1, <1>2 DEF SaveInv, DoneIsMade
  <1> QED
    BY <1>3, <1>4 DEF SaveInv

LEMMA TellHolds ==
  ASSUME SaveInv,
         \/ Settings!Tell
         \/ \E t \in Editors : Settings!Save(t)
         \/ \E t \in Editors : Settings!Load(t) \/ Settings!Discard(t)
         \/ \E t \in Editors, k \in Settings!Keys, v \in Values : Settings!Type(t, k, v)
         \/ \E k \in Settings!LoginKeys, v \in Values \ {Bad} : Settings!ChangeInApp(k, v)
         \/ \E k \in Settings!LoginKeys : Settings!StopOrStart(k)
         \/ UNCHANGED Settings!vars
  PROVE  SaveInv'
  <1>1. CASE Settings!Tell
    <2>1. save.at = "login" /\ UNCHANGED <<file, made, has, again, owed, untold>>
      BY <1>1 DEF Settings!Tell
    <2>2. \/ save' = Settings!NoReq
          \/ save' = [save EXCEPT !.at = "save"]
          \/ save' = [save EXCEPT !.login = @ + 1]
      BY <1>1 DEF Settings!Tell, Settings!Refused
    <2>3. save # Settings!NoReq
      BY <2>1, NothingAsked
    <2>4. SaveShape' /\ save'.at \in {"none", "login", "save"}
      BY <2>1, <2>2, <2>3, NothingAsked DEF SaveInv, SaveShape
    <2> QED
      BY <2>1, <2>4, PageHolds
  <1>2. ASSUME NEW t \in Editors, Settings!Save(t) PROVE SaveInv'
    <2>1. /\ UNCHANGED <<file, made, has, again, owed, untold>> /\ save = Settings!NoReq
          /\ \E new : save' = Settings!Posted(t, new)
      BY <1>2 DEF Settings!Save
    <2>2. SaveShape' /\ save.at = "none" /\ save'.at = "login"
      BY <2>1, NothingAsked DEF Settings!Posted, SaveInv, SaveShape
    <2> QED
      BY <2>1, <2>2, PageHolds
  <1>3. CASE UNCHANGED <<file, made, has, save, again, owed, untold>>
    BY <1>3, PageHolds DEF SaveInv, SaveShape
  <1>4. \/ Settings!Tell \/ \E t \in Editors : Settings!Save(t)
        \/ UNCHANGED <<file, made, has, save, again, owed, untold>>
    BY DEF Settings!Load, Settings!Discard, Settings!Type, Settings!ChangeInApp,
           Settings!StopOrStart, Settings!vars
  <1> QED
    BY <1>1, <1>2, <1>3, <1>4

(* Every container that uses a key which changed is to be brought up.       *)
LEMMA WriteHolds == ASSUME SaveInv, Settings!Write PROVE SaveInv'
  <1> DEFINE applied == {k \in DOMAIN save.new : save.new[k] # file[k]}
             todo == Settings!Using(applied)
             media == applied \cap MediaKeys # {}
  <1>1. save.at = "save" /\ UNCHANGED <<made, has, again, owed, untold>> /\ save # Settings!NoReq
    BY NothingAsked DEF Settings!Write
  <1>2. CASE save' = Settings!NoReq /\ UNCHANGED file
    <2>1. SaveShape' /\ save'.at = "none"
      BY <1>1, <1>2, NothingAsked DEF SaveInv, SaveShape
    <2> QED
      BY <1>1, <1>2, <2>1, PageHolds
  <1>3. CASE /\ file' = [k \in Settings!Keys |-> IF k \in applied THEN save.new[k] ELSE file[k]]
             /\ save' = [save EXCEPT !.at = "list", !.todo = todo, !.folders = media]
    <2>1. save'.at = "list" /\ save'.todo = todo /\ save'.done = {} /\ SaveShape'
      <3> HIDE DEF todo, media
      <3> QED
        BY <1>1, <1>3 DEF SaveInv, SaveShape
    <2>2. ASSUME NEW a \in Settings!Containers, Settings!Behind(a)' PROVE a \in todo \/ Settings!Behind(a)
      <3>1. PICK k \in Others : a \in Uses[k] /\ made[a][k] # file'[k]
        BY <1>1, <2>2 DEF Settings!Behind
      <3>2. file'[k] = IF k \in applied THEN save.new[k] ELSE file[k]
        BY <1>3 DEF Settings!Keys
      <3>3. CASE k \in applied
        BY <2>2, <3>1, <3>3 DEF Settings!Using
      <3>4. CASE k \notin applied
        BY <3>1, <3>2, <3>4 DEF Settings!Behind
      <3> QED
        BY <3>3, <3>4
    <2>3. save.todo = {} /\ save.failed = {} /\ save.manual = {}
      BY <1>1 DEF SaveInv, SaveShape
    <2>4. Told'
      <3> HIDE DEF todo
      <3> QED
        BY <1>1, <2>1, <2>2, <2>3 DEF SaveInv, Told, Settings!Containers
    <2> QED
      BY <2>1, <2>4 DEF SaveInv, DoneIsMade
  <1> QED
    BY <1>2, <1>3 DEF Settings!Write, Settings!Refused

(* What a list that cannot be had hides is counted.                         *)
LEMMA ListHolds == ASSUME SaveInv, Settings!List \/ Settings!ListFails PROVE SaveInv'
  <1>1. save.at = "list" /\ UNCHANGED <<file, made, has, again, owed>> /\ save # Settings!NoReq
    BY NothingAsked DEF Settings!List, Settings!ListFails
  <1>2. /\ DOMAIN save = {"at", "login", "tab", "new", "folders", "todo", "done", "failed", "manual"}
        /\ save.done = {} /\ save.failed = {} /\ save.manual = {}
    BY <1>1 DEF SaveInv, SaveShape
  <1>3. \/ save' = [save EXCEPT !.at = "apply", !.todo = save.todo \cap Settings!Containers] /\ UNCHANGED untold
        \/ /\ save' = [save EXCEPT !.at = "apply", !.todo = {}]
           /\ untold' = untold \cup (save.todo \cap Settings!Containers)
    BY DEF Settings!List, Settings!ListFails
  <1>4. /\ save'.at = "apply" /\ save'.done = {} /\ save'.failed = {} /\ save'.manual = {}
        /\ \/ save'.todo = save.todo \cap Settings!Containers /\ UNCHANGED untold
           \/ save'.todo = {} /\ untold' = untold \cup (save.todo \cap Settings!Containers)
        /\ DOMAIN save' = DOMAIN save
    BY <1>2, <1>3
  <1>5. SaveShape'
    BY <1>1, <1>2, <1>4 DEF SaveInv, SaveShape
  <1>6. \A a : Settings!Behind(a)' <=> Settings!Behind(a)
    BY <1>1 DEF Settings!Behind
  <1>7. Settings!Containers' = Settings!Containers
    BY <1>1 DEF Settings!Containers
  <1>8. Told'
    BY <1>1, <1>2, <1>4, <1>6, <1>7 DEF SaveInv, Told
  <1> QED
    BY <1>4, <1>5, <1>8 DEF SaveInv, DoneIsMade

(* Of the others, a container falls behind only by a key that is respelt.   *)
LEMMA OthersStay ==
  ASSUME NEW a, NEW b \in Settings!Containers, b # a, made'[b] = made[b], Settings!Behind(b)'
  PROVE  Settings!Behind(b) \/ b \in Settings!Respelt(a) \/ b \in save.todo
  BY DEF Settings!Behind, Settings!Respelt

LEMMA StartHolds ==
  ASSUME SaveInv, NEW a \in Installable, Settings!Start(a) \/ Settings!StartFails(a)
  PROVE  SaveInv'
  <1>1. CASE Settings!Start(a)
    <2>1. /\ save.at = "apply" /\ a \in save.todo \ {"dashboard"}
          /\ save' = [save EXCEPT !.todo = @ \ {a}, !.done = @ \cup {a}]
          /\ untold' = (untold \ {a}) \cup Settings!Respelt(a)
          /\ made' = [made EXCEPT ![a] = file'] /\ has' = has \cup {a}
          /\ UNCHANGED <<again, owed>>
      BY <1>1 DEF Settings!Start
    <2>2. save # Settings!NoReq
      BY <2>1, NothingAsked
    <2>3. /\ save'.at = "apply" /\ save'.todo = save.todo \ {a} /\ save'.done = save.done \cup {a}
          /\ save'.failed = save.failed /\ save'.manual = save.manual /\ SaveShape'
      BY <2>1, <2>2 DEF SaveInv, SaveShape
    <2>4. made'[a] = file' /\ \A b : b # a => made'[b] = made[b]
      BY <2>1 DEF SaveInv, SaveShape
    <2>5. ~Settings!Behind(a)'
      BY <2>4 DEF Settings!Behind
    <2>6. \A b \in Settings!Containers : b # a /\ Settings!Behind(b)' =>
             Settings!Behind(b) \/ b \in Settings!Respelt(a) \/ b \in save.todo
      BY <2>4, OthersStay
    <2>7. \A b \in Settings!Containers' : b = a \/ b \in Settings!Containers
      BY <2>1 DEF Settings!Containers
    <2>8. Told'
      <3> SUFFICES ASSUME NEW b \in Settings!Containers', Settings!Behind(b)'
                   PROVE  \/ b \in owed' \cup untold'
                          \/ b = "dashboard" /\ again'
                          \/ b \in save'.todo \cup save'.failed \cup save'.manual
        BY DEF Told
      <3>1. b # a /\ b \in Settings!Containers
        BY <2>5, <2>7
      <3> QED
        BY <2>1, <2>3, <2>6, <3>1 DEF SaveInv, Told
    <2>9. DoneIsMade'
      <3> SUFFICES ASSUME NEW b \in save'.done \cap Settings!Containers', Settings!Behind(b)'
                   PROVE  b \in untold' \/ (b = "dashboard" /\ again')
        BY DEF DoneIsMade
      <3>1. b # a /\ b \in Settings!Containers /\ b \in save.done
        BY <2>3, <2>5, <2>7
      <3>2. Settings!Behind(b) \/ b \in Settings!Respelt(a)
        BY <2>6, <3>1 DEF SaveInv, SaveShape
      <3> QED
        BY <2>1, <3>1, <3>2 DEF SaveInv, DoneIsMade
    <2> QED
      BY <2>3, <2>8, <2>9 DEF SaveInv
  <1>2. CASE Settings!StartFails(a)
    <2>1. /\ save.at = "apply"
          /\ save' = [save EXCEPT !.todo = @ \ {a}, !.failed = @ \cup {a}]
          /\ untold' = untold \cup Settings!Respelt(a)
          /\ UNCHANGED <<made, has, again, owed>>
      BY <1>2 DEF Settings!StartFails
    <2>2. save # Settings!NoReq
      BY <2>1, NothingAsked
    <2>3. /\ save'.at = "apply" /\ save'.todo = save.todo \ {a} /\ save'.done = save.done
          /\ save'.failed = save.failed \cup {a} /\ save'.manual = save.manual /\ SaveShape'
      BY <2>1, <2>2 DEF SaveInv, SaveShape
    <2>4. \A b \in Settings!Containers : b # a /\ Settings!Behind(b)' =>
             Settings!Behind(b) \/ b \in Settings!Respelt(a) \/ b \in save.todo
      BY <2>1, OthersStay
    <2>5. Settings!Containers' = Settings!Containers
      BY <2>1 DEF Settings!Containers
    <2>6. Told'
      <3> SUFFICES ASSUME NEW b \in Settings!Containers, Settings!Behind(b)'
                   PROVE  \/ b \in owed' \cup untold'
                          \/ b = "dashboard" /\ again'
                          \/ b \in save'.todo \cup save'.failed \cup save'.manual
        BY <2>5 DEF Told
      <3>1. CASE b = a
        BY <2>3, <3>1
      <3>2. CASE b # a
        BY <2>1, <2>3, <2>4, <3>2 DEF SaveInv, Told
      <3> QED
        BY <3>1, <3>2
    <2>7. DoneIsMade'
      <3> SUFFICES ASSUME NEW b \in save.done \cap Settings!Containers, Settings!Behind(b)'
                   PROVE  b \in untold' \/ (b = "dashboard" /\ again')
        BY <2>3, <2>5 DEF DoneIsMade
      <3>1. b # a
        BY <1>2 DEF Settings!StartFails, SaveInv, SaveShape
      <3>2. Settings!Behind(b) \/ b \in Settings!Respelt(a)
        BY <2>4, <3>1 DEF SaveInv, SaveShape
      <3> QED
        BY <2>1, <3>2 DEF SaveInv, DoneIsMade
    <2> QED
      BY <2>3, <2>6, <2>7 DEF SaveInv
  <1> QED
    BY <1>1, <1>2

(* The dashboard itself is handed to a helper, or left to the user.         *)
LEMMA SelfHolds == ASSUME SaveInv, Settings!SelfRecreate PROVE SaveInv'
  <1>1. save.at = "apply" /\ save.todo = {"dashboard"} /\ UNCHANGED <<file, made, has, owed, untold>>
    BY DEF Settings!SelfRecreate
  <1>2. save # Settings!NoReq /\ save.manual \subseteq {"dashboard"}
    BY <1>1, NothingAsked DEF SaveInv, SaveShape
  <1>3. (\A a : Settings!Behind(a)' <=> Settings!Behind(a)) /\ Settings!Containers' = Settings!Containers
    BY <1>1 DEF Settings!Behind, Settings!Containers
  <1>4. CASE again' = TRUE /\ save' = [save EXCEPT !.todo = {}, !.done = @ \cup {"dashboard"}]
    <2>1. /\ save'.at = "apply" /\ save'.todo = {} /\ save'.done = save.done \cup {"dashboard"}
          /\ save'.failed = save.failed /\ save'.manual = save.manual /\ SaveShape'
      BY <1>1, <1>2, <1>4 DEF SaveInv, SaveShape
    <2> QED
      BY <1>1, <1>3, <1>4, <2>1 DEF SaveInv, Told, DoneIsMade
  <1>5. CASE save' = [save EXCEPT !.todo = {}, !.manual = {"dashboard"}] /\ UNCHANGED again
    <2>1. /\ save'.at = "apply" /\ save'.todo = {} /\ save'.done = save.done
          /\ save'.failed = save.failed /\ save'.manual = {"dashboard"} /\ SaveShape'
      BY <1>1, <1>2, <1>5 DEF SaveInv, SaveShape
    <2> QED
      BY <1>1, <1>2, <1>3, <1>5, <2>1 DEF SaveInv, Told, DoneIsMade
  <1> QED
    BY <1>4, <1>5 DEF Settings!SelfRecreate

(* The answer names what is left, but for the dashboard beside a failure; a *)
(* save that is cut off names it too.                                       *)
LEMMA EndHolds ==
  ASSUME SaveInv, Settings!Answer \/ Settings!Crash \/ Settings!Recreate
  PROVE  SaveInv'
  <1>1. CASE Settings!Answer
    <2>1. /\ save.todo = {} /\ save' = Settings!NoReq
          /\ owed' = (owed \ save.done) \cup Settings!Shown
          /\ untold' = untold \cup (save.manual \ Settings!Shown)
          /\ UNCHANGED <<file, made, has, again>>
      BY <1>1 DEF Settings!Answer
    <2>2. save.failed \cup save.manual \subseteq owed' \cup untold' /\ untold \subseteq untold'
      BY <2>1 DEF Settings!Shown
    <2>3. (\A a : Settings!Behind(a)' <=> Settings!Behind(a)) /\ Settings!Containers' = Settings!Containers
      BY <2>1 DEF Settings!Behind, Settings!Containers
    <2>4. ASSUME NEW a \in Settings!Containers, Settings!Behind(a)
          PROVE  a \in owed' \cup untold' \/ (a = "dashboard" /\ again)
      <3>1. \/ a \in owed \cup untold \/ (a = "dashboard" /\ again)
            \/ a \in save.failed \cup save.manual
        BY <2>1, <2>4 DEF SaveInv, Told
      <3>2. a \in save.done => a \in untold \/ (a = "dashboard" /\ again)
        BY <2>4 DEF SaveInv, DoneIsMade
      <3> QED
        BY <2>1, <2>2, <3>1, <3>2
    <2>5. SaveShape'
      BY <2>1, NothingAsked DEF SaveInv, SaveShape
    <2> QED
      BY <2>1, <2>3, <2>4, <2>5, NothingAsked DEF SaveInv, Told, DoneIsMade
  <1>2. CASE Settings!Crash
    <2>1. /\ save' = Settings!NoReq /\ UNCHANGED <<file, made, has, again, untold>>
          /\ owed' = owed \cup save.todo \cup save.failed \cup save.manual
      BY <1>2 DEF Settings!Crash, Settings!Cut
    <2>2. (\A a : Settings!Behind(a)' <=> Settings!Behind(a)) /\ Settings!Containers' = Settings!Containers
      BY <2>1 DEF Settings!Behind, Settings!Containers
    <2>3. SaveShape'
      BY <2>1, NothingAsked DEF SaveInv, SaveShape
    <2> QED
      BY <2>1, <2>2, <2>3, NothingAsked DEF SaveInv, Told, DoneIsMade
  <1>3. CASE Settings!Recreate
    <2>1. /\ save' = Settings!NoReq /\ made' = [made EXCEPT !["dashboard"] = file]
          /\ owed' = owed \cup save.todo \cup save.failed \cup save.manual
          /\ untold' = untold \ {"dashboard"} /\ UNCHANGED <<file, has>>
      BY <1>3 DEF Settings!Recreate, Settings!Cut
    <2>2. ~Settings!Behind("dashboard")'
          /\ \A a : a # "dashboard" => (Settings!Behind(a)' <=> Settings!Behind(a))
      BY <2>1 DEF Settings!Behind, SaveInv, SaveShape
    <2>3. Settings!Containers' = Settings!Containers
      BY <2>1 DEF Settings!Containers
    <2>4. SaveShape'
      BY <2>1, NothingAsked DEF SaveInv, SaveShape
    <2> QED
      BY <2>1, <2>2, <2>3, <2>4, NothingAsked DEF SaveInv, Told, DoneIsMade
  <1> QED
    BY <1>1, <1>2, <1>3

(* An app is installed from the file as it is by then; one that is removed  *)
(* has no container.                                                        *)
LEMMA AppsHold ==
  ASSUME SaveInv, NEW a \in Installable, Settings!Install(a) \/ Settings!Remove(a)
  PROVE  SaveInv'
  <1>1. CASE Settings!Install(a)
    <2>1. /\ made' = [made EXCEPT ![a] = file'] /\ has' = has \cup {a} /\ a \notin has
          /\ untold' = (untold \ {a}) \cup Settings!Respelt(a)
          /\ owed' = owed \ {a} /\ UNCHANGED <<save, again>>
      BY <1>1 DEF Settings!Install
    <2>2. made'[a] = file' /\ \A b : b # a => made'[b] = made[b]
      BY <2>1 DEF SaveInv, SaveShape
    <2>3. ~Settings!Behind(a)'
      BY <2>2 DEF Settings!Behind
    <2>4. \A b \in Settings!Containers : b # a /\ Settings!Behind(b)' =>
             Settings!Behind(b) \/ b \in Settings!Respelt(a) \/ b \in save.todo
      BY <2>2, OthersStay
    <2>5. \A b \in Settings!Containers' : b = a \/ b \in Settings!Containers
      BY <2>1 DEF Settings!Containers
    <2>6. Told'
      <3> SUFFICES ASSUME NEW b \in Settings!Containers', Settings!Behind(b)'
                   PROVE  \/ b \in owed' \cup untold'
                          \/ b = "dashboard" /\ again'
                          \/ b \in save'.todo \cup save'.failed \cup save'.manual
        BY DEF Told
      <3>1. b # a /\ b \in Settings!Containers
        BY <2>3, <2>5
      <3> QED
        BY <2>1, <2>4, <3>1 DEF SaveInv, Told
    <2>7. DoneIsMade'
      <3> SUFFICES ASSUME NEW b \in save.done \cap Settings!Containers', Settings!Behind(b)'
                   PROVE  b \in untold' \/ (b = "dashboard" /\ again')
        BY <2>1 DEF DoneIsMade
      <3>1. b # a /\ b \in Settings!Containers
        BY <2>3, <2>5
      <3>2. Settings!Behind(b) \/ b \in Settings!Respelt(a)
        BY <2>4, <3>1 DEF SaveInv, SaveShape
      <3> QED
        BY <2>1, <3>1, <3>2 DEF SaveInv, DoneIsMade
    <2>8. SaveShape'
      BY <2>1 DEF SaveInv, SaveShape
    <2> QED
      BY <2>6, <2>7, <2>8 DEF SaveInv
  <1>2. CASE Settings!Remove(a)
    <2>1. /\ has' = has \ {a} /\ owed' = owed \ {a} /\ untold' = untold \ {a}
          /\ UNCHANGED <<file, made, save, again>>
      BY <1>2 DEF Settings!Remove
    <2>2. (\A b : Settings!Behind(b)' <=> Settings!Behind(b))
          /\ \A b \in Settings!Containers' : b \in Settings!Containers /\ b # a
      BY <2>1, DialogsAssumption DEF Settings!Behind, Settings!Containers
    <2>3. SaveShape'
      BY <2>1 DEF SaveInv, SaveShape
    <2> QED
      BY <2>1, <2>2, <2>3 DEF SaveInv, Told, DoneIsMade
  <1> QED
    BY <1>1, <1>2

LEMMA SaveStep == SaveInv /\ [Settings!Next]_Settings!vars => SaveInv'
  BY TellHolds, WriteHolds, ListHolds, StartHolds, SelfHolds, EndHolds, AppsHold DEF Settings!Next

(* Between saves, every container that was created with another value than  *)
(* .env has was named to the user as not done (app.js:2803), or is the      *)
(* dashboard about to be made anew, or was left behind in one of the three  *)
(* ways that no message tells: for any apps, keys and values, whatever      *)
(* fails, is cut off, respelt, installed or removed.                        *)
THEOREM ReportedAlwaysDone == Settings!Spec => []ReportedIsDone
  <1>1. Settings!Init => SaveInv
    BY SaveInit
  <1>2. SaveInv /\ [Settings!Next]_Settings!vars => SaveInv'
    BY SaveStep
  <1>3. SaveInv => ReportedIsDone
    BY NothingAsked DEF SaveInv, Told, ReportedIsDone, Settings!ReportedIsDone
  <1> QED
    BY <1>1, <1>2, <1>3, PTL DEF Settings!Spec

-----------------------------------------------------------------------------
(* Storage. A script that runs alone from its first line to its last has    *)
(* set the bit if it has not warned (WillFreeze), and nobody takes it off   *)
(* before another is asked for (Promised).                                  *)

StorageSteps == {"ask", "login", "under", "clear", "freeze", "units", "start", "stop", "remove"}
Asking == [at : StorageSteps, kind : {"nfs", "cifs", "detach"}, pass : {"none", "right", "wrong"},
           warned : BOOLEAN, waits : BOOLEAN, alone : BOOLEAN]

StorageShape ==
    /\ bind \in [Mounters -> {"none", "share", "stub"}]
    /\ job \in [Mounts -> Asking \cup {Storage!Idle}]
    /\ mounted \in BOOLEAN /\ auto \in BOOLEAN /\ frozen \in BOOLEAN /\ units \in BOOLEAN
    /\ answered \in {"no", "yes", "beside"}

ByItself(j) == job[j].at # "idle" /\ job[j].alone

NobodyBeside == \A j \in Mounts : ByItself(j) => \A o \in Mounts \ {j} : job[o].at = "idle"

WillFreeze ==
    \A j \in Mounts : ByItself(j) /\ job[j].at \in {"units", "start"} /\ ~job[j].warned => frozen

(* What was answered stays so until the next request.                       *)
Promised == answered = "yes" => frozen /\ \A j \in Mounts : job[j].at = "idle"

StorageInv == StorageShape /\ NobodyBeside /\ WillFreeze /\ Promised

LEMMA IdleScript ==
    /\ Storage!Idle.at = "idle"
    /\ \A q \in Asking : q.at # "idle"
    /\ \A q \in Asking \cup {Storage!Idle} : q.at = "idle" <=> q = Storage!Idle
  BY DEF Storage!Idle, Asking, StorageSteps

LEMMA StorageInit == Storage!Init => StorageInv
  <1> SUFFICES ASSUME Storage!Init PROVE StorageInv
    OBVIOUS
  <1>1. StorageShape
    BY DEF Storage!Init, StorageShape
  <1>2. \A j \in Mounts : job[j].at = "idle"
    BY IdleScript DEF Storage!Init
  <1> QED
    BY <1>1, <1>2 DEF Storage!Init, StorageInv, NobodyBeside, ByItself, WillFreeze, Promised

(* A request: a script begins, and those under way are alone no more.       *)
LEMMA BeginHolds ==
  ASSUME StorageInv, NEW j \in Mounts, Storage!Mount(j) \/ Storage!Detach(j)
  PROVE  StorageInv'
  <1> DEFINE alone == \A o \in Mounts : job[o] = Storage!Idle
  <1>1. UNCHANGED <<units, auto, mounted, frozen, nas, bind>> /\ answered' = "no"
    BY DEF Storage!Mount, Storage!Detach, Storage!Begin, Storage!host
  <1>2. PICK new \in Asking : new.at \in {"ask", "stop"} /\ Storage!Begin(j, new)
    BY DEF Storage!Mount, Storage!Detach, Storage!Script, Asking, StorageSteps
  <1>3. job' = [i \in Mounts |->
                  IF i = j THEN [new EXCEPT !.alone = alone]
                  ELSE IF job[i] = Storage!Idle THEN Storage!Idle ELSE [job[i] EXCEPT !.alone = FALSE]]
    BY <1>2 DEF Storage!Begin
  <1>4. alone \in BOOLEAN
    OBVIOUS
  <1>5. [new EXCEPT !.alone = alone] \in Asking /\ [new EXCEPT !.alone = alone].at = new.at
        /\ [new EXCEPT !.alone = alone].alone = alone
    <2> HIDE DEF alone
    <2> QED
      BY <1>2, <1>4 DEF Asking
  <1>6. ASSUME NEW i \in Mounts \ {j}
        PROVE  \/ job[i] = Storage!Idle /\ job'[i] = Storage!Idle
               \/ job'[i] \in Asking /\ ~job'[i].alone /\ ~alone
    <2>1. job[i] \in Asking \cup {Storage!Idle}
      BY DEF StorageInv, StorageShape
    <2>2. CASE job[i] = Storage!Idle
      BY <1>3, <2>2
    <2>3. CASE job[i] # Storage!Idle
      <3>1. job'[i] = [job[i] EXCEPT !.alone = FALSE] /\ job[i] \in Asking
        BY <1>3, <2>1, <2>3
      <3>2. job'[i] \in Asking /\ ~job'[i].alone
        BY <3>1 DEF Asking
      <3> QED
        BY <2>3, <3>2
    <2> QED
      BY <2>2, <2>3
  <1>7. job'[j] = [new EXCEPT !.alone = alone]
    BY <1>3
  <1> HIDE DEF alone
  <1>8. job'[j] \in Asking /\ job'[j].at \in {"ask", "stop"} /\ job'[j].alone = alone
    BY <1>2, <1>5, <1>7
  <1>9. job' = [i \in Mounts |-> job'[i]]
    BY <1>3
  <1>10. \A i \in Mounts : job'[i] \in Asking \cup {Storage!Idle}
    BY <1>6, <1>8
  <1>11. job' \in [Mounts -> Asking \cup {Storage!Idle}]
    <2> HIDE DEF Asking
    <2> QED
      BY <1>9, <1>10
  <1>12. StorageShape'
    BY <1>1, <1>11 DEF StorageInv, StorageShape
  <1>13. NobodyBeside' /\ WillFreeze'
    BY <1>6, <1>8, IdleScript DEF NobodyBeside, ByItself, WillFreeze
  <1> QED
    BY <1>1, <1>12, <1>13 DEF StorageInv, Promised

(* A line of a script. While it runs no other is alone, so that only what   *)
(* it does to itself matters.                                               *)
LEMMA LineHolds ==
  ASSUME StorageInv, NEW j \in Mounts, job[j].at # "idle",
         NEW q \in Asking \cup {Storage!Idle}, job' = [job EXCEPT ![j] = q],
         UNCHANGED bind, units' \in BOOLEAN, mounted' \in BOOLEAN, auto' \in BOOLEAN,
         frozen' \in BOOLEAN,
         q.at # "idle" => (q.alone => job[j].alone),
         q.at \in {"units", "start"} /\ q.alone /\ ~q.warned => frozen',
         \/ answered' = answered
         \/ answered' \in {"no", "beside"}
         \/ answered' = "yes" /\ frozen' /\ job[j].alone /\ q = Storage!Idle
  PROVE  StorageInv'
  <1>1. job \in [Mounts -> Asking \cup {Storage!Idle}] /\ answered \in {"no", "yes", "beside"}
    BY DEF StorageInv, StorageShape
  <1>2. job'[j] = q /\ \A i \in Mounts \ {j} : job'[i] = job[i]
    BY <1>1
  <1>3. StorageShape'
    <2>1. job' \in [Mounts -> Asking \cup {Storage!Idle}]
      BY <1>1
    <2> QED
      BY <1>1, <2>1 DEF StorageInv, StorageShape
  <1>4. \A i \in Mounts \ {j} : ~ByItself(i)
    BY DEF StorageInv, NobodyBeside
  <1>5. NobodyBeside'
    BY <1>2, <1>4 DEF StorageInv, NobodyBeside, ByItself
  <1>6. WillFreeze'
    BY <1>2, <1>4 DEF WillFreeze, ByItself
  <1>7. Promised'
    <2>1. answered # "yes"
      BY DEF StorageInv, Promised
    <2>2. CASE answered' = "yes"
      BY <1>2, <2>1, <2>2, IdleScript DEF StorageInv, NobodyBeside, ByItself, Promised
    <2> QED
      BY <2>2 DEF Promised
  <1> QED
    BY <1>3, <1>5, <1>6, <1>7 DEF StorageInv

LEMMA ScriptHolds ==
  ASSUME StorageInv, NEW j \in Mounts,
         \/ Storage!AskExports(j) \/ Storage!Login(j) \/ Storage!Under(j) \/ Storage!Clear(j)
         \/ Storage!Freeze(j) \/ Storage!WriteUnits(j) \/ Storage!Start(j) \/ Storage!Dies(j)
         \/ Storage!StopUnits(j) \/ Storage!Unmount(j)
  PROVE  StorageInv'
  <1> DEFINE To(step) == [job[j] EXCEPT !.at = step]
  <1>1. /\ job[j].at # "idle" /\ job[j] \in Asking
        /\ mounted \in BOOLEAN /\ auto \in BOOLEAN /\ frozen \in BOOLEAN /\ units \in BOOLEAN
    <2>1. job[j].at # "idle"
      BY DEF Storage!AskExports, Storage!Login, Storage!Under, Storage!Clear, Storage!Freeze,
             Storage!WriteUnits, Storage!Start, Storage!Dies, Storage!StopUnits, Storage!Unmount
    <2> QED
      BY <2>1, IdleScript DEF StorageInv, StorageShape
  <1>2. \A step \in StorageSteps : /\ To(step) \in Asking /\ To(step).at = step
                                   /\ To(step).alone = job[j].alone /\ To(step).warned = job[j].warned
    BY <1>1 DEF Asking
  <1> HIDE DEF To
  <1>3. \A step : Storage!At(j, step) => job' = [job EXCEPT ![j] = To(step)]
    BY DEF Storage!At, To
  <1>4. Storage!Over(j) => job' = [job EXCEPT ![j] = Storage!Idle]
    BY DEF Storage!Over
  <1>5. Storage!Idle.at = "idle"
    BY IdleScript
  <1>6. ASSUME Storage!Over(j), UNCHANGED <<bind, answered>>, units' \in BOOLEAN,
               mounted' \in BOOLEAN, auto' \in BOOLEAN, frozen' \in BOOLEAN
        PROVE  StorageInv'
    BY <1>1, <1>4, <1>5, <1>6, LineHolds
  <1>7. ASSUME NEW step \in StorageSteps \ {"units", "start"}, Storage!At(j, step),
               UNCHANGED <<bind, answered>>, units' \in BOOLEAN,
               mounted' \in BOOLEAN, auto' \in BOOLEAN, frozen' \in BOOLEAN
        PROVE  StorageInv'
    <2>1. /\ To(step) \in Asking /\ To(step).at = step /\ To(step).alone = job[j].alone
          /\ job' = [job EXCEPT ![j] = To(step)]
      BY <1>2, <1>3, <1>7
    <2> QED
      BY <1>1, <1>7, <2>1, LineHolds
  <1>8. CASE Storage!AskExports(j)
    BY <1>1, <1>6, <1>7, <1>8 DEF Storage!AskExports, Storage!host, StorageSteps
  <1>9. CASE Storage!Login(j)
    <2>1. UNCHANGED <<units, auto, mounted, frozen, bind, answered>>
      BY <1>9 DEF Storage!Login
    <2>2. CASE Storage!Over(j) \/ Storage!At(j, "under")
      BY <1>1, <1>6, <1>7, <2>1, <2>2 DEF StorageSteps
    <2>3. CASE job' = [job EXCEPT ![j].at = "under", ![j].pass = "none"]
      <3> DEFINE q == [job[j] EXCEPT !.at = "under", !.pass = "none"]
      <3>1. q \in Asking /\ q.at = "under" /\ q.alone = job[j].alone
        BY <1>1 DEF Asking, StorageSteps
      <3>2. job' = [job EXCEPT ![j] = q]
        BY <2>3
      <3> HIDE DEF q
      <3> QED
        BY <1>1, <2>1, <3>1, <3>2, LineHolds
    <2> QED
      BY <1>9, <2>2, <2>3 DEF Storage!Login
  <1>10. CASE Storage!Under(j)
    BY <1>1, <1>6, <1>7, <1>10 DEF Storage!Under, Storage!Held, StorageSteps
  <1>11. CASE Storage!Clear(j)
    BY <1>1, <1>6, <1>7, <1>11 DEF Storage!Clear, Storage!Looked, StorageSteps
  <1>12. CASE Storage!Freeze(j)
    <2>1. mounted' \in BOOLEAN /\ UNCHANGED <<units, auto, bind, answered>>
      BY <1>1, <1>12 DEF Storage!Freeze, Storage!Looked
    <2>2. CASE frozen' = TRUE /\ Storage!At(j, "units")
      <3>1. /\ To("units") \in Asking /\ To("units").alone = job[j].alone
            /\ job' = [job EXCEPT ![j] = To("units")]
        BY <1>2, <1>3, <2>2 DEF StorageSteps
      <3> QED
        BY <1>1, <2>1, <2>2, <3>1, LineHolds
    <2>3. CASE UNCHANGED frozen /\ job' = [job EXCEPT ![j].at = "units", ![j].warned = TRUE]
      <3> DEFINE q == [job[j] EXCEPT !.at = "units", !.warned = TRUE]
      <3>1. q \in Asking /\ q.alone = job[j].alone /\ q.warned
        BY <1>1 DEF Asking, StorageSteps
      <3>2. job' = [job EXCEPT ![j] = q]
        BY <2>3
      <3> HIDE DEF q
      <3> QED
        BY <1>1, <2>1, <2>3, <3>1, <3>2, LineHolds
    <2> QED
      BY <1>12, <2>2, <2>3 DEF Storage!Freeze
  <1>13. CASE Storage!WriteUnits(j)
    <2>1. /\ To("start") \in Asking /\ To("start").alone = job[j].alone /\ To("start").warned = job[j].warned
          /\ job' = [job EXCEPT ![j] = To("start")]
      BY <1>2, <1>3, <1>13 DEF StorageSteps, Storage!WriteUnits
    <2>2. job[j].at = "units" /\ UNCHANGED <<mounted, frozen, bind, answered>> /\ auto' = TRUE
          /\ units' = TRUE
      BY <1>13 DEF Storage!WriteUnits
    <2>3. job[j].alone /\ ~job[j].warned => frozen
      BY <1>1, <2>2 DEF StorageInv, WillFreeze, ByItself
    <2> QED
      BY <1>1, <2>1, <2>2, <2>3, LineHolds
  <1>14. CASE Storage!Start(j)
    <2>1. /\ job[j].at = "start" /\ UNCHANGED <<units, auto, frozen, bind>> /\ mounted' \in BOOLEAN
          /\ job' = [job EXCEPT ![j] = Storage!Idle]
      BY <1>14, <1>4 DEF Storage!Start
    <2>2. \/ answered' = answered
          \/ answered' \in {"no", "beside"}
          \/ answered' = "yes" /\ ~job[j].warned /\ job[j].alone
      BY <1>14 DEF Storage!Start, Storage!Answer
    <2>3. job[j].alone /\ ~job[j].warned => frozen
      BY <1>1, <2>1 DEF StorageInv, WillFreeze, ByItself
    <2> QED
      BY <1>1, <1>5, <2>1, <2>2, <2>3, LineHolds
  <1>15. CASE Storage!Dies(j)
    BY <1>1, <1>6, <1>15 DEF Storage!Dies, Storage!host
  <1>16. CASE Storage!StopUnits(j)
    BY <1>1, <1>7, <1>16 DEF Storage!StopUnits, StorageSteps
  <1>17. CASE Storage!Unmount(j)
    BY <1>1, <1>6, <1>17 DEF Storage!Unmount, Storage!Looked
  <1> QED
    BY <1>8, <1>9, <1>10, <1>11, <1>12, <1>13, <1>14, <1>15, <1>16, <1>17

(* Who waits for a script, and the end of all of them, change nothing of    *)
(* what one that goes on has done.                                          *)
LEMMA WaitHolds ==
  ASSUME StorageInv, UNCHANGED <<units, bind, frozen, answered>>,
         mounted' \in BOOLEAN, auto' \in BOOLEAN,
         job' \in [Mounts -> Asking \cup {Storage!Idle}],
         \A j \in Mounts : \/ job'[j].at = "idle"
                           \/ /\ job'[j].at = job[j].at /\ job'[j].alone = job[j].alone
                              /\ job'[j].warned = job[j].warned
  PROVE  StorageInv'
  <1>1. StorageShape'
    BY DEF StorageInv, StorageShape
  <1>2. NobodyBeside'
    BY DEF StorageInv, NobodyBeside, ByItself
  <1>3. WillFreeze'
    BY DEF StorageInv, WillFreeze, ByItself
  <1>4. Promised'
    BY DEF StorageInv, Promised
  <1> QED
    BY <1>1, <1>2, <1>3, <1>4 DEF StorageInv

LEMMA CutOffHolds ==
  ASSUME StorageInv, (\E j \in Mounts : Storage!TimesOut(j)) \/ Storage!Crash \/ Storage!Reboot
  PROVE  StorageInv'
  <1>1. /\ job \in [Mounts -> Asking \cup {Storage!Idle}]
        /\ mounted \in BOOLEAN /\ auto \in BOOLEAN /\ units \in BOOLEAN /\ units' = units
    BY DEF StorageInv, StorageShape, Storage!TimesOut, Storage!Crash, Storage!Reboot, Storage!host
  <1>2. ASSUME NEW j \in Mounts, Storage!TimesOut(j) PROVE StorageInv'
    <2> DEFINE q == [job[j] EXCEPT !.waits = FALSE, !.pass = "none"]
    <2>1. job[j] \in Asking
      BY <1>1, <1>2 DEF Storage!TimesOut
    <2>2. q \in Asking /\ q.at = job[j].at /\ q.alone = job[j].alone /\ q.warned = job[j].warned
      BY <2>1 DEF Asking
    <2>3. job' = [job EXCEPT ![j] = q] /\ UNCHANGED <<units, mounted, auto, bind, frozen, answered>>
      BY <1>2 DEF Storage!TimesOut, Storage!host
    <2> HIDE DEF q
    <2>4. job' \in [Mounts -> Asking \cup {Storage!Idle}]
      BY <1>1, <2>2, <2>3
    <2>5. \A i \in Mounts : /\ job'[i].at = job[i].at /\ job'[i].alone = job[i].alone
                            /\ job'[i].warned = job[i].warned
      BY <1>1, <2>2, <2>3
    <2> QED
      BY <1>1, <2>3, <2>4, <2>5, WaitHolds
  <1>3. CASE Storage!Crash
    <2>1. /\ job' = [j \in Mounts |-> IF job[j] = Storage!Idle THEN Storage!Idle
                                      ELSE [job[j] EXCEPT !.waits = FALSE]]
          /\ UNCHANGED <<units, mounted, auto, bind, frozen, answered>>
      BY <1>3 DEF Storage!Crash, Storage!host
    <2>2. ASSUME NEW i \in Mounts
          PROVE  /\ job'[i] \in Asking \cup {Storage!Idle} /\ job'[i].at = job[i].at
                 /\ job'[i] = Storage!Idle \/ (job'[i].alone = job[i].alone /\ job'[i].warned = job[i].warned)
      <3>1. CASE job[i] = Storage!Idle
        BY <2>1, <3>1
      <3>2. CASE job[i] # Storage!Idle
        <4>1. job[i] \in Asking /\ job'[i] = [job[i] EXCEPT !.waits = FALSE]
          BY <1>1, <2>1, <3>2
        <4> QED
          BY <4>1 DEF Asking
      <3> QED
        BY <3>1, <3>2
    <2>3. job' \in [Mounts -> Asking \cup {Storage!Idle}]
      <3> HIDE DEF Asking
      <3> QED
        BY <2>1, <2>2
    <2> QED
      BY <1>1, <2>1, <2>2, <2>3, IdleScript, WaitHolds
  <1>4. CASE Storage!Reboot
    <2>1. /\ job' = [j \in Mounts |-> Storage!Idle] /\ mounted' = FALSE
          /\ UNCHANGED <<units, bind, frozen, answered>>
      BY <1>4 DEF Storage!Reboot
    <2>2. auto' \in BOOLEAN
      BY <1>1, <1>4 DEF Storage!Reboot
    <2> QED
      BY <2>1, <2>2, IdleScript, WaitHolds
  <1>5. CASE \E j \in Mounts : Storage!TimesOut(j)
    BY <1>2, <1>5
  <1> QED
    BY <1>3, <1>4, <1>5

LEMMA BoxHolds ==
  ASSUME StorageInv,
         \/ Storage!Look \/ Storage!NasChanges \/ UNCHANGED Storage!vars
         \/ \E a \in Mounters : Storage!Create(a) \/ Storage!WriteBeneath(a) \/ Storage!Delete(a)
  PROVE  StorageInv'
  <1>1. UNCHANGED <<units, auto, frozen, job, answered>>
    BY DEF Storage!Look, Storage!NasChanges, Storage!vars, Storage!Create, Storage!WriteBeneath,
           Storage!Delete, Storage!host
  <1>2. mounted' \in BOOLEAN
    <2>1. mounted' = mounted \/ mounted' = TRUE
      BY DEF Storage!Look, Storage!NasChanges, Storage!vars, Storage!Create, Storage!WriteBeneath,
             Storage!Delete, Storage!host
    <2> QED
      BY <2>1 DEF StorageInv, StorageShape
  <1>3. bind' \in [Mounters -> {"none", "share", "stub"}]
    <2>1. bind \in [Mounters -> {"none", "share", "stub"}]
      BY DEF StorageInv, StorageShape
    <2> QED
      BY <2>1 DEF Storage!Look, Storage!NasChanges, Storage!vars, Storage!Create, Storage!WriteBeneath,
             Storage!Delete
  <1> QED
    BY <1>1, <1>2, <1>3 DEF StorageInv, StorageShape, NobodyBeside, ByItself, WillFreeze, Promised

LEMMA StorageStep == StorageInv /\ [Storage!Next]_Storage!vars => StorageInv'
  BY BeginHolds, ScriptHolds, CutOffHolds, BoxHolds DEF Storage!Next

(* Docker makes a folder only where the share, the automount and the bit    *)
(* are all missing; after an answer the bit is there.                       *)
LEMMA NoFolder ==
    StorageInv /\ [Storage!Next]_Storage!vars =>
        (answered = "yes" => \A a \in Mounters : bind[a] = "none" => bind'[a] # "stub")
  <1> SUFFICES ASSUME StorageInv, [Storage!Next]_Storage!vars, answered = "yes",
                      NEW a \in Mounters, bind[a] = "none"
               PROVE  bind'[a] # "stub"
    OBVIOUS
  <1>1. frozen /\ bind \in [Mounters -> {"none", "share", "stub"}]
    BY DEF StorageInv, Promised, StorageShape
  <1>2. ASSUME NEW b \in Mounters, Storage!Create(b) PROVE bind'[a] # "stub"
    BY <1>1, <1>2 DEF Storage!Create
  <1>3. ASSUME NEW b \in Mounters, Storage!Delete(b) PROVE bind'[a] # "stub"
    BY <1>1, <1>3 DEF Storage!Delete
  <1>4. CASE UNCHANGED bind
    BY <1>4
  <1>5. \/ UNCHANGED bind
        \/ \E b \in Mounters : Storage!Create(b) \/ Storage!Delete(b)
    BY DEF Storage!Next, Storage!vars, Storage!Mount, Storage!AskExports, Storage!Login,
           Storage!Under, Storage!Clear, Storage!Freeze, Storage!WriteUnits, Storage!Start,
           Storage!Dies, Storage!Detach, Storage!StopUnits, Storage!Unmount, Storage!TimesOut,
           Storage!Look, Storage!Crash, Storage!Reboot, Storage!NasChanges, Storage!WriteBeneath
  <1> QED
    BY <1>2, <1>3, <1>4, <1>5

(* From the answer of a mount on whose script ran alone, whatever the NAS   *)
(* and the box do, and whatever scripts had been left behind before, no     *)
(* container is created on a folder of its own, however many apps and       *)
(* requests there are: what mount-remote.sh freezes the directory for       *)
(* (124-138).                                                               *)
THEOREM LibraryOrNothingAlways == Storage!Spec => LibraryOrNothing
  <1>1. Storage!Init => StorageInv
    BY StorageInit
  <1>2. StorageInv /\ [Storage!Next]_Storage!vars => StorageInv'
    BY StorageStep
  <1>3. StorageInv /\ [Storage!Next]_Storage!vars =>
            [answered = "yes" => \A a \in Mounters : bind[a] = "none" => bind'[a] # "stub"]_Storage!vars
    BY NoFolder
  <1> QED
    BY <1>1, <1>2, <1>3, PTL DEF Storage!Spec, LibraryOrNothing, Storage!LibraryOrNothing
-----------------------------------------------------------------------------
(* Resetting a login. A reset copies the file under a name of its own       *)
(* (Apart), so that until somebody clears it every copy is of the owner     *)
(* (Copied), and after that the one copy that is kept can no more be        *)
(* written over (Safe). Once: the two ways out, two of them asked for in    *)
(* one second and a copy of the owner's file while the app ran, are not     *)
(* taken.                                                                   *)

ResetSteps == {"stop", "copy", "clear", "seed", "start"}
Seconds == 0..MaxResetEvents

LoginShape ==
    /\ how # "qbittorrent"
    /\ db \in SUBSET Reset!Accounts /\ mem \in SUBSET Reset!Accounts
    /\ backups \in [Seconds -> SUBSET SUBSET Reset!Accounts]
    /\ asked \in [Seconds -> Nat] /\ live \in BOOLEAN
    /\ resetEvents \in Nat /\ second \in Nat /\ second <= resetEvents /\ resetEvents <= MaxResetEvents
    /\ reset \in [Resets -> [at : ResetSteps, stamp : Seconds] \cup {Reset!Idle}]

(* An app that has no account any more has not the owner's in its file.     *)
Emptied == mem = {} => "owner" \notin db

(* Resets under way were asked for in seconds of their own.                 *)
Apart ==
    /\ \A p \in Resets : reset[p] # Reset!Idle => asked[reset[p].stamp] >= 1
    /\ \A q, p \in Resets :
         (q # p /\ reset[q] # Reset!Idle /\ reset[p] # Reset!Idle) => reset[q].stamp # reset[p].stamp

(* What is about to be cleared was copied.                                  *)
Copied ==
    \A p \in Resets : (reset[p].at = "clear" /\ "owner" \in db) => {"owner"} \in backups[reset[p].stamp]

(* There is no reset left, and will be none, that copies to where it is.    *)
Safe ==
    "owner" \notin db =>
        \E s \in Seconds :
            /\ {"owner"} \in backups[s] /\ asked[s] >= 1
            /\ \A p \in Resets : reset[p].at \in {"stop", "copy"} => reset[p].stamp # s

(* Only the owner's account is in a file that has it.                       *)
Alone == "owner" \in db => db = {"owner"}

Once == ~live /\ \A s \in Seconds : asked[s] <= 1

Recoverable == Emptied /\ Apart /\ Copied /\ Safe /\ Alone /\ \A p \in Resets : reset[p].at # "seed"

LoginInv == how # "qbittorrent" => LoginShape /\ (Once => Recoverable)

LEMMA IdleIsIdle == Reset!Idle.at = "idle" /\ \A st \in ResetSteps : st # Reset!Idle.at
  BY DEF Reset!Idle, ResetSteps

LEMMA LoginInit == ASSUME Reset!Init PROVE LoginInv
  <1> SUFFICES ASSUME how # "qbittorrent" PROVE LoginShape /\ Recoverable
    BY DEF LoginInv
  <1>1. LoginShape
    <2>1. db \in SUBSET Reset!Accounts /\ mem \in SUBSET Reset!Accounts
      BY DEF Reset!Init, Reset!Accounts
    <2>2. backups \in [Seconds -> SUBSET SUBSET Reset!Accounts]
      BY DEF Reset!Init, Seconds
    <2>3. asked \in [Seconds -> Nat] /\ live \in BOOLEAN
      BY DEF Reset!Init, Seconds
    <2>4. resetEvents = 0 /\ second = 0 /\ reset \in [Resets -> {Reset!Idle}]
      BY DEF Reset!Init
    <2> QED
      BY <2>1, <2>2, <2>3, <2>4, DialogsAssumption DEF LoginShape
  <1>2. \A p \in Resets : reset[p] = Reset!Idle /\ reset[p].at = "idle"
    BY IdleIsIdle DEF Reset!Init
  <1>3. db = {"owner"} /\ mem = {"owner"}
    BY DEF Reset!Init
  <1>4. Emptied /\ Safe /\ Alone
    BY <1>3 DEF Emptied, Safe, Alone
  <1>5. Apart /\ Copied
    BY <1>2 DEF Apart, Copied
  <1> QED
    BY <1>1, <1>2, <1>4, <1>5 DEF Recoverable

(* A reset that is asked for within a second of its own meets none of those *)
(* under way, nor the copy that is kept.                                    *)
LEMMA AskHolds ==
  ASSUME LoginInv, NEW p \in Resets, Reset!Ask(p) PROVE LoginInv'
  <1> SUFFICES ASSUME how # "qbittorrent" PROVE LoginShape' /\ (Once' => Recoverable')
    BY DEF LoginInv, Reset!Ask
  <1>1. LoginShape /\ (Once => Recoverable)
    BY DEF LoginInv
  <1>2. second \in Seconds /\ [at |-> "stop", stamp |-> second] \in [at : ResetSteps, stamp : Seconds]
    BY <1>1, DialogsAssumption DEF Reset!Ask, Reset!Event, LoginShape, Seconds, ResetSteps
  <1>3. LoginShape'
    BY <1>1, <1>2, DialogsAssumption DEF Reset!Ask, Reset!Event, LoginShape, Seconds
  <1>4. ASSUME Once' PROVE Recoverable'
    <2>1. asked[second] = 0 /\ Once
      BY <1>1, <1>2, <1>4 DEF Once, Reset!Ask, LoginShape
    <2>2. Recoverable
      BY <1>1, <2>1
    <2>3. \A q \in Resets \ {p} : reset'[q] = reset[q]
      BY <1>1 DEF Reset!Ask, LoginShape
    <2>4. reset'[p] = [at |-> "stop", stamp |-> second]
      BY <1>1 DEF Reset!Ask, LoginShape
    <2>5. \A q \in Resets : reset[q] # Reset!Idle => reset[q].stamp # second /\ reset[q].stamp \in Seconds
      BY <1>1, <2>1, <2>2 DEF Recoverable, Apart, LoginShape
    <2>6. \A s \in Seconds : asked'[s] = IF s = second THEN 1 ELSE asked[s]
      BY <1>1, <1>2, <2>1 DEF Reset!Ask, LoginShape
    <2>7. Apart'
      BY <1>2, <2>2, <2>3, <2>4, <2>5, <2>6 DEF Recoverable, Apart
    <2>8. Safe'
      <3> SUFFICES ASSUME "owner" \notin db' PROVE Safe'
        BY DEF Safe
      <3>1. PICK s \in Seconds : /\ {"owner"} \in backups[s] /\ asked[s] >= 1
                                 /\ \A q \in Resets : reset[q].at \in {"stop", "copy"} => reset[q].stamp # s
        BY <2>2 DEF Recoverable, Safe, Reset!Ask
      <3>2. s # second
        BY <2>1, <3>1
      <3> QED
        BY <2>3, <2>4, <2>6, <3>1, <3>2 DEF Safe, Reset!Ask
    <2>9. Copied' /\ \A q \in Resets : reset'[q].at # "seed"
      BY <2>2, <2>3, <2>4 DEF Recoverable, Copied, Reset!Ask
    <2> QED
      BY <2>2, <2>7, <2>8, <2>9 DEF Recoverable, Emptied, Alone, Reset!Ask
  <1> QED
    BY <1>3, <1>4

(* A reset that leaves the file and its copies alone goes on, or ends.      *)
Goes(q) ==
    \/ reset'[q] = reset[q]
    \/ reset'[q] = Reset!Idle
    \/ reset[q].at = "stop" /\ reset'[q] = [reset[q] EXCEPT !.at = "copy"]

LEMMA IdleHolds ==
  ASSUME LoginInv, how # "qbittorrent",
         UNCHANGED <<how, db, backups, asked, live>>,
         mem' \in {mem, db}, second' \in Nat, resetEvents' \in Nat,
         second' <= resetEvents', resetEvents' <= MaxResetEvents,
         reset' \in [Resets -> [at : ResetSteps, stamp : Seconds] \cup {Reset!Idle}],
         \A q \in Resets : Goes(q)
  PROVE  LoginInv'
  <1> SUFFICES LoginShape' /\ (Once' => Recoverable')
    BY DEF LoginInv
  <1>1. LoginShape /\ (Once => Recoverable)
    BY DEF LoginInv
  <1>2. LoginShape'
    BY <1>1 DEF LoginShape, Seconds
  <1>3. ASSUME Once' PROVE Recoverable'
    <2>1. Recoverable
      BY <1>1, <1>3 DEF Once
    <2>2. \A q \in Resets :
            /\ reset'[q] # Reset!Idle => reset[q] # Reset!Idle /\ reset'[q].stamp = reset[q].stamp
            /\ reset'[q].at \in {"stop", "copy"} => reset[q].at \in {"stop", "copy"}
            /\ reset'[q].at = "clear" => reset[q].at = "clear"
            /\ reset'[q].at # "seed"
      <3> SUFFICES ASSUME NEW q \in Resets
                   PROVE  /\ reset'[q] # Reset!Idle => reset[q] # Reset!Idle /\ reset'[q].stamp = reset[q].stamp
                          /\ reset'[q].at \in {"stop", "copy"} => reset[q].at \in {"stop", "copy"}
                          /\ reset'[q].at = "clear" => reset[q].at = "clear"
                          /\ reset'[q].at # "seed"
        OBVIOUS
      <3>1. CASE reset'[q] = reset[q]
        BY <2>1, <3>1 DEF Recoverable
      <3>2. CASE reset'[q] = Reset!Idle
        BY <3>2, IdleIsIdle
      <3>3. CASE reset[q].at = "stop" /\ reset'[q] = [reset[q] EXCEPT !.at = "copy"]
        <4>1. reset[q] \in [at : ResetSteps, stamp : Seconds]
          BY <1>1, <3>3, IdleIsIdle DEF LoginShape
        <4> QED
          BY <3>3, <4>1, IdleIsIdle DEF ResetSteps
      <3> QED
        BY <3>1, <3>2, <3>3 DEF Goes
    <2>3. \A q \in Resets : reset'[q].at \in {"stop", "copy", "clear"} => reset'[q] # Reset!Idle
      BY IdleIsIdle
    <2>4. Emptied'
      BY <2>1 DEF Recoverable, Emptied
    <2>5. Apart'
      BY <2>1, <2>2 DEF Recoverable, Apart
    <2>6. Copied'
      BY <2>1, <2>2, <2>3 DEF Recoverable, Copied
    <2>7. Safe'
      <3> SUFFICES ASSUME "owner" \notin db' PROVE Safe'
        BY DEF Safe
      <3>1. PICK s \in Seconds : /\ {"owner"} \in backups[s] /\ asked[s] >= 1
                                 /\ \A q \in Resets : reset[q].at \in {"stop", "copy"} => reset[q].stamp # s
        BY <2>1 DEF Recoverable, Safe
      <3> QED
        BY <2>2, <2>3, <3>1 DEF Safe
    <2> QED
      BY <2>1, <2>2, <2>4, <2>5, <2>6, <2>7 DEF Recoverable, Alone
  <1> QED
    BY <1>2, <1>3

LEMMA CopyHolds ==
  ASSUME LoginInv, how # "qbittorrent", NEW p \in Resets, Reset!Copy(p) PROVE LoginInv'
  <1> SUFFICES LoginShape' /\ (Once' => Recoverable')
    BY DEF LoginInv, Reset!Copy
  <1>1. LoginShape /\ (Once => Recoverable)
    BY DEF LoginInv
  <1>2. reset[p] \in [at : ResetSteps, stamp : Seconds] /\ reset[p].stamp \in Seconds
    BY <1>1, IdleIsIdle DEF Reset!Copy, LoginShape, ResetSteps
  <1>3. /\ reset'[p] = [reset[p] EXCEPT !.at = "clear"] /\ reset'[p].at = "clear"
        /\ reset'[p].stamp = reset[p].stamp /\ reset'[p] \in [at : ResetSteps, stamp : Seconds]
        /\ \A q \in Resets \ {p} : reset'[q] = reset[q]
    BY <1>1, <1>2 DEF Reset!Copy, Reset!At, LoginShape, ResetSteps
  <1>4. PICK copy \in {{db}, {}} : /\ ~up => copy = {db}
                                 /\ backups' = [backups EXCEPT ![reset[p].stamp] = copy]
    BY DEF Reset!Copy
  <1>5. /\ backups'[reset[p].stamp] = copy
        /\ \A s \in Seconds \ {reset[p].stamp} : backups'[s] = backups[s]
    BY <1>1, <1>2, <1>4 DEF LoginShape
  <1>7. live' = (live \/ (up /\ "owner" \in db)) /\ live' \in BOOLEAN
    BY <1>1 DEF Reset!Copy, LoginShape
  <1>8. LoginShape'
    <2>1. copy \in SUBSET SUBSET Reset!Accounts
      BY <1>1 DEF LoginShape
    <2>2. backups' \in [Seconds -> SUBSET SUBSET Reset!Accounts]
      BY <1>1, <1>2, <1>4, <2>1 DEF LoginShape
    <2> QED
      BY <1>1, <1>2, <1>3, <1>7, <2>2 DEF Reset!Copy, Reset!At, LoginShape
  <1>6. ASSUME Once' PROVE Recoverable'
    <2>1. Recoverable /\ UNCHANGED <<db, mem, asked>>
      BY <1>1, <1>6, <1>7 DEF Once, Reset!Copy
    <2>6. "owner" \in db => copy = {db}
      BY <1>4, <1>6, <1>7 DEF Once
    <2>2. reset[p] # Reset!Idle /\ reset'[p] # Reset!Idle
      BY <1>3, IdleIsIdle DEF Reset!Copy, ResetSteps
    <2>3. Apart'
      BY <1>3, <2>1, <2>2 DEF Recoverable, Apart
    <2>4. Copied'
      <3> SUFFICES ASSUME NEW q \in Resets, reset'[q].at = "clear", "owner" \in db
                   PROVE  {"owner"} \in backups'[reset'[q].stamp]
        BY <2>1 DEF Copied
      <3>1. db = {"owner"}
        BY <2>1 DEF Recoverable, Alone
      <3>2. CASE q = p
        BY <1>3, <1>5, <2>6, <3>1, <3>2
      <3>3. CASE q # p
        <4>1. reset[q].at = "clear" /\ {"owner"} \in backups[reset[q].stamp] /\ reset'[q] = reset[q]
          BY <1>3, <2>1, <3>3 DEF Recoverable, Copied
        <4>2. reset[q].stamp \in Seconds
          BY <1>1, <4>1, IdleIsIdle DEF LoginShape, ResetSteps
        <4> QED
          BY <1>5, <2>6, <3>1, <4>1, <4>2
      <3> QED
        BY <3>2, <3>3
    <2>5. Safe'
      <3> SUFFICES ASSUME "owner" \notin db PROVE Safe'
        BY <2>1 DEF Safe
      <3>1. PICK s \in Seconds : /\ {"owner"} \in backups[s] /\ asked[s] >= 1
                                 /\ \A q \in Resets : reset[q].at \in {"stop", "copy"} => reset[q].stamp # s
        BY <2>1 DEF Recoverable, Safe
      <3>2. s # reset[p].stamp
        BY <3>1 DEF Reset!Copy
      <3> QED
        BY <1>3, <1>5, <2>1, <3>1, <3>2 DEF Safe
    <2> QED
      BY <1>3, <2>1, <2>3, <2>4, <2>5 DEF Recoverable, Emptied, Alone
  <1> QED
    BY <1>6, <1>8

LEMMA ClearHolds ==
  ASSUME LoginInv, how # "qbittorrent", NEW p \in Resets, Reset!Clear(p) PROVE LoginInv'
  <1> SUFFICES LoginShape' /\ (Once' => Recoverable')
    BY DEF LoginInv, Reset!Clear
  <1>1. LoginShape /\ (Once => Recoverable)
    BY DEF LoginInv
  <1>2. reset[p] \in [at : ResetSteps, stamp : Seconds] /\ reset[p].stamp \in Seconds
    BY <1>1, IdleIsIdle DEF Reset!Clear, LoginShape, ResetSteps
  <1>3. /\ reset'[p] = [reset[p] EXCEPT !.at = "start"] /\ reset'[p].at = "start"
        /\ reset'[p].stamp = reset[p].stamp /\ reset'[p] \in [at : ResetSteps, stamp : Seconds]
        /\ \A q \in Resets \ {p} : reset'[q] = reset[q]
    BY <1>1, <1>2 DEF Reset!Clear, Reset!At, LoginShape, ResetSteps
  <1>4. LoginShape'
    BY <1>1, <1>2, <1>3 DEF Reset!Clear, Reset!At, LoginShape
  <1>5. ASSUME Once' PROVE Recoverable'
    <2>1. Recoverable /\ UNCHANGED <<mem, asked, backups>> /\ db' = {}
      BY <1>1, <1>5 DEF Once, Reset!Clear
    <2>2. reset[p] # Reset!Idle /\ reset'[p] # Reset!Idle
      BY <1>3, IdleIsIdle DEF Reset!Clear, ResetSteps
    <2>3. Apart'
      BY <1>3, <2>1, <2>2 DEF Recoverable, Apart
    <2>4. CASE "owner" \in db
      <3>1. {"owner"} \in backups[reset[p].stamp] /\ asked[reset[p].stamp] >= 1
        BY <2>1, <2>2, <2>4 DEF Recoverable, Copied, Apart, Reset!Clear
      <3>2. \A q \in Resets \ {p} : reset[q].at \in {"stop", "copy"} => reset[q].stamp # reset[p].stamp
        BY <2>1, <2>2, IdleIsIdle DEF Recoverable, Apart, ResetSteps
      <3>3. Safe'
        BY <1>2, <1>3, <2>1, <3>1, <3>2 DEF Safe
      <3> QED
        BY <1>3, <2>1, <2>3, <3>3 DEF Recoverable, Emptied, Alone, Copied
    <2>5. CASE "owner" \notin db
      <3>1. PICK s \in Seconds : /\ {"owner"} \in backups[s] /\ asked[s] >= 1
                                 /\ \A q \in Resets : reset[q].at \in {"stop", "copy"} => reset[q].stamp # s
        BY <2>1, <2>5 DEF Recoverable, Safe
      <3>2. Safe'
        BY <1>3, <2>1, <3>1 DEF Safe
      <3> QED
        BY <1>3, <2>1, <2>3, <3>2 DEF Recoverable, Emptied, Alone, Copied
    <2> QED
      BY <2>4, <2>5
  <1> QED
    BY <1>4, <1>5

(* An account is made only where there is none.                             *)
LEMMA MakeAccountHolds ==
  ASSUME LoginInv, how # "qbittorrent", Reset!MakeAccount PROVE LoginInv'
  <1> SUFFICES LoginShape' /\ (Once' => Recoverable')
    BY DEF LoginInv, Reset!MakeAccount
  <1>1. LoginShape /\ (Once => Recoverable)
    BY DEF LoginInv
  <1>2. LoginShape'
    BY <1>1, DialogsAssumption
       DEF Reset!MakeAccount, Reset!Event, LoginShape, Reset!Accounts
  <1>3. ASSUME Once' PROVE Recoverable'
    <2>1. Recoverable /\ UNCHANGED <<asked, backups, reset>> /\ mem = {} /\ mem' = {"new"} /\ db' = {"new"}
      BY <1>1, <1>3 DEF Once, Reset!MakeAccount
    <2>2. "owner" \notin db
      BY <2>1 DEF Recoverable, Emptied
    <2>3. Safe'
      BY <2>1, <2>2 DEF Recoverable, Safe
    <2> QED
      BY <2>1, <2>3 DEF Recoverable, Emptied, Alone, Copied, Apart
  <1> QED
    BY <1>2, <1>3

LEMMA LoginStep == LoginInv /\ [Reset!Next]_Reset!vars => LoginInv'
  <1> SUFFICES ASSUME LoginInv, [Reset!Next]_Reset!vars PROVE LoginInv'
    OBVIOUS
  <1>1. UNCHANGED how
    BY DEF Reset!Next, Reset!vars, Reset!Ask, Reset!Stop, Reset!Copy, Reset!Clear,
       Reset!Seed,
           Reset!Start, Reset!Fail, Reset!Crash, Reset!Tick, Reset!StartByHand,
           Reset!StopByHand, Reset!MakeAccount
  <1>2. CASE how = "qbittorrent"
    BY <1>1, <1>2 DEF LoginInv
  <1> SUFFICES ASSUME how # "qbittorrent" PROVE LoginInv'
    BY <1>2
  <1>3. LoginShape
    BY DEF LoginInv
  <1>4. ASSUME NEW p \in Resets, Reset!Stop(p) PROVE LoginInv'
    <2>1. reset[p] \in [at : ResetSteps, stamp : Seconds]
      BY <1>3, <1>4, IdleIsIdle DEF LoginShape, Reset!Stop, ResetSteps
    <2>2. /\ reset' = [reset EXCEPT ![p] = [reset[p] EXCEPT !.at = "copy"]]
          /\ UNCHANGED <<how, db, mem, backups, second, asked, live, resetEvents>>
      BY <1>4 DEF Reset!Stop, Reset!Stopped, Reset!At
    <2>3. [reset[p] EXCEPT !.at = "copy"] \in [at : ResetSteps, stamp : Seconds]
      BY <2>1 DEF ResetSteps
    <2>4. \A q \in Resets : Goes(q)
      BY <1>3, <1>4, <2>2 DEF Goes, LoginShape, Reset!Stop
    <2> QED
      BY <1>3, <2>2, <2>3, <2>4, IdleHolds DEF LoginShape
  <1>5. ASSUME NEW p \in Resets, Reset!Start(p) \/ Reset!Fail(p) PROVE LoginInv'
    <2>1. /\ reset' = [reset EXCEPT ![p] = Reset!Idle] /\ mem' \in {mem, db}
          /\ resetEvents' \in {resetEvents, resetEvents + 1} /\ resetEvents' <= MaxResetEvents
          /\ UNCHANGED <<how, db, backups, second, asked, live>>
      <3>1. CASE Reset!Start(p)
        <4>1. mem' = IF up THEN mem ELSE db
          BY <3>1 DEF Reset!Start, Reset!Started
        <4>2. reset' = [reset EXCEPT ![p] = Reset!Idle] /\ UNCHANGED <<how, db, backups, second, asked, live, resetEvents>>
          BY <3>1 DEF Reset!Start
        <4> QED
          BY <1>3, <4>1, <4>2 DEF LoginShape
      <3>2. CASE Reset!Fail(p)
        <4>1. reset' = [reset EXCEPT ![p] = Reset!Idle] /\ UNCHANGED <<how, db, mem, backups, second, asked, live>>
          BY <3>2 DEF Reset!Fail
        <4>2. resetEvents < MaxResetEvents /\ resetEvents' = resetEvents + 1
          BY <3>2 DEF Reset!Fail, Reset!Event
        <4>3. resetEvents \in Nat
          BY <1>3 DEF LoginShape
        <4> QED
          BY <4>1, <4>2, <4>3, DialogsAssumption
      <3> QED
        BY <1>5, <3>1, <3>2
    <2>2. \A q \in Resets : Goes(q)
      BY <1>3, <2>1 DEF Goes, LoginShape
    <2> QED
      BY <1>3, <2>1, <2>2, IdleHolds DEF LoginShape
  <1>6. CASE Reset!Crash
    <2>1. \A q \in Resets : Goes(q)
      BY <1>6 DEF Goes, Reset!Crash
    <2>2. reset' \in [Resets -> [at : ResetSteps, stamp : Seconds] \cup {Reset!Idle}]
      BY <1>6 DEF Reset!Crash
    <2>3. UNCHANGED <<how, db, mem, backups, second, asked, live>>
      BY <1>6 DEF Reset!Crash
    <2>4. resetEvents < MaxResetEvents /\ resetEvents' = resetEvents + 1
      BY <1>6 DEF Reset!Crash, Reset!Event
    <2>5. resetEvents \in Nat /\ second \in Nat /\ second <= resetEvents
      BY <1>3 DEF LoginShape
    <2> QED
      BY <2>1, <2>2, <2>3, <2>4, <2>5, IdleHolds, DialogsAssumption
  <1>7. CASE Reset!Tick \/ Reset!StartByHand \/ Reset!StopByHand \/ UNCHANGED Reset!vars
    <2>1. /\ UNCHANGED <<how, db, backups, asked, live, reset>> /\ mem' \in {mem, db}
          /\ second' \in Nat /\ resetEvents' \in Nat /\ second' <= resetEvents' /\ resetEvents' <= MaxResetEvents
      BY <1>3, <1>7, DialogsAssumption DEF Reset!Tick, Reset!StartByHand, Reset!Started,
             Reset!StopByHand, Reset!Stopped, Reset!Event, LoginShape, Reset!vars
    <2>2. \A q \in Resets : Goes(q)
      BY <2>1 DEF Goes
    <2> QED
      BY <1>3, <2>1, <2>2, IdleHolds DEF LoginShape
  <1>8. CASE Once /\ \E p \in Resets : Reset!Seed(p)
    BY <1>8 DEF LoginInv, Recoverable, Reset!Seed
  <1>9. ASSUME NEW p \in Resets, Reset!Seed(p), ~Once PROVE LoginInv'
    <2>1. reset[p] \in [at : ResetSteps, stamp : Seconds]
      BY <1>3, <1>9, IdleIsIdle DEF LoginShape, Reset!Seed, ResetSteps
    <2>2. LoginShape' /\ ~Once'
      BY <1>3, <1>9, <2>1
         DEF LoginShape, Reset!Seed, Reset!At, Once, Reset!Accounts, ResetSteps
    <2> QED
      BY <2>2 DEF LoginInv
  <1>10. ASSUME NEW p \in Resets, Reset!Ask(p) \/ Reset!Copy(p) \/ Reset!Clear(p) PROVE LoginInv'
    BY <1>10, AskHolds, CopyHolds, ClearHolds
  <1>11. CASE Reset!MakeAccount
    BY <1>11, MakeAccountHolds
  <1> QED
    BY <1>4, <1>5, <1>6, <1>7, <1>8, <1>9, <1>10, <1>11 DEF Reset!Next

LEMMA KeepsTheOwner == LoginInv => OwnerIsKept
  <1> SUFFICES ASSUME LoginInv, how # "qbittorrent", \A s \in DOMAIN asked : asked[s] <= 1,
                      ~live, "owner" \notin db
               PROVE  {"owner"} \in Reset!Kept
    BY DEF OwnerIsKept, Reset!OwnerIsKept
  <1>1. LoginShape /\ DOMAIN asked = Seconds /\ DOMAIN backups = Seconds
    BY DEF LoginInv, LoginShape
  <1>2. Safe
    BY <1>1 DEF LoginInv, Once, Recoverable
  <1> QED
    BY <1>1, <1>2 DEF Safe, Reset!Kept

(* The account an owner was locked out of is in the app's file or in a copy *)
(* of it that can be read (app.js:4621), however many resets overlap, fail  *)
(* or are cut off, unless two were asked for within one second or the app   *)
(* had been started again when its file was copied.                         *)
THEOREM OwnerAlwaysKept == Reset!Spec => []OwnerIsKept
  <1>1. Reset!Init => LoginInv
    BY LoginInit
  <1>2. LoginInv /\ [Reset!Next]_Reset!vars => LoginInv'
    BY LoginStep
  <1>3. LoginInv => OwnerIsKept
    BY KeepsTheOwner
  <1> QED
    BY <1>1, <1>2, <1>3, PTL DEF Reset!Spec
-----------------------------------------------------------------------------
(* The lists a user keeps. What filter() keeps of a list stands at its rank *)
(* among the places that are kept; ids that name no link twice name as many *)
(* as they know, so that the named ones and the others make up the list.    *)

(* How many of the places are up to i.                                      *)
Rank(places, i) == Lists!Cardinality({j \in places : j <= i})

LEMMA Counted == \A S : Lists!Cardinality(S) = Cardinality(S)
  BY Zenon DEF Lists!Cardinality, Cardinality

LEMMA Ranks ==
  ASSUME NEW n \in Nat, NEW places \in SUBSET (1..n)
  PROVE  /\ IsFiniteSet(places) /\ Cardinality(places) \in Nat
         /\ \A i \in places : Rank(places, i) \in 1..Cardinality(places)
         /\ \A i, j \in places : i < j => Rank(places, i) < Rank(places, j)
         /\ \A k \in 1..Cardinality(places) : \E i \in places : Rank(places, i) = k
  <1>1. IsFiniteSet(places) /\ Cardinality(places) \in Nat
    <2>1. IsFiniteSet(1..n)
      BY FS_Interval
    <2>2. IsFiniteSet(places)
      BY <2>1, FS_Subset
    <2> QED
      BY <2>2, FS_CardinalityType
  <1>2. ASSUME NEW i \in places
        PROVE  /\ IsFiniteSet({j \in places : j <= i}) /\ Rank(places, i) \in Nat
               /\ Rank(places, i) <= Cardinality(places)
    <2> DEFINE low == {j \in places : j <= i}
    <2>1. low \in SUBSET places
      OBVIOUS
    <2>2. Rank(places, i) = Cardinality(low)
      BY Counted DEF Rank
    <2> HIDE DEF low
    <2>3. IsFiniteSet(low) /\ Cardinality(low) \in Nat /\ Cardinality(low) <= Cardinality(places)
      BY <1>1, <2>1, FS_Subset, FS_CardinalityType
    <2> QED
      BY <2>2, <2>3 DEF low
  <1>3. ASSUME NEW i \in places PROVE Rank(places, i) \in 1..Cardinality(places)
    <2>1. i \in {j \in places : j <= i}
      OBVIOUS
    <2>2. Cardinality({j \in places : j <= i}) # 0
      BY <1>2, <2>1, FS_EmptySet
    <2>3. Rank(places, i) # 0
      BY <2>2, Counted DEF Rank
    <2>4. Rank(places, i) \in Nat /\ Rank(places, i) <= Cardinality(places)
      BY <1>2
    <2> QED
      BY <1>1, <2>3, <2>4
  <1>4. ASSUME NEW i \in places, NEW j \in places, i < j
        PROVE  Rank(places, i) < Rank(places, j)
    <2> DEFINE low == {h \in places : h <= i}  high == {h \in places : h <= j}
    <2>0. \A h \in places : h \in Nat
      OBVIOUS
    <2>1. low \in SUBSET high /\ j \in high /\ j \notin low
      <3>1. \A h \in low : h \in high
        BY <1>4, <2>0
      <3>2. j \in high
        BY <2>0
      <3>3. j \notin low
        BY <1>4, <2>0
      <3> QED
        BY <3>1, <3>2, <3>3
    <2>2. IsFiniteSet(high)
      BY <1>2
    <2>3. Cardinality(low) <= Cardinality(high) /\ Cardinality(low) # Cardinality(high)
      <3> HIDE DEF low, high
      <3> QED
        BY <2>1, <2>2, FS_Subset
    <2> QED
      BY <1>2, <2>3, Counted DEF Rank
  <1> DEFINE f == [i \in places |-> Rank(places, i)]
  <1>5. f \in Injection(places, 1..Cardinality(places))
    <2>1. f \in [places -> 1..Cardinality(places)]
      BY <1>3
    <2>2. \A i, j \in places : f[i] = f[j] => i = j
      <3> SUFFICES ASSUME NEW i \in places, NEW j \in places, f[i] = f[j], i # j PROVE FALSE
        OBVIOUS
      <3>1. i < j \/ j < i
        OBVIOUS
      <3>2. Rank(places, i) \in Nat /\ Rank(places, j) \in Nat
        BY <1>2
      <3>3. CASE i < j
        BY <1>4, <3>2, <3>3
      <3>4. CASE j < i
        BY <1>4, <3>2, <3>4
      <3> QED
        BY <3>1, <3>3, <3>4
    <2> HIDE DEF f
    <2> QED
      BY <2>1, <2>2, Fun_IsInj
  <1>6. f \in Surjection(places, 1..Cardinality(places))
    <2>1. IsFiniteSet(1..Cardinality(places))
          /\ Cardinality(1..Cardinality(places)) = Cardinality(places)
      BY <1>1, FS_Interval
    <2> HIDE DEF f
    <2> QED
      BY <1>5, <2>1, FS_Injection
  <1>7. \A k \in 1..Cardinality(places) : \E i \in places : f[i] = k
    <2> HIDE DEF f
    <2> QED
      BY <1>6, Fun_SurjectionProperties
  <1>8. \A k \in 1..Cardinality(places) : \E i \in places : Rank(places, i) = k
    BY <1>7
  <1> HIDE DEF f
  <1> QED
    BY <1>1, <1>3, <1>4, <1>8

(* What is kept of a list, and where.                                       *)
LEMMA Kept ==
  ASSUME NEW S, NEW list \in Seq(S), NEW places \in SUBSET DOMAIN list
  PROVE  /\ IsFiniteSet(places) /\ Cardinality(places) \in Nat
         /\ Lists!Keep(list, places) \in Seq(S)
         /\ DOMAIN Lists!Keep(list, places) = 1..Cardinality(places)
         /\ Len(Lists!Keep(list, places)) = Cardinality(places)
         /\ \A i \in places : /\ Rank(places, i) \in 1..Cardinality(places)
                              /\ Lists!Keep(list, places)[Rank(places, i)] = list[i]
         /\ \A k \in 1..Cardinality(places) : \E i \in places : Rank(places, i) = k
  <1>1. Len(list) \in Nat /\ DOMAIN list = 1..Len(list)
    BY LenProperties
  <1>2. /\ IsFiniteSet(places) /\ Cardinality(places) \in Nat
        /\ \A i \in places : Rank(places, i) \in 1..Cardinality(places)
        /\ \A i, j \in places : i < j => Rank(places, i) < Rank(places, j)
        /\ \A k \in 1..Cardinality(places) : \E i \in places : Rank(places, i) = k
    <2>1. places \in SUBSET (1..Len(list))
      BY <1>1
    <2> QED
      BY <1>1, <2>1, Ranks, Zenon
  <1> DEFINE the(k) == CHOOSE i \in places : Rank(places, i) = k
  <1>3. \A k \in 1..Cardinality(places) : the(k) \in places /\ Rank(places, the(k)) = k
    BY <1>2
  <1>4. \A i \in places : the(Rank(places, i)) = i
    <2> SUFFICES ASSUME NEW i \in places PROVE the(Rank(places, i)) = i
      OBVIOUS
    <2> DEFINE j == the(Rank(places, i))
    <2>1. j \in places /\ Rank(places, j) = Rank(places, i) /\ Rank(places, i) \in Nat
      BY <1>2, <1>3
    <2>2. i \in Nat /\ j \in Nat
      BY <1>1, <2>1
    <2> HIDE DEF j
    <2>3. ~(i < j) /\ ~(j < i)
      BY <1>2, <2>1
    <2>4. i = j
      BY <2>2, <2>3
    <2> QED
      BY <2>4 DEF j
  <1>5. Lists!Keep(list, places) = [k \in 1..Cardinality(places) |-> list[the(k)]]
    <2>1. Lists!Keep(list, places) = [k \in 1..Lists!Cardinality(places) |-> list[the(k)]]
      BY Zenon DEF Lists!Keep, Rank
    <2> QED
      BY <2>1, Counted
  <1> HIDE DEF the
  <1>6. \A k \in 1..Cardinality(places) : list[the(k)] \in S
    BY <1>1, <1>3, ElementOfSeq
  <1>7. Lists!Keep(list, places) \in Seq(S)
    BY <1>2, <1>5, <1>6
  <1> QED
    BY <1>2, <1>4, <1>5, <1>7


(* The lists the dashboard keeps name no link twice, and neither does an    *)
(* order a page sends.                                                      *)
Entries == [id : Ids, pic : Pics \cup {Lists!NoPic}]
Proper(list) ==
    list \in Seq(Entries) /\ \A i, j \in DOMAIN list : list[i].id = list[j].id => i = j
AnOrder(ids) ==
    ids \in Seq(Ids) /\ \A i, j \in DOMAIN ids : ids[i] = ids[j] => i = j

LEMMA Found ==
  ASSUME NEW list, Proper(list), NEW j \in DOMAIN list
  PROVE  (CHOOSE i \in Lists!At(list, list[j].id) : TRUE) = j
  <1> DEFINE the == CHOOSE i \in Lists!At(list, list[j].id) : TRUE
  <1>1. j \in Lists!At(list, list[j].id)
    BY DEF Lists!At
  <1>2. the \in Lists!At(list, list[j].id)
    BY <1>1
  <1>3. the \in DOMAIN list /\ list[the].id = list[j].id
    BY <1>2 DEF Lists!At
  <1> QED
    BY <1>3 DEF Proper

(* The named links: one for each id that is known, in the order of the ids. *)
LEMMA Named ==
  ASSUME NEW list, Proper(list), NEW ids, AnOrder(ids)
  PROVE  LET known == Lists!Known(list, ids)
             named == Lists!Ordered(list, ids)
         IN  /\ known \in SUBSET DOMAIN ids
             /\ Cardinality(known) \in Nat
             /\ named \in Seq(Entries) /\ Len(named) = Cardinality(known)
             /\ \A i \in known : \E j \in DOMAIN list : list[j].id = ids[i]
             /\ \A i \in known : \A j \in DOMAIN list :
                  list[j].id = ids[i] => /\ Rank(known, i) \in 1..Cardinality(known)
                                         /\ named[Rank(known, i)] = list[j]
             /\ \A k \in 1..Cardinality(known) : \E i \in known : Rank(known, i) = k
  <1> DEFINE known == Lists!Known(list, ids)
             named == Lists!Ordered(list, ids)
             kept == Lists!Keep(ids, known)
             at(k) == CHOOSE j \in Lists!At(list, kept[k]) : TRUE
  <1>1. known \in SUBSET DOMAIN ids
    BY DEF Lists!Known
  <1>2. \A i \in known : \E j \in DOMAIN list : list[j].id = ids[i]
    BY DEF Lists!Known, Lists!At
  <1>3. /\ Cardinality(known) \in Nat
        /\ kept \in Seq(Ids) /\ DOMAIN kept = 1..Cardinality(known)
        /\ \A i \in known : Rank(known, i) \in 1..Cardinality(known) /\ kept[Rank(known, i)] = ids[i]
        /\ \A k \in 1..Cardinality(known) : \E i \in known : Rank(known, i) = k
    <2>1. ids \in Seq(Ids)
      BY DEF AnOrder
    <2> HIDE DEF known
    <2> QED
      BY <1>1, <2>1, Kept
  <1>4. named = [k \in DOMAIN kept |-> list[at(k)]]
    BY Zenon DEF Lists!Ordered
  <1> HIDE DEF named, kept, known
  <1>5. \A i \in known : \A j \in DOMAIN list :
          list[j].id = ids[i] => at(Rank(known, i)) = j
    BY <1>3, Found
  <1>6. \A i \in known : \A j \in DOMAIN list :
          list[j].id = ids[i] => named[Rank(known, i)] = list[j]
    <2> SUFFICES ASSUME NEW i \in known, NEW j \in DOMAIN list, list[j].id = ids[i]
                 PROVE  named[Rank(known, i)] = list[j]
      OBVIOUS
    <2>1. Rank(known, i) \in DOMAIN kept /\ at(Rank(known, i)) = j
      BY <1>3, <1>5
    <2> HIDE DEF at
    <2> QED
      BY <1>4, <2>1
  <1>7. \A k \in 1..Cardinality(known) : named[k] \in Entries
    <2> SUFFICES ASSUME NEW k \in 1..Cardinality(known) PROVE named[k] \in Entries
      OBVIOUS
    <2>1. PICK i \in known : Rank(known, i) = k
      BY <1>3
    <2>2. PICK j \in DOMAIN list : list[j].id = ids[i]
      BY <1>2
    <2>3. named[k] = list[j]
      BY <1>6, <2>1, <2>2
    <2>4. list \in Seq(Entries)
      BY DEF Proper
    <2> HIDE DEF Entries
    <2>5. list[j] \in Entries
      BY <2>4, ElementOfSeq, LenProperties
    <2> QED
      BY <2>3, <2>5
  <1>8. named \in Seq(Entries) /\ Len(named) = Cardinality(known)
    <2> HIDE DEF at
    <2>1. named = [k \in 1..Cardinality(known) |-> named[k]]
      BY <1>3, <1>4
    <2> HIDE DEF Entries
    <2> QED
      BY <1>3, <1>7, <2>1
  <1> QED
    BY <1>1, <1>2, <1>3, <1>6, <1>8 DEF named, known


(* As many as the links that the ids name.                                  *)
LEMMA AsMany ==
  ASSUME NEW list, Proper(list), NEW ids, AnOrder(ids)
  PROVE  /\ IsFiniteSet(Lists!Unnamed(list, ids)) /\ Cardinality(Lists!Unnamed(list, ids)) \in Nat
         /\ Lists!Unnamed(list, ids) \in SUBSET DOMAIN list
         /\ Cardinality(Lists!Known(list, ids)) + Cardinality(Lists!Unnamed(list, ids)) = Len(list)
  <1> DEFINE known == Lists!Known(list, ids)
             others == Lists!Unnamed(list, ids)
             theirs == DOMAIN list \ others
             at == [i \in known |-> CHOOSE j \in Lists!At(list, ids[i]) : TRUE]
  <1>1. others \in SUBSET DOMAIN list
    BY DEF Lists!Unnamed
  <1>2. /\ IsFiniteSet(DOMAIN list) /\ Cardinality(DOMAIN list) = Len(list) /\ Len(list) \in Nat
    <2>1. list \in Seq(Entries)
      BY DEF Proper
    <2> HIDE DEF Entries
    <2>2. Len(list) \in Nat /\ DOMAIN list = 1..Len(list)
      BY <2>1, LenProperties
    <2>3. 1 \in Int /\ Len(list) \in Int
      BY <2>2
    <2>4. /\ IsFiniteSet(1..Len(list))
          /\ Cardinality(1..Len(list)) = IF 1 > Len(list) THEN 0 ELSE Len(list) - 1 + 1
      BY <2>3, FS_Interval, Zenon
    <2> QED
      BY <2>2, <2>4
  <1>3. \A i \in known : i \in DOMAIN ids /\ \E j \in DOMAIN list : list[j].id = ids[i]
    BY DEF Lists!Known, Lists!At
  <1>4. \A i \in known : \A j \in DOMAIN list : list[j].id = ids[i] => at[i] = j
    <2> SUFFICES ASSUME NEW i \in known, NEW j \in DOMAIN list, list[j].id = ids[i]
                 PROVE  at[i] = j
      OBVIOUS
    <2>1. at[i] = CHOOSE h \in Lists!At(list, list[j].id) : TRUE
      OBVIOUS
    <2> QED
      BY <2>1, Found
  <1>5. \A j \in DOMAIN list : j \in theirs <=> \E i \in DOMAIN ids : ids[i] = list[j].id
    BY DEF Lists!Unnamed, Lists!ToSet
  <1>6. \A i \in DOMAIN ids : \A j \in DOMAIN list : ids[i] = list[j].id => i \in known
    BY DEF Lists!Known, Lists!At
  <1>7. \A i \in known : at[i] \in theirs
    <2> HIDE DEF at, known, others
    <2> QED
      BY <1>3, <1>4, <1>5
  <1>8. at \in [known -> theirs]
    <2> HIDE DEF known, others
    <2> QED
      BY <1>7
  <1>9. \A h, i \in known : at[h] = at[i] => h = i
    <2> SUFFICES ASSUME NEW h \in known, NEW i \in known, at[h] = at[i] PROVE h = i
      OBVIOUS
    <2>1. ids[h] = ids[i] /\ h \in DOMAIN ids /\ i \in DOMAIN ids
      <3> HIDE DEF at, known
      <3> QED
        BY <1>3, <1>4
    <2> QED
      BY <2>1 DEF AnOrder
  <1>10. \A j \in theirs : \E i \in known : at[i] = j
    <2> HIDE DEF at, known, others
    <2> QED
      BY <1>4, <1>5, <1>6
  <1>11. IsFiniteSet(theirs) /\ IsFiniteSet(others) /\ Cardinality(theirs) \in Nat /\ Cardinality(others) \in Nat
    <2> HIDE DEF others
    <2>1. IsFiniteSet(theirs) /\ IsFiniteSet(others)
      BY <1>1, <1>2, FS_Subset
    <2> HIDE DEF theirs
    <2> QED
      BY <2>1, FS_CardinalityType
  <1>12. Cardinality(known) = Cardinality(theirs)
    <2> HIDE DEF at, known, theirs
    <2>1. at \in Injection(known, theirs)
      BY <1>8, <1>9, Fun_IsInj
    <2>2. at \in Surjection(known, theirs)
      BY <1>8, <1>10, Fun_IsSurj
    <2> QED
      BY <1>11, <2>1, <2>2, FS_Injection
  <1>13. Cardinality(theirs) = Cardinality(DOMAIN list) - Cardinality(others)
    <2>1. DOMAIN list \cap others = others
      BY <1>1
    <2> HIDE DEF others
    <2> QED
      BY <1>2, <2>1, FS_Difference
  <1> HIDE DEF known, others, theirs
  <1>14. Cardinality(known) + Cardinality(others) = Len(list)
    BY <1>2, <1>11, <1>12, <1>13
  <1> QED
    BY <1>1, <1>11, <1>14 DEF known, others

LEMMA FromNext == ASSUME NEW n \in Nat, NEW m \in Nat PROVE Cardinality((n + 1)..(n + m)) = m
  <1> DEFINE a == n + 1  b == n + m
  <1>1. a \in Int /\ b \in Int /\ (a > b <=> m = 0) /\ b - a + 1 = m
    OBVIOUS
  <1> HIDE DEF a, b
  <1>2. Cardinality(a..b) = IF a > b THEN 0 ELSE b - a + 1
    BY <1>1, FS_Interval
  <1>3. Cardinality(a..b) = m
    BY <1>1, <1>2
  <1> QED
    BY <1>3 DEF a, b

(* reorder() keeps each link once, and those that are not named in order.   *)
LEMMA Reorder ==
  ASSUME NEW list, Proper(list), NEW ids, AnOrder(ids)
  PROVE  LET new == Lists!Reordered(list, ids)
             rest(l) == Lists!Keep(l, Lists!Unnamed(l, ids))
         IN  /\ Proper(new) /\ Len(new) = Len(list)
             /\ Lists!ToSet(new) = Lists!ToSet(list)
             /\ rest(new) = rest(list)
  <1> DEFINE known == Lists!Known(list, ids)
             others == Lists!Unnamed(list, ids)
             named == Lists!Ordered(list, ids)
             kept == Lists!Keep(list, others)
             new == Lists!Reordered(list, ids)
             N == Cardinality(known)
             M == Cardinality(others)
  <1>1. /\ M \in Nat /\ others \in SUBSET DOMAIN list /\ N + M = Len(list)
    BY AsMany
  <1>2. /\ known \in SUBSET DOMAIN ids
        /\ N \in Nat /\ named \in Seq(Entries) /\ Len(named) = N
        /\ \A i \in known : \E j \in DOMAIN list : list[j].id = ids[i]
        /\ \A i \in known : \A j \in DOMAIN list :
             list[j].id = ids[i] => Rank(known, i) \in 1..N /\ named[Rank(known, i)] = list[j]
        /\ \A k \in 1..N : \E i \in known : Rank(known, i) = k
    BY Named
  <1>3. list \in Seq(Entries)
    BY DEF Proper
  <1>4. /\ kept \in Seq(Entries) /\ Len(kept) = M
        /\ \A j \in others : Rank(others, j) \in 1..M /\ kept[Rank(others, j)] = list[j]
        /\ \A k \in 1..M : \E j \in others : Rank(others, j) = k
    <2> HIDE DEF others, Entries
    <2> QED
      BY <1>1, <1>3, Kept
  <1>5. new = named \o kept
    BY DEF Lists!Reordered
  <1> HIDE DEF new, named, kept
  <1>6. /\ new \in Seq(Entries) /\ Len(new) = Len(list) /\ DOMAIN new = 1..(N + M)
        /\ \A k \in 1..(N + M) : new[k] = IF k <= N THEN named[k] ELSE kept[k - N]
    <2> HIDE DEF Entries, N, M
    <2>1. /\ named \in Seq(Entries) /\ Len(named) = N
          /\ kept \in Seq(Entries) /\ Len(kept) = M
      BY <1>2, <1>4
    <2>2. /\ named \o kept \in Seq(Entries)
          /\ Len(named \o kept) = Len(named) + Len(kept)
          /\ \A k \in 1..(Len(named) + Len(kept)) :
               (named \o kept)[k] = IF k <= Len(named) THEN named[k] ELSE kept[k - Len(named)]
      BY <2>1, ConcatProperties, Zenon
    <2>3. /\ new \in Seq(Entries) /\ Len(new) = N + M
          /\ \A k \in 1..(N + M) : new[k] = IF k <= N THEN named[k] ELSE kept[k - N]
      BY <1>5, <2>1, <2>2
    <2> QED
      BY <1>1, <2>3, LenProperties
  <1>7. \A j \in DOMAIN list : j \notin others <=> \E i \in known : ids[i] = list[j].id
    BY <1>1 DEF Lists!Unnamed, Lists!ToSet, Lists!Known, Lists!At
  <1>8. \A i \in known : ids[i] \in Lists!ToSet(ids)
    BY <1>2 DEF Lists!ToSet
  <1>9. \A j \in others : list[j].id \notin Lists!ToSet(ids)
    BY DEF Lists!Unnamed
  <1> HIDE DEF known, others
  <1>10. ASSUME NEW k \in 1..N
         PROVE  \E i \in known : \E j \in DOMAIN list :
                  Rank(known, i) = k /\ list[j].id = ids[i] /\ new[k] = list[j] /\ j \notin others
    <2>1. PICK i \in known : Rank(known, i) = k
      BY <1>2
    <2>2. PICK j \in DOMAIN list : list[j].id = ids[i]
      BY <1>2
    <2>3. named[k] = list[j]
      BY <1>2, <2>1, <2>2
    <2>4. new[k] = named[k]
      <3> HIDE DEF N, M
      <3> QED
        BY <1>1, <1>2, <1>6
    <2> QED
      BY <1>7, <2>1, <2>2, <2>3, <2>4
  <1>11. ASSUME NEW k \in 1..M
         PROVE  \E j \in others : Rank(others, j) = k /\ new[N + k] = list[j] /\ new[N + k] = kept[k]
    <2>1. PICK j \in others : Rank(others, j) = k
      BY <1>4
    <2>2. kept[k] = list[j]
      BY <1>4, <2>1
    <2>3. new[N + k] = kept[k]
      <3> HIDE DEF N, M
      <3>1. k \in Nat /\ k >= 1 /\ k <= M
        BY <1>1
      <3>2. N + k \in 1..(N + M) /\ ~(N + k <= N) /\ (N + k) - N = k
        BY <1>1, <1>2, <3>1
      <3> QED
        BY <1>6, <3>2
    <2> QED
      BY <2>1, <2>2, <2>3
  <1>12. \A k \in 1..(N + M) : k \in 1..N \/ \E h \in 1..M : k = N + h
    <2> HIDE DEF N, M
    <2> SUFFICES ASSUME NEW k \in 1..(N + M), ~(k <= N)
                 PROVE  \E h \in 1..M : k = N + h
      BY <1>1, <1>2
    <2>1. k - N \in 1..M /\ k = N + (k - N)
      BY <1>1, <1>2
    <2> QED
      BY <2>1
  <1>13. \A k \in 1..N : k \in DOMAIN new
    <2> HIDE DEF N, M
    <2> QED
      BY <1>1, <1>2, <1>6
  <1>14. \A k \in 1..M : N + k \in DOMAIN new
    <2> HIDE DEF N, M
    <2> QED
      BY <1>1, <1>2, <1>6
  <1>15. \A k \in DOMAIN new : \E j \in DOMAIN list : new[k] = list[j]
    <2> SUFFICES ASSUME NEW k \in DOMAIN new PROVE \E j \in DOMAIN list : new[k] = list[j]
      OBVIOUS
    <2> HIDE DEF N, M
    <2> QED
      BY <1>1, <1>6, <1>10, <1>11, <1>12
  <1>16. \A j \in DOMAIN list : \E k \in DOMAIN new : new[k] = list[j]
    <2> SUFFICES ASSUME NEW j \in DOMAIN list PROVE \E k \in DOMAIN new : new[k] = list[j]
      OBVIOUS
    <2>1. CASE j \in others
      <3>1. Rank(others, j) \in 1..M /\ kept[Rank(others, j)] = list[j]
        BY <1>4, <2>1
      <3>2. new[N + Rank(others, j)] = list[j]
        BY <1>11, <3>1
      <3> QED
        BY <1>14, <3>1, <3>2
    <2>2. CASE j \notin others
      <3>1. PICK i \in known : ids[i] = list[j].id
        BY <1>7, <2>2
      <3>2. Rank(known, i) \in 1..N /\ named[Rank(known, i)] = list[j]
        BY <1>2, <3>1
      <3> HIDE DEF N, M
      <3>3. Rank(known, i) \in 1..(N + M) /\ Rank(known, i) <= N
        BY <1>1, <1>2, <3>2
      <3>4. new[Rank(known, i)] = list[j]
        BY <1>6, <3>2, <3>3
      <3> QED
        BY <1>13, <3>2, <3>4
    <2> QED
      BY <2>1, <2>2
  <1>17. Lists!ToSet(new) = Lists!ToSet(list)
    BY <1>15, <1>16 DEF Lists!ToSet
  <1>18. \A k \in 1..N : new[k].id \in Lists!ToSet(ids)
    BY <1>8, <1>10
  <1>19. \A k \in 1..M : new[N + k].id \notin Lists!ToSet(ids)
    BY <1>9, <1>11
  <1>20. ASSUME NEW g \in DOMAIN new, NEW k \in DOMAIN new, new[g].id = new[k].id
         PROVE  g = k
    <2>1. \A i, j \in DOMAIN list : list[i].id = list[j].id => i = j
      BY DEF Proper
    <2>2. \A h, i \in known : ids[h] = ids[i] => h = i
      BY <1>2 DEF AnOrder
    <2>3. CASE g \in 1..N /\ k \in 1..N
      <3>1. PICK i \in known : \E j \in DOMAIN list :
              Rank(known, i) = g /\ list[j].id = ids[i] /\ new[g] = list[j] /\ j \notin others
        BY <1>10, <2>3
      <3>2. PICK h \in known : \E j \in DOMAIN list :
              Rank(known, h) = k /\ list[j].id = ids[h] /\ new[k] = list[j] /\ j \notin others
        BY <1>10, <2>3
      <3>3. ids[i] = ids[h]
        BY <1>20, <3>1, <3>2
      <3> QED
        BY <2>2, <3>1, <3>2, <3>3
    <2>4. ASSUME NEW a \in 1..M, NEW b \in 1..M, g = N + a, k = N + b PROVE g = k
      <3>1. PICK i \in others : Rank(others, i) = a /\ new[g] = list[i]
        BY <1>11, <2>4
      <3>2. PICK j \in others : Rank(others, j) = b /\ new[k] = list[j]
        BY <1>11, <2>4
      <3>3. i = j
        BY <1>1, <1>20, <2>1, <3>1, <3>2
      <3> QED
        BY <2>4, <3>1, <3>2, <3>3
    <2>5. (g \in 1..N \/ \E a \in 1..M : g = N + a) /\ (k \in 1..N \/ \E b \in 1..M : k = N + b)
      BY <1>6, <1>12
    <2> HIDE DEF N, M
    <2>6. CASE g \in 1..N
      BY <1>18, <1>19, <1>20, <2>3, <2>5, <2>6
    <2>7. CASE \E a \in 1..M : g = N + a
      BY <1>18, <1>19, <1>20, <2>4, <2>5, <2>7
    <2> QED
      BY <2>5, <2>6, <2>7
  <1>21. Proper(new) /\ Len(new) = Len(list)
    BY <1>6, <1>20 DEF Proper
  <1> DEFINE tail == Lists!Unnamed(new, ids)
  <1>22. tail = (N + 1)..(N + M)
    <2>1. \A k \in DOMAIN new : k \in tail <=> new[k].id \notin Lists!ToSet(ids)
      BY DEF Lists!Unnamed
    <2>2. tail \in SUBSET DOMAIN new
      BY DEF Lists!Unnamed
    <2> HIDE DEF tail, N, M
    <2>3. ASSUME NEW k \in tail PROVE k \in (N + 1)..(N + M)
      <3>1. k \in 1..(N + M) /\ k \notin 1..N
        BY <1>6, <1>18, <2>1, <2>2
      <3> QED
        BY <1>1, <1>2, <3>1
    <2>4. ASSUME NEW k \in (N + 1)..(N + M) PROVE k \in tail
      <3>1. k \in 1..(N + M) /\ ~(k \in 1..N)
        BY <1>1, <1>2
      <3>2. k \in DOMAIN new /\ \E h \in 1..M : k = N + h
        BY <1>6, <1>12, <3>1
      <3> QED
        BY <1>19, <2>1, <3>2
    <2> QED
      BY <2>3, <2>4
  <1>23. Cardinality(tail) = M
    <2> HIDE DEF tail, N, M
    <2> QED
      BY <1>1, <1>2, <1>22, FromNext
  <1>24. \A k \in 1..M : Rank(tail, N + k) = k
    <2> HIDE DEF tail, N, M
    <2> SUFFICES ASSUME NEW k \in 1..M PROVE Rank(tail, N + k) = k
      OBVIOUS
    <2>1. {j \in tail : j <= N + k} = (N + 1)..(N + k)
      BY <1>1, <1>2, <1>22
    <2>2. k \in Nat
      BY <1>1
    <2>3. Cardinality((N + 1)..(N + k)) = k
      BY <1>2, <2>2, FromNext
    <2> QED
      BY <2>1, <2>3, Counted DEF Rank
  <1>25. Lists!Keep(new, tail) = kept
    <2>1. tail \in SUBSET DOMAIN new
      BY DEF Lists!Unnamed
    <2> HIDE DEF tail, N, M, Entries
    <2>2. /\ Lists!Keep(new, tail) \in Seq(Entries)
          /\ Len(Lists!Keep(new, tail)) = M
          /\ \A k \in tail : Lists!Keep(new, tail)[Rank(tail, k)] = new[k]
      BY <1>6, <1>23, <2>1, Kept
    <2>3. \A k \in 1..M : Lists!Keep(new, tail)[k] = kept[k]
      <3> SUFFICES ASSUME NEW k \in 1..M PROVE Lists!Keep(new, tail)[k] = kept[k]
        OBVIOUS
      <3>1. N + k \in tail
        BY <1>1, <1>2, <1>22
      <3>2. Rank(tail, N + k) = k
        BY <1>24
      <3>3. new[N + k] = kept[k]
        BY <1>11
      <3> QED
        BY <2>2, <3>1, <3>2, <3>3
    <2> QED
      BY <1>4, <2>2, <2>3, SeqEqual
  <1> QED
    BY <1>17, <1>21, <1>25 DEF new, kept, others

(* The other changes of a list: some links are taken out, one is saved, two *)
(* that are neighbours change places.                                       *)
LEMMA TakenOut ==
  ASSUME NEW list, Proper(list), NEW places \in SUBSET DOMAIN list
  PROVE  Proper(Lists!Keep(list, places))
  <1> DEFINE left == Lists!Keep(list, places)
  <1>1. list \in Seq(Entries)
    BY DEF Proper
  <1>2. /\ left \in Seq(Entries) /\ DOMAIN left = 1..Cardinality(places)
        /\ \A i \in places : left[Rank(places, i)] = list[i]
        /\ \A k \in 1..Cardinality(places) : \E i \in places : Rank(places, i) = k
    <2> HIDE DEF Entries
    <2> QED
      BY <1>1, Kept
  <1> HIDE DEF left
  <1>3. ASSUME NEW g \in DOMAIN left, NEW k \in DOMAIN left, left[g].id = left[k].id
        PROVE  g = k
    <2>1. PICK h \in places : Rank(places, h) = g
      BY <1>2
    <2>2. PICK i \in places : Rank(places, i) = k
      BY <1>2
    <2>3. h = i
      BY <1>2, <1>3, <2>1, <2>2 DEF Proper
    <2> QED
      BY <2>1, <2>2, <2>3
  <1>4. Proper(left)
    BY <1>2, <1>3 DEF Proper
  <1> QED
    BY <1>4 DEF left

LEMMA Saved ==
  ASSUME NEW list, Proper(list), NEW entry \in Entries
  PROVE  Proper(Lists!WithLink(list, entry))
  <1>1. list \in Seq(Entries) /\ Len(list) \in Nat /\ DOMAIN list = 1..Len(list)
    BY LenProperties DEF Proper
  <1>2. CASE Lists!At(list, entry.id) = {}
    <2>1. Lists!WithLink(list, entry) = Append(list, entry)
      BY <1>2 DEF Lists!WithLink
    <2>2. \A i \in DOMAIN list : list[i].id # entry.id
      BY <1>2 DEF Lists!At
    <2> DEFINE new == Append(list, entry)
    <2>3. /\ new \in Seq(Entries) /\ DOMAIN new = 1..(Len(list) + 1)
          /\ new[Len(list) + 1] = entry /\ \A i \in DOMAIN list : new[i] = list[i]
      <3> HIDE DEF Entries
      <3> QED
        BY <1>1, AppendProperties
    <2> HIDE DEF new
    <2>4. ASSUME NEW i \in DOMAIN new, NEW j \in DOMAIN new, new[i].id = new[j].id PROVE i = j
      <3>1. (i \in DOMAIN list \/ i = Len(list) + 1) /\ (j \in DOMAIN list \/ j = Len(list) + 1)
        BY <1>1, <2>3
      <3> QED
        BY <2>2, <2>3, <2>4, <3>1 DEF Proper
    <2>5. Proper(new)
      BY <2>3, <2>4 DEF Proper
    <2> QED
      BY <2>1, <2>5 DEF new
  <1>3. CASE Lists!At(list, entry.id) # {}
    <2> DEFINE at == CHOOSE i \in Lists!At(list, entry.id) : TRUE
               new == [list EXCEPT ![at] = entry]
    <2>1. at \in Lists!At(list, entry.id)
      BY <1>3
    <2>2. at \in DOMAIN list /\ list[at].id = entry.id
      BY <2>1 DEF Lists!At
    <2>3. Lists!WithLink(list, entry) = new
      BY <1>3 DEF Lists!WithLink
    <2> HIDE DEF at
    <2>4. new \in Seq(Entries)
      <3> HIDE DEF Entries
      <3> QED
        BY <1>1, <2>2, ExceptSeq
    <2>5. DOMAIN new = DOMAIN list /\ \A i \in DOMAIN list : new[i].id = list[i].id
      BY <2>2
    <2>6. Proper(new)
      <3> HIDE DEF new
      <3> QED
        BY <2>4, <2>5 DEF Proper
    <2> QED
      BY <2>3, <2>6
  <1> QED
    BY <1>2, <1>3

LEMMA Swapped ==
  ASSUME NEW list, Proper(list), NEW i \in DOMAIN list, i + 1 \in DOMAIN list
  PROVE  LET moved == [list EXCEPT ![i] = list[i + 1], ![i + 1] = list[i]]
         IN  Proper(moved) /\ AnOrder([j \in DOMAIN moved |-> moved[j].id])
  <1> DEFINE moved == [list EXCEPT ![i] = list[i + 1], ![i + 1] = list[i]]
             ids == [j \in DOMAIN moved |-> moved[j].id]
  <1>1. list \in Seq(Entries) /\ Len(list) \in Nat /\ DOMAIN list = 1..Len(list) /\ i \in Nat
    BY LenProperties DEF Proper
  <1>2. \A j \in DOMAIN list : list[j] \in Entries
    <2> HIDE DEF Entries
    <2> QED
      BY <1>1, ElementOfSeq
  <1>3. /\ DOMAIN moved = DOMAIN list
        /\ moved[i] = list[i + 1] /\ moved[i + 1] = list[i]
        /\ \A j \in DOMAIN list \ {i, i + 1} : moved[j] = list[j]
    BY <1>1
  <1>4. moved = [j \in 1..Len(list) |-> moved[j]]
    BY <1>1
  <1> HIDE DEF moved
  <1>5. \A j \in DOMAIN list : moved[j] \in Entries
    <2> HIDE DEF Entries
    <2> QED
      BY <1>2, <1>3
  <1>6. moved \in Seq(Entries)
    <2> HIDE DEF Entries
    <2> QED
      BY <1>1, <1>4, <1>5
  <1>7. \A g, h \in DOMAIN moved : moved[g].id = moved[h].id => g = h
    <2> SUFFICES ASSUME NEW g \in DOMAIN moved, NEW h \in DOMAIN moved, moved[g].id = moved[h].id
                 PROVE  g = h
      OBVIOUS
    <2> DEFINE from(j) == IF j = i THEN i + 1 ELSE IF j = i + 1 THEN i ELSE j
    <2>1. \A j \in DOMAIN moved : from(j) \in DOMAIN list /\ moved[j] = list[from(j)]
      BY <1>1, <1>3
    <2>2. from(g) = from(h)
      BY <2>1 DEF Proper
    <2> QED
      BY <1>1, <1>3, <2>2
  <1>8. Proper(moved)
    BY <1>6, <1>7 DEF Proper
  <1>9. ids \in Seq(Ids)
    <2>1. \A j \in 1..Len(list) : moved[j].id \in Ids
      BY <1>1, <1>5 DEF Entries
    <2>2. ids = [j \in 1..Len(list) |-> moved[j].id]
      BY <1>1, <1>3
    <2> QED
      BY <1>1, <2>1, <2>2
  <1>10. AnOrder(ids)
    BY <1>7, <1>9 DEF AnOrder
  <1> QED
    BY <1>8, <1>10 DEF moved

(* What a request that is under way has read, and been sent.                *)
Sound(q) ==
    \/ q = Lists!Idle
    \/ /\ {"at", "op"} \subseteq DOMAIN q
       /\ q.op \in {"link", "unlink", "order", "override", "reset", "create"}
       /\ q.op \in {"link", "unlink", "order"} => "read" \in DOMAIN q /\ Proper(q.read)
       /\ q.op = "link" => "entry" \in DOMAIN q /\ q.entry \in Entries
       /\ q.op = "order" => "ids" \in DOMAIN q /\ AnOrder(q.ids)

Asks == DOMAIN req = Calls /\ \A c \in Calls : Sound(req[c])
Loads == DOMAIN tab = Pages /\ \A t \in Pages : "links" \in DOMAIN tab[t] /\ Proper(tab[t].links)

ListsInv == Proper(links) /\ Asks /\ Loads

LEMMA ListsInit == Lists!Init => ListsInv
  <1> SUFFICES ASSUME Lists!Init PROVE ListsInv
    OBVIOUS
  <1>1. Proper(<<>>)
    BY DEF Proper
  <1> QED
    BY <1>1 DEF Lists!Init, ListsInv, Asks, Loads, Sound

LEMMA AskStays ==
  ASSUME Asks, NEW c \in Calls, NEW q, Sound(q), req' = [req EXCEPT ![c] = q]
  PROVE  Asks'
  BY DEF Asks

LEMMA LoadStays ==
  ASSUME Loads, NEW t, NEW list, Proper(list), tab' = [tab EXCEPT ![t].links = list]
  PROVE  Loads'
  <1> SUFFICES ASSUME NEW u \in Pages PROVE "links" \in DOMAIN tab'[u] /\ Proper(tab'[u].links)
    BY DEF Loads
  <1>1. CASE u = t
    BY <1>1 DEF Loads
  <1>2. CASE u # t
    BY <1>2 DEF Loads
  <1> QED
    BY <1>1, <1>2

LEMMA IdleSound == Sound(Lists!Idle)
  BY DEF Sound

(* The page asks.                                                           *)
LEMMA AskingKeeps ==
  ASSUME ListsInv, NEW c \in Calls, NEW t \in Pages,
         \/ \E id \in Ids : Lists!SaveLink(c, t, id) \/ Lists!RemoveLink(c, t, id)
         \/ \E i \in DOMAIN tab[t].links : Lists!Move(c, t, i)
         \/ \E a \in Shipped \cup Mine : Lists!SaveOverride(c, t, a) \/ Lists!ResetOverride(c, t, a)
         \/ \E a \in Mine : Lists!CreateApp(c, t, a) \/ Lists!DeleteApp(c, t, a)
  PROVE  ListsInv'
  <1> USE DEF ListsInv
  <1>1. ASSUME NEW id \in Ids, Lists!SaveLink(c, t, id) PROVE ListsInv'
    <2>1. PICK p \in Pics \cup {Lists!NoPic}, at \in {"fetch", "write"} :
            req' = [req EXCEPT ![c] = [at |-> at, op |-> "link", tab |-> t, read |-> links,
                                       entry |-> [id |-> id, pic |-> p], pic |-> p]]
      BY <1>1 DEF Lists!SaveLink, Lists!Ask
    <2>2. Sound([at |-> at, op |-> "link", tab |-> t, read |-> links,
                 entry |-> [id |-> id, pic |-> p], pic |-> p])
      BY DEF Sound, Entries
    <2> QED
      BY <1>1, <2>1, <2>2, AskStays DEF Lists!SaveLink, Loads
  <1>2. ASSUME NEW id \in Ids, Lists!RemoveLink(c, t, id) PROVE ListsInv'
    <2> DEFINE q == [at |-> "write", op |-> "unlink", tab |-> t, read |-> links, id |-> id]
    <2>1. Sound(q)
      BY DEF Sound
    <2>2. req' = [req EXCEPT ![c] = q] /\ UNCHANGED <<links, tab>>
      BY <1>2 DEF Lists!RemoveLink, Lists!Ask
    <2> HIDE DEF q
    <2> QED
      BY <2>1, <2>2, AskStays DEF Loads
  <1>3. ASSUME NEW i \in DOMAIN tab[t].links, Lists!Move(c, t, i) PROVE ListsInv'
    <2> DEFINE seen == tab[t].links
               moved == [seen EXCEPT ![i] = seen[i + 1], ![i + 1] = seen[i]]
               ids == [j \in DOMAIN moved |-> moved[j].id]
               q == [at |-> "write", op |-> "order", tab |-> t, read |-> links, ids |-> ids]
    <2>1. i + 1 \in DOMAIN seen /\ tab' = [tab EXCEPT ![t].links = moved]
          /\ req' = [req EXCEPT ![c] = q] /\ UNCHANGED links
      BY <1>3, Zenon DEF Lists!Move, Lists!Ask
    <2>2. Proper(seen) /\ i \in DOMAIN seen
      BY DEF Loads
    <2>3. Proper(moved) /\ AnOrder(ids)
      <3> HIDE DEF seen
      <3> QED
        BY <2>1, <2>2, Swapped
    <2> HIDE DEF moved, ids
    <2>4. Sound(q)
      BY <2>3 DEF Sound
    <2> HIDE DEF q
    <2> QED
      BY <2>1, <2>3, <2>4, AskStays, LoadStays
  <1>4. ASSUME NEW q, Sound(q), Lists!Ask(c, q), UNCHANGED <<links, tab>> PROVE ListsInv'
    BY <1>4, AskStays DEF Lists!Ask, Loads
  <1>5. ASSUME NEW a \in Shipped \cup Mine, Lists!SaveOverride(c, t, a) PROVE ListsInv'
    <2>1. PICK p, at : /\ UNCHANGED <<links, tab>>
                       /\ Lists!Ask(c, [at |-> at, op |-> "override", tab |-> t, read |-> over,
                                        app |-> a, pic |-> p])
      BY <1>5 DEF Lists!SaveOverride
    <2> DEFINE q == [at |-> at, op |-> "override", tab |-> t, read |-> over, app |-> a, pic |-> p]
    <2>2. Sound(q)
      BY DEF Sound, Lists!Idle
    <2> HIDE DEF q
    <2> QED
      BY <1>4, <2>1, <2>2 DEF q
  <1>6. ASSUME NEW a, Lists!ResetOverride(c, t, a) \/ Lists!DeleteApp(c, t, a) PROVE ListsInv'
    <2> DEFINE q == [at |-> "write", op |-> "reset", tab |-> t, read |-> over, app |-> a]
    <2>1. Lists!Ask(c, q) /\ UNCHANGED <<links, tab>>
      BY <1>6 DEF Lists!ResetOverride, Lists!DeleteApp
    <2>2. Sound(q)
      BY DEF Sound
    <2> HIDE DEF q
    <2> QED
      BY <1>4, <2>1, <2>2
  <1>7. ASSUME NEW a, Lists!CreateApp(c, t, a) PROVE ListsInv'
    <2>1. PICK p, at : /\ UNCHANGED <<links, tab>>
                       /\ Lists!Ask(c, [at |-> at, op |-> "create", tab |-> t, app |-> a, pic |-> p])
      BY <1>7 DEF Lists!CreateApp
    <2> DEFINE q == [at |-> at, op |-> "create", tab |-> t, app |-> a, pic |-> p]
    <2>2. Sound(q)
      BY DEF Sound
    <2> HIDE DEF q
    <2> QED
      BY <1>4, <2>1, <2>2 DEF q
  <1> QED
    BY <1>1, <1>2, <1>3, <1>5, <1>6, <1>7

(* The server goes on.                                                      *)
LEMMA ServingKeeps ==
  ASSUME ListsInv, NEW c \in Calls,
         \/ Lists!Fetch(c) \/ Lists!WriteLinks(c) \/ Lists!WriteCatalog(c)
         \/ Lists!WriteApp(c) \/ Lists!Prune(c)
  PROVE  ListsInv'
  <1> USE DEF ListsInv
  <1>1. Sound(req[c]) /\ c \in DOMAIN req
    BY DEF Asks
  <1>2. ASSUME NEW at, Sound(req[c]), req[c] # Lists!Idle
        PROVE  Sound([req[c] EXCEPT !.at = at])
    BY <1>2 DEF Sound
  <1>3. ASSUME NEW at, req[c] # Lists!Idle, req' = [req EXCEPT ![c].at = at] PROVE Asks'
    <2>1. req' = [req EXCEPT ![c] = [req[c] EXCEPT !.at = at]]
      BY <1>3
    <2> DEFINE q == [req[c] EXCEPT !.at = at]
    <2>2. Sound(q)
      BY <1>1, <1>2, <1>3
    <2> HIDE DEF q
    <2> QED
      BY <2>1, <2>2, AskStays DEF q
  <1>4. ASSUME req' = [req EXCEPT ![c] = Lists!Idle] PROVE Asks'
    BY <1>4, IdleSound, AskStays
  <1>5. ASSUME req[c].at # "idle" PROVE req[c] # Lists!Idle
    BY <1>5 DEF Lists!Idle
  <1>6. CASE Lists!Fetch(c)
    <2>1. req' = [req EXCEPT ![c].at = "write"] \/ req' = [req EXCEPT ![c] = Lists!Idle]
      BY <1>6 DEF Lists!Fetch, Lists!Refuse
    <2>2. req[c].at # "idle" /\ UNCHANGED <<links, tab>>
      BY <1>6 DEF Lists!Fetch
    <2> QED
      BY <1>3, <1>4, <1>5, <2>1, <2>2 DEF Loads
  <1>7. CASE Lists!WriteLinks(c)
    <2> DEFINE q == req[c]
               left == Lists!Keep(q.read, DOMAIN q.read \ Lists!At(q.read, q.id))
    <2>0. q # Lists!Idle
      BY <1>5, <1>7 DEF Lists!WriteLinks
    <2>1. CASE q.op = "link" /\ links' = Lists!WithLink(q.read, q.entry) /\ Lists!Answered(c, links')
      <3>1. Proper(q.read) /\ q.entry \in Entries
        BY <1>1, <2>0, <2>1 DEF Sound
      <3>2. Proper(links')
        BY <2>1, <3>1, Saved
      <3> QED
        BY <1>4, <2>1, <3>2, LoadStays DEF Lists!Answered
    <2>2. CASE q.op = "order" /\ links' = Lists!Reordered(q.read, q.ids) /\ Lists!Answered(c, links')
      <3>1. Proper(q.read) /\ AnOrder(q.ids)
        BY <1>1, <2>0, <2>2 DEF Sound
      <3>2. Proper(links')
        BY <2>2, <3>1, Reorder
      <3> QED
        BY <1>4, <2>2, <3>2, LoadStays DEF Lists!Answered
    <2>3. CASE /\ q.op = "unlink" /\ links' = left /\ UNCHANGED tab
               /\ req' = [req EXCEPT ![c].at = "prune", ![c].read = left]
      <3>1. Proper(q.read)
        BY <1>1, <2>0, <2>3 DEF Sound
      <3>2. Proper(left)
        BY <3>1, TakenOut
      <3> DEFINE new == [[q EXCEPT !.at = "prune"] EXCEPT !.read = left]
      <3> HIDE DEF left
      <3>3. req' = [req EXCEPT ![c] = new]
        BY <1>1, <2>3
      <3>4. Sound(new)
        BY <1>1, <2>0, <2>3, <3>2 DEF Sound
      <3> HIDE DEF new
      <3>5. Asks'
        BY <3>3, <3>4, AskStays
      <3> QED
        BY <2>3, <3>2, <3>5 DEF Loads
    <2>4. CASE Lists!Refuse(c) /\ UNCHANGED <<links, tab>>
      BY <1>4, <2>4 DEF Lists!Refuse, Loads
    <2> QED
      BY <1>7, <2>1, <2>2, <2>3, <2>4 DEF Lists!WriteLinks
  <1>8. CASE Lists!WriteCatalog(c)
    BY <1>3, <1>5, <1>8 DEF Lists!WriteCatalog, Loads
  <1>9. CASE Lists!WriteApp(c)
    BY <1>4, <1>9 DEF Lists!WriteApp, Lists!Refuse, Loads
  <1>10. CASE Lists!Prune(c)
    <2>1. UNCHANGED links /\ req' = [req EXCEPT ![c] = Lists!Idle]
      BY <1>10 DEF Lists!Prune, Lists!Refuse
    <2>2. CASE tab' = [tab EXCEPT ![req[c].tab].links = links]
      BY <1>4, <2>1, <2>2, LoadStays
    <2>3. CASE tab' = [tab EXCEPT ![req[c].tab].icons = Lists!Icons]
      <3>1. \A t \in Pages : /\ "links" \in DOMAIN tab'[t] /\ tab'[t].links = tab[t].links
        BY <2>3 DEF Loads
      <3> QED
        BY <1>4, <2>1, <2>3, <3>1 DEF Loads
    <2> QED
      BY <1>10, <2>2, <2>3 DEF Lists!Prune
  <1> QED
    BY <1>6, <1>7, <1>8, <1>9, <1>10

LEMMA ListsStep == ListsInv /\ [Lists!Next]_Lists!vars => ListsInv'
  <1> SUFFICES ASSUME ListsInv, [Lists!Next]_Lists!vars PROVE ListsInv'
    OBVIOUS
  <1>1. CASE UNCHANGED Lists!vars
    BY <1>1 DEF ListsInv, Asks, Loads, Lists!vars
  <1>2. ASSUME NEW a \in Mine, Lists!InstallOrRemove(a) PROVE ListsInv'
    BY <1>2 DEF ListsInv, Asks, Loads, Lists!InstallOrRemove
  <1>3. ASSUME NEW t \in Pages, Lists!Load(t) PROVE ListsInv'
    BY <1>3 DEF ListsInv, Asks, Loads, Lists!Load
  <1> QED
    BY <1>1, <1>2, <1>3, AskingKeeps, ServingKeeps DEF Lists!Next

(* An order that is written: what it had read is reordered, whole.          *)
LEMMA WritesOrder ==
  ASSUME ListsInv, Lists!Next, NEW c \in Calls,
         req[c].at = "write", req[c].op = "order", req'[c] = Lists!Idle
  PROVE  links' = Lists!Reordered(req[c].read, req[c].ids)
  <1>1. DOMAIN req = Calls /\ req[c] # Lists!Idle
    BY DEF ListsInv, Asks, Lists!Idle
  <1>2. ASSUME NEW d \in Calls, NEW q, Lists!Ask(d, q) PROVE FALSE
    BY <1>1, <1>2 DEF Lists!Ask
  <1>3. ASSUME NEW d \in Calls, Lists!Fetch(d) \/ Lists!WriteCatalog(d) \/ Lists!WriteApp(d) \/ Lists!Prune(d)
        PROVE  FALSE
    <2>1. CASE d = c
      BY <1>3, <2>1 DEF Lists!Fetch, Lists!WriteCatalog, Lists!WriteApp, Lists!Prune
    <2>2. CASE d # c
      <3>1. req'[c] = req[c]
        BY <1>1, <1>3, <2>2
           DEF Lists!Fetch, Lists!WriteCatalog, Lists!WriteApp, Lists!Prune, Lists!Refuse
      <3> QED
        BY <1>1, <3>1
    <2> QED
      BY <2>1, <2>2
  <1>4. ASSUME NEW d \in Calls, Lists!WriteLinks(d)
        PROVE  links' = Lists!Reordered(req[c].read, req[c].ids)
    <2>1. CASE d = c
      BY <1>4, <2>1 DEF Lists!WriteLinks
    <2>2. CASE d # c
      <3>1. req'[c] = req[c]
        BY <1>1, <1>4, <2>2 DEF Lists!WriteLinks, Lists!Answered, Lists!Refuse
      <3> QED
        BY <1>1, <3>1
    <2> QED
      BY <2>1, <2>2
  <1>5. ASSUME UNCHANGED req PROVE FALSE
    BY <1>1, <1>5
  <1>6. ASSUME NEW d \in Calls, NEW t \in Pages,
               \/ \E id \in Ids : Lists!SaveLink(d, t, id) \/ Lists!RemoveLink(d, t, id)
               \/ \E i \in DOMAIN tab[t].links : Lists!Move(d, t, i)
               \/ \E a \in Shipped \cup Mine : Lists!SaveOverride(d, t, a) \/ Lists!ResetOverride(d, t, a)
               \/ \E a \in Mine : Lists!CreateApp(d, t, a) \/ Lists!DeleteApp(d, t, a)
        PROVE  FALSE
    <2>1. \E q : Lists!Ask(d, q)
      BY <1>6, Zenon DEF Lists!SaveLink, Lists!RemoveLink, Lists!Move, Lists!SaveOverride,
                  Lists!ResetOverride, Lists!CreateApp, Lists!DeleteApp
    <2> QED
      BY <1>2, <2>1
  <1>7. ASSUME (\E a \in Mine : Lists!InstallOrRemove(a)) \/ (\E t \in Pages : Lists!Load(t))
        PROVE  FALSE
    BY <1>5, <1>7 DEF Lists!InstallOrRemove, Lists!Load
  <1> QED
    BY <1>3, <1>4, <1>6, <1>7 DEF Lists!Next

(* A move in one tab neither drops nor doubles a link that another tab has  *)
(* added or removed, and those it does not name stay in order               *)
(* (bookmarks.js:94), however many tabs, links and requests there are.      *)
THEOREM MovesKeepAll == Lists!Spec => MoveKeepsAll
  <1>1. Lists!Init => ListsInv
    BY ListsInit
  <1>2. ListsInv /\ [Lists!Next]_Lists!vars => ListsInv'
    BY ListsStep
  <1>3. ListsInv /\ [Lists!Next]_Lists!vars => [Lists!OrderKeepsAll]_Lists!vars
    <2> SUFFICES ASSUME ListsInv, Lists!Next, NEW c \in Calls,
                        req[c].at = "write", req[c].op = "order", req'[c] = Lists!Idle, req[c].read = links
                 PROVE  /\ Lists!ToSet(links') = Lists!ToSet(links) /\ Len(links') = Len(links)
                        /\ Lists!Keep(links', Lists!Unnamed(links', req[c].ids))
                             = Lists!Keep(links, Lists!Unnamed(links, req[c].ids))
      BY DEF Lists!OrderKeepsAll
    <2> DEFINE ids == req[c].ids
    <2>1. links' = Lists!Reordered(links, ids)
      BY WritesOrder
    <2>2. Proper(links) /\ AnOrder(ids)
      BY DEF ListsInv, Asks, Sound, Lists!Idle
    <2> HIDE DEF ids
    <2>3. /\ Len(Lists!Reordered(links, ids)) = Len(links)
          /\ Lists!ToSet(Lists!Reordered(links, ids)) = Lists!ToSet(links)
          /\ Lists!Keep(Lists!Reordered(links, ids), Lists!Unnamed(Lists!Reordered(links, ids), ids))
               = Lists!Keep(links, Lists!Unnamed(links, ids))
      BY <2>2, Reorder
    <2> QED
      BY <2>1, <2>3 DEF ids
  <1> QED
    BY <1>1, <1>2, <1>3, PTL DEF Lists!Spec, MoveKeepsAll, Lists!MoveKeepsAll
=============================================================================
