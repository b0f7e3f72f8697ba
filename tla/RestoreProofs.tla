---------------------------- MODULE RestoreProofs ----------------------------
(***************************************************************************)
(* For any items, archives, retentions, stages and requests.                *)
(*                                                                          *)
(* Copies on the NAS: a name is given in one place, to what was compared    *)
(* there, and nothing that already has one is written to again.             *)
(*                                                                          *)
(* What the box had: nothing is written over before the backup a restore    *)
(* takes has been published. From then on each item the box had is in an    *)
(* archive, or its owner or the retention threw that archive away; so what  *)
(* the requests do to the box, in any order, cannot lose it.                *)
(***************************************************************************)
EXTENDS Restore, SequenceTheorems, TLAPS

LEMMA InitWhole == Init => CopiesWhole
  BY DEF Init, ArchivesInit, CopiesWhole, Named

(* The helper of a copy, and what a share that is gone leaves of it.        *)
LEMMA HelperWhole == ASSUME CopiesWhole, NEW f \in nas, HelperEnds(f) PROVE CopiesWhole'
  <1>1. CASE mounted /\ f.whole
    <2>1. nas' = Arrive(f)
      BY <1>1 DEF HelperEnds
    <2>2. nas' \subseteq (nas \ {f}) \cup {NamedFile(f)}
      BY <1>1, <2>1 DEF Arrive, Latest, Named
    <2>3. NamedFile(f).whole = f.whole
      BY DEF NamedFile, File
    <2> QED
      BY <1>1, <2>2, <2>3 DEF CopiesWhole, Named
  <1>2. CASE mounted /\ ~f.whole
    <2>1. nas' = Arrive(f)
      BY <1>2 DEF HelperEnds
    <2>2. nas' \subseteq nas
      BY <1>2, <2>1 DEF Arrive, Latest, Named
    <2> QED
      BY <2>2 DEF CopiesWhole, Named
  <1>3. CASE ~mounted
    <2>1. nas' = (nas \ {f}) \cup {File(f.n, "left", f.whole, 0)}
      BY <1>3 DEF HelperEnds
    <2>2. File(f.n, "left", f.whole, 0).at # "named"
      BY DEF File
    <2> QED
      BY <2>1, <2>2 DEF CopiesWhole, Named
  <1> QED
    BY <1>1, <1>2, <1>3

LEMMA CopyOutWhole == ASSUME CopiesWhole, NEW m \in Makers, CopyOut(m) PROVE CopiesWhole'
  <1>1. CASE nas' = nas
    BY <1>1 DEF CopiesWhole, Named
  <1>2. ASSUME NEW whole \in BOOLEAN, nas' = nas \cup {File(job[m].n, "incoming", whole, sched.keep)}
        PROVE  CopiesWhole'
    <2>1. File(job[m].n, "incoming", whole, sched.keep).at # "named"
      BY DEF File
    <2> QED
      BY <1>2, <2>1 DEF CopiesWhole, Named
  <1> QED
    BY <1>1, <1>2 DEF CopyOut

LEMMA CrashWhole == ASSUME CopiesWhole, NEW power \in BOOLEAN, Crash(power) PROVE CopiesWhole'
  <1>1. CASE power
    <2>1. nas' = {IF f.at = "incoming" THEN File(f.n, "left", f.whole, 0) ELSE f : f \in nas}
      BY <1>1 DEF Crash
    <2>2. \A f \in nas : File(f.n, "left", f.whole, 0).at # "named"
      BY DEF File
    <2> QED
      BY <2>1, <2>2 DEF CopiesWhole, Named
  <1>2. CASE ~power
    <2>1. nas' = nas
      BY <1>2 DEF Crash
    <2> QED
      BY <2>1 DEF CopiesWhole, Named
  <1> QED
    BY <1>1, <1>2

(* No step of a restore, and nothing else that happens to archives, touches *)
(* the share.                                                               *)
LEMMA RestoreLeavesNas ==
  ASSUME NEW r \in Requests, RequestStep(r) \/ RequestFails(r) PROVE nas' = nas
  <1> USE DEF KeepArchives, avars, Same
  <1>1. CASE RequestFails(r)
    BY <1>1 DEF RequestFails, ReceiveFails, UnpackFails, StopFails, CopyFails, StartFails
  <1>2. CASE Received(r) \/ Open(r) \/ Decrypt(r) \/ ListEntries(r) \/ Unpack(r) \/ Read(r)
    BY <1>2 DEF Received, Open, Decrypt, ListEntries, Unpack, Read
  <1>3. CASE Backup(r) \/ BackedUp(r) \/ Stop(r) \/ Aside(r)
    BY <1>3 DEF Backup, BackedUp, Stop, Aside
  <1>4. CASE Copy(r) \/ Copied(r) \/ Start(r) \/ Clean(r)
    BY <1>4 DEF Copy, Copied, Start, Clean
  <1> QED
    BY <1>1, <1>2, <1>3, <1>4 DEF RequestStep

LEMMA ArchivesWhole == ASSUME CopiesWhole, ArchivesNext PROVE CopiesWhole'
  <1> USE DEF Same
  <1>1. CASE nas' = nas
    BY <1>1 DEF CopiesWhole, Named
  <1>2. ASSUME NEW m \in Makers, CreateFor(m) \/ CreateStep(m) \/ CreateFails(m)
        PROVE  CopiesWhole'
    <2>1. CASE CopyOut(m)
      BY <2>1, CopyOutWhole
    <2>2. CASE CreateFor(m) \/ Publish(m) \/ Prune(m) \/ CreateFails(m)
      BY <1>1, <2>2 DEF CreateFor, Publish, Prune, CreateFails
    <2> QED
      BY <1>2, <2>1, <2>2 DEF CreateStep
  <1>3. CASE Tick \/ WriteSchedule \/ ShareComesAndGoes
    BY <1>1, <1>3 DEF Tick, WriteSchedule, ShareComesAndGoes
  <1>4. ASSUME NEW f \in nas, HelperEnds(f) PROVE CopiesWhole'
    BY <1>4, HelperWhole
  <1>5. ASSUME NEW i \in 1..MaxArchives, Delete(i) PROVE CopiesWhole'
    BY <1>1, <1>5 DEF Delete
  <1>6. ASSUME NEW want \in Wants, AskSchedule(want) PROVE CopiesWhole'
    BY <1>1, <1>6 DEF AskSchedule
  <1>7. ASSUME NEW t \in Times, Pass(t) PROVE CopiesWhole'
    BY <1>1, <1>7 DEF Pass
  <1> QED
    BY <1>2, <1>3, <1>4, <1>5, <1>6, <1>7 DEF ArchivesNext

LEMMA StepWhole == CopiesWhole /\ [Next]_vars => CopiesWhole'
  <1> SUFFICES ASSUME CopiesWhole, [Next]_vars PROVE CopiesWhole'
    OBVIOUS
  <1>1. CASE nas' = nas
    BY <1>1 DEF CopiesWhole, Named
  <1>2. CASE ArchivesNext
    BY <1>2, ArchivesWhole
  <1>3. ASSUME NEW r \in Requests, RequestStep(r) \/ RequestFails(r) PROVE CopiesWhole'
    BY <1>1, <1>3, RestoreLeavesNas
  <1>4. ASSUME NEW r \in Requests, NEW s \in Stages,
               \/ \E holds \in Sources : Stage(r, s, holds)
               \/ Inspect(r, s)
               \/ \E items \in SUBSET Items \ {{}} : Apply(r, s, items)
        PROVE  CopiesWhole'
    BY <1>1, <1>4 DEF Stage, Inspect, Apply, KeepArchives, avars
  <1>5. ASSUME NEW s \in Stages, Discard(s) PROVE CopiesWhole'
    BY <1>1, <1>5 DEF Discard, KeepArchives, avars
  <1>6. ASSUME NEW power \in BOOLEAN, Crash(power) PROVE CopiesWhole'
    BY <1>6, CrashWhole
  <1>7. CASE UNCHANGED vars
    BY <1>1, <1>7 DEF vars, avars
  <1> QED
    BY <1>2, <1>3, <1>4, <1>5, <1>6, <1>7 DEF Next

(* A file with an archive's name on the share is that archive whole         *)
(* (archive-copy.js: copied to an .incoming name, compared, renamed),       *)
(* however many makers and restores overlap and whenever the share goes.    *)
THEOREM CopiesAlwaysWhole == Spec => []CopiesWhole
  <1> QED
    BY InitWhole, StepWhole, PTL DEF Spec

-----------------------------------------------------------------------------
(* The backup before a restore is published, or the restore is past it.     *)
PastBackup == {"stop", "aside", "copy", "copying", "start", "clean"}
Published == {"prune", "copy", "copying", "ready"}

Writing == (\E r \in Requests : req[r].at \in PastBackup) \/ job["apply"].at \in Published

Kept == \A i \in Items : i \in thrown \cup Held(local)

SomewhereSafe == \A i \in Items : live[i] = "mine" \/ i \in thrown \cup Held(local)

Keeps(s) == "keep" \in DOMAIN s /\ s.keep \in Nat

Shape ==
    /\ \E S : local \in Seq(S)
    /\ Keeps(sched)
    /\ saving # Idle => saving.want.keep \in Nat
    /\ DOMAIN job = Makers /\ DOMAIN req = Requests
    /\ \A m \in Makers : "at" \in DOMAIN job[m]
    /\ \A r \in Requests : "at" \in DOMAIN req[r]
    /\ job["tick"].at \in {"make", "prune", "copy", "copying"} =>
         "saw" \in DOMAIN job["tick"] /\ Keeps(job["tick"].saw)

NeverLostInv == Shape /\ (Writing => Kept) /\ SomewhereSafe

LEMMA InitNeverLost == Init => NeverLostInv
  <1> SUFFICES ASSUME Init PROVE NeverLostInv
    OBVIOUS
  <1> USE DEF Init, ArchivesInit, RestoreInit
  <1>1. Shape
    <2>1. local \in Seq(Nat)
      OBVIOUS
    <2>2. Keeps(sched)
      BY ArchivesAssumption DEF Keeps
    <2>3. /\ saving = Idle /\ DOMAIN job = Makers /\ DOMAIN req = Requests
          /\ \A m \in Makers : job[m] = Idle
          /\ \A r \in Requests : req[r] = Idle
      OBVIOUS
    <2>4. Idle.at = "idle" /\ "at" \in DOMAIN Idle
      BY DEF Idle
    <2>5. "tick" \in Makers
      BY DEF Makers
    <2> QED
      BY <2>1, <2>2, <2>3, <2>4, <2>5 DEF Shape
  <1>2. ~Writing
    BY DEF Writing, PastBackup, Published, Idle, Makers
  <1>3. SomewhereSafe
    BY DEF SomewhereSafe
  <1> QED
    BY <1>1, <1>2, <1>3 DEF NeverLostInv

-----------------------------------------------------------------------------
(* The archives stay a sequence.                                            *)

LEMMA NewestIsSeq ==
  ASSUME NEW S, NEW s \in Seq(S), NEW keep \in Nat PROVE Newest(s, keep) \in Seq(S)
  <1>1. CASE Len(s) <= keep
    BY <1>1 DEF Newest
  <1>2. CASE ~(Len(s) <= keep)
    <2>1. \A i \in Len(s) - keep + 1 .. Len(s) : s[i] \in S
      BY <1>2
    <2>2. SubSeq(s, Len(s) - keep + 1, Len(s)) \in Seq(S)
      BY <2>1, SubSeqProperties
    <2> QED
      BY <1>2, <2>2 DEF Newest
  <1> QED
    BY <1>1, <1>2

LEMMA RemoveAtIsSeq ==
  ASSUME NEW S, NEW s \in Seq(S), NEW i \in DOMAIN s PROVE RemoveAt(s, i) \in Seq(S)
  <1>1. \A k \in 1 .. i - 1 : s[k] \in S
    OBVIOUS
  <1>2. \A k \in i + 1 .. Len(s) : s[k] \in S
    OBVIOUS
  <1>3. SubSeq(s, 1, i - 1) \in Seq(S)
    BY <1>1, SubSeqProperties
  <1>4. SubSeq(s, i + 1, Len(s)) \in Seq(S)
    BY <1>2, SubSeqProperties
  <1> QED
    BY <1>3, <1>4 DEF RemoveAt

LEMMA AppendIsSeq == ASSUME NEW S, NEW s \in Seq(S), NEW x PROVE \E T : Append(s, x) \in Seq(T)
  <1>1. s \in Seq(S \cup {x})
    OBVIOUS
  <1>2. Append(s, x) \in Seq(S \cup {x})
    BY <1>1
  <1> QED
    BY <1>2

(* An archive that is appended is there besides the ones before it.         *)
LEMMA HeldByAppend ==
  ASSUME NEW S, NEW s \in Seq(S), NEW x, NEW i \in Items,
         i \in Held(s) \/ x.holds[i] = "mine"
  PROVE  i \in Held(Append(s, x))
  <1> DEFINE t == Append(s, x)
  <1>1. s \in Seq(S \cup {x})
    OBVIOUS
  <1>2. /\ DOMAIN t = 1 .. Len(s) + 1 /\ DOMAIN s = 1 .. Len(s) /\ Len(s) \in Nat
        /\ \A k \in DOMAIN s : t[k] = s[k]
        /\ t[Len(s) + 1] = x
    BY <1>1
  <1>3. \A k \in DOMAIN s : k \in DOMAIN t
    BY <1>2
  <1>4. Len(s) + 1 \in DOMAIN t
    BY <1>2
  <1> HIDE DEF t
  <1>5. i \in Held(t)
    <2>1. CASE i \in Held(s)
      <3>1. PICK k \in DOMAIN s : s[k].holds[i] = "mine"
        BY <2>1 DEF Held
      <3>2. k \in DOMAIN t /\ t[k].holds[i] = "mine"
        BY <1>2, <1>3, <3>1
      <3> QED
        BY <3>2 DEF Held
    <2>2. CASE x.holds[i] = "mine"
      BY <1>2, <1>4, <2>2 DEF Held
    <2> QED
      BY <2>1, <2>2
  <1> QED
    BY <1>5 DEF t

-----------------------------------------------------------------------------
(* Shape, action by action.                                                 *)

LEMMA MakersDistinct ==
  /\ "tick" \in Makers /\ "apply" \in Makers /\ "tick" # "apply"
  /\ Idle.at = "idle" /\ "at" \in DOMAIN Idle
  /\ Begin.at = "make" /\ "at" \in DOMAIN Begin
  BY DEF Makers, Idle, Begin

(* What an action does to the makers.                                       *)
JobShape ==
    /\ DOMAIN job = Makers
    /\ \A m \in Makers : "at" \in DOMAIN job[m]
    /\ job["tick"].at \in {"make", "prune", "copy", "copying"} =>
         "saw" \in DOMAIN job["tick"] /\ Keeps(job["tick"].saw)

RestShape ==
    /\ \E S : local \in Seq(S)
    /\ Keeps(sched)
    /\ saving # Idle => saving.want.keep \in Nat
    /\ DOMAIN req = Requests
    /\ \A r \in Requests : "at" \in DOMAIN req[r]

LEMMA ShapeParts == Shape <=> JobShape /\ RestShape
  BY DEF Shape, JobShape, RestShape

(* The end of a backup: the schedule written back is the one that was read. *)
LEMMA EndedShape ==
  ASSUME Shape, NEW m \in Makers, job[m].at \in {"copy", "copying"}, Ended(m)
  PROVE  JobShape' /\ Keeps(sched)'
  <1> USE MakersDistinct
  <1>1. JobShape'
    <2>1. CASE m = "apply"
      <3>1. job' = [job EXCEPT !["apply"] = [at |-> "ready", n |-> job[m].n]]
        BY <2>1 DEF Ended
      <3> QED
        BY <3>1 DEF JobShape, Shape, Keeps
    <2>2. CASE m # "apply"
      <3>1. job' = [job EXCEPT ![m] = Idle]
        BY <2>2 DEF Ended
      <3> QED
        BY <3>1 DEF JobShape, Shape, Keeps
    <2> QED
      BY <2>1, <2>2
  <1>2. Keeps(sched)'
    <2>1. CASE m = "tick"
      <3>1. sched' = [job["tick"].saw EXCEPT !.lastRun = clock]
        BY <2>1 DEF Ended
      <3>2. Keeps(job["tick"].saw)
        BY <2>1 DEF Shape
      <3> QED
        BY <3>1, <3>2 DEF Keeps
    <2>2. CASE m # "tick"
      BY <2>2 DEF Ended, Shape, Keeps
    <2> QED
      BY <2>1, <2>2
  <1> QED
    BY <1>1, <1>2

LEMMA MakerShape ==
  ASSUME Shape, NEW m \in Makers, CreateFor(m) \/ CreateStep(m) \/ CreateFails(m), UNCHANGED req
  PROVE  Shape'
  <1> USE MakersDistinct
  <1>1. CASE CreateFor(m)
    <2>1. /\ job' = [job EXCEPT ![m] = Begin] /\ m # "tick"
          /\ UNCHANGED <<local, sched, saving>>
      BY <1>1 DEF CreateFor, Same
    <2>2. JobShape'
      BY <2>1 DEF JobShape, Shape, Keeps
    <2>3. RestShape'
      BY <2>1 DEF RestShape, Shape, Keeps
    <2> QED
      BY <2>2, <2>3, ShapeParts DEF Shape, JobShape, RestShape
  <1>2. CASE CreateFails(m)
    <2>1. /\ \E v \in {Idle, Stuck, [at |-> "failed"], [at |-> "refused"]} : job' = [job EXCEPT ![m] = v]
          /\ UNCHANGED <<local, sched, saving>>
      BY <1>2 DEF CreateFails, Same, Failed, Stuck
    <2>2. JobShape'
      BY <2>1 DEF JobShape, Shape, Keeps, Stuck
    <2>3. RestShape'
      BY <2>1 DEF RestShape, Shape, Keeps
    <2> QED
      BY <2>2, <2>3 DEF Shape, JobShape, RestShape
  <1>3. CASE Publish(m)
    <2>1. /\ job' = [job EXCEPT ![m].at = "prune", ![m].n = made + 1]
          /\ job[m].at = "make"
          /\ local' = Append(local, [n |-> made', holds |-> live])
          /\ UNCHANGED <<sched, saving>>
      BY <1>3 DEF Publish, Same
    <2>2. JobShape'
      BY <2>1 DEF JobShape, Shape, Keeps
    <2>3. \E S : local' \in Seq(S)
      BY <2>1, AppendIsSeq DEF Shape
    <2>4. RestShape'
      BY <2>1, <2>3 DEF RestShape, Shape, Keeps
    <2> QED
      BY <2>2, <2>4 DEF Shape, JobShape, RestShape
  <1>4. CASE Prune(m)
    <2>1. /\ job' = [job EXCEPT ![m].at = "copy"]
          /\ job[m].at = "prune"
          /\ local' = Newest(local, sched.keep)
          /\ UNCHANGED <<sched, saving>>
      BY <1>4 DEF Prune, Same
    <2>2. JobShape'
      BY <2>1 DEF JobShape, Shape, Keeps
    <2>3. sched.keep \in Nat
      BY DEF Shape, Keeps
    <2>4. \E S : local' \in Seq(S)
      BY <2>1, <2>3, NewestIsSeq DEF Shape
    <2>5. RestShape'
      BY <2>1, <2>4 DEF RestShape, Shape, Keeps
    <2> QED
      BY <2>2, <2>5 DEF Shape, JobShape, RestShape
  <1>5. CASE CopyOut(m)
    <2>1. job[m].at = "copy" /\ UNCHANGED <<local, saving>>
      BY <1>5 DEF CopyOut, Same
    <2>2. JobShape' /\ Keeps(sched)'
      <3>1. CASE Ended(m)
        BY <2>1, <3>1, EndedShape
      <3>2. CASE job' = [job EXCEPT ![m].at = "copying"] /\ UNCHANGED sched
        BY <2>1, <3>2 DEF JobShape, Shape, Keeps
      <3> QED
        BY <1>5, <3>1, <3>2 DEF CopyOut
    <2>3. RestShape'
      BY <2>1, <2>2 DEF RestShape, Shape
    <2> QED
      BY <2>2, <2>3 DEF Shape, JobShape, RestShape
  <1> QED
    BY <1>1, <1>2, <1>3, <1>4, <1>5 DEF CreateStep

LEMMA ArchivesShape == ASSUME Shape, ArchivesNext, UNCHANGED req PROVE Shape'
  <1> USE MakersDistinct
  <1>1. ASSUME NEW m \in Makers, CreateFor(m) \/ CreateStep(m) \/ CreateFails(m)
        PROVE  Shape'
    BY <1>1, MakerShape
  <1>2. CASE Tick
    <2>1. CASE sched' = [sched EXCEPT !.enabledAt = clock] /\ UNCHANGED job
      BY <1>2, <2>1 DEF Tick, Same, Shape, Keeps
    <2>2. CASE job' = [job EXCEPT !["tick"] = [at |-> "make", n |-> NoOne, saw |-> sched]] /\ UNCHANGED sched
      <3>1. UNCHANGED <<local, saving>>
        BY <1>2 DEF Tick, Same
      <3>2. JobShape'
        BY <2>2 DEF JobShape, Shape, Keeps
      <3>3. RestShape'
        BY <2>2, <3>1 DEF RestShape, Shape, Keeps
      <3> QED
        BY <3>2, <3>3 DEF Shape, JobShape, RestShape
    <2> QED
      BY <1>2, <2>1, <2>2 DEF Tick
  <1>3. CASE WriteSchedule
    <2>1. sched'.keep = saving.want.keep /\ "keep" \in DOMAIN sched' /\ saving # Idle /\ saving' = Idle
      BY <1>3 DEF WriteSchedule
    <2>2. UNCHANGED <<local, job>>
      BY <1>3 DEF WriteSchedule, Same
    <2> QED
      BY <2>1, <2>2 DEF Shape, Keeps
  <1>4. CASE ShareComesAndGoes \/ \E t \in Times : Pass(t)
    BY <1>4 DEF ShareComesAndGoes, Pass, Shape, Keeps
  <1>5. ASSUME NEW f \in nas, HelperEnds(f) PROVE Shape'
    <2>1. UNCHANGED <<local, saving>>
      BY <1>5 DEF HelperEnds, Same
    <2>2. JobShape' /\ Keeps(sched)'
      <3>1. CASE UNCHANGED <<job, sched>>
        BY <3>1 DEF JobShape, Shape, Keeps
      <3>2. ASSUME NEW m \in Makers, job[m].at = "copying", Ended(m) PROVE JobShape' /\ Keeps(sched)'
        BY <3>2, EndedShape
      <3> QED
        BY <1>5, <3>1, <3>2 DEF HelperEnds
    <2>3. RestShape'
      BY <2>1, <2>2 DEF RestShape, Shape
    <2> QED
      BY <2>2, <2>3 DEF Shape, JobShape, RestShape
  <1>6. ASSUME NEW i \in 1..MaxArchives, Delete(i) PROVE Shape'
    <2>1. \E S : local' \in Seq(S)
      BY <1>6, RemoveAtIsSeq DEF Delete, Shape
    <2> QED
      BY <1>6, <2>1 DEF Delete, Same, Shape, Keeps
  <1>7. ASSUME NEW want \in Wants, AskSchedule(want) PROVE Shape'
    <2>1. want.keep \in Nat
      BY ArchivesAssumption DEF Wants
    <2>2. saving'.want = want
      BY <1>7 DEF AskSchedule
    <2> QED
      BY <1>7, <2>1, <2>2 DEF AskSchedule, Same, Shape, Keeps
  <1> QED
    BY <1>1, <1>2, <1>3, <1>4, <1>5, <1>6, <1>7 DEF ArchivesNext

(* A request leaves the archives and their makers alone, but for the backup *)
(* before a restore.                                                        *)
LEMMA RequestShape ==
  ASSUME Shape, NEW r \in Requests, RequestStep(r) \/ RequestFails(r)
  PROVE  Shape'
  <1> USE MakersDistinct
  <1>1. /\ DOMAIN req' = Requests
        /\ \A q \in Requests : "at" \in DOMAIN req'[q]
    <2> USE DEF Shape, End, Go, NextItem, Refuse, Idle
    <2>1. CASE RequestFails(r)
      BY <2>1 DEF RequestFails, ReceiveFails, UnpackFails, StopFails, CopyFails, StartFails
    <2>2. CASE Received(r) \/ Open(r) \/ Decrypt(r) \/ ListEntries(r) \/ Unpack(r) \/ Read(r)
      BY <2>2 DEF Received, Open, Decrypt, ListEntries, Unpack, Read
    <2>3. CASE Backup(r) \/ BackedUp(r) \/ Stop(r) \/ Aside(r)
      BY <2>3 DEF Backup, BackedUp, Stop, Aside
    <2>4. CASE Copy(r) \/ Copied(r) \/ Start(r) \/ Clean(r)
      BY <2>4 DEF Copy, Copied, Start, Clean
    <2> QED
      BY <2>1, <2>2, <2>3, <2>4 DEF RequestStep
  <1>2. UNCHANGED <<local, sched, saving>>
    <2> USE DEF KeepArchives, avars, Same
    <2>1. CASE RequestFails(r)
      BY <2>1 DEF RequestFails, ReceiveFails, UnpackFails, StopFails, CopyFails, StartFails
    <2>2. CASE Received(r) \/ Open(r) \/ Decrypt(r) \/ ListEntries(r) \/ Unpack(r) \/ Read(r)
      BY <2>2 DEF Received, Open, Decrypt, ListEntries, Unpack, Read
    <2>3. CASE Backup(r) \/ BackedUp(r) \/ Stop(r) \/ Aside(r)
      BY <2>3 DEF Backup, BackedUp, Stop, Aside
    <2>4. CASE Copy(r) \/ Copied(r) \/ Start(r) \/ Clean(r)
      BY <2>4 DEF Copy, Copied, Start, Clean
    <2> QED
      BY <2>1, <2>2, <2>3, <2>4 DEF RequestStep
  <1>3. \/ UNCHANGED job
        \/ job' = [job EXCEPT !["apply"] = Begin]
        \/ job' = [job EXCEPT !["apply"] = Idle]
        \/ job' = [job EXCEPT !["apply"] = Stuck]
    <2> USE DEF KeepArchives, avars, Same
    <2>1. CASE RequestFails(r)
      BY <2>1 DEF RequestFails, ReceiveFails, UnpackFails, StopFails, CopyFails, StartFails
    <2>2. CASE Received(r) \/ Open(r) \/ Decrypt(r) \/ ListEntries(r) \/ Unpack(r) \/ Read(r)
      BY <2>2 DEF Received, Open, Decrypt, ListEntries, Unpack, Read
    <2>3. CASE Backup(r) \/ BackedUp(r) \/ Stop(r) \/ Aside(r)
      BY <2>3 DEF Backup, BackedUp, FlagAfter, Stop, Aside
    <2>4. CASE Copy(r) \/ Copied(r) \/ Start(r) \/ Clean(r)
      BY <2>4 DEF Copy, Copied, Start, Clean
    <2> QED
      BY <2>1, <2>2, <2>3, <2>4 DEF RequestStep
  <1>4. JobShape'
    BY <1>3 DEF JobShape, Shape, Keeps, Stuck
  <1>5. RestShape'
    BY <1>1, <1>2 DEF RestShape, Shape, Keeps
  <1> QED
    BY <1>4, <1>5 DEF Shape, JobShape, RestShape

(* Asking for something: the archives are left alone.                       *)
Asking(r) ==
    \E s \in Stages :
      \/ \E holds \in Sources : Stage(r, s, holds)
      \/ Inspect(r, s)
      \/ \E items \in SUBSET Items \ {{}} : Apply(r, s, items)

LEMMA AskingLeaves ==
  ASSUME NEW r \in Requests, Asking(r)
  PROVE  /\ UNCHANGED avars /\ UNCHANGED thrown
         /\ \E v : v.at \in {"receive", "open"} /\ "at" \in DOMAIN v /\ req' = [req EXCEPT ![r] = v]
  BY DEF Asking, Stage, Inspect, Apply, KeepArchives

LEMMA StepShape == Shape /\ [Next]_vars => Shape'
  <1> SUFFICES ASSUME Shape, [Next]_vars PROVE Shape'
    OBVIOUS
  <1> USE MakersDistinct
  <1>1. CASE ArchivesNext /\ UNCHANGED req
    BY <1>1, ArchivesShape
  <1>2. ASSUME NEW r \in Requests, RequestStep(r) \/ RequestFails(r) PROVE Shape'
    BY <1>2, RequestShape
  <1>3. ASSUME NEW r \in Requests, Asking(r) PROVE Shape'
    <2>1. UNCHANGED <<local, sched, saving, job>>
      BY <1>3, AskingLeaves DEF avars
    <2>2. DOMAIN req' = Requests /\ \A q \in Requests : "at" \in DOMAIN req'[q]
      BY <1>3, AskingLeaves DEF Shape
    <2> QED
      BY <2>1, <2>2 DEF Shape, Keeps
  <1>4. ASSUME NEW s \in Stages, Discard(s) PROVE Shape'
    BY <1>4 DEF Discard, KeepArchives, avars, Shape, Keeps
  <1>5. ASSUME NEW power \in BOOLEAN, Crash(power) PROVE Shape'
    <2>1. /\ UNCHANGED <<local, sched>> /\ saving' = Idle
          /\ req' = [r \in Requests |-> Idle]
      BY <1>5 DEF Crash
    <2>2. JobShape'
      BY <1>5 DEF Crash, JobShape, Shape, Keeps, DashboardDies, Dashboard
    <2>3. RestShape'
      BY <2>1 DEF RestShape, Shape, Keeps
    <2> QED
      BY <2>2, <2>3 DEF Shape, JobShape, RestShape
  <1>6. CASE UNCHANGED vars
    BY <1>6 DEF vars, avars, rvars, Shape, Keeps
  <1> QED
    BY <1>1, <1>2, <1>3, <1>4, <1>5, <1>6 DEF Next, Asking

-----------------------------------------------------------------------------
(* A request writes to the box only past its backup, and gets past it only  *)
(* when the backup is ready.                                                *)
LEMMA RequestMoves ==
  ASSUME Shape, NEW r \in Requests, RequestStep(r) \/ RequestFails(r)
  PROVE  /\ UNCHANGED <<local, thrown>>
         /\ \A q \in Requests \ {r} : req'[q] = req[q]
         /\ req'[r].at \in PastBackup => req[r].at \in PastBackup \/ job["apply"].at = "ready"
         /\ job'["apply"].at \in Published => job["apply"].at \in Published
         /\ live' # live => req[r].at \in PastBackup
  <1> USE MakersDistinct
  <1>1. UNCHANGED <<local, thrown>>
    <2> USE DEF KeepArchives, avars, Same, NoUse
    <2>1. CASE RequestFails(r)
      BY <2>1 DEF RequestFails, ReceiveFails, UnpackFails, StopFails, CopyFails, StartFails
    <2>2. CASE Received(r) \/ Open(r) \/ Decrypt(r) \/ ListEntries(r) \/ Unpack(r) \/ Read(r)
      BY <2>2 DEF Received, Open, Decrypt, ListEntries, Unpack, Read
    <2>3. CASE Backup(r) \/ BackedUp(r) \/ Stop(r) \/ Aside(r)
      BY <2>3 DEF Backup, BackedUp, Stop, Aside
    <2>4. CASE Copy(r) \/ Copied(r) \/ Start(r) \/ Clean(r)
      BY <2>4 DEF Copy, Copied, Start, Clean
    <2> QED
      BY <2>1, <2>2, <2>3, <2>4 DEF RequestStep
  <1>2. \A q \in Requests \ {r} : req'[q] = req[q]
    <2> USE DEF Shape, End, Go, NextItem, Refuse
    <2>1. CASE RequestFails(r)
      BY <2>1 DEF RequestFails, ReceiveFails, UnpackFails, StopFails, CopyFails, StartFails
    <2>2. CASE Received(r) \/ Open(r) \/ Decrypt(r) \/ ListEntries(r) \/ Unpack(r) \/ Read(r)
      BY <2>2 DEF Received, Open, Decrypt, ListEntries, Unpack, Read
    <2>3. CASE Backup(r) \/ BackedUp(r) \/ Stop(r) \/ Aside(r)
      BY <2>3 DEF Backup, BackedUp, Stop, Aside
    <2>4. CASE Copy(r) \/ Copied(r) \/ Start(r) \/ Clean(r)
      BY <2>4 DEF Copy, Copied, Start, Clean
    <2> QED
      BY <2>1, <2>2, <2>3, <2>4 DEF RequestStep
  <1>3. req'[r].at \in PastBackup => req[r].at \in PastBackup \/ job["apply"].at = "ready"
    <2> USE DEF Shape, End, Go, NextItem, Refuse, PastBackup
    <2>1. CASE RequestFails(r)
      BY <2>1 DEF RequestFails, ReceiveFails, UnpackFails, StopFails, CopyFails, StartFails
    <2>2. CASE Received(r) \/ Open(r) \/ Decrypt(r) \/ ListEntries(r) \/ Unpack(r) \/ Read(r)
      BY <2>2 DEF Received, Open, Decrypt, ListEntries, Unpack, Read
    <2>3. CASE Backup(r) \/ BackedUp(r) \/ Stop(r) \/ Aside(r)
      BY <2>3 DEF Backup, BackedUp, Stop, Aside
    <2>4. CASE Copy(r) \/ Copied(r) \/ Start(r) \/ Clean(r)
      BY <2>4 DEF Copy, Copied, Start, Clean
    <2> QED
      BY <2>1, <2>2, <2>3, <2>4 DEF RequestStep
  <1>4. job'["apply"].at \in Published => job["apply"].at \in Published
    <2> USE DEF KeepArchives, avars, Same, Shape, Published
    <2>1. CASE RequestFails(r)
      BY <2>1 DEF RequestFails, ReceiveFails, UnpackFails, StopFails, CopyFails, StartFails
    <2>2. CASE Received(r) \/ Open(r) \/ Decrypt(r) \/ ListEntries(r) \/ Unpack(r) \/ Read(r)
      BY <2>2 DEF Received, Open, Decrypt, ListEntries, Unpack, Read
    <2>3. CASE Backup(r) \/ BackedUp(r) \/ Stop(r) \/ Aside(r)
      BY <2>3 DEF Backup, BackedUp, FlagAfter, Stuck, Stop, Aside
    <2>4. CASE Copy(r) \/ Copied(r) \/ Start(r) \/ Clean(r)
      BY <2>4 DEF Copy, Copied, Start, Clean
    <2> QED
      BY <2>1, <2>2, <2>3, <2>4 DEF RequestStep
  <1>5. live' # live => req[r].at \in PastBackup
    <2> USE DEF KeepArchives, avars, Same, PastBackup
    <2>1. CASE RequestFails(r)
      BY <2>1 DEF RequestFails, ReceiveFails, UnpackFails, StopFails, CopyFails, StartFails
    <2>2. CASE Received(r) \/ Open(r) \/ Decrypt(r) \/ ListEntries(r) \/ Unpack(r) \/ Read(r)
      BY <2>2 DEF Received, Open, Decrypt, ListEntries, Unpack, Read
    <2>3. CASE Backup(r) \/ BackedUp(r) \/ Stop(r) \/ Aside(r)
      BY <2>3 DEF Backup, BackedUp, Stop, Aside
    <2>4. CASE Copy(r) \/ Copied(r) \/ Start(r) \/ Clean(r)
      BY <2>4 DEF Copy, Copied, Start, Clean
    <2> QED
      BY <2>1, <2>2, <2>3, <2>4 DEF RequestStep
  <1> QED
    BY <1>1, <1>2, <1>3, <1>4, <1>5

LEMMA RequestKeeps ==
  ASSUME NeverLostInv, NEW r \in Requests, RequestStep(r) \/ RequestFails(r)
  PROVE  (Writing' => Kept') /\ SomewhereSafe'
  <1> USE DEF NeverLostInv
  <1>1. Kept => Kept'
    BY RequestMoves DEF Kept, Held
  <1>2. Writing' => Writing
    BY RequestMoves DEF Writing, Published
  <1>3. SomewhereSafe'
    <2>1. CASE live' = live
      BY <2>1, RequestMoves DEF SomewhereSafe, Held
    <2>2. CASE live' # live
      <3>1. Writing
        BY <2>2, RequestMoves DEF Writing
      <3> QED
        BY <1>1, <3>1 DEF Kept, SomewhereSafe
    <2> QED
      BY <2>1, <2>2
  <1> QED
    BY <1>1, <1>2, <1>3

(* Making, pruning and deleting archives: what is not held any more was     *)
(* thrown away, and a published archive holds what the box has.             *)
LEMMA ArchivesKeep ==
  ASSUME NeverLostInv, ArchivesNext, Lost, UNCHANGED req
  PROVE  (Writing' => Kept') /\ SomewhereSafe'
  <1> USE MakersDistinct DEF NeverLostInv
  <1>1. \A i \in Items : i \in thrown \cup Held(local) => i \in thrown' \cup Held(local)'
    BY DEF Lost, Held
  <1>2. live' = live
    <2> USE DEF Same
    <2>1. ASSUME NEW m \in Makers, CreateFor(m) \/ CreateStep(m) \/ CreateFails(m) PROVE live' = live
      BY <2>1 DEF CreateStep, CreateFor, Publish, Prune, CopyOut, CreateFails
    <2>2. CASE Tick \/ WriteSchedule \/ ShareComesAndGoes
      BY <2>2 DEF Tick, WriteSchedule, ShareComesAndGoes
    <2>3. ASSUME NEW f \in nas, HelperEnds(f) PROVE live' = live
      BY <2>3 DEF HelperEnds
    <2> QED
      BY <2>1, <2>2, <2>3 DEF ArchivesNext, Delete, AskSchedule, Pass
  <1>3. SomewhereSafe'
    BY <1>1, <1>2 DEF SomewhereSafe
  <1>4. ASSUME Writing' PROVE Writing \/ Publish("apply")
    <2>1. CASE UNCHANGED job
      BY <1>4, <2>1 DEF Writing
    <2>2. ASSUME NEW m \in Makers, m # "apply", NEW v, job' = [job EXCEPT ![m] = v] PROVE Writing
      <3>1. job'["apply"] = job["apply"]
        BY <2>2 DEF Shape
      <3> QED
        BY <1>4, <3>1 DEF Writing
    <2>3. ASSUME NEW m \in Makers, CreateFor(m) \/ CreateStep(m) \/ CreateFails(m)
          PROVE  Writing \/ Publish("apply")
      <3>1. CASE m # "apply"
        <4>1. job'["apply"] = job["apply"]
          BY <2>3, <3>1 DEF CreateFor, CreateStep, CreateFails, Publish, Prune, CopyOut, Ended, Shape
        <4> QED
          BY <1>4, <4>1 DEF Writing
      <3>2. CASE m = "apply"
        <4>1. CASE Prune(m) \/ CopyOut(m)
          BY <3>2, <4>1 DEF Prune, CopyOut, Writing, Published
        <4>2. CASE CreateFails(m)
          <5>1. job'["apply"].at \in {"failed", "refused", "stuck"}
            BY <3>2, <4>2 DEF CreateFails, Failed, Shape
          <5> QED
            BY <1>4, <5>1 DEF Writing, Published
        <4> QED
          BY <2>3, <3>2, <4>1, <4>2 DEF CreateFor, CreateStep
      <3> QED
        BY <3>1, <3>2
    <2>4. CASE Tick
      BY <2>1, <2>2, <2>4 DEF Tick
    <2>5. ASSUME NEW f \in nas, HelperEnds(f) PROVE Writing \/ Publish("apply")
      <3>1. ASSUME NEW m \in Makers, job[m].at = "copying", Ended(m) PROVE Writing
        <4>1. CASE m = "apply"
          BY <3>1, <4>1 DEF Writing, Published
        <4>2. CASE m # "apply"
          BY <2>2, <3>1, <4>2 DEF Ended
        <4> QED
          BY <4>1, <4>2
      <3>2. UNCHANGED job \/ \E m \in Makers : job[m].at = "copying" /\ Ended(m)
        BY <2>5 DEF HelperEnds
      <3> QED
        BY <2>1, <3>1, <3>2
    <2> QED
      BY <2>1, <2>3, <2>4, <2>5 DEF ArchivesNext, WriteSchedule, ShareComesAndGoes, Delete,
                                     AskSchedule, Pass, Same
  <1>5. CASE Writing
    BY <1>1, <1>3, <1>5 DEF Kept
  <1>6. CASE Publish("apply")
    <2>1. local' = Append(local, [n |-> made', holds |-> live])
      BY <1>6 DEF Publish
    <2>2. \A i \in Items : i \in Held(local) \/ live[i] = "mine" => i \in Held(local')
      BY <2>1, HeldByAppend DEF Shape
    <2>3. Held(local)' = Held(local')
      BY DEF Held
    <2>4. thrown \subseteq thrown'
      BY DEF Lost
    <2> QED
      BY <1>3, <2>2, <2>3, <2>4 DEF SomewhereSafe, Kept
  <1> QED
    BY <1>3, <1>4, <1>5, <1>6

LEMMA StepNeverLost == NeverLostInv /\ [Next]_vars => NeverLostInv'
  <1> SUFFICES ASSUME NeverLostInv, [Next]_vars PROVE (Writing' => Kept') /\ SomewhereSafe'
    BY StepShape DEF NeverLostInv
  <1> USE MakersDistinct DEF NeverLostInv
  <1>1. CASE ArchivesNext /\ Lost /\ UNCHANGED req
    BY <1>1, ArchivesKeep
  <1>2. ASSUME NEW r \in Requests, RequestStep(r) \/ RequestFails(r)
        PROVE  (Writing' => Kept') /\ SomewhereSafe'
    BY <1>2, RequestKeeps
  <1>3. ASSUME NEW r \in Requests, Asking(r) PROVE (Writing' => Kept') /\ SomewhereSafe'
    <2>1. UNCHANGED <<local, live, job, thrown>>
      BY <1>3, AskingLeaves DEF avars
    <2>2. Writing' => Writing
      <3>1. \A q \in Requests : req'[q].at \in PastBackup => req[q].at \in PastBackup
        BY <1>3, AskingLeaves DEF Shape, PastBackup
      <3> QED
        BY <2>1, <3>1 DEF Writing
    <2> QED
      BY <2>1, <2>2 DEF Kept, SomewhereSafe, Held
  <1>4. ASSUME NEW s \in Stages, Discard(s) PROVE (Writing' => Kept') /\ SomewhereSafe'
    <2>1. UNCHANGED <<local, live, job, req>> /\ thrown \subseteq thrown'
      BY <1>4 DEF Discard, KeepArchives, avars
    <2> QED
      BY <2>1 DEF Kept, SomewhereSafe, Held, Writing
  <1>5. ASSUME NEW power \in BOOLEAN, Crash(power) PROVE (Writing' => Kept') /\ SomewhereSafe'
    <2>1. UNCHANGED <<local, live, thrown>> /\ req' = [r \in Requests |-> Idle]
      BY <1>5 DEF Crash
    <2>2. job'["apply"] = Idle
      BY <1>5 DEF Crash, DashboardDies, Dashboard, Makers
    <2>3. ~Writing'
      BY <2>1, <2>2 DEF Writing, PastBackup, Published
    <2> QED
      BY <2>1, <2>3 DEF SomewhereSafe, Held
  <1>6. CASE UNCHANGED vars
    BY <1>6 DEF vars, avars, rvars, Kept, SomewhereSafe, Held, Writing
  <1> QED
    BY <1>1, <1>2, <1>3, <1>4, <1>5, <1>6 DEF Next, Asking

(* However often restores are applied, cut off, failed or discarded, what   *)
(* the box had is in place, aside or in an archive, unless that copy was    *)
(* thrown away (restore.js: the backup comes before anything is written).   *)
THEOREM NeverLostAlways == Spec => []NeverLost
  <1>1. NeverLostInv => NeverLost
    BY DEF NeverLostInv, SomewhereSafe, NeverLost
  <1> QED
    BY <1>1, InitNeverLost, StepNeverLost, PTL DEF Spec

=============================================================================
