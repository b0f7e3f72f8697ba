------------------------- MODULE QuiesceBackupProofs -------------------------
(* Proofs about QuiesceBackup, for any set of apps and any number of         *)
(* `homebox backup` processes beside the dashboard.                          *)
EXTENDS QuiesceBackup, TLAPS

(***************************************************************************)
(* The inductive invariant.  Local: where the apps that a process holds     *)
(* down are to be found among its own lists, whatever the others do.  Sole: *)
(* while the marker is one process's own, that process is the only one      *)
(* between its two writes, and every list it works from is in the marker.   *)
(***************************************************************************)
HeldBy(p) == {a \in Apps : debt[a] = p}

HeldAll == {a \in Apps : debt[a] \in Procs}

AwaitedApps(p) == {j.app : j \in awaited[p]}

ToStart(p) == todo[p] \cup remaining[p] \cup AwaitedApps(p)

Own(p) == InSpan(p) /\ pc[p] # "resume"

Local(p) ==
    /\ \A j, k \in awaited[p] : j = k
    /\ \A j \in awaited[p] : /\ j.by = p
                             /\ \/ pc[p] = "stop" /\ j.op = "stop"
                                \/ InRestart(p) /\ j.op = "start"
    /\ pc[p] \in {"list", "mark", "encrypt"} => stopped[p] = {}
    /\ pc[p] \in {"restart", "finally"} => stopped[p] # {} /\ HeldBy(p) \subseteq ToStart(p)
    /\ Own(p) => HeldBy(p) \subseteq stopped[p] /\ \A j \in dead : j.by # p

Sole(p) == InSpan(p) =>
    /\ \A q \in Procs : InSpan(q) => q = p
    /\ dead = {}
    /\ Own(p) => HeldAll \subseteq HeldBy(p) /\ stopped[p] \subseteq mark
    /\ pc[p] = "stop" => todo[p] \cup AwaitedApps(p) \subseteq mark
    /\ InRestart(p) => ToStart(p) \subseteq mark
    /\ pc[p] = "resume" => HeldAll \subseteq ToStart(p)

LocalInv == TypeOK /\ \A p \in Procs : Local(p)

SoleInv == ~mixed => /\ HeldAll \subseteq mark
                     /\ \A j \in dead : j.op = "stop" => j.app \in mark
                     /\ \A p \in Procs : Sole(p)

Inv == LocalInv /\ SoleInv

LEMMA InitInv == Init => Inv
BY ProcsAssumption DEF Init, Inv, LocalInv, SoleInv, Local, Sole, TypeOK, Nothing, HeldBy,
   HeldAll, AwaitedApps, ToStart, Own, InSpan, InRestart, PC, Job, Reasons, Procs

(* A call moves one app from the loop's list to the awaited job.              *)
LEMMA CallKeepsToStart ==
    ASSUME TypeOK, NEW p \in Procs, NEW op, NEW a, Call(p, op, a)
    PROVE  ToStart(p)' = ToStart(p)
<1>1. awaited[p] = {} /\ awaited'[p] = {[op |-> op, app |-> a, by |-> p]}
  BY DEF Call, TypeOK
<1>2. AwaitedApps(p) = {}
  BY <1>1 DEF AwaitedApps
<1>3. AwaitedApps(p)' = {a}
  BY <1>1 DEF AwaitedApps
<1>4. a \in todo[p] /\ todo'[p] = todo[p] \ {a} /\ remaining' = remaining
  BY DEF Call, TypeOK
<1> QED
  BY <1>2, <1>3, <1>4 DEF ToStart

(* What a process keeps for itself: one step per action.                     *)
LEMMA LocalNext == LocalInv /\ [Next]_vars => LocalInv'
<1> SUFFICES ASSUME LocalInv, [Next]_vars PROVE LocalInv'
  OBVIOUS
<1> USE ProcsAssumption
    DEF LocalInv, TypeOK, Local, HeldBy, AwaitedApps, ToStart, Own, InSpan, InRestart,
        PC, Reasons, Job, Procs, locals, orphans
<1>1. ASSUME NEW p \in Procs, ListModules(p) PROVE LocalInv'
  BY <1>1 DEF ListModules, Stoppable, Goto
<1>2. ASSUME NEW p \in Procs, WriteWanted(p) PROVE LocalInv'
  BY <1>2 DEF WriteWanted, Goto, BeginRecord, OtherInSpan
<1>3. ASSUME NEW p \in Procs, WriteWantedFails(p) PROVE LocalInv'
  BY <1>3 DEF WriteWantedFails, Finally, Restarting, Goto
<1>4. ASSUME NEW p \in Procs, WriteStopped(p) PROVE LocalInv'
  BY <1>4 DEF WriteStopped, Goto, LoopOver
<1>5. ASSUME NEW p \in Procs, WriteStoppedFails(p) PROVE LocalInv'
  BY <1>5 DEF WriteStoppedFails, Finally, Restarting, Goto, LoopOver
<1>6. ASSUME NEW p \in Procs, TarDone(p) PROVE LocalInv'
  BY <1>6 DEF TarDone, Restarting, Goto
<1>7. ASSUME NEW p \in Procs, TarFails(p) PROVE LocalInv'
  BY <1>7 DEF TarFails, Finally, Restarting, Goto
<1>8. ASSUME NEW p \in Procs, Encrypt(p) PROVE LocalInv'
  BY <1>8 DEF Encrypt, Finally, Restarting, Goto
<1>9. ASSUME NEW p \in Procs, WriteRemaining(p) PROVE LocalInv'
  BY <1>9 DEF WriteRemaining, LoopOver, AfterRestart, TakeRemaining, Finally, Restarting, Goto
<1>10. ASSUME NEW p \in Procs, WriteRemainingFails(p) PROVE LocalInv'
  BY <1>10 DEF WriteRemainingFails, LoopOver, AfterRestart, Finally, Restarting, Goto
<1>11. ASSUME NEW p \in Procs, Crash(p) PROVE LocalInv'
  BY <1>11 DEF Crash, Goto
<1>12. ASSUME NEW p \in Procs, NEW a \in Apps, CallStop(p, a) PROVE LocalInv'
  <2>1. TypeOK'
    BY <1>12 DEF CallStop, Call
  <2>2. ASSUME NEW q \in Procs PROVE Local(q)'
    <3>1. CASE q = p
      BY <1>12, <3>1 DEF CallStop, Call
    <3>2. CASE q # p
      BY <1>12, <3>2 DEF CallStop, Call
    <3> QED
      BY <3>1, <3>2
  <2> QED
    BY <2>1, <2>2
<1>13. ASSUME NEW p \in Procs, NEW a \in Apps, CallStart(p, a) PROVE LocalInv'
  <2>1. TypeOK'
    BY <1>13 DEF CallStart, Call
  <2>2. ToStart(p)' = ToStart(p)
    <3> HIDE DEF ToStart, TypeOK
    <3> QED
      BY <1>13, CallKeepsToStart DEF CallStart
  <2>3. ASSUME NEW q \in Procs PROVE Local(q)'
    <3>1. CASE q = p
      <4> HIDE DEF ToStart, AwaitedApps
      <4> QED
        BY <1>13, <2>2, <3>1 DEF CallStart, Call
    <3>2. CASE q # p
      BY <1>13, <3>2 DEF CallStart, Call
    <3> QED
      BY <3>1, <3>2
  <2> QED
    BY <2>1, <2>3
<1>14. ASSUME NEW p \in Procs, NEW j \in awaited[p], StopReplied(p, j) PROVE LocalInv'
  BY <1>14 DEF StopReplied, Answered, StopEffect
<1>15. ASSUME NEW p \in Procs, NEW j \in awaited[p], StopFailed(p, j) PROVE LocalInv'
  BY <1>15 DEF StopFailed, Answered, StopEffect
<1>16. ASSUME NEW p \in Procs, NEW j \in awaited[p], StartReplied(p, j) PROVE LocalInv'
  BY <1>16 DEF StartReplied, Answered, StartEffect
<1>17. ASSUME NEW p \in Procs, NEW j \in awaited[p], StartFailed(p, j) PROVE LocalInv'
  BY <1>17 DEF StartFailed, Answered, StartEffect
<1>18. ASSUME NEW p \in Procs, NEW removed \in BOOLEAN, Clean(p, removed) PROVE LocalInv'
  BY <1>18 DEF Clean, Goto
<1>19. ASSUME NEW p \in Procs, NEW quiesce \in BOOLEAN, Create(p, quiesce) PROVE LocalInv'
  BY <1>19 DEF Create, Free, Goto
<1>20. ASSUME CreateNoDir PROVE LocalInv'
  BY <1>20 DEF CreateNoDir, Free
<1>21. ASSUME TarStalls PROVE LocalInv'
  BY <1>21 DEF TarStalls, Goto
<1>22. ASSUME Boot PROVE LocalInv'
  BY <1>22 DEF Boot, Restarting, Goto, OtherInSpan
<1>23. ASSUME NEW j \in dead, DeadJob(j) PROVE LocalInv'
  BY <1>23 DEF DeadJob, Effect, StopEffect, StartEffect
<1>24. ASSUME NEW j \in late, LateJob(j) PROVE LocalInv'
  BY <1>24 DEF LateJob, Effect, StopEffect, StartEffect
<1>25. ASSUME NEW a \in Apps, UserStart(a) PROVE LocalInv'
  BY <1>25 DEF UserStart, StartEffect
<1>26. ASSUME NEW a \in Apps, UserStop(a) PROVE LocalInv'
  BY <1>26 DEF UserStop
<1>27. CASE UNCHANGED vars
  BY <1>27 DEF vars
<1> HIDE DEF LocalInv
<1> QED
  BY <1>1, <1>2, <1>3, <1>4, <1>5, <1>6, <1>7, <1>8, <1>9, <1>10, <1>11,
     <1>12, <1>13, <1>14, <1>15, <1>16, <1>17, <1>18, <1>19, <1>20, <1>21,
     <1>22, <1>23, <1>24, <1>25, <1>26, <1>27
     DEF Next, BackupStep, Orphan, User

(* What the marker holds while it is one process's own.                      *)
LEMMA SoleNext == Inv /\ [Next]_vars => SoleInv'
<1> SUFFICES ASSUME LocalInv, SoleInv, [Next]_vars, ~mixed' PROVE SoleInv'
  BY DEF Inv, SoleInv
<1> USE ProcsAssumption
    DEF LocalInv, SoleInv, Sole, TypeOK, Local, HeldBy, HeldAll, AwaitedApps, ToStart, Own,
        InSpan, InRestart, PC, Reasons, Job, Procs, locals, orphans
<1>1. ASSUME NEW p \in Procs, ListModules(p) PROVE SoleInv'
  BY <1>1 DEF ListModules, Stoppable, Goto
<1>2. ASSUME NEW p \in Procs, WriteWanted(p) PROVE SoleInv'
  BY <1>2 DEF WriteWanted, Goto, BeginRecord, OtherInSpan
<1>3. ASSUME NEW p \in Procs, WriteWantedFails(p) PROVE SoleInv'
  BY <1>3 DEF WriteWantedFails, Finally, Restarting, Goto
<1>4. ASSUME NEW p \in Procs, WriteStopped(p) PROVE SoleInv'
  BY <1>4 DEF WriteStopped, Goto, LoopOver
<1>5. ASSUME NEW p \in Procs, WriteStoppedFails(p) PROVE SoleInv'
  BY <1>5 DEF WriteStoppedFails, Finally, Restarting, Goto, LoopOver
<1>6. ASSUME NEW p \in Procs, TarDone(p) PROVE SoleInv'
  BY <1>6 DEF TarDone, Restarting, Goto
<1>7. ASSUME NEW p \in Procs, TarFails(p) PROVE SoleInv'
  BY <1>7 DEF TarFails, Finally, Restarting, Goto
<1>8. ASSUME NEW p \in Procs, Encrypt(p) PROVE SoleInv'
  BY <1>8 DEF Encrypt, Finally, Restarting, Goto
<1>9. ASSUME NEW p \in Procs, WriteRemaining(p) PROVE SoleInv'
  BY <1>9 DEF WriteRemaining, LoopOver, AfterRestart, TakeRemaining, Finally, Restarting, Goto
<1>10. ASSUME NEW p \in Procs, WriteRemainingFails(p) PROVE SoleInv'
  BY <1>10 DEF WriteRemainingFails, LoopOver, AfterRestart, Finally, Restarting, Goto
<1>11. ASSUME NEW p \in Procs, Crash(p) PROVE SoleInv'
  BY <1>11 DEF Crash, Goto
<1>12. ASSUME NEW p \in Procs, NEW a \in Apps, CallStop(p, a) PROVE SoleInv'
  BY <1>12 DEF CallStop, Call
<1>13. ASSUME NEW p \in Procs, NEW a \in Apps, CallStart(p, a) PROVE SoleInv'
  <2>1. ToStart(p)' = ToStart(p)
    <3> HIDE DEF ToStart, TypeOK
    <3> QED
      BY <1>13, CallKeepsToStart DEF CallStart
  <2>2. \A q \in Procs : InSpan(q) <=> q = p
    <3>1. InSpan(p)
      BY <1>13 DEF CallStart
    <3>2. ~mixed
      BY <1>13 DEF CallStart, Call
    <3> HIDE DEF InSpan
    <3> QED
      BY <3>1, <3>2
  <2>3. UNCHANGED <<mark, debt, pc, stopped, dead>> /\ ~mixed
    BY <1>13 DEF CallStart, Call
  <2>4. Sole(p)'
    <3> HIDE DEF ToStart, AwaitedApps
    <3> QED
      BY <1>13, <2>1, <2>2, <2>3 DEF CallStart
  <2>5. \A q \in Procs : InSpan(q)' => q = p
    BY <2>2, <2>3
  <2> HIDE DEF InSpan
  <2> QED
    BY <2>3, <2>4, <2>5 DEF Sole
<1>14. ASSUME NEW p \in Procs, NEW j \in awaited[p], StopReplied(p, j) PROVE SoleInv'
  BY <1>14 DEF StopReplied, Answered, StopEffect
<1>15. ASSUME NEW p \in Procs, NEW j \in awaited[p], StopFailed(p, j) PROVE SoleInv'
  BY <1>15 DEF StopFailed, Answered, StopEffect
<1>16. ASSUME NEW p \in Procs, NEW j \in awaited[p], StartReplied(p, j) PROVE SoleInv'
  BY <1>16 DEF StartReplied, Answered, StartEffect
<1>17. ASSUME NEW p \in Procs, NEW j \in awaited[p], StartFailed(p, j) PROVE SoleInv'
  BY <1>17 DEF StartFailed, Answered, StartEffect
<1>18. ASSUME NEW p \in Procs, NEW removed \in BOOLEAN, Clean(p, removed) PROVE SoleInv'
  BY <1>18 DEF Clean, Goto
<1>19. ASSUME NEW p \in Procs, NEW quiesce \in BOOLEAN, Create(p, quiesce) PROVE SoleInv'
  BY <1>19 DEF Create, Free, Goto
<1>20. ASSUME CreateNoDir PROVE SoleInv'
  BY <1>20 DEF CreateNoDir, Free
<1>21. ASSUME TarStalls PROVE SoleInv'
  BY <1>21 DEF TarStalls, Goto
<1>22. ASSUME Boot PROVE SoleInv'
  <2>1. UNCHANGED <<mark, debt, stopped, awaited>> /\ ~mixed /\ dead' = {}
    BY <1>22 DEF Boot
  <2>2. CASE mark = {}
    <3>1. pc' = [pc EXCEPT ![Server] = "idle"]
      BY <1>22, <2>2 DEF Boot, Restarting, Goto
    <3>2. ASSUME NEW q \in Procs PROVE Sole(q)'
      <4>1. CASE q = Server
        BY <3>1, <4>1
      <4>2. CASE q # Server
        BY <1>22, <2>1, <2>2, <3>1, <4>2 DEF Boot, Restarting
      <4> QED
        BY <4>1, <4>2
    <3> QED
      BY <2>1, <3>2
  <2>3. CASE mark # {}
    <3>1. /\ pc' = [pc EXCEPT ![Server] = "resume"]
          /\ todo'[Server] = mark /\ remaining'[Server] = {}
      BY <1>22, <2>3 DEF Boot, Restarting, Goto
    <3>2. \A q \in Procs \ {Server} : ~InSpan(q)
      <4> HIDE DEF InSpan
      <4> QED
        BY <1>22, <2>3 DEF Boot, OtherInSpan
    <3>3. \A q \in Procs \ {Server} : ~InSpan(q)'
      BY <2>1, <3>1, <3>2
    <3>4. AwaitedApps(Server)' = {}
      BY <1>22 DEF Boot
    <3>5. ToStart(Server)' = mark
      <4> HIDE DEF AwaitedApps
      <4> QED
        BY <3>1, <3>4
    <3>6. Sole(Server)'
      <4> HIDE DEF AwaitedApps, ToStart
      <4> QED
        BY <2>1, <3>1, <3>3, <3>5
    <3> HIDE DEF InSpan
    <3> QED
      BY <2>1, <3>3, <3>6 DEF Sole
  <2> QED
    BY <2>2, <2>3
<1>23. ASSUME NEW j \in dead, DeadJob(j) PROVE SoleInv'
  BY <1>23 DEF DeadJob, Effect, StopEffect, StartEffect
<1>24. ASSUME NEW j \in late, LateJob(j) PROVE SoleInv'
  BY <1>24 DEF LateJob, Effect, StopEffect, StartEffect
<1>25. ASSUME NEW a \in Apps, UserStart(a) PROVE SoleInv'
  BY <1>25 DEF UserStart, StartEffect
<1>26. ASSUME NEW a \in Apps, UserStop(a) PROVE SoleInv'
  BY <1>26 DEF UserStop
<1>27. CASE UNCHANGED vars
  BY <1>27 DEF vars
<1> HIDE DEF SoleInv
<1> QED
  BY <1>1, <1>2, <1>3, <1>4, <1>5, <1>6, <1>7, <1>8, <1>9, <1>10, <1>11,
     <1>12, <1>13, <1>14, <1>15, <1>16, <1>17, <1>18, <1>19, <1>20, <1>21,
     <1>22, <1>23, <1>24, <1>25, <1>26, <1>27
     DEF Next, BackupStep, Orphan, User

LEMMA Invariance == Spec => []Inv
<1>1. Inv /\ [Next]_vars => Inv'
  BY LocalNext, SoleNext DEF Inv
<1> QED
  BY <1>1, InitInv, PTL DEF Spec

-----------------------------------------------------------------------------
(* Whatever the latest run of a process stopped and nothing started since is *)
(* in the marker, through crashes, failed starts and failed writes (338-343),*)
(* of every run that began with no other process between its two writes.     *)
THEOREM RecordedAlways == Spec => []Recorded
<1>1. Inv => Recorded
  BY DEF Inv, SoleInv, HeldAll, Recorded
<1> QED
  BY <1>1, Invariance, PTL

(* No archive of a run that stopped apps is published while one of them is   *)
(* still down: restartQuiesced leaves nothing, or create() throws (415-427). *)
(* It is shown of every run, overlapping with others or not.                 *)
THEOREM PublishedBack == Spec => PublishedOnlyWhenBack
<1>1. Inv /\ [Next]_vars =>
        [\A p \in Procs : pc[p] = "restart" /\ pc'[p] = "encrypt"
                             => \A a \in Apps : debt'[a] # p]_vars
  <2> SUFFICES ASSUME Inv, Next, NEW p \in Procs, pc[p] = "restart", pc'[p] = "encrypt"
               PROVE  \A a \in Apps : debt'[a] # p
    BY DEF vars
  <2> USE DEF Inv, LocalInv, TypeOK, PC
  <2>1. ASSUME NEW q \in Procs,
               \/ \E quiesce \in BOOLEAN : Create(q, quiesce)
               \/ BackupStep(q)
               \/ Crash(q)
        PROVE  /\ p = q
               /\ \/ WriteRemaining(p) /\ remaining[p] = {}
                  \/ WriteRemainingFails(p) /\ stopped[p] = {}
    <3>1. p = q
      BY <2>1 DEF BackupStep, Create, Crash, ListModules, WriteWanted, WriteWantedFails,
             CallStop, CallStart, Call, StopReplied, StopFailed, StartReplied, StartFailed,
             WriteStopped, WriteStoppedFails, TarDone, TarFails, Encrypt, Clean,
             WriteRemaining, WriteRemainingFails, AfterRestart, Finally, Restarting, Goto
    <3>2. ~Crash(p) /\ \A quiesce \in BOOLEAN : ~Create(p, quiesce)
      BY DEF Crash, Create, Goto, Free
    <3>3. BackupStep(p)
      BY <2>1, <3>1, <3>2
    <3>4. WriteRemaining(p) \/ WriteRemainingFails(p)
      BY <3>3 DEF BackupStep, ListModules, WriteWanted, WriteWantedFails, CallStop,
             CallStart, Call, StopReplied, StopFailed, StartReplied, StartFailed, WriteStopped,
             WriteStoppedFails, TarDone, TarFails, Encrypt, Clean
    <3>5. ASSUME NEW left, AfterRestart(p, left) PROVE left = {}
      BY <3>5 DEF AfterRestart, Finally, Restarting, Goto
    <3>6. WriteRemaining(p) => remaining[p] = {}
      <4>1. WriteRemaining(p) => AfterRestart(p, remaining[p])
        BY DEF WriteRemaining
      <4> QED
        BY <4>1, <3>5
    <3>7. WriteRemainingFails(p) => stopped[p] = {}
      <4>1. WriteRemainingFails(p) => AfterRestart(p, stopped[p])
        BY DEF WriteRemainingFails
      <4> QED
        BY <4>1, <3>5
    <3> QED
      BY <3>1, <3>4, <3>6, <3>7
  <2>2. ~CreateNoDir /\ ~TarStalls /\ ~Boot /\ ~Orphan /\ ~User
    BY DEF CreateNoDir, TarStalls, Boot, Orphan, User, DeadJob, LateJob, UserStart, UserStop,
           Goto, Restarting
  <2>3. \/ WriteRemaining(p) /\ remaining[p] = {}
        \/ WriteRemainingFails(p) /\ stopped[p] = {}
    BY <2>1, <2>2 DEF Next
  <2>4. Local(p)
    OBVIOUS
  <2>5. todo[p] = {} /\ AwaitedApps(p) = {} /\ UNCHANGED debt
    BY <2>3 DEF WriteRemaining, WriteRemainingFails, LoopOver, AwaitedApps
  <2>6. HeldBy(p) = {}
    BY <2>3, <2>4, <2>5 DEF Local, ToStart
  <2> QED
    BY <2>5, <2>6 DEF HeldBy
<1> QED
  BY <1>1, Invariance, PTL DEF Spec, PublishedOnlyWhenBack

-----------------------------------------------------------------------------
(* No list, job or marker ever names a required app.                         *)
SparesRequired ==
    /\ TypeOK
    /\ mark \cap Required = {}
    /\ \A p \in Procs : (todo[p] \cup stopped[p] \cup remaining[p]) \cap Required = {}
    /\ \A p \in Procs : \A j \in awaited[p] : j.app \notin Required
    /\ \A j \in dead \cup late : j.app \notin Required
    /\ \A a \in Required : debt[a] = "none"

LEMMA SparesRequiredInductive == SparesRequired /\ [Next]_vars => SparesRequired'
<1> SUFFICES ASSUME SparesRequired, [Next]_vars PROVE SparesRequired'
  OBVIOUS
<1> USE AppsAssumption, ProcsAssumption
    DEF SparesRequired, TypeOK, PC, Reasons, Job, Procs, locals, orphans
<1>1. ASSUME NEW p \in Procs, ListModules(p) PROVE SparesRequired'
  BY <1>1 DEF ListModules, Stoppable, Goto
<1>2. ASSUME NEW p \in Procs, WriteWanted(p) PROVE SparesRequired'
  BY <1>2 DEF WriteWanted, Goto, BeginRecord, OtherInSpan
<1>3. ASSUME NEW p \in Procs, WriteWantedFails(p) PROVE SparesRequired'
  BY <1>3 DEF WriteWantedFails, Finally, Restarting, Goto
<1>4. ASSUME NEW p \in Procs, WriteStopped(p) PROVE SparesRequired'
  BY <1>4 DEF WriteStopped, Goto, LoopOver
<1>5. ASSUME NEW p \in Procs, WriteStoppedFails(p) PROVE SparesRequired'
  BY <1>5 DEF WriteStoppedFails, Finally, Restarting, Goto, LoopOver
<1>6. ASSUME NEW p \in Procs, TarDone(p) PROVE SparesRequired'
  BY <1>6 DEF TarDone, Restarting, Goto
<1>7. ASSUME NEW p \in Procs, TarFails(p) PROVE SparesRequired'
  BY <1>7 DEF TarFails, Finally, Restarting, Goto
<1>8. ASSUME NEW p \in Procs, Encrypt(p) PROVE SparesRequired'
  BY <1>8 DEF Encrypt, Finally, Restarting, Goto
<1>9. ASSUME NEW p \in Procs, WriteRemaining(p) PROVE SparesRequired'
  BY <1>9 DEF WriteRemaining, LoopOver, AfterRestart, TakeRemaining, Finally, Restarting, Goto
<1>10. ASSUME NEW p \in Procs, WriteRemainingFails(p) PROVE SparesRequired'
  BY <1>10 DEF WriteRemainingFails, LoopOver, AfterRestart, Finally, Restarting, Goto
<1>11. ASSUME NEW p \in Procs, Crash(p) PROVE SparesRequired'
  BY <1>11 DEF Crash, Goto
<1>12. ASSUME NEW p \in Procs, NEW a \in Apps, CallStop(p, a) PROVE SparesRequired'
  BY <1>12 DEF CallStop, Call
<1>13. ASSUME NEW p \in Procs, NEW a \in Apps, CallStart(p, a) PROVE SparesRequired'
  BY <1>13 DEF CallStart, Call
<1>14. ASSUME NEW p \in Procs, NEW j \in awaited[p], StopReplied(p, j) PROVE SparesRequired'
  BY <1>14 DEF StopReplied, Answered, StopEffect
<1>15. ASSUME NEW p \in Procs, NEW j \in awaited[p], StopFailed(p, j) PROVE SparesRequired'
  BY <1>15 DEF StopFailed, Answered, StopEffect
<1>16. ASSUME NEW p \in Procs, NEW j \in awaited[p], StartReplied(p, j) PROVE SparesRequired'
  BY <1>16 DEF StartReplied, Answered, StartEffect
<1>17. ASSUME NEW p \in Procs, NEW j \in awaited[p], StartFailed(p, j) PROVE SparesRequired'
  BY <1>17 DEF StartFailed, Answered, StartEffect
<1>18. ASSUME NEW p \in Procs, NEW removed \in BOOLEAN, Clean(p, removed) PROVE SparesRequired'
  BY <1>18 DEF Clean, Goto
<1>19. ASSUME NEW p \in Procs, NEW quiesce \in BOOLEAN, Create(p, quiesce) PROVE SparesRequired'
  BY <1>19 DEF Create, Free, Goto
<1>20. ASSUME CreateNoDir PROVE SparesRequired'
  BY <1>20 DEF CreateNoDir, Free
<1>21. ASSUME TarStalls PROVE SparesRequired'
  BY <1>21 DEF TarStalls, Goto
<1>22. ASSUME Boot PROVE SparesRequired'
  BY <1>22 DEF Boot, Restarting, Goto, OtherInSpan
<1>23. ASSUME NEW j \in dead, DeadJob(j) PROVE SparesRequired'
  BY <1>23 DEF DeadJob, Effect, StopEffect, StartEffect
<1>24. ASSUME NEW j \in late, LateJob(j) PROVE SparesRequired'
  BY <1>24 DEF LateJob, Effect, StopEffect, StartEffect
<1>25. ASSUME NEW a \in Apps, UserStart(a) PROVE SparesRequired'
  BY <1>25 DEF UserStart, StartEffect
<1>26. ASSUME NEW a \in Apps, UserStop(a) PROVE SparesRequired'
  BY <1>26 DEF UserStop
<1>27. CASE UNCHANGED vars
  BY <1>27 DEF vars
<1> HIDE DEF SparesRequired
<1> QED
  BY <1>1, <1>2, <1>3, <1>4, <1>5, <1>6, <1>7, <1>8, <1>9, <1>10, <1>11,
     <1>12, <1>13, <1>14, <1>15, <1>16, <1>17, <1>18, <1>19, <1>20, <1>21,
     <1>22, <1>23, <1>24, <1>25, <1>26, <1>27
     DEF Next, BackupStep, Orphan, User

(* A backup never stops the proxy or the dashboard: the filter of            *)
(* stoppableModules (308) holds for every job that comes of its list.        *)
THEOREM RequiredNeverStopped == Spec => []RequiredUntouched
<1>1. Init => SparesRequired
  BY AppsAssumption, ProcsAssumption
     DEF Init, SparesRequired, TypeOK, PC, Reasons, Procs, Nothing
<1>2. SparesRequired => RequiredUntouched
  BY DEF SparesRequired, RequiredUntouched
<1> QED
  BY <1>1, <1>2, SparesRequiredInductive, PTL DEF Spec

-----------------------------------------------------------------------------
(* The refinement: every step of the backup is a step of QuiescePromise.     *)
LEMMA PromiseStep == Inv /\ Inv' /\ [Next]_vars => [Promise!Next]_<<Held, mark>>
<1> SUFFICES ASSUME Inv, Inv', [Next]_vars PROVE [Promise!Next]_<<Held, mark>>
  OBVIOUS
<1>0. mark' \in SUBSET Apps /\ LocalInv
  BY DEF Inv, LocalInv, TypeOK
<1>1. CASE Held' = {}
  BY <1>0, <1>1 DEF Promise!Next, Promise!Announce
<1>2. CASE UNCHANGED <<debt, mark, mixed>>
  BY <1>2 DEF Held
<1>3. ASSUME NEW p \in Procs, WriteWanted(p) PROVE Held' = {}
  <2>1. CASE mixed'
    BY <2>1 DEF Held
  <2>2. CASE ~mixed'
    <3>1. \A q \in Procs : ~InSpan(q)
      BY <1>3, <2>2 DEF WriteWanted, BeginRecord, OtherInSpan, InSpan
    <3>2. \A a \in Apps : debt'[a] \notin Procs
      BY <1>3, <3>1, ProcsAssumption DEF WriteWanted, BeginRecord, Reasons
    <3> QED
      BY <3>2 DEF Held
  <2> QED
    BY <2>1, <2>2
<1>4. ASSUME ~mixed, Boot PROVE [Promise!Next]_<<Held, mark>>
  BY <1>1, <1>4 DEF Boot, Held
<1>5. CASE mixed'
  BY <1>1, <1>5 DEF Held
<1>5A. UNCHANGED mixed \/ Boot \/ \E p \in Procs : WriteWanted(p)
  BY DEF Next, BackupStep, Orphan, User, Create, CreateNoDir, ListModules,
         WriteWantedFails, CallStop, CallStart, Call, StopReplied, StopFailed, StartReplied,
         StartFailed, WriteStopped, WriteStoppedFails, TarDone, TarFails, TarStalls, Encrypt,
         Clean, WriteRemaining, WriteRemainingFails, Crash, DeadJob, LateJob, UserStart,
         UserStop, vars
<1>5B. Boot => UNCHANGED mixed \/ mixed'
  BY <1>0 DEF Boot, LocalInv, TypeOK
<1> SUFFICES ASSUME UNCHANGED mixed, ~mixed PROVE [Promise!Next]_<<Held, mark>>
  BY <1>0, <1>1, <1>3, <1>5, <1>5A, <1>5B DEF LocalInv, TypeOK
<1>6. Held = HeldAll /\ Held' = HeldAll'
  BY DEF Held, HeldAll
<1>7. ASSUME NEW a \in Apps, NEW why, UNCHANGED mark, why \in Procs => a \in mark,
             debt' = [debt EXCEPT ![a] = why]
      PROVE  [Promise!Next]_<<Held, mark>>
  <2>1. CASE why \in Procs
    <3>1. Promise!Hold(a)
      BY <1>0, <1>6, <1>7, <2>1 DEF Promise!Hold, HeldAll, LocalInv, TypeOK
    <3> QED
      BY <3>1 DEF Promise!Next
  <2>2. CASE why \notin Procs
    <3>1. Promise!Release(a)
      BY <1>0, <1>6, <1>7, <2>2 DEF Promise!Release, HeldAll, LocalInv, TypeOK
    <3> QED
      BY <3>1 DEF Promise!Next
  <2> QED
    BY <2>1, <2>2
<1>8. \A why \in Reasons : why \notin Procs
  BY ProcsAssumption
<1>9. ASSUME NEW j \in Job, NEW why, UNCHANGED mark, why \in Procs => j.app \in mark,
             \/ StopEffect(j.app, why) \/ StartEffect(j.app) \/ UNCHANGED <<running, debt>>
      PROVE  [Promise!Next]_<<Held, mark>>
  <2>1. j.app \in Apps
    BY DEF Job
  <2> QED
    BY <1>2, <1>7, <1>8, <1>9, <2>1 DEF StopEffect, StartEffect, Reasons
<1>10. ASSUME NEW p \in Procs, WriteStopped(p) PROVE [Promise!Next]_<<Held, mark>>
  <2>1. HeldAll \subseteq stopped[p] /\ stopped[p] \subseteq mark
    BY <1>10 DEF WriteStopped, Inv, LocalInv, SoleInv, Local, Sole, Own, InSpan
  <2>2. Promise!Settle(mark')
    BY <1>6, <1>10, <2>1 DEF WriteStopped, Promise!Settle, HeldAll
  <2> QED
    BY <1>0, <2>2 DEF Promise!Next
<1>11. ASSUME NEW p \in Procs, WriteRemaining(p) PROVE [Promise!Next]_<<Held, mark>>
  <2>1. HeldAll \subseteq ToStart(p) /\ ToStart(p) \subseteq mark
    BY <1>11 DEF WriteRemaining, InRestart, Inv, LocalInv, SoleInv, Local, Sole, Own, InSpan
  <2>2. ToStart(p) = remaining[p]
    BY <1>11 DEF WriteRemaining, LoopOver, ToStart, AwaitedApps
  <2>3. Promise!Settle(mark')
    BY <1>6, <1>11, <2>1, <2>2 DEF WriteRemaining, Promise!Settle, HeldAll
  <2> QED
    BY <1>0, <2>3 DEF Promise!Next
<1>12. ASSUME NEW p \in Procs, NEW j \in awaited[p],
              \/ StopReplied(p, j) \/ StopFailed(p, j)
              \/ StartReplied(p, j) \/ StartFailed(p, j)
       PROVE  [Promise!Next]_<<Held, mark>>
  <2>1. j \in Job
    BY <1>0 DEF LocalInv, TypeOK
  <2>2. StopReplied(p, j) => j.app \in mark
    <3>1. ASSUME pc[p] = "stop" PROVE AwaitedApps(p) \subseteq mark
      BY <3>1 DEF Inv, SoleInv, Sole, InSpan
    <3> QED
      BY <3>1 DEF StopReplied, AwaitedApps
  <2> QED
    BY <1>8, <1>9, <1>12, <2>1, <2>2
       DEF StopReplied, StopFailed, StartReplied, StartFailed, Reasons
<1>13. ASSUME NEW j \in dead, DeadJob(j) PROVE [Promise!Next]_<<Held, mark>>
  <2>1. j \in Job /\ (j.op = "stop" => j.app \in mark)
    BY <1>0 DEF Inv, SoleInv, LocalInv, TypeOK
  <2>2. CASE j.op = "stop" /\ StopEffect(j.app, j.by)
    BY <1>9, <1>13, <2>1, <2>2 DEF DeadJob
  <2>3. CASE StartEffect(j.app) \/ UNCHANGED <<running, debt>>
    BY <1>8, <1>9, <1>13, <2>1, <2>3 DEF DeadJob, Reasons
  <2> QED
    BY <1>13, <2>2, <2>3 DEF DeadJob, Effect
<1>14. ASSUME NEW j \in late, LateJob(j) PROVE [Promise!Next]_<<Held, mark>>
  <2>1. j \in Job
    BY <1>0 DEF LocalInv, TypeOK
  <2> QED
    BY <1>8, <1>9, <1>14, <2>1 DEF LateJob, Effect, Reasons
<1>15. ASSUME NEW a \in Apps, UserStart(a) \/ UserStop(a) PROVE [Promise!Next]_<<Held, mark>>
  BY <1>7, <1>8, <1>15 DEF UserStart, UserStop, StartEffect, Reasons
<1>16. CASE UNCHANGED vars
  BY <1>2, <1>16 DEF vars
<1> QED
  BY <1>1, <1>2, <1>3, <1>4, <1>10, <1>11, <1>12, <1>13, <1>14, <1>15, <1>16
     DEF Next, BackupStep, Orphan, User, Create, CreateNoDir, ListModules,
         WriteWantedFails, CallStop, CallStart, Call, WriteStoppedFails, TarDone, TarFails,
         TarStalls, Encrypt, Clean, WriteRemainingFails, Crash, Boot

(* The marker does what its comments promise, for any set of apps and any    *)
(* number of processes, of the runs that had it to themselves.               *)
THEOREM PromiseKept == Spec => KeepsPromise
<1>1. Init => Promise!Init
  BY ProcsAssumption DEF Init, Promise!Init, Held, Reasons
<1>2. Inv /\ Inv' /\ [Next]_vars => [Promise!Next]_<<Held, mark>>
  BY PromiseStep
<1> QED
  BY <1>1, <1>2, Invariance, PTL DEF Spec, KeepsPromise, Promise!Spec
=============================================================================
