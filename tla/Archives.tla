------------------------------ MODULE Archives ------------------------------
(***************************************************************************)
(* The archives of a box: lib/backup.js without the stopping of apps (that *)
(* is QuiesceBackup) and lib/archive-copy.js. Archives are made by a clock,*)
(* from the page, by the shell command and before a restore; each is pruned*)
(* to the newest few and copied to a share on another machine by a helper  *)
(* that outlives whoever asked for it.                                     *)
(*                                                                         *)
(* Time is counted in half days, the second half beginning at 02:00.       *)
(***************************************************************************)
EXTENDS Integers, Sequences, FiniteSets, FiniteSetsExt, SequencesExt

CONSTANTS
    Items,        \* what an archive holds: apps, .env, Podhouse's own state
    Presets,      \* daily, weekly, monthly
    Retentions,   \* how many archives to keep
    Month,        \* days of a month
    Times,        \* bound: the times at which anything happens
    MaxArchives,  \* bound on archives made
    MaxEvents     \* bound: what users and failures may do

ASSUME ArchivesAssumption ==
    /\ Retentions \subseteq Nat \ {0}
    /\ Month \in Nat \ {0} /\ MaxArchives \in Nat /\ MaxEvents \in Nat
    /\ Times \subseteq Nat /\ 0 \in Times

VARIABLES
    live,         \* each item as it is on the box
    local,        \* the archives in backups/, the oldest first
    nas,          \* files on the share
    mounted,
    sched,        \* state/backup-schedule.json
    saving,       \* a schedule being saved from the page
    job,          \* each maker of archives
    made,         \* history: how many there were
    lastSlot,     \* history: when the scheduler last ended one
    clock,
    events

avars == <<live, local, nas, mounted, sched, saving, job, made, lastSlot, clock, events>>

Makers == {"tick", "page", "cli", "apply"}
Dashboard == Makers \ {"cli"}

Idle == [at |-> "idle"]
NoOne == 0

Event == events < MaxEvents /\ events' = events + 1

-----------------------------------------------------------------------------
(* nextSlot(): the next 02:00 that the preset names, strictly after `after`. *)

Day(t) == t \div 2
Two(day) == 2 * day + 1

(* Slip: a Sunday is a week away from itself.                               *)
NextSlotMonday(preset, after) ==
    LET today == Day(after)
        sunday == today + (7 - (today % 7))
    IN  IF preset = "weekly" THEN IF Two(sunday) <= after THEN Two(sunday + 7) ELSE Two(sunday)
        ELSE IF Two(today) <= after THEN Two(today + 1) ELSE Two(today)

NextSlot(preset, after) ==
    LET today == Day(after)
        sunday == today + ((7 - (today % 7)) % 7)
        first == today - (today % Month)
    IN  CASE preset = "weekly" -> IF Two(sunday) <= after THEN Two(sunday + 7) ELSE Two(sunday)
          [] preset = "monthly" -> IF Two(first) <= after THEN Two(first + Month) ELSE Two(first)
          [] OTHER -> IF Two(today) <= after THEN Two(today + 1) ELSE Two(today)

Never == -1

(* Counted from the last run, or from when the schedule was switched on.    *)
NextRunAt(s) == NextSlot(s.preset, IF s.lastRun # Never THEN s.lastRun ELSE s.enabledAt)

-----------------------------------------------------------------------------
ArchivesInit ==
    /\ live = [i \in Items |-> "mine"]
    /\ local = <<>> /\ nas = {} /\ mounted \in BOOLEAN
    /\ sched \in {[enabled |-> e, preset |-> p, keep |-> k, lastRun |-> Never, enabledAt |-> Never] :
                    e \in BOOLEAN, p \in Presets, k \in Retentions}
    /\ saving = Idle
    /\ job = [m \in Makers |-> Idle]
    /\ made = 0 /\ lastSlot = Never
    /\ clock \in Times /\ events \in 0..MaxEvents

Same(rest) == UNCHANGED <<live, mounted, clock>> /\ UNCHANGED rest

(* One backup at a time, in this process; the shell command is another.     *)
InFlight == \E m \in Dashboard : job[m] # Idle

Begin == [at |-> "make", n |-> NoOne]

(* POST create, or `homebox backup`                                         *)
CreateFor(m) ==
    /\ m \in {"page", "cli"}
    /\ made < MaxArchives
    /\ job[m] = Idle
    /\ m = "page" => ~InFlight
    /\ Event
    /\ job' = [job EXCEPT ![m] = Begin]
    /\ Same(<<local, nas, sched, saving, made, lastSlot>>)

(* The minute's look at the schedule: what it read stays with it.           *)
Tick ==
    /\ job["tick"] = Idle
    /\ sched.enabled /\ ~InFlight
    /\ \/ /\ sched.lastRun = Never /\ sched.enabledAt = Never
          /\ sched' = [sched EXCEPT !.enabledAt = clock]
          /\ UNCHANGED job
       \/ /\ sched.lastRun # Never \/ sched.enabledAt # Never
          /\ clock >= NextRunAt(sched)
          /\ made < MaxArchives
          /\ job' = [job EXCEPT !["tick"] = [at |-> "make", n |-> NoOne, saw |-> sched]]
          /\ UNCHANGED sched
    /\ Same(<<local, nas, saving, made, lastSlot, events>>)

(* tar, encrypt, read back, rename: an archive is there whole or not at all. *)
Publish(m) ==
    /\ job[m].at = "make"
    /\ made' = made + 1
    /\ local' = Append(local, [n |-> made', holds |-> live])
    /\ job' = [job EXCEPT ![m].at = "prune", ![m].n = made']
    /\ Same(<<nas, sched, saving, lastSlot, events>>)

(* prune(): the newest stay.                                                *)
Newest(s, keep) == IF Len(s) <= keep THEN s ELSE SubSeq(s, Len(s) - keep + 1, Len(s))

Prune(m) ==
    /\ job[m].at = "prune"
    /\ local' = Newest(local, sched.keep)
    /\ job' = [job EXCEPT ![m].at = "copy"]
    /\ Same(<<nas, sched, saving, made, lastSlot, events>>)

(* The end of create(): the scheduler writes back what it read, with the    *)
(* time of this run; a restore goes on to what it is for.                   *)
Ended(m) ==
    /\ job' = [job EXCEPT ![m] = IF m = "apply" THEN [at |-> "ready", n |-> job[m].n] ELSE Idle]
    /\ IF m = "tick"
       THEN sched' = [job[m].saw EXCEPT !.lastRun = clock] /\ lastSlot' = clock
       ELSE UNCHANGED <<sched, lastSlot>>

File(n, at, whole, keep) == [n |-> n, at |-> at, whole |-> whole, keep |-> keep]
NamedFile(f) == File(f.n, "named", f.whole, 0)

(* copyOffBox() starts the helper, unless the share is not there.           *)
CopyOut(m) ==
    /\ job[m].at = "copy"
    /\ IF mounted /\ \E i \in DOMAIN local : local[i].n = job[m].n
       THEN /\ \E whole \in BOOLEAN : nas' = nas \cup {File(job[m].n, "incoming", whole, sched.keep)}
            /\ job' = [job EXCEPT ![m].at = "copying"]
            /\ UNCHANGED <<sched, lastSlot>>
       ELSE Ended(m) /\ UNCHANGED nas
    /\ Same(<<local, saving, made, events>>)

Named(files) == {f \in files : f.at = "named"}

Latest(files, keep) == {f \in files : Cardinality({g \in files : g.n > f.n}) < keep}

(* Slip: renamed, then compared.                                            *)
ArriveFirst(f) ==
    LET there == (nas \ {f}) \cup {NamedFile(f)}
    IN  Latest(Named(there), f.keep) \cup (there \ Named(there))

(* copyInto(): compared where it landed, renamed, and the oldest pruned.    *)
Arrive(f) ==
    LET there == IF f.whole THEN (nas \ {f}) \cup {NamedFile(f)} ELSE nas \ {f}
    IN  Latest(Named(there), f.keep) \cup (there \ Named(there))

HelperEnds(f) ==
    LET waiting == {m \in Makers : job[m].at = "copying" /\ job[m].n = f.n}
    IN  /\ f \in nas /\ f.at = "incoming"
        /\ nas' = IF mounted THEN Arrive(f) ELSE (nas \ {f}) \cup {File(f.n, "left", f.whole, 0)}
        /\ IF waiting = {} THEN UNCHANGED <<job, sched, lastSlot>>
           ELSE \E m \in waiting : Ended(m)
        /\ Same(<<local, saving, made, events>>)

-----------------------------------------------------------------------------
(* Everything else that happens to the archives.                            *)

(* The flag that refuses a second backup is set and nobody will clear it.   *)
Stuck == [at |-> "stuck"]

(* What a failed create() leaves. One that throws inside its `try` gives the *)
(* flag back; one whose directory cannot be made throws before it, and keeps *)
(* the flag ("refused"); one whose archive cannot be written waits for ever  *)
(* for a tar that nothing reads any more, the stream having no listener for  *)
(* its error and the dashboard living on (server.js 1636). The flag of the   *)
(* shell command goes with its process.                                      *)
Failed(m, how) ==
    IF m = "apply" THEN [at |-> how]
    ELSE IF m = "cli" \/ how = "failed" THEN Idle ELSE Stuck

(* tar, the cipher or the disk fails: nothing is published.                 *)
CreateFails(m) ==
    /\ job[m].at = "make"
    /\ Event
    /\ \E how \in {"failed", "refused", "stuck"} : job' = [job EXCEPT ![m] = Failed(m, how)]
    /\ Same(<<local, nas, sched, saving, made, lastSlot>>)

Delete(i) ==
    /\ i \in DOMAIN local /\ Event
    /\ local' = RemoveAt(local, i)
    /\ Same(<<nas, sched, saving, job, made, lastSlot>>)

(* setSchedule(): what is saved is built on what was read before.           *)
AskSchedule(want) ==
    /\ saving = Idle /\ Event
    /\ saving' = [at |-> "read", want |-> want, prev |-> sched]
    /\ Same(<<local, nas, sched, job, made, lastSlot>>)

WriteSchedule ==
    LET prev == saving.prev
        want == saving.want
    IN  /\ saving # Idle
        /\ sched' = [enabled |-> want.enabled, preset |-> want.preset, keep |-> want.keep,
                     lastRun |-> prev.lastRun,
                     enabledAt |-> IF ~want.enabled THEN Never
                                   ELSE IF prev.enabled /\ prev.enabledAt # Never THEN prev.enabledAt
                                   ELSE clock]
        /\ saving' = Idle
        /\ Same(<<local, nas, job, made, lastSlot, events>>)

Wants == {[enabled |-> e, preset |-> p, keep |-> k] : e \in BOOLEAN, p \in Presets, k \in Retentions}

ShareComesAndGoes ==
    /\ Event
    /\ mounted' = ~mounted
    /\ UNCHANGED <<live, local, nas, sched, saving, job, made, lastSlot, clock>>

Pass(t) ==
    /\ t > clock
    /\ clock' = t
    /\ UNCHANGED <<live, local, nas, mounted, sched, saving, job, made, lastSlot, events>>

(* The dashboard dies; the helper of a copy goes on.                        *)
DashboardDies == [m \in Makers |-> IF m \in Dashboard THEN Idle ELSE job[m]]

CreateStep(m) == Publish(m) \/ Prune(m) \/ CopyOut(m)

ArchivesNext ==
    \/ \E m \in Makers : CreateFor(m) \/ CreateStep(m) \/ CreateFails(m)
    \/ Tick \/ WriteSchedule \/ ShareComesAndGoes
    \/ \E f \in nas : HelperEnds(f)
    \/ \E i \in 1..MaxArchives : Delete(i)
    \/ \E want \in Wants : AskSchedule(want)
    \/ \E t \in Times : Pass(t)

(* A timer looks at the schedule every minute; a tar that is read, and the   *)
(* helper of a copy, come to an end. One that is not read is Stuck, and      *)
(* nothing is assumed of it.                                                 *)
ArchivesFair ==
    /\ WF_avars(Tick)
    /\ \A m \in Makers : WF_avars(CreateStep(m))
    /\ WF_avars(\E f \in nas : HelperEnds(f))

-----------------------------------------------------------------------------
(* A file that has an archive's name on the share is that archive, whatever *)
(* the network did to the copy and whenever the share went away.            *)
CopiesWhole == \A f \in Named(nas) : f.whole

(* A 02:00 that the preset names: what the page's label says.               *)
IsSlot(preset, t) ==
    /\ t % 2 = 1
    /\ preset = "weekly" => Day(t) % 7 = 0
    /\ preset = "monthly" => Day(t) % Month = 0

Owed ==
    /\ sched.enabled /\ sched.enabledAt # Never
    /\ \E t \in 1..clock : IsSlot(sched.preset, t) /\ t > sched.enabledAt /\ t > lastSlot

(* "Comparing against a persisted lastRun survives restarts" (671): a slot  *)
(* that has passed since the schedule was switched on gets its backup, also *)
(* when the box was off at the time. No backup is made while the dashboard  *)
(* holds the flag of one that got stuck; a restart of it lets go.           *)
FlagStuck == \E m \in Dashboard : job[m] = Stuck
Served == []<>(~Owed \/ made >= MaxArchives \/ FlagStuck)

(* Without that condition, as the page promises it: it does not hold.       *)
ServedAnyway == []<>(~Owed \/ made >= MaxArchives)

(* "When it was switched on, so the first 02:00 is counted from then" (631). *)
(* The code counts from the last run there ever was: it does not hold.      *)
FirstSlotCounts ==
    [][lastSlot' # lastSlot /\ job["tick"].saw.enabledAt # Never =>
         \E t \in 1..clock : IsSlot(job["tick"].saw.preset, t) /\ t > job["tick"].saw.enabledAt]_avars
=============================================================================
