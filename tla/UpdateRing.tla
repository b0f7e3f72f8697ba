----------------------------- MODULE UpdateRing -----------------------------
(***************************************************************************)
(* Watching Podhouse update itself: the ring of the Updates page, the poll  *)
(* that feeds it through the restart of the dashboard (public/js/app.js),   *)
(* and the four files it reads through status() of lib/platform.js: the     *)
(* progress, the lock, the log and the history that self-update.sh writes.  *)
(***************************************************************************)
EXTENDS Naturals, Sequences, SequencesExt

CONSTANTS
    MaxRuns,    \* bound: updates that are started
    MaxLines,   \* bound: lines a run logs before its last one
    MaxEvents   \* bound: failures, and reloads of the page

VARIABLES
    run,        \* the number of the last update, and how far its script is
    files,      \* progress (phase, grace), lock, log, history
    up,         \* the dashboard answers
    verdict,    \* how each run really ended
    ring,       \* the dialog
    shown,      \* platformShown: how many lines of the log it has
    poll,       \* the interval is set
    asked,      \* requests of the interval that have not landed
    gaveUp,     \* history: the page gave up asking while this ring was open
    events

vars == <<run, files, up, verdict, ring, shown, poll, asked, gaveUp, events>>

box == <<run, files, up, verdict>>
page == <<ring, shown, poll, asked, gaveUp>>

NoRing == [of |-> 0, told |-> "none", lines |-> <<>>]
NoEntry == [run |-> 0, ok |-> FALSE]
Out == [at |-> "out"]

Init ==
    /\ run = [n |-> 0, at |-> "over"]
    /\ files = [phase |-> "done", grace |-> FALSE, lock |-> FALSE,
                log |-> <<>>, history |-> NoEntry]
    /\ up = TRUE
    /\ verdict = [r \in 1..MaxRuns |-> "none"]
    /\ ring = NoRing /\ shown = 0 /\ poll = FALSE /\ asked = <<>>
    /\ gaveUp = FALSE
    /\ events = 0

Event == events < MaxEvents /\ events' = events + 1

-----------------------------------------------------------------------------
(* self-update.sh. Its lock comes after upgrade()'s "starting", which the   *)
(* two minutes of grace cover; its log begins empty.                        *)
TakeLock ==
    /\ run.at = "launched"
    /\ run' = [run EXCEPT !.at = "on"]
    /\ files' = [files EXCEPT !.lock = TRUE, !.log = <<>>]
    /\ UNCHANGED <<up, verdict, page, events>>

(* The helper's container starts and dies at once: the file says starting.  *)
NeverRuns ==
    /\ Event
    /\ run.at = "launched"
    /\ run' = [run EXCEPT !.at = "over"]
    /\ verdict' = [verdict EXCEPT ![run.n] = "failed"]
    /\ UNCHANGED <<files, up, page>>

GraceEnds ==
    /\ files.grace /\ run.at # "launched"
    /\ files' = [files EXCEPT !.grace = FALSE]
    /\ UNCHANGED <<run, up, verdict, page, events>>

Line == [run |-> run.n, number |-> Len(files.log) + 1]

Phase ==
    /\ run.at = "on" /\ Len(files.log) < MaxLines
    /\ files' = [files EXCEPT !.phase = "going", !.log = Append(@, Line)]
    /\ UNCHANGED <<run, up, verdict, page, events>>

(* install.sh replaces the dashboard, once on the way forward and again on  *)
(* the way back.                                                            *)
Rebuild ==
    /\ run.at = "on" /\ up
    /\ Event
    /\ up' = FALSE
    /\ UNCHANGED <<run, files, verdict, page>>

Answers ==
    /\ ~up /\ up' = TRUE
    /\ UNCHANGED <<run, files, verdict, page, events>>

(* finish_ok(), fail(): phase, then record, then the lock.                  *)
Ends(ok) ==
    /\ run.at = "on" /\ up
    /\ run' = [run EXCEPT !.at = "final"]
    /\ verdict' = [verdict EXCEPT ![run.n] = IF ok THEN "ok" ELSE "failed"]
    /\ files' = [files EXCEPT !.phase = IF ok THEN "done" ELSE "failed", !.log = Append(@, Line)]
    /\ UNCHANGED <<up, page, events>>

Record ==
    /\ run.at = "final"
    /\ run' = [run EXCEPT !.at = "recorded"]
    /\ files' = [files EXCEPT !.history = [run |-> run.n, ok |-> verdict[run.n] = "ok"]]
    /\ UNCHANGED <<up, verdict, page, events>>

(* "|| true": an entry that cannot be written stops nothing.                *)
RecordFails ==
    /\ Event
    /\ run.at = "final"
    /\ run' = [run EXCEPT !.at = "recorded"]
    /\ UNCHANGED <<files, up, verdict, page>>

Unlock ==
    /\ run.at = "recorded"
    /\ run' = [run EXCEPT !.at = "over"]
    /\ files' = [files EXCEPT !.lock = FALSE]
    /\ UNCHANGED <<up, verdict, page, events>>

Script ==
    \/ TakeLock \/ Phase \/ Answers
    \/ \E ok \in BOOLEAN : Ends(ok)
    \/ Record \/ Unlock

-----------------------------------------------------------------------------
(* status(). Slip: a progress file that says starting is believed for good. *)
IsRunningForGood ==
    files.phase \notin {"done", "failed"} /\ (files.lock \/ files.phase = "starting")

IsRunning ==
    files.phase \notin {"done", "failed"} /\ (files.lock \/ files.grace)

Status == [at |-> "in", running |-> IsRunning, log |-> files.log, history |-> files.history]

OpenRing(n) == [of |-> n, told |-> "no", lines |-> <<>>]

(* startPlatformUpgrade() and upgrade(): the page opens the ring when the   *)
(* server has said that the helper was launched. The button is behind an    *)
(* open ring, where the keyboard finds it.                                  *)
Started(at, phase, log) ==
    /\ up /\ run.at = "over" /\ run.n < MaxRuns
    /\ run' = [n |-> run.n + 1, at |-> at]
    /\ files' = [files EXCEPT !.phase = phase, !.grace = (phase = "starting"),
                              !.log = [i \in 1..log |-> [run |-> run.n + 1, number |-> i]]]

Start ==
    /\ ~IsRunning
    /\ Started("launched", "starting", 1)
    /\ shown' = 0 /\ ring' = OpenRing(run.n + 1)
    /\ poll' = TRUE /\ gaveUp' = FALSE
    /\ UNCHANGED <<up, verdict, asked, events>>

LaunchFails ==
    /\ Event
    /\ ~IsRunning
    /\ Started("over", "failed", 2)
    /\ verdict' = [verdict EXCEPT ![run.n + 1] = "failed"]
    /\ UNCHANGED <<up, page>>

(* Every two seconds, whether or not the last request has been answered.    *)
Tick ==
    /\ poll /\ Len(asked) < 2
    /\ asked' = Append(asked, Out)
    /\ UNCHANGED <<box, ring, shown, poll, gaveUp, events>>

Serve(i) ==
    /\ asked[i] = Out
    /\ asked' = [asked EXCEPT ![i] = IF up THEN Status ELSE [at |-> "lost"]]
    /\ UNCHANGED <<box, ring, shown, poll, gaveUp, events>>

(* platformRingLine(), for the lines that are new; platformRun is nobody's  *)
(* once it has been told how the run ended.                                 *)
Lines(r, log) ==
    IF r.told # "no" THEN r
    ELSE [r EXCEPT !.lines = @ \o SubSeq(log, shown + 1, Len(log))]

(* closePlatformRing(), with the newest entry of the history, or with what  *)
(* the progress says where there is none.                                   *)
Told(r, entry) ==
    IF r.told # "no" THEN r ELSE [r EXCEPT !.told = IF entry.ok THEN "ok" ELSE "failed"]

Land(i) ==
    LET data == asked[i]
        read == Lines(ring, data.log)
    IN  /\ data.at = "in"
        /\ shown' = Len(data.log)
        /\ IF data.running THEN ring' = read /\ UNCHANGED poll
           ELSE ring' = Told(read, data.history) /\ poll' = FALSE
        /\ asked' = RemoveAt(asked, i)
        /\ UNCHANGED <<box, gaveUp, events>>

(* A failed request is the update working, for five minutes.                *)
LandLost(i) ==
    /\ asked[i].at = "lost"
    /\ asked' = RemoveAt(asked, i)
    /\ UNCHANGED <<box, ring, shown, poll, gaveUp, events>>

(* After five minutes the page asks no more, and says so beside the ring,   *)
(* which stays as it is.                                                    *)
GiveUp(i) ==
    /\ asked[i].at = "lost" /\ poll
    /\ poll' = FALSE /\ gaveUp' = TRUE
    /\ asked' = RemoveAt(asked, i)
    /\ UNCHANGED <<box, ring, shown, events>>

(* A new page, which finds the update where it is when the Updates page is  *)
(* opened (loadPlatform()).                                                 *)
Reload ==
    /\ Event
    /\ ring' = NoRing /\ shown' = 0 /\ poll' = FALSE /\ asked' = <<>>
    /\ gaveUp' = FALSE
    /\ UNCHANGED box

Rejoin ==
    /\ up /\ IsRunning /\ ~poll
    /\ ring' = OpenRing(run.n) /\ shown' = 0
    /\ poll' = TRUE /\ gaveUp' = FALSE
    /\ UNCHANGED <<box, asked, events>>

Browser == \E i \in DOMAIN asked : Serve(i) \/ Land(i) \/ LandLost(i)

Next ==
    \/ Script \/ NeverRuns \/ GraceEnds \/ Rebuild \/ RecordFails
    \/ Start \/ LaunchFails
    \/ Tick \/ Browser \/ \E i \in DOMAIN asked : GiveUp(i)
    \/ Reload \/ Rejoin

(* The script's commands end, the dashboard comes back, the interval fires   *)
(* and a request is answered or fails. A script that is killed with its lock *)
(* in place is not here: PlatformUpdate has it.                              *)
Spec ==
    /\ Init /\ [][Next]_vars
    /\ WF_vars(Script) /\ WF_vars(GraceEnds)
    /\ WF_vars(Tick) /\ WF_vars(Browser)

-----------------------------------------------------------------------------
(* The ring that covers the page comes to say how the update ended, through  *)
(* restarts, lost requests and a launch that fails (platform.js:171, "Is an  *)
(* update actually in flight, or does it only say so?"): it cannot be closed *)
(* before. It need not where the page gave up asking after five minutes of   *)
(* silence (5599).                                                           *)
RingEnds == (ring.told = "no") ~> (ring.told # "no" \/ gaveUp)

-----------------------------------------------------------------------------
(* Statements of the source that the code does not keep.                     *)

(* "Refresh in a moment" (5602) is said beside a ring that goes on turning:  *)
(* it is left without a Close button.                                        *)
RingAlwaysEnds == (ring.told = "no") ~> (ring.told # "no")

(* A ring that says nothing yet is not left behind another: the button of    *)
(* an update and the Updates page are reached behind it.                     *)
NoneLeftOpen == [][Start \/ Rejoin => ring.told # "no"]_vars

(* "No history entry means the run never got far enough to write one"        *)
(* (5589): a ring that says the new version is on is of a run that put it    *)
(* there. It is not so while `done` is written and its entry is not, nor     *)
(* when the entry could not be written: the newest one is another run's.     *)
VerdictIsItsOwn == ring.told = "ok" => verdict[ring.of] = "ok"

(* "Append only what the dialog has not shown" (5568). An answer that was    *)
(* overtaken moves platformShown back, and the next one repeats the lines.   *)
NothingTwice ==
    \A i, j \in DOMAIN ring.lines : i # j => ring.lines[i] # ring.lines[j]

=============================================================================
