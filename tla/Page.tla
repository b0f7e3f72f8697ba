------------------------------- MODULE Page -------------------------------
(***************************************************************************)
(* The apps page in one browser tab (public/js/app.js) and what it asks of  *)
(* the server: choosing apps and applying the choice, removing one from its *)
(* sheet, installing the media set, the dialogs these open, and the lists   *)
(* the page keeps fresh by polling and by the event stream (server.js).     *)
(*                                                                          *)
(* JavaScript runs one handler at a time, so that an action here is the     *)
(* code between two awaits. A flow is one click's chain of actions.         *)
(***************************************************************************)
EXTENDS Naturals, Sequences, SequencesExt

CONSTANTS
    Apps,       \* the apps of the library that are not required
    AtFirst,    \* those that are installed when the page is opened
    MediaSet,   \* those of the Home Cinema set
    Flows,      \* flows that may be under way in the tab at once
    MaxEvents   \* bound: what users and failures may do

NoFlow == "none"

ASSUME PageAssumption ==
    IsFiniteSet(Apps) /\ MediaSet \subseteq Apps /\ AtFirst \subseteq Apps /\ NoFlow \notin Flows

VARIABLES
    box,        \* the server: what is installed, under way, and what it lets the tab do
    seen,       \* state.modules: the apps the page lists, those it takes for installed
    lists,      \* answers of /api/modules that have not landed: {}, or {list}
    busy,       \* state.busy
    pending,    \* state.pending
    erase,      \* removeDialog.erase
    flow,       \* each flow
    layers,     \* the dialogs on the page, the topmost last
    progress,   \* the handle that lines of output are written through
    events,
    reached,    \* history: the user has used something behind a dialog
    mixed       \* history: the chains that were not alone with the flag and the handle

vars == <<box, seen, lists, busy, pending, erase, flow, layers, progress, events,
          reached, mixed>>

lists_ == <<seen, lists>>
story == <<reached, mixed>>

Idle == [at |-> "idle"]

Layer(f, what) == [of |-> f, what |-> what]

(* A list of the apps; and what an answer without one leaves: no app at all. *)
Listed(have) == [apps |-> Apps, have |-> have]
NoList == [apps |-> {}, have |-> {}]

Init ==
    /\ box = [have |-> AtFirst, inFlight |-> {}, lets |-> "write"]
    /\ seen = Listed(AtFirst)
    /\ lists = <<>>
    /\ busy = {}
    /\ pending = [a \in Apps |-> "no"]
    /\ erase = FALSE
    /\ flow = [f \in Flows |-> Idle]
    /\ layers = <<>>
    /\ progress = NoFlow
    /\ events = 0
    /\ reached = FALSE /\ mixed = {}

Event == events < MaxEvents /\ events' = events + 1

(* A layer covers the page, for a pointer; the keyboard goes on to what is  *)
(* under it: no dialog of the page keeps the focus.                         *)
Use(layer) == reached' = (reached \/ Last(layers) # layer)
UsePage == reached' = (reached \/ layers # <<>>)

(* The chains that are about to remove, or to say Done: those with a dialog *)
(* of their own. A question, a box that is ticked and a window that opens   *)
(* beside another chain's leave none of them alone.                         *)
HasDialog(f) ==
    /\ flow[f].at \notin {"idle", "over"}
    /\ flow[f].kind \in {"batch", "single"}

Beside(f) ==
    LET others == {g \in Flows \ {f} : HasDialog(g)}
    IN  mixed' = IF others = {} THEN mixed ELSE mixed \cup others \cup {f}

Shown(layer) == layer \in ToSet(layers)
Without(layer) == RemoveAt(layers, CHOOSE i \in DOMAIN layers : layers[i] = layer)

(* loadModules(true): the answer is made, and lands, at a time of its own.  *)
(* (Two at once are enough for one to overtake the other.)                  *)
Refresh == IF Len(lists) < 2 THEN Append(lists, {}) ELSE lists

-----------------------------------------------------------------------------
(* Choosing. queueChange(): the button of a card.                           *)
Button(a) ==
    IF a \in busy THEN "working"
    ELSE IF pending[a] # "no" THEN "queued"
    ELSE IF a \in seen.have THEN "installed" ELSE "add"

Wanted(a) ==
    CASE pending[a] = "install" -> "remove"
      [] pending[a] = "remove" -> "install"
      [] OTHER -> IF a \in seen.have THEN "remove" ELSE "install"

AsItIs(a) == IF a \in seen.have THEN "install" ELSE "remove"

Queue(a) ==
    /\ a \in seen.apps /\ Button(a) # "working"
    /\ pending' = [pending EXCEPT ![a] = IF Wanted(a) = AsItIs(a) THEN "no" ELSE Wanted(a)]
    /\ UNCHANGED <<box, lists_, busy, erase, flow, layers, progress, events, story>>

Bar == \E a \in Apps : pending[a] # "no"

Discard ==
    /\ Bar
    /\ pending' = [a \in Apps |-> "no"]
    /\ UNCHANGED <<box, lists_, busy, erase, flow, layers, progress, events, story>>

Queued(choice) == {a \in Apps : pending[a] = choice}

Items(apps, act) == [i \in 1..Len(SetToSeq(apps)) |-> [id |-> SetToSeq(apps)[i], act |-> act]]

(* A flow waits for the answer to its dialog, which offers to erase where    *)
(* it lists a removal; `ticked` is what its own box says.                   *)
Ask(f, kind, todo, offers) ==
    /\ Event /\ UsePage
    /\ flow[f] = Idle
    /\ erase' = FALSE
    /\ flow' = [flow EXCEPT ![f] = [at |-> "ask", kind |-> kind, todo |-> todo, ok |-> TRUE,
                                    verb |-> "none", offers |-> offers, ticked |-> FALSE,
                                    failed |-> FALSE]]
    /\ layers' = Append(layers, Layer(f, "ask"))
    /\ Beside(f)
    /\ UNCHANGED <<box, lists_, busy, pending, progress>>

(* applyPending(): installs first, in the order they were chosen. The       *)
(* dialog names those the page still lists, the chain is of all.            *)
AskBatch(f) ==
    /\ Bar
    /\ Ask(f, "batch", Items(Queued("install"), "install") \o Items(Queued("remove"), "drop"),
           Queued("remove") \cap seen.apps # {})

(* runAction(): Remove on the sheet of an app.                              *)
AskRemove(f, a) ==
    /\ a \in seen.have /\ a \notin busy
    /\ Ask(f, "single", <<[id |-> a, act |-> "drop"]>>, TRUE)

(* installMediaSet(), of the apps that are not left out.                    *)
AskMedia(f) ==
    \E apps \in SUBSET ((MediaSet \cap seen.apps) \ seen.have) :
        apps # {} /\ Ask(f, "media", Items(apps, "install"), FALSE)

(* The box of either dialog: one flag for the page, which follows the box   *)
(* that was changed last.                                                   *)
Tick(f) ==
    /\ flow[f].at = "ask" /\ flow[f].offers /\ Use(Layer(f, "ask"))
    /\ flow' = [flow EXCEPT ![f].ticked = ~@]
    /\ erase' = ~flow[f].ticked
    /\ Beside(f)
    /\ UNCHANGED <<box, lists_, busy, pending, layers, progress, events>>

Cancel(f) ==
    /\ flow[f].at = "ask" /\ Shown(Layer(f, "ask"))
    /\ flow' = [flow EXCEPT ![f] = Idle]
    /\ layers' = Without(Layer(f, "ask"))
    /\ mixed' = mixed \ {f}
    /\ UNCHANGED <<box, lists_, busy, pending, erase, progress, events, reached>>

-----------------------------------------------------------------------------
(* A chain of actions. The verb of a removal is read off the page's flag    *)
(* when the chain comes to it, once.                                        *)
Verb(q) == IF q.verb # "none" THEN q.verb ELSE IF erase THEN "purge" ELSE "remove"

(* runActionStreamed(), up to the request.                                  *)
Request(q) ==
    IF Head(q.todo).act # "drop" THEN [q EXCEPT !.at = "sent"]
    ELSE [q EXCEPT !.at = "sent", !.verb = Verb(q)]

Window(kind) == IF kind = "media" THEN "media" ELSE "running"

Agree(f) ==
    LET q == flow[f]
    IN  /\ q.at = "ask" /\ Shown(Layer(f, "ask")) /\ Use(Layer(f, "ask"))
        /\ flow' = [flow EXCEPT ![f] = Request(q)]
        /\ pending' = IF q.kind = "batch" THEN [a \in Apps |-> "no"] ELSE pending
        /\ busy' = busy \cup {Head(q.todo).id}
        /\ layers' = Append(Without(Layer(f, "ask")), Layer(f, Window(q.kind)))
        /\ progress' = f
        /\ Beside(f)
        /\ UNCHANGED <<box, lists_, erase, events>>

(* runAction() of what asks nothing first: restarting and the like, which   *)
(* shows no dialog; installing from the sheet; erasing, behind a prompt.    *)
RunNow(f, a) ==
    /\ Event
    /\ flow[f] = Idle /\ UsePage /\ a \in seen.apps /\ a \notin busy
    /\ \E act \in IF a \in seen.have THEN {"drop", "restart"} ELSE {"install"} :
         LET kind == IF act = "restart" THEN "quick" ELSE "single"
         IN  /\ flow' = [flow EXCEPT ![f] =
                  [at |-> "sent", kind |-> kind, todo |-> <<[id |-> a, act |-> act]>>, ok |-> TRUE,
                   verb |-> IF act = "drop" THEN "purge" ELSE "none",
                   offers |-> FALSE, ticked |-> act = "drop", failed |-> FALSE]]
             /\ IF kind = "quick" THEN UNCHANGED <<layers, progress, mixed>>
                ELSE /\ layers' = Append(layers, Layer(f, "running"))
                     /\ progress' = f
                     /\ Beside(f)
    /\ busy' = busy \cup {a}
    /\ UNCHANGED <<box, lists_, pending, erase>>

(* closeProgress(): whatever dialog the handle is of becomes closable, and  *)
(* says how this flow ended. The window of the media set has no title to say*)
(* it in: the handle stays, and what would follow is not reached.           *)
Ended(ok) == IF ok THEN "done" ELSE "wrong"

Throws == progress # NoFlow /\ flow[progress].kind = "media"

CloseProgress(ok) ==
    IF Throws THEN UNCHANGED <<layers, progress>>
    ELSE /\ layers' = [i \in DOMAIN layers |->
                         IF layers[i] = Layer(progress, "running")
                         THEN Layer(progress, Ended(ok)) ELSE layers[i]]
         /\ progress' = NoFlow

(* Slip: how the batch ended is how its last action did.                    *)
AllOkLast(q, ok) == ok

AllOk(q, ok) == ok /\ q.ok

(* The stream has ended. A `done` line decides; an answer without one       *)
(* leaves ok as it was, true: the refusal of a request that may not write.  *)
Settle(f) ==
    LET q == flow[f]
        ok == q.at \in {"ok", "denied"}
        rest == [q EXCEPT !.todo = Tail(@), !.ok = AllOk(q, ok),
                          !.failed = @ \/ q.at \in {"failed", "cut"}]
        left == busy \ {Head(q.todo).id}
    IN  /\ q.at \in {"ok", "failed", "denied", "cut"}
        /\ IF rest.todo # <<>>
           THEN /\ flow' = [flow EXCEPT ![f] = Request(rest)]
                /\ busy' = left \cup {Head(rest.todo).id}
                /\ UNCHANGED <<layers, progress, lists>>
           ELSE /\ flow' = [flow EXCEPT ![f] = [rest EXCEPT !.at = "over"]]
                /\ busy' = left
                /\ CASE q.kind = "media" -> progress' = NoFlow /\ UNCHANGED layers
                     [] q.kind = "quick" -> UNCHANGED <<layers, progress>>
                     [] OTHER -> CloseProgress(rest.ok)
                /\ lists' = IF q.kind = "batch" \/ (q.kind = "single" /\ Throws) THEN lists
                            ELSE Refresh
        /\ UNCHANGED <<box, seen, pending, erase, events, story>>

(* The media set's window goes on to the connections, until it is closed.   *)
CloseMedia(f) ==
    /\ Shown(Layer(f, "media"))
    /\ layers' = Without(Layer(f, "media"))
    /\ UNCHANGED <<box, lists_, busy, pending, erase, flow, progress, events, story>>

(* Slip: a running dialog can be closed, like the media set's.              *)
CloseEarly(f) ==
    \E what \in {"running", "done", "wrong"} :
        /\ Shown(Layer(f, what))
        /\ layers' = Without(Layer(f, what))
        /\ lists' = Refresh
        /\ UNCHANGED <<box, seen, busy, pending, erase, flow, progress, events, story>>

Close(f) ==
    \E what \in {"done", "wrong"} :
        /\ Shown(Layer(f, what))
        /\ layers' = Without(Layer(f, what))
        /\ lists' = Refresh
        /\ UNCHANGED <<box, seen, busy, pending, erase, flow, progress, events, story>>

(* Nothing of the flow is left on the page.                                 *)
Forget(f) ==
    /\ flow[f].at = "over"
    /\ \A l \in ToSet(layers) : l.of # f
    /\ flow' = [flow EXCEPT ![f] = Idle]
    /\ mixed' = mixed \ {f}
    /\ UNCHANGED <<box, lists_, busy, pending, erase, layers, progress, events, reached>>

-----------------------------------------------------------------------------
(* The server. A request that may not write is answered without an action.  *)
Begin(f) ==
    LET q == flow[f]
        id == Head(q.todo).id
    IN  /\ q.at = "sent"
        /\ IF box.lets # "write" THEN flow' = [flow EXCEPT ![f].at = "denied"] /\ UNCHANGED box
           ELSE IF id \in box.inFlight
           THEN flow' = [flow EXCEPT ![f].at = "failed"] /\ UNCHANGED box
           ELSE /\ flow' = [flow EXCEPT ![f].at = "working"]
                /\ box' = [box EXCEPT !.inFlight = @ \cup {id}]
        /\ UNCHANGED <<lists_, busy, pending, erase, layers, progress, events, story>>

Outcome(item) ==
    CASE item.act = "install" -> box.have \cup {item.id}
      [] item.act = "drop" -> box.have \ {item.id}
      [] OTHER -> box.have

Finish(f) ==
    LET item == Head(flow[f].todo)
    IN  /\ flow[f].at = "working"
        /\ flow' = [flow EXCEPT ![f].at = "ok"]
        /\ box' = [box EXCEPT !.inFlight = @ \ {item.id}, !.have = Outcome(item)]
        /\ UNCHANGED <<lists_, busy, pending, erase, layers, progress, events, story>>

Fail(f) ==
    LET item == Head(flow[f].todo)
    IN  /\ Event
        /\ flow[f].at = "working"
        /\ flow' = [flow EXCEPT ![f].at = "failed"]
        /\ box' = [box EXCEPT !.inFlight = @ \ {item.id}]
        /\ UNCHANGED <<lists_, busy, pending, erase, layers, progress, story>>

(* The connection breaks and the action goes on: the page no longer knows.  *)
Cut(f) ==
    LET item == Head(flow[f].todo)
    IN  /\ Event
        /\ flow[f].at = "working"
        /\ flow' = [flow EXCEPT ![f].at = "cut"]
        /\ \E have \in {box.have, Outcome(item)} :
             box' = [box EXCEPT !.inFlight = @ \ {item.id}, !.have = have]
        /\ UNCHANGED <<lists_, busy, pending, erase, layers, progress, story>>

(* Another browser, or the command line.                                    *)
Elsewhere(a) ==
    /\ Event
    /\ a \notin box.inFlight
    /\ box' = [box EXCEPT !.have = IF a \in @ THEN @ \ {a} ELSE @ \cup {a}]
    /\ UNCHANGED <<lists_, busy, pending, erase, flow, layers, progress, story>>

(* The browser lost its write token, which leaves it reading, or the session *)
(* ended; signing in again runs init() once more, which loads the list.     *)
SessionEnds ==
    /\ Event
    /\ box.lets = "write"
    /\ \E lets \in {"read", "nothing"} : box' = [box EXCEPT !.lets = lets]
    /\ UNCHANGED <<lists_, busy, pending, erase, flow, layers, progress, story>>

SignIn ==
    /\ box.lets # "write" /\ box' = [box EXCEPT !.lets = "write"]
    /\ lists' = Refresh
    /\ UNCHANGED <<seen, busy, pending, erase, flow, layers, progress, events, story>>

-----------------------------------------------------------------------------
(* What the page is told. init()'s twenty seconds.                          *)
(* Slip: no poll behind a dialog, which stays for as long as its user likes. *)
PollQuiet ==
    /\ lists = <<>> /\ layers = <<>>
    /\ lists' = Refresh
    /\ UNCHANGED <<box, seen, busy, pending, erase, flow, layers, progress, events, story>>

Poll ==
    /\ lists = <<>>
    /\ lists' = Refresh
    /\ UNCHANGED <<box, seen, busy, pending, erase, flow, layers, progress, events, story>>

(* apiModules() reads the containers. A box that has ended the session says  *)
(* so, which the page takes for a list without apps.                        *)
Answer(i) ==
    /\ lists[i] = {}
    /\ lists' = [lists EXCEPT ![i] = {IF box.lets = "nothing" THEN NoList ELSE Listed(box.have)}]
    /\ UNCHANGED <<box, seen, busy, pending, erase, flow, layers, progress, events, story>>

(* A Docker that does not answer is a box with nothing installed; an error  *)
(* of the server is no list; and a request may be lost.                     *)
AnswerAmiss(i) ==
    /\ Event
    /\ lists[i] = {}
    /\ lists' \in {[lists EXCEPT ![i] = {Listed({})}], [lists EXCEPT ![i] = {NoList}],
                   RemoveAt(lists, i)}
    /\ UNCHANGED <<box, seen, busy, pending, erase, flow, layers, progress, story>>

(* The answers of two loads land in either order.                           *)
Land(i) ==
    /\ lists[i] # {} /\ seen' = CHOOSE list \in lists[i] : TRUE
    /\ lists' = RemoveAt(lists, i)
    /\ UNCHANGED <<box, busy, pending, erase, flow, layers, progress, events, story>>

(* serveEvents(), applySummary(): what the server has under way is what is  *)
(* busy, also when a request of this page has not reached it.               *)
Summary ==
    /\ busy' = box.inFlight
    /\ UNCHANGED <<box, lists_, pending, erase, flow, layers, progress, events, story>>

Tell ==
    \/ Poll \/ Summary
    \/ \E i \in DOMAIN lists : Answer(i) \/ Land(i)

Serve == \E f \in Flows : Begin(f) \/ Finish(f)

Page == \E f \in Flows : Settle(f) \/ Forget(f)

User ==
    \/ \E a \in Apps : Queue(a)
    \/ Discard
    \/ \E f \in Flows :
         \/ AskBatch(f) \/ AskMedia(f) \/ Tick(f) \/ Cancel(f) \/ Agree(f)
         \/ CloseMedia(f) \/ Close(f)
         \/ \E a \in Apps : AskRemove(f, a) \/ RunNow(f, a)
    \/ SignIn

Fault ==
    \/ \E f \in Flows : Fail(f) \/ Cut(f)
    \/ \E a \in Apps : Elsewhere(a)
    \/ SessionEnds
    \/ \E i \in DOMAIN lists : AnswerAmiss(i)

Next == Tell \/ Serve \/ Page \/ User \/ Fault

(* The poll's timer, the server and the browser's queue go on; what a user  *)
(* does is never owed.                                                      *)
Fairness ==
    /\ WF_vars(Poll)
    /\ WF_vars(\E i \in DOMAIN lists : Answer(i))
    /\ WF_vars(\E i \in DOMAIN lists : Land(i))
    /\ WF_vars(Serve)
    /\ WF_vars(Page)

Spec == Init /\ [][Next]_vars /\ Fairness

-----------------------------------------------------------------------------
(* "Whatever the disclosure's checkbox said, applied to every app being     *)
(* removed in this batch" (6531): the flag belongs to the page and is read  *)
(* minutes after the box was ticked, and a chain still erases exactly what  *)
(* the box of its own dialog said, if it was alone: no other dialog with a  *)
(* box or a window came up while it was under way. That takes a user who    *)
(* reaches behind a dialog.                                                 *)
BatchAsReviewed ==
    /\ \A f \in Flows \ mixed :
         flow[f].at = "sent" /\ flow[f].verb # "none" =>
             (flow[f].verb = "purge" <=> flow[f].ticked)
    /\ mixed # {} => reached

(* A dialog that says Done is of a chain that is over and none of whose     *)
(* actions failed (6540), if the chain was alone. One that the server would *)
(* not let write counts as done (6335).                                     *)
SaysWhatHappened ==
    \A f \in Flows \ mixed : Shown(Layer(f, "done")) => flow[f].at = "over" /\ ~flow[f].failed

(* The page comes to show what the server has, whatever order the answers   *)
(* came in (4326), a session that ended, a Docker that did not answer and   *)
(* lists that were lost, unless nobody signs in again.                      *)
Fresh == []<>(seen = Listed(box.have) \/ box.lets = "nothing")

-----------------------------------------------------------------------------
(* Statements of the source that the code does not keep.                    *)

(* "Whatever the disclosure's checkbox said": also of a chain behind which  *)
(* another dialog was opened. Its box is the same flag.                     *)
AlwaysAsReviewed ==
    \A f \in Flows :
        flow[f].at = "sent" /\ flow[f].verb = "purge" => flow[f].ticked

(* "Done" (6536), also where two windows were open at once: the chain that  *)
(* ends first says it in the window of the other.                           *)
DoneIsItsOwn ==
    \A f \in Flows : Shown(Layer(f, "done")) => flow[f].at = "over" /\ ~flow[f].failed

(* "runActionStreamed writes through the shared progress handle; point it   *)
(* at this window's folded log" (1850): a chain's output is shown in the    *)
(* chain's own window, which is closable when the chain is over.            *)
OwnWindow ==
    \A f \in Flows : flow[f].at = "over" => ~Shown(Layer(f, "running"))

(* "Chosen but not applied yet. Clicking again takes the choice back"       *)
(* (1614).                                                                  *)
TakesBack == [][\A a \in Apps : Queue(a) /\ Button(a) = "queued" => pending'[a] = "no"]_vars

=============================================================================
