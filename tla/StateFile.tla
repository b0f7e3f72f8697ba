------------------------------ MODULE StateFile ------------------------------
(***************************************************************************)
(* readJson and writeJson of dashboard/lib/state-store.js down to the calls *)
(* they make: create a temporary file, write it, rename it over the target. *)
(* Writers and readers overlap freely, a disk fills up, the process dies.   *)
(*                                                                          *)
(* A file's content is two halves, each signed by the write it came from;   *)
(* a content signed twice by one write is a whole document.                 *)
(***************************************************************************)
EXTENDS Naturals

CONSTANTS
    Writers,    \* writes that may overlap
    Readers,    \* reads that may overlap
    Nobody,     \* the signature of a half that is not there
    Unique,     \* whether each write has a temporary name of its own
    MaxFiles    \* bound: files ever created

ASSUME StateFileAssumption ==
    /\ Nobody \notin Writers
    /\ Unique \in BOOLEAN
    /\ MaxFiles \in Nat

VARIABLES
    target,     \* the file the document's name stands for
    temp,       \* the file each temporary name stands for; 0 is none
    content,    \* what each file holds
    files,      \* files created so far; file 0 is the one at the start
    w,          \* each write: where it is, the file it has open
    r,          \* each read: where it is, the file it has open, what it saw
    told        \* what each write was told

vars == <<target, temp, content, files, w, r, told>>

Halves == Writers \cup {Nobody}

Blank == <<Nobody, Nobody>>

Doc(x) == <<x, x>>

Whole(c) == \E x \in Writers : c = Doc(x)

TypeOK ==
    /\ target \in 0..MaxFiles
    /\ temp \in [Writers -> 0..MaxFiles]
    /\ content \in [0..MaxFiles -> Halves \X Halves]
    /\ files \in 0..MaxFiles
    /\ w \in [Writers -> [at : {"idle", "open", "half", "written"}, fd : 0..MaxFiles]]
    /\ r \in [Readers -> [at : {"idle", "open", "half", "done"}, fd : 0..MaxFiles,
                          saw : Halves \X Halves]]
    /\ told \in [Writers -> {"none", "ok", "error"}]

Init ==
    /\ target = 0
    /\ temp = [x \in Writers |-> 0]
    /\ \E x \in Writers : content = [f \in 0..MaxFiles |-> IF f = 0 THEN Doc(x) ELSE Blank]
    /\ files = 0
    /\ w = [x \in Writers |-> [at |-> "idle", fd |-> 0]]
    /\ r = [x \in Readers |-> [at |-> "idle", fd |-> 0, saw |-> Blank]]
    /\ told = [x \in Writers |-> "none"]

-----------------------------------------------------------------------------
(* writeJson: the temporary name is the target's with eight random hex      *)
(* digits, one for each write. With Unique = FALSE it is one for all of a   *)
(* process, as `.tmp-${pid}` would be.                                      *)
TmpOfProcess(x) == CHOOSE y \in Writers : TRUE

Tmp(x) == IF Unique THEN x ELSE TmpOfProcess(x)

(* Slip: the document is written where it is.                               *)
OpenInPlace(x) ==
    /\ w[x].at = "idle"
    /\ w' = [w EXCEPT ![x] = [at |-> "open", fd |-> target]]
    /\ content' = [content EXCEPT ![target] = Blank]
    /\ temp' = [temp EXCEPT ![Tmp(x)] = target]
    /\ told' = [told EXCEPT ![x] = "none"]
    /\ UNCHANGED <<target, files, r>>

(* writeFile opens with O_CREAT and O_TRUNC.                                *)
Open(x) ==
    /\ w[x].at = "idle"
    /\ IF temp[Tmp(x)] = 0
       THEN /\ files < MaxFiles
            /\ files' = files + 1
            /\ temp' = [temp EXCEPT ![Tmp(x)] = files + 1]
       ELSE UNCHANGED <<files, temp>>
    /\ w' = [w EXCEPT ![x] = [at |-> "open", fd |-> temp'[Tmp(x)]]]
    /\ content' = [content EXCEPT ![temp'[Tmp(x)]] = Blank]
    /\ told' = [told EXCEPT ![x] = "none"]
    /\ UNCHANGED <<target, r>>

Fill(x) ==
    /\ w[x].at \in {"open", "half"}
    /\ LET i == IF w[x].at = "open" THEN 1 ELSE 2
       IN  content' = [content EXCEPT ![w[x].fd][i] = x]
    /\ w' = [w EXCEPT ![x].at = IF @ = "open" THEN "half" ELSE "written"]
    /\ UNCHANGED <<target, temp, files, r, told>>

(* ENOSPC, or any other error of a write: it rejects, nothing is renamed,   *)
(* and the temporary file stays under a name nobody will use again.         *)
FillFails(x) ==
    /\ w[x].at \in {"open", "half"}
    /\ w' = [w EXCEPT ![x] = [at |-> "idle", fd |-> 0]]
    /\ temp' = [temp EXCEPT ![Tmp(x)] = IF Unique THEN 0 ELSE @]
    /\ told' = [told EXCEPT ![x] = "error"]
    /\ UNCHANGED <<target, content, files, r>>

(* chmod and rename, both by name: ENOENT once another write has moved it.  *)
Rename(x) ==
    /\ w[x].at = "written"
    /\ IF temp[Tmp(x)] = 0
       THEN told' = [told EXCEPT ![x] = "error"] /\ UNCHANGED <<target, temp>>
       ELSE /\ target' = temp[Tmp(x)]
            /\ temp' = [temp EXCEPT ![Tmp(x)] = 0]
            /\ told' = [told EXCEPT ![x] = "ok"]
    /\ w' = [w EXCEPT ![x] = [at |-> "idle", fd |-> 0]]
    /\ UNCHANGED <<content, files, r>>

-----------------------------------------------------------------------------
(* readJson: the file is opened once and read to its end.                   *)

ReadOpen(x) ==
    /\ r[x].at \in {"idle", "done"}
    /\ r' = [r EXCEPT ![x] = [at |-> "open", fd |-> target, saw |-> Blank]]
    /\ UNCHANGED <<target, temp, content, files, w, told>>

Read(x) ==
    /\ r[x].at \in {"open", "half"}
    /\ LET i == IF r[x].at = "open" THEN 1 ELSE 2
       IN  r' = [r EXCEPT ![x] = [at  |-> IF r[x].at = "open" THEN "half" ELSE "done",
                                  fd  |-> r[x].fd,
                                  saw |-> [r[x].saw EXCEPT ![i] = content[r[x].fd][i]]]]
    /\ UNCHANGED <<target, temp, content, files, w, told>>

(* The process dies; what is on disk stays.                                 *)
Crash ==
    /\ w' = [x \in Writers |-> [at |-> "idle", fd |-> 0]]
    /\ r' = [x \in Readers |-> [at |-> "idle", fd |-> 0, saw |-> Blank]]
    /\ temp' = IF Unique THEN [x \in Writers |-> 0] ELSE temp
    /\ told' = [x \in Writers |-> "none"]
    /\ UNCHANGED <<target, content, files>>

Next ==
    \/ \E x \in Writers : Open(x) \/ Fill(x) \/ FillFails(x) \/ Rename(x)
    \/ \E x \in Readers : ReadOpen(x) \/ Read(x)
    \/ Crash

Spec == Init /\ [][Next]_vars

-----------------------------------------------------------------------------
(* "A crash mid-write then leaves the previous good file rather than a      *)
(* truncated one" (state-store.js:36-38): no read ever gets part of a       *)
(* document, or parts of two.                                               *)
ReadsWhole == \A x \in Readers : r[x].at = "done" => Whole(r[x].saw)

(* Readers and writers of the state file see an atomic one: the document    *)
(* is replaced at one moment, and whoever is told ok replaced it.           *)
Promise == INSTANCE AtomicFile WITH value <- content[target]

KeepsPromise == Promise!Spec

(* "One of them then renamed a file the other had already moved: ENOENT"    *)
(* (state-store.js:56-58): a write whose disk did not fail does not fail.   *)
NoClash == [][\A x \in Writers : w[x].at = "written" /\ w'[x].at = "idle"
                                 => told'[x] # "error"]_vars

=============================================================================
