----------------------------- MODULE AtomicFile -----------------------------
(***************************************************************************)
(* What lib/state-store.js promises of a small state file: it always holds  *)
(* one whole document, a write replaces it at one moment, and only a write  *)
(* that did so is told that it succeeded.                                   *)
(***************************************************************************)
CONSTANTS
    Writers,    \* whoever writes the file
    Doc(_)      \* Doc(w): the document w writes

VARIABLES
    value,      \* the document on file
    told        \* what each writer was told of its last write

Init == (\E w \in Writers : value = Doc(w)) /\ told = [w \in Writers |-> "none"]

Start(w) == told' = [told EXCEPT ![w] = "none"] /\ UNCHANGED value

Put(w) ==
    /\ value' = Doc(w)
    /\ told' = [told EXCEPT ![w] = "ok"]

Fail(w) == told' = [told EXCEPT ![w] = "error"] /\ UNCHANGED value

Forget == told' = [w \in Writers |-> "none"] /\ UNCHANGED value

Next == Forget \/ \E w \in Writers : Start(w) \/ Put(w) \/ Fail(w)

Spec == Init /\ [][Next]_<<value, told>>
=============================================================================
