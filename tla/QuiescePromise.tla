--------------------------- MODULE QuiescePromise ---------------------------
(***************************************************************************)
(* What the marker file of an exact-copy backup is for, with the backup     *)
(* itself left out: the apps the latest run holds down are always among     *)
(* those on record, the record shrinks only around them, and only a new run *)
(* may put ids on it.  The comments of dashboard/lib/backup.js state it:    *)
(* the marker "is written before the first app is stopped and removed after *)
(* the last one is started".                                                *)
(***************************************************************************)
CONSTANT Apps

VARIABLES held,     \* apps the latest run stopped, not started since
          record    \* ids that survive a crash of the dashboard

Init == held = {} /\ record = {}

Announce(S) == held' = {} /\ record' = S

Hold(a) == a \in record /\ held' = held \cup {a} /\ UNCHANGED record

Release(a) == held' = held \ {a} /\ UNCHANGED record

Settle(S) == held \subseteq S /\ S \subseteq record /\ record' = S /\ UNCHANGED held

Next ==
    \/ \E S \in SUBSET Apps : Announce(S) \/ Settle(S)
    \/ \E a \in Apps : Hold(a) \/ Release(a)

Spec == Init /\ [][Next]_<<held, record>>
=============================================================================
