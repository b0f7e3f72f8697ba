----------------------------- MODULE MCRestore -----------------------------
(* One app, .env and Podhouse's state. Either the archives are busy and no  *)
(* restore is made, or restores are and the schedule is off.                *)
EXTENDS Restore

MCItems == {"app", ".env"}
MCITEMS == <<"app", ".env">>
Off == [enabled |-> FALSE, preset |-> "daily", keep |-> 1, lastRun |-> Never, enabledAt |-> Never]

MCInit ==
    /\ Init
    /\ \/ uses = MaxUses /\ events = 0 /\ clock = 0 /\ mounted
       \/ uses = 0 /\ events = MaxEvents - 1 /\ sched = Off /\ clock = 15 /\ ~mounted
MCSpec == MCInit /\ [][Next]_vars /\ ArchivesFair /\ \A r \in Requests : WF_vars(RequestStep(r))
=============================================================================
