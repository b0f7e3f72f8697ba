------------------------------- MODULE Updates -------------------------------
(***************************************************************************)
(* What is updated: Podhouse itself, with scripts/self-update.sh, and the   *)
(* images of its services, from the Updates page. The two share no state,   *)
(* so what each promises is stated of its own specification.                *)
(***************************************************************************)
EXTENDS PlatformUpdate

CONSTANTS
    \* ImageUpdates
    MaxTag, MaxImages, MaxFlows, MaxCrashes, Kept

ASSUME ImagesAssumption ==
    /\ {MaxTag, MaxImages, MaxFlows, MaxCrashes} \subseteq Nat
    /\ MaxImages > 0 /\ Kept \in Nat \ {0}

VARIABLES
    reg, sick, images, local, ctr, data, archives, pin, override, cache, chk, flow, stray,
    flows, crashes

Image == INSTANCE ImageUpdates WITH MaxRuns <- MaxFlows, runs <- flows

-----------------------------------------------------------------------------
(* An upgrade that did not end well left the pin as it was, unless a write  *)
(* of it failed or docker did not answer (updates.js:613-615).              *)
PinPutBack == Image!PinPutBack

(* "Backing up before anything changes" (updates.js:21): what an update     *)
(* migrates is in an archive.                                               *)
MigrationsBackedUp == Image!MigrationsBackedUp

(* "putting the pin back and recreating restores it exactly"                *)
(* (updates.js:614), where the way back met no error of compose.            *)
CleanRollback == Image!CleanRollback
=============================================================================
