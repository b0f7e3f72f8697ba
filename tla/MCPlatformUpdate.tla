-------------------------- MODULE MCPlatformUpdate --------------------------
(* Two releases, each with a migration, one request at a time from the       *)
(* button, which is free for the next as soon as its helper is launched, and *)
(* an SSH session beside it. What follows once two scripts have looked at    *)
(* the lock before either took it is left out: raced stays TRUE, and no      *)
(* property of the run speaks of a state in which it is.                     *)
EXTENDS PlatformUpdate

CONSTANTS r1

MCReleases == 1..2
MCRequests == {r1}

MCNext == ~raced /\ Next

MCSpec == Init /\ [][MCNext]_vars
=============================================================================
