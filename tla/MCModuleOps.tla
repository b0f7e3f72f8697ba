----------------------------- MODULE MCModuleOps -----------------------------
(* The old Media Stack, one of the apps that took over from it, the proxy,  *)
(* and two requests at a time.                                              *)
EXTENDS ModuleOps

CONSTANTS media, sonarr, proxy, r1, r2

MCModules == {media, sonarr, proxy}
MCRequired == {proxy}
MCConflicts == [m \in MCModules |-> IF m = sonarr THEN {media} ELSE {}]
MCReplacedBy == [m \in MCModules |-> IF m = media THEN {sonarr} ELSE {}]
MCRequests == {r1, r2}
=============================================================================
