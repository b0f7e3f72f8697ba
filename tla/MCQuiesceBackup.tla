--------------------------- MODULE MCQuiesceBackup ---------------------------
(***************************************************************************)
(* Two ordinary apps and the proxy, which is `required`, the dashboard and  *)
(* one `homebox backup` on the host.  All of it at once is some ten million *)
(* states, so a behaviour has either the three apps and the dashboard alone *)
(* ("apps") or both processes and one app ("procs"), chosen at the start.   *)
(***************************************************************************)
EXTENDS QuiesceBackup

CONSTANTS media, photos, proxy, server, cli

MCApps == {media, photos, proxy}
MCRequired == {proxy}
MCClis == {cli}

VARIABLE scene

Within ==
    /\ scene = "apps" => pc[cli] = "down"
    /\ scene = "procs" => running \subseteq {media}

MCInit == scene \in {"apps", "procs"} /\ Init /\ Within

MCNext == Next /\ UNCHANGED scene /\ Within'

MCSpec == /\ MCInit /\ [][MCNext]_<<vars, scene>>
          /\ \A p \in Procs : WF_vars(BackupStep(p))
          /\ WF_vars(Boot)
=============================================================================
