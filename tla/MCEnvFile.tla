------------------------------ MODULE MCEnvFile ------------------------------
(* Two apps with a secret each and Settings, two operations at a time.       *)
EXTENDS EnvFile
=============================================================================
