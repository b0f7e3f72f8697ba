------------------------------- MODULE MCAuth -------------------------------
(* Two requests at a time from one address, beside two token commands.     *)
EXTENDS Auth

CONSTANTS r1, r2, lan, c1, c2

MCRequests == {r1, r2}
MCIPs == {lan}
MCClis == {c1, c2}
=============================================================================
