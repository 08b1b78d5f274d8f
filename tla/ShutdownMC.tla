------------------------------ MODULE ShutdownMC ------------------------------
(* Two requests, again and again, one slot, a client whose DELETE may meet     *)
(* that of a session's timer, and a signal at any time.                        *)
EXTENDS Shutdown

CONSTANTS r1, r2, client

MCRequest == {r1, r2}
MCClient  == {client}
===============================================================================
