------------------------------- MODULE QueueMC -------------------------------
(* The queue on a small instance: three clients, each of which may ask again  *)
(* and again, compete for one slot, so that two of them stand in line.        *)
EXTENDS Queue

CONSTANTS r1, r2, r3

MCRequest == {r1, r2, r3}
==============================================================================
