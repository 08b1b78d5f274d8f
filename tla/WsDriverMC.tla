------------------------------ MODULE WsDriverMC ------------------------------
(* Up to two commands, with two RequestIDs.                                   *)
EXTENDS WsDriver

CONSTANTS id1, id2

MCId == {id1, id2}
===============================================================================
