---------------------------- MODULE SessionTimerMC ----------------------------
(* One session used by a command, a client's DELETE, a connection and a       *)
(* stream of messages, each again and again.                                  *)
EXTENDS SessionTimer

CONSTANTS cmd, del, str, msg, c1, c2, c3

MCCommand == {cmd}
MCDelete  == {del}
MCStream  == {str}
MCMessage == {msg}
MCChan    == {c1, c2, c3}
==============================================================================
