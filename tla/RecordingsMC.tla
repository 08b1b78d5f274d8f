----------------------------- MODULE RecordingsMC -----------------------------
(* Two sessions that may ask for the same name, and a Cancel called twice.     *)
EXTENDS Recordings, TLC

CONSTANTS s1, s2, c1, c2, c3, shared

MCSession == {s1, s2}
MCCall    == {c1, c2, c3}
MCAbout   == (c1 :> s1) @@ (c2 :> s1) @@ (c3 :> s2)
MCChosen  == {shared}
MCWishes  == {{"video"}, {"log"}, {"metadata"}}
===============================================================================
