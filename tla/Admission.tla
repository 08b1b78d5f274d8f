------------------------------ MODULE Admission ------------------------------
(* What the admission queue of Selenoid promises to its clients, whatever the *)
(* channels it is made of: at most Limit requests are inside at a time, the   *)
(* others stand in one line, and a freed place goes to the head of the line.  *)
(* docs/usage-statistics.adoc:62 is the promise, protect/queue.go the code;   *)
(* module Queue is shown to implement this module.                            *)
EXTENDS Naturals, Sequences, SequencesExt, FiniteSets

CONSTANTS Request,   \* clients that may ask for a session, again and again
          Limit      \* the -limit flag: places inside

VARIABLES line,      \* the requests that wait, oldest first
          inside     \* the requests that hold a place

vars == <<line, inside>>

Waiting == Range(line)
Outside == Request \ (inside \cup Waiting)
Full    == Cardinality(inside) = Limit

Init == line = <<>> /\ inside = {}

(* There is room: the request goes straight in. *)
Enter(r) == /\ r \in Outside /\ ~Full
            /\ inside' = inside \cup {r}
            /\ UNCHANGED line

(* There is none: the request joins the end of the line. *)
Join(r) == /\ r \in Outside /\ Full
           /\ line' = Append(line, r)
           /\ UNCHANGED inside

(* A client that no longer wants a place quits the line wherever it stands. *)
Quit(i) == /\ i \in DOMAIN line
           /\ line' = RemoveAt(line, i)
           /\ UNCHANGED inside

(* A request gives its place back, and the place goes to the head of the line. *)
Leave(r) == /\ r \in inside
            /\ IF line = <<>>
                 THEN inside' = inside \ {r} /\ UNCHANGED line
                 ELSE inside' = (inside \ {r}) \cup {Head(line)} /\ line' = Tail(line)

Next == \/ \E r \in Request : Enter(r) \/ Join(r) \/ Leave(r)
        \/ \E i \in DOMAIN line : Quit(i)

Spec == Init /\ [][Next]_vars
==============================================================================
