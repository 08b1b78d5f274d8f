-------------------------------- MODULE Answers --------------------------------
(* What a WsDriver connection promises its client (wsdriver/README.md): each  *)
(* command that was accepted is answered once, with its own RequestID, in the *)
(* order of the commands, until the connection closes.                        *)
EXTENDS Sequences, Naturals

CONSTANT Id             \* RequestIDs

VARIABLES asked,        \* the RequestIDs of the commands accepted so far
          answered,     \* the RequestIDs of the responses sent so far
          open          \* the connection is

vars == <<asked, answered, open>>

Init == asked = <<>> /\ answered = <<>> /\ open = TRUE

Ask == /\ open
       /\ \E id \in Id : asked' = Append(asked, id)
       /\ UNCHANGED <<answered, open>>

Answer == /\ open
          /\ Len(answered) < Len(asked)
          /\ answered' = Append(answered, asked[Len(answered) + 1])
          /\ UNCHANGED <<asked, open>>

Close == /\ open
         /\ open' = FALSE
         /\ UNCHANGED <<asked, answered>>

Next == Ask \/ Answer \/ Close

(* The safety of the promise, and all of it: no command is left unanswered.   *)
Safety == Init /\ [][Next]_vars

Spec == Safety /\ WF_vars(Answer)
================================================================================
