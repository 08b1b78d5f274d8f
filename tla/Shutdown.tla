------------------------------- MODULE Shutdown -------------------------------
(* The end of the program (main.go): on a signal main() closes the listener,  *)
(* waits for the handlers, no longer than the graceful period, and cancels    *)
(* the sessions that are in the map.  Goroutines that no handler waits for go *)
(* on until main() returns and end with it, wherever they are.                *)
(*                                                                            *)
(* Requests whose connection exists when the signal comes count as arrived    *)
(* before it.                                                                 *)
EXTENDS Hub

VARIABLES
  stage,      \* open, closing (in server.Shutdown), cancelling (in Each), ended or killed
  visited     \* sessions that Each has called Cancel for

shutdownvars == <<hubvars, stage, visited>>

ShutdownInit == HubInit /\ stage = "open" /\ visited = {}

(* The handler of a new session request has returned or panicked. *)
CreateReturned(r) == \/ at[r] = "panicked"
                     \/ /\ pc[r] \in {"idle", "open", "releasing", "over"}
                        /\ at[r] = "failed" => browser[r] # "up"

(* The handler of a DELETE has; its goroutine need not have begun. *)
DeleteReturned(d) == dpc[d] \in {"idle", "cancel"}

(* Wrong variant: server.Close, which waits for nobody. *)
DrainedAtOnce == TRUE

(* Wrong variant: the sessions have to be over, too. *)
DrainedOfSessions == /\ \A r \in Request : CreateReturned(r)
                     /\ \A d \in Deleter : DeleteReturned(d)
                     /\ sessions = {}

Drained == /\ \A r \in Request : CreateReturned(r)
           /\ \A d \in Deleter : DeleteReturned(d)

(* Lines 420-435. *)
Signal == /\ stage = "open"
          /\ stage' = "closing"
          /\ UNCHANGED <<hubvars, visited>>

(* The timer's DELETE finds no listener and is not sent again: line 97 of     *)
(* selenoid.go.                                                               *)
FireInVain(r) == /\ stage \in {"closing", "cancelling"}
                 /\ timer[r] = "armed"
                 /\ timer' = [timer EXCEPT ![r] = "fired"]
                 /\ UNCHANGED <<vars, handler, browser, sessions, lock, deleting, disorder>>
                 /\ UNCHANGED <<stage, visited>>

(* Line 441: log.Fatalf, and nothing below it. *)
Expire == /\ stage = "closing"
          /\ stage' = "killed"
          /\ UNCHANGED <<hubvars, visited>>

(* Line 440. *)
Drain == /\ stage = "closing" /\ Drained
         /\ stage' = "cancelling"
         /\ UNCHANGED <<hubvars, visited>>

(* Lines 444-449, one session after the other. *)
CancelSession(r) == /\ stage = "cancelling" /\ r \in sessions \ visited
                    /\ browser' = [browser EXCEPT ![r] = "stopped"]
                    /\ visited' = visited \cup {r}
                    /\ UNCHANGED <<vars, handler, sessions, lock, timer, deleting, disorder>>
                    /\ UNCHANGED stage

(* Line 457. *)
Exit == /\ stage = "cancelling" /\ sessions \subseteq visited
        /\ stage' = "ended"
        /\ UNCHANGED <<hubvars, visited>>

Main == Signal \/ Expire \/ Drain \/ Exit \/ \E r \in Request : CancelSession(r)

Alive == stage \in {"open", "closing", "cancelling"}

(* The server before and after the signal. *)
Serve == /\ \/ stage = "open" /\ Connects
            \/ Alive /\ Works
         /\ UNCHANGED <<stage, visited>>

ShutdownNext == Main \/ Serve \/ \E r \in Request : FireInVain(r)

ShutdownSpec == ShutdownInit /\ [][ShutdownNext]_shutdownvars

(* A goroutine that can run runs while the program does, as in modules Queue  *)
(* and Hub, and main() goes on.  Nobody has to send a signal, and the         *)
(* graceful period may be as long as one likes.                               *)
Runs(action) == Alive /\ action /\ UNCHANGED <<stage, visited>>
Queues(action) == Runs(action /\ UNCHANGED <<handler, browser, sessions, lock, timer>>
                              /\ UNCHANGED <<deleting, disorder>>)

ShutdownFairness ==
  /\ \A r \in Request :
       /\ WF_shutdownvars(Queues(Push(r)))
       /\ WF_shutdownvars(Queues(SelectAdmitted(r) \/ SelectBlocks(r)))
       /\ WF_shutdownvars(Queues(Accept(r)))
       /\ SF_shutdownvars(Queues(LeaveQueued(r) \/ Unqueue(r)))
       /\ WF_shutdownvars(Runs(CreateSession(r)))
       /\ WF_shutdownvars((stage = "open" /\ Runs(Fire(r))) \/ FireInVain(r))
       /\ WF_shutdownvars(CancelSession(r))
  /\ \A d \in Deleter : WF_shutdownvars(Runs(DeleteSession(d)))
  /\ WF_shutdownvars(Drain) /\ WF_shutdownvars(Exit)

ShutdownFairSpec == ShutdownSpec /\ ShutdownFairness

------------------------------------------------------------------------------
(* A session in the map has its browser until main() cancels it, and an       *)
(* orderly end leaves no browser behind, but for those that create() has      *)
(* abandoned and of a DELETE whose goroutine, which nobody waits for, has not *)
(* got there: every session that was being created when the signal came is in *)
(* the map or has failed.                                                     *)
CleanExit ==
  /\ \A r \in sessions \ visited : browser[r] = "up"
  /\ stage = "ended" => \A r \in Request : browser[r] = "up" =>
       \/ Abandoned(r)
       \/ \E d \in Deleter : About(d, r) /\ dpc[d] = "cancel"

(* With time, server.Shutdown only fails to return, and the sessions to be    *)
(* cancelled, because of a request in the line of the queue: nobody can       *)
(* delete a session any more, so its turn never comes.                        *)
OnlyTheLineBlocks ==
  <>[](stage = "closing") => <>[](At({"waiting"}) # {} \/ disorder)

(* docs/faq.adoc:43: a browser does not run for good, whether its request     *)
(* fails or becomes a session that nobody uses or deletes.                    *)
BrowserEnds == \A r \in Request :
  browser[r] = "up" ~>
    browser[r] = "stopped" \/ Abandoned(r) \/ disorder \/ stage # "open"
===============================================================================
