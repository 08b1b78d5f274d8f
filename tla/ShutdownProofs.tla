---------------------------- MODULE ShutdownProofs ----------------------------
(* What the sessions and the end of the program guarantee, for any number of  *)
(* requests, clients, slots and attempts: who stops each browser and which    *)
(* nobody does, and, until a DELETE meets create() or another DELETE, that    *)
(* the queue is called as it expects and each browser is stopped once.        *)
EXTENDS Shutdown, HubProofs

(* main() has cancelled sessions of the map, and nobody else stops those.     *)
Visits ==
  /\ visited \subseteq sessions
  /\ visited # {} => stage \in {"cancelling", "ended"}
  /\ stage \in {"cancelling", "ended"} => Drained
  /\ stage = "ended" => sessions \subseteq visited
  /\ \A r \in visited : browser[r] = "stopped"
  /\ \A r \in sessions \ visited : browser[r] = "up"

(* The browser of a DELETE that has taken its session out still runs. *)
Once == ~disorder => \A d \in Deleter : dpc[d] \in Stopping => browser[target[d]] = "up"

SInv == HubInv /\ OrderInv /\ Visits /\ Once

LEMMA ShutdownStart == ShutdownInit => SInv
<1> SUFFICES ASSUME ShutdownInit PROVE SInv
  OBVIOUS
<1>1. HubInv /\ OrderInv
  BY HubStart, OrderStart DEF ShutdownInit
<1>2. Visits /\ Once
  BY DEF ShutdownInit, HubInit, Visits, Once, Stopping
<1> QED BY <1>1, <1>2 DEF SInv

------------------------------------------------------------------------------
(* Before main() cancels sessions. *)

(* A session that is in the map has its browser. *)
LEMMA MapHasBrowsers ==
  ASSUME HubInv, HubNext, \A x \in sessions : browser[x] = "up"
  PROVE  \A x \in sessions' : browser'[x] = "up"
<1>0. /\ sessions \subseteq Request /\ browser \in [Request -> {"none", "up", "stopped"}]
      /\ \A x \in sessions : at[x] = "put"
  BY Types DEF HubInv, Handlers
<1>1. ASSUME NEW r \in Request, CreateSession(r)
      PROVE  \A x \in sessions' : browser'[x] = "up"
  <2>1. CASE Put(r)
    BY <1>0, <2>1 DEF HubInv, Handlers, Put
  <2>2. CASE Start(r) \/ Abandon(r) \/ Cancel(r)
    BY <1>0, <2>2 DEF Start, Abandon, Cancel
  <2>3. CASE UNCHANGED <<browser, sessions>>
    BY <2>3
  <2> QED BY <1>1, <2>1, <2>2, <2>3
          DEF CreateSession, Reject, Abandon, AttemptTimesOut, AttemptFails, AttemptMisses, Answered,
              ReadAnswer, StartTimer, CallCreate, CallDrop
<1>2. ASSUME NEW d \in Deleter, DeleteSession(d)
      PROVE  \A x \in sessions' : browser'[x] = "up"
  <2>1. CASE TakeOut(d)
    BY <2>1 DEF TakeOut
  <2>2. CASE Stop(d)
    <3>1. target[d] \notin sessions
      BY <2>2 DEF HubInv, Deletes, Stopping, Stop
    <3> QED BY <1>0, <2>2, <3>1 DEF Stop
  <2>3. CASE UNCHANGED <<browser, sessions>>
    BY <2>3
  <2> QED BY <1>2, <2>1, <2>2, <2>3 DEF DeleteSession, Get, FreeSlot, Uncount, Forward
<1>3. ASSUME NEW r \in Request, NewRequest(r)
      PROVE  \A x \in sessions' : browser'[x] = "up"
  BY <1>0, <1>3 DEF NewRequest
<1>4. ASSUME NEW r \in Request, Enter(r) \/ Fire(r) \/ \E c \in Client : SendDelete(c, r)
      PROVE  \A x \in sessions' : browser'[x] = "up"
  BY <1>4 DEF Enter, Fire, SendDelete
<1> QED BY <1>1, <1>2, <1>3, <1>4 DEF HubNext, Connects, Works

(* A DELETE that takes a session out finds its browser up, and no other       *)
(* DELETE or create() stops it before.                                        *)
LEMMA OnceStep ==
  ASSUME HubInv, OrderInv, Once, HubNext, \A x \in sessions : browser[x] = "up"
  PROVE  Once'
<1> SUFFICES ASSUME ~disorder',
                    NEW e \in Deleter, dpc'[e] \in Stopping
             PROVE  browser'[target'[e]] = "up"
  BY DEF Once
<1> USE DEF Stopping, AtWork
<1>0. /\ Ordered /\ target \in [Deleter -> Request] /\ dpc \in [Deleter -> Progress]
      /\ browser \in [Request -> {"none", "up", "stopped"}] /\ target[e] \in Request
      /\ dpc[e] \in Stopping => browser[target[e]] = "up" /\ at[target[e]] = "put"
  BY DisorderStays, Types DEF OrderInv, Once, HubInv, Deletes
<1>1. ASSUME NEW r \in Request, CreateSession(r)  PROVE browser'[target'[e]] = "up"
  <2>1. UNCHANGED <<dpc, target>>
    BY <1>1 DEF CreateSession, Reject, Abandon, Start, AttemptTimesOut, AttemptFails, AttemptMisses, Answered,
                ReadAnswer, StartTimer, Put, CallCreate, CallDrop, Cancel, deleting
  <2>2. CASE Start(r) \/ Abandon(r) \/ Cancel(r)
    BY <1>0, <2>1, <2>2 DEF Start, Abandon, Cancel
  <2>3. CASE UNCHANGED browser
    BY <1>0, <2>1, <2>3
  <2> QED BY <1>1, <2>2, <2>3
          DEF CreateSession, Reject, Abandon, AttemptTimesOut, AttemptFails, AttemptMisses, Answered,
              ReadAnswer, StartTimer, Put, CallCreate, CallDrop
<1>2. ASSUME NEW d \in Deleter, DeleteSession(d)  PROVE browser'[target'[e]] = "up"
  <2>1. UNCHANGED target /\ \A x \in Deleter \ {d} : dpc'[x] = dpc[x]
    BY <1>0, <1>2 DEF DeleteSession, Get, TakeOut, FreeSlot, Uncount, Forward, Stop
  <2>2. CASE Stop(d)
    <3>1. e # d /\ target[e] # target[d]
      BY <1>0, <2>1, <2>2 DEF Stop, Ordered, OwnTargets
    <3> QED BY <1>0, <2>1, <2>2, <3>1 DEF Stop
  <2>3. CASE TakeOut(d)
    <3>1. target[d] \in sessions /\ browser' = browser
      BY <1>0, <2>3 DEF TakeOut, Ordered, Places
    <3> QED BY <1>0, <2>1, <3>1
  <2>4. CASE Get(d) \/ FreeSlot(d) \/ Uncount(d) \/ Forward(d)
    <3>1. browser' = browser /\ (dpc'[d] \in Stopping => dpc[d] \in Stopping)
      BY <1>0, <2>4 DEF Get, FreeSlot, Uncount, Forward
    <3> QED BY <1>0, <2>1, <3>1
  <2> QED BY <1>2, <2>2, <2>3, <2>4 DEF DeleteSession
<1>3. ASSUME NEW r \in Request, NewRequest(r)  PROVE browser'[target'[e]] = "up"
  <2>1. dpc' = dpc /\ target'[e] = target[e] /\ target[e] # r
    BY <1>0, <1>3 DEF NewRequest, About
  <2> QED BY <1>0, <1>3, <2>1 DEF NewRequest
<1>4. ASSUME NEW r \in Request, Enter(r)  PROVE browser'[target'[e]] = "up"
  BY <1>0, <1>4 DEF Enter, deleting
<1>5. ASSUME \/ \E c \in Client, r \in Request : SendDelete(c, r)
             \/ \E r \in Request : Fire(r)
      PROVE  browser'[target'[e]] = "up"
  <2>1. /\ browser' = browser
        /\ \E d \in Deleter : /\ dpc' = [dpc EXCEPT ![d] = "get"]
                              /\ \A x \in Deleter \ {d} : target'[x] = target[x]
    BY <1>5, Types DEF SendDelete, Fire
  <2> QED BY <1>0, <2>1
<1> QED BY <1>1, <1>2, <1>3, <1>4, <1>5 DEF HubNext, Connects, Works

------------------------------------------------------------------------------
(* When the handlers have returned. *)

(* Nothing is left to run but pushers, DELETEs that have been answered, and   *)
(* clients without a connection.                                              *)
LEMMA WhatStillRuns ==
  ASSUME HubInv, Drained, Works
  PROVE  \/ \E r \in Request : /\ Push(r)
                               /\ UNCHANGED <<handler, browser, sessions, lock, timer, deleting, disorder>>
         \/ \E r \in Request : NewRequest(r)
         \/ \E d \in Deleter : Stop(d)
<1>0. \A x \in Request : /\ at[x] = "panicked" => pc[x] = "serving"
                         /\ at[x] # "panicked" => pc[x] \in {"idle", "open", "releasing", "over"}
                         /\ at[x] \in {"attempting", "reading", "named", "timed"} => pc[x] = "serving"
                         /\ at[x] = "failed" => browser[x] # "up"
  BY DEF Drained, CreateReturned, HubInv, Handlers
<1>1. ASSUME NEW r \in Request, CreateSession(r)  PROVE FALSE
  BY <1>0, <1>1 DEF CreateSession, Reject, Abandon, Start, AttemptTimesOut, AttemptFails, AttemptMisses, Answered,
                    ReadAnswer, StartTimer, Put, CallCreate, CallDrop, Cancel, Create, CreatePending,
                    CreateUsed, Drop, DropLimit, DropPending
<1>2. ASSUME NEW d \in Deleter, DeleteSession(d)  PROVE Stop(d)
  BY <1>2 DEF Drained, DeleteReturned, DeleteSession, Get, TakeOut, FreeSlot, Uncount, Forward
<1>3. ASSUME NEW r \in Request, pc[r] # "idle", Protect(r)  PROVE FALSE
  <2>1. pc[r] \in {"serving", "open", "releasing", "over"}
    BY <1>0, <1>3
  <2> QED BY <1>3, <2>1 DEF Protect, ArriveAdmitted, ArriveRefused, ArriveFull, SelectAdmitted,
                            SelectBlocks, Disconnect, LeaveQueued, Accept, Unqueue
<1> QED BY <1>1, <1>2, <1>3 DEF Works, Enter

(* The map stays as it is, and so do the browsers of its sessions. *)
LEMMA DrainedStep ==
  ASSUME HubInv, OrderInv, Once, Drained, Works
  PROVE  /\ Drained' /\ Once'
         /\ sessions' = sessions /\ \A x \in sessions : browser'[x] = browser[x]
<1> USE DEF Stopping, AtWork
<1>0. /\ sessions \subseteq Request /\ browser \in [Request -> {"none", "up", "stopped"}]
      /\ pc \in [Request -> Location] /\ at \in [Request -> Where] /\ TypeOK /\ LineAccounted
      /\ dpc \in [Deleter -> Progress] /\ target \in [Deleter -> Request]
  BY Types
<1>1. ASSUME NEW r \in Request, Push(r),
             UNCHANGED <<handler, browser, sessions, lock, timer, deleting, disorder>>
      PROVE  /\ Drained' /\ Once'
             /\ sessions' = sessions /\ \A x \in sessions : browser'[x] = browser[x]
  <2>1. UNCHANGED <<pc, at, dpc, target, browser, sessions, disorder>>
    BY <1>1 DEF Push, handler, deleting
  <2> QED BY <2>1 DEF Drained, CreateReturned, DeleteReturned, Once
<1>2. ASSUME NEW r \in Request, NewRequest(r)
      PROVE  /\ Drained' /\ Once'
             /\ sessions' = sessions /\ \A x \in sessions : browser'[x] = browser[x]
  <2>1. /\ UNCHANGED <<sessions, dpc, disorder>> /\ r \notin sessions
        /\ \A x \in Request : browser'[x] = IF x = r THEN "none" ELSE browser[x]
        /\ \A x \in Request : at'[x] = IF x = r THEN "begin" ELSE at[x]
    BY <1>0, <1>2 DEF NewRequest, Goes
  <2>2. pc'[r] = "idle" /\ \A x \in Request \ {r} : pc'[x] = pc[x]
    BY <1>0, <1>2, AgainMoves DEF NewRequest
  <2>3. Drained'
    BY <2>1, <2>2 DEF Drained, CreateReturned, DeleteReturned
  <2>4. \A d \in Deleter : dpc[d] \in Stopping => target'[d] = target[d] /\ target[d] # r
    BY <1>0, <1>2 DEF NewRequest, About
  <2>5. Once'
    BY <1>0, <2>1, <2>4 DEF Once
  <2> QED BY <1>0, <2>1, <2>3, <2>5
<1>3. ASSUME NEW d \in Deleter, Stop(d)
      PROVE  /\ Drained' /\ Once'
             /\ sessions' = sessions /\ \A x \in sessions : browser'[x] = browser[x]
  <2>1. /\ UNCHANGED <<pc, at, target, sessions, disorder>> /\ dpc[d] = "cancel"
        /\ \A e \in Deleter : dpc'[e] = IF e = d THEN "idle" ELSE dpc[e]
        /\ \A x \in Request : browser'[x] = IF x = target[d] THEN "stopped" ELSE browser[x]
        /\ target[d] \notin sessions
    BY <1>0, <1>3 DEF Stop, vars, handler, HubInv, Deletes
  <2>2. Drained'
    BY <2>1 DEF Drained, CreateReturned, DeleteReturned
  <2>3. Once'
    <3>1. ~disorder => \A e \in Deleter \ {d} : dpc[e] \in AtWork => target[e] # target[d]
      BY <2>1 DEF OrderInv, Ordered, OwnTargets
    <3> QED BY <1>0, <2>1, <3>1 DEF Once
  <2> QED BY <1>0, <2>1, <2>2, <2>3
<1> QED BY <1>1, <1>2, <1>3, WhatStillRuns

------------------------------------------------------------------------------
(* main() stops the browser of a session that is in the map. *)
LEMMA CancelSessionKeeps ==
  ASSUME SInv, NEW r \in Request, CancelSession(r)
  PROVE  SInv'
<1>0. /\ HubInv /\ OrderInv /\ Visits /\ Once /\ r \in sessions
      /\ at[r] = "put" /\ \A d \in Deleter : dpc[d] \in Stopping => target[d] # r
  BY DEF SInv, CancelSession, HubInv, Handlers, Deletes
<1>1. /\ UNCHANGED <<limit, queued, pending, used, sendq, pc, pusher>>
      /\ UNCHANGED <<at, attempt, base, joined, sessions, lock, timer, dpc, target, disorder, stage>>
      /\ visited' = visited \cup {r}
  BY DEF CancelSession, vars, handler, deleting
<1>2. TypeOK' /\ LineAccounted'
  BY <1>0, Types, QueueAlone DEF CancelSession
<1>3. /\ \A x \in Request : browser'[x] = IF x = r THEN "stopped" ELSE browser[x]
      /\ browser' \in [Request -> {"none", "up", "stopped"}]
  BY <1>0, Types DEF CancelSession
<1>4. HubInv'
  <2>1. HubTypeOK' /\ LoopBounded'
    BY <1>0, <1>1, <1>2, <1>3 DEF HubInv, HubTypeOK, LoopBounded
  <2>2. Handlers' /\ Timers'
    BY <1>0, <1>1, <1>3 DEF HubInv, Handlers, Timers
  <2>3. Deletes' /\ BrowsersAccounted'
    BY <1>0, <1>1, <1>3 DEF HubInv, Deletes, BrowsersAccounted, Abandoned, About
  <2> QED BY <1>2, <2>1, <2>2, <2>3 DEF HubInv
<1>5. OrderInv'
  BY <1>0, <1>1
  DEF OrderInv, Ordered, Places, OwnTargets, IInv, TypeOK, SlotsAccounted, GaugesAccounted,
      LineAccounted, PushersAccounted, Holders, Pending, Used, Pushed, Unqueued, InLine, At
<1>6. Visits'
  <2>1. stage = "cancelling"
    BY DEF CancelSession
  <2>2. Drained'
    BY <1>0, <1>1, <1>3, <2>1 DEF Visits, Drained, CreateReturned, DeleteReturned
  <2> QED BY <1>0, <1>1, <1>3, <2>1, <2>2, Types DEF Visits
<1>7. Once'
  BY <1>0, <1>1, <1>3, Types DEF Once, Stopping
<1> QED BY <1>4, <1>5, <1>6, <1>7 DEF SInv

LEMMA FireInVainKeeps ==
  ASSUME SInv, NEW r \in Request, FireInVain(r)
  PROVE  SInv'
<1>0. HubInv /\ OrderInv /\ Visits /\ Once
  BY DEF SInv
<1>1. /\ UNCHANGED <<limit, queued, pending, used, sendq, pc, pusher>>
      /\ UNCHANGED <<at, browser, sessions, dpc, target, disorder, stage, visited>>
  BY DEF FireInVain, vars, handler, deleting
<1>2. HubInv'
  BY <1>0, TimerEndsKeeps DEF FireInVain
<1>3. OrderInv'
  BY <1>0, <1>1
  DEF OrderInv, Ordered, Places, OwnTargets, IInv, TypeOK, SlotsAccounted, GaugesAccounted,
      LineAccounted, PushersAccounted, Holders, Pending, Used, Pushed, Unqueued, InLine, At
<1>4. Visits' /\ Once'
  BY <1>0, <1>1 DEF Visits, Once, Drained, CreateReturned, DeleteReturned
<1> QED BY <1>2, <1>3, <1>4 DEF SInv

LEMMA ServeKeeps == SInv /\ Serve => SInv'
<1> SUFFICES ASSUME SInv, Serve PROVE SInv'
  OBVIOUS
<1>0. HubInv /\ OrderInv /\ Visits /\ Once /\ HubNext /\ UNCHANGED <<stage, visited>>
  BY DEF SInv, Serve, HubNext
<1>1. HubInv' /\ OrderInv'
  BY <1>0, HubStep, OrderStep
<1>2. CASE stage \in {"open", "closing"}
  <2>1. visited = {} /\ \A x \in sessions : browser[x] = "up"
    BY <1>0, <1>2 DEF Visits
  <2>2. Once'
    BY <1>0, <2>1, OnceStep
  <2>3. \A x \in sessions' : browser'[x] = "up"
    BY <1>0, <2>1, MapHasBrowsers
  <2>4. Visits'
    BY <1>0, <1>2, <2>1, <2>3 DEF Visits
  <2> QED BY <1>1, <2>2, <2>4 DEF SInv
<1>3. CASE stage = "cancelling"
  <2>1. Drained /\ Works
    BY <1>0, <1>3 DEF Visits, Serve
  <2>2. /\ Drained' /\ Once'
        /\ sessions' = sessions /\ \A x \in sessions : browser'[x] = browser[x]
    BY <1>0, <2>1, DrainedStep
  <2>3. Visits'
    BY <1>0, <1>3, <2>2 DEF Visits
  <2> QED BY <1>1, <2>2, <2>3 DEF SInv
<1> QED BY <1>2, <1>3 DEF Serve, Alive

(* Every step keeps the invariant. *)
LEMMA ShutdownStep == SInv /\ [ShutdownNext]_shutdownvars => SInv'
<1> SUFFICES ASSUME SInv, [ShutdownNext]_shutdownvars PROVE SInv'
  OBVIOUS
<1>1. ASSUME UNCHANGED hubvars, Visits'  PROVE SInv'
  <2>1. HubInv' /\ OrderInv'
    BY <1>1, HubStep, OrderStep DEF SInv
  <2>2. Once'
    BY <1>1 DEF SInv, Once, hubvars, deleting
  <2> QED BY <1>1, <2>1, <2>2 DEF SInv
<1>2. ASSUME UNCHANGED hubvars
      PROVE  UNCHANGED <<pc, at, dpc, sessions, browser>> /\ (Drained => Drained')
  BY <1>2 DEF hubvars, vars, handler, deleting, Drained, CreateReturned, DeleteReturned
<1>3. CASE Signal \/ Expire \/ Drain \/ Exit
  <2>1. UNCHANGED hubvars /\ UNCHANGED visited
    BY <1>3 DEF Signal, Expire, Drain, Exit
  <2>2. Visits'
    BY <1>2, <1>3, <2>1 DEF SInv, Visits, Signal, Expire, Drain, Exit
  <2> QED BY <1>1, <2>1, <2>2
<1>4. CASE UNCHANGED shutdownvars
  <2>1. UNCHANGED hubvars /\ UNCHANGED <<stage, visited>>
    BY <1>4 DEF shutdownvars
  <2>2. Visits'
    BY <1>2, <2>1 DEF SInv, Visits
  <2> QED BY <1>1, <2>1, <2>2
<1> QED BY <1>3, <1>4, ServeKeeps, CancelSessionKeeps, FireInVainKeeps DEF ShutdownNext, Main

------------------------------------------------------------------------------
(* The inductive invariant holds in every reachable state. *)
THEOREM ShutdownInvariance == ShutdownSpec => []SInv
BY ShutdownStart, ShutdownStep, PTL DEF ShutdownSpec

(* The variables keep their types; in particular, create() makes at most one  *)
(* attempt more than -retry-count says.                                       *)
THEOREM HubTypes == ShutdownSpec => []HubTypeOK
<1>1. SInv => HubTypeOK
  BY DEF SInv, HubInv
<1> QED BY <1>1, ShutdownInvariance, PTL

(* In whatever order the steps of create() and the DELETEs come, a browser    *)
(* that is up has somebody who will stop it; the exceptions are the two ways  *)
(* out of create() that abandon it, a start that fails and leaves its         *)
(* container (docker.go:182) and a panic (docker.go:455, selenoid.go:455).    *)
THEOREM BrowsersAreAccountedFor == ShutdownSpec => []BrowsersAccounted
<1>1. SInv => BrowsersAccounted
  BY DEF SInv, HubInv
<1> QED BY <1>1, ShutdownInvariance, PTL

(* Until a DELETE meets create() or another DELETE, the sessions of the map   *)
(* have their places in the queue, and browsers without one are being stopped. *)
THEOREM SessionsAreInside == ShutdownSpec => []SessionsHoldSlots
<1>1. SInv => SessionsHoldSlots
  <2> SUFFICES ASSUME SInv, ~disorder,
                      NEW r \in Request, browser[r] = "up",
                      at[r] \notin {"failed", "left"}, pc[r] \notin {"serving", "creating", "open"}
               PROVE  \E d \in Deleter : About(d, r) /\ dpc[d] \in {"uncount", "forward", "cancel"}
    BY DEF SessionsHoldSlots, SInv, OrderInv, Ordered, At
  <2>1. Ordered /\ r \notin sessions /\ at[r] \in Where
    BY Types DEF SInv, OrderInv, Ordered, At
  <2>2. at[r] \in {"begin", "put"}
    BY <2>1 DEF SInv, HubInv, Handlers, Where
  <2>3. PICK d \in Deleter : About(d, r) /\ dpc[d] \in Stopping
    BY <2>1, <2>2 DEF SInv, HubInv, BrowsersAccounted, Abandoned, Stopping
  <2>4. dpc[d] # "release"
    BY <2>1, <2>3 DEF Ordered, Places, About
  <2> QED BY <2>3, <2>4 DEF Stopping
<1> QED BY <1>1, ShutdownInvariance, PTL

(* The calls that create() and the DELETEs make of the queue are those it is  *)
(* made for: what is proved of module Queue holds of it inside the hub.       *)
THEOREM QueueCalledInOrder == ShutdownSpec => CallsInOrder
<1>1. SInv /\ [ShutdownNext]_shutdownvars => [~disorder' => [Next]_vars]_hubvars
  <2> SUFFICES ASSUME SInv, [ShutdownNext]_shutdownvars, ~disorder' PROVE [Next]_vars
    OBVIOUS
  <2>1. CASE Serve
    BY <2>1, CallsStep, DisorderStays DEF SInv, OrderInv, Serve, HubNext
  <2>2. CASE UNCHANGED vars
    BY <2>2
  <2> QED BY <2>1, <2>2 DEF ShutdownNext, Main, Signal, Expire, Drain, Exit, CancelSession,
                            FireInVain, shutdownvars, hubvars
<1> QED BY <1>1, ShutdownInvariance, PTL DEF ShutdownSpec, CallsInOrder

(* The browser that a DELETE stops is up, main() included: nobody has stopped *)
(* it before.                                                                 *)
THEOREM EachBrowserStopsOnce == ShutdownSpec => StoppedOnce
<1>1. SInv => \A d \in Deleter : Stop(d) => disorder \/ browser[target[d]] = "up"
  BY DEF SInv, Once, Stop, Stopping
<1>2. SInv /\ [ShutdownNext]_shutdownvars
        => [\A d \in Deleter : Stop(d) => disorder \/ browser[target[d]] = "up"]_hubvars
  BY <1>1
<1> QED BY <1>2, ShutdownInvariance, PTL DEF ShutdownSpec, StoppedOnce

(* When main() returns, the only browsers left are those that create() has    *)
(* abandoned and those of DELETEs whose goroutine nobody waited for.          *)
THEOREM LeavesNothingBehind == ShutdownSpec => []CleanExit
<1>1. SInv => CleanExit
  <2> SUFFICES ASSUME SInv PROVE CleanExit
    OBVIOUS
  <2>1. \A r \in sessions \ visited : browser[r] = "up"
    BY DEF SInv, Visits
  <2>2. ASSUME stage = "ended", NEW r \in Request, browser[r] = "up", ~Abandoned(r)
        PROVE  \E d \in Deleter : About(d, r) /\ dpc[d] = "cancel"
    <3>1. Drained /\ r \notin sessions /\ at[r] \in Where
      BY <2>2, Types DEF SInv, Visits
    <3>2. pc[r] # "serving" /\ at[r] \notin {"failed", "left", "panicked"}
      BY <2>2, <3>1 DEF Drained, CreateReturned, Abandoned
    <3>3. at[r] \in {"begin", "put"}
      BY <2>2, <3>1, <3>2 DEF SInv, HubInv, Handlers, Where
    <3>4. PICK d \in Deleter : About(d, r) /\ dpc[d] \in Stopping
      BY <2>2, <3>1, <3>3 DEF SInv, HubInv, BrowsersAccounted, Abandoned, Stopping
    <3> QED BY <3>1, <3>4 DEF Drained, DeleteReturned, Stopping
  <2> QED BY <2>1, <2>2 DEF CleanExit
<1> QED BY <1>1, ShutdownInvariance, PTL
------------------------------------------------------------------------------
(* What the queue guarantees of itself, inside the hub.                       *)

(* Every slot and every gauge is accounted for until a DELETE meets create()  *)
(* or another DELETE: each failure of create() drops its request once, and    *)
(* each session is released once.                                             *)
THEOREM QueueStaysTrue == ShutdownSpec => [](~disorder => SlotsAccounted /\ GaugesAccounted)
<1>1. SInv => (~disorder => SlotsAccounted /\ GaugesAccounted)
  BY DEF SInv, OrderInv, Ordered, IInv
<1> QED BY <1>1, ShutdownInvariance, PTL

(* Until then there are no more than -limit sessions. *)
THEOREM SessionsStayWithinLimit == ShutdownSpec => [](~disorder => SessionsWithinLimit)
<1>1. SInv => (~disorder => SessionsWithinLimit)
  <2> SUFFICES ASSUME SInv, ~disorder PROVE SessionsWithinLimit
    OBVIOUS
  <2>1. sessions \subseteq Holders
    BY DEF SInv, OrderInv, Ordered, Holders, At
  <2>2. IsFiniteSet(Holders) /\ Cardinality(Holders) \in Nat
    BY FiniteRequests DEF Holders, At
  <2>3. Cardinality(Holders) <= Limit
    BY LimitAssumption DEF SInv, OrderInv, Ordered, IInv, TypeOK, SlotsAccounted
  <2>4. Cardinality(sessions) <= Cardinality(Holders) /\ Cardinality(sessions) \in Nat
    BY <2>1, <2>2, FS_Subset, FS_CardinalityType
  <2> QED BY <2>2, <2>3, <2>4, LimitAssumption DEF SessionsWithinLimit
<1> QED BY <1>1, ShutdownInvariance, PTL

(* Until then the program keeps the promise of module Admission, create(),    *)
(* DELETEs, timers and main() included.                                       *)
THEOREM HubImplementsAdmission ==
  ShutdownSpec => Line!Init /\ [][~disorder' => [Line!Next]_(Line!vars)]_shutdownvars
<1>1. ShutdownInit => Line!Init
  BY DEF ShutdownInit, HubInit, Init, Line!Init, Holders, At
<1>2. SInv /\ [ShutdownNext]_shutdownvars
        => [~disorder' => [Line!Next]_(Line!vars)]_shutdownvars
  <2> SUFFICES ASSUME SInv, ShutdownNext, ~disorder' PROVE [Line!Next]_(Line!vars)
    OBVIOUS
  <2>1. [Next]_vars /\ ~disorder
    <3>1. CASE Serve
      BY <3>1, CallsStep, DisorderStays DEF SInv, OrderInv, Serve, HubNext
    <3>2. CASE Main \/ \E r \in Request : FireInVain(r)
      BY <3>2 DEF Main, Signal, Expire, Drain, Exit, CancelSession, FireInVain, hubvars
    <3> QED BY <3>1, <3>2 DEF ShutdownNext
  <2> QED BY <2>1, RefinementStep DEF SInv, OrderInv, Ordered
<1> QED BY <1>1, <1>2, ShutdownInvariance, PTL DEF ShutdownSpec

------------------------------------------------------------------------------
(* Locks and timers.                                                          *)

OwnersInv == LocksOwned /\ (stage = "open" => SessionsTimed)

(* main() stops the sessions without their locks, and after "open" the timers *)
(* no longer count.                                                           *)
LEMMA OwnersStep == SInv /\ OwnersInv /\ [ShutdownNext]_shutdownvars => OwnersInv'
<1> SUFFICES ASSUME SInv, OwnersInv, [ShutdownNext]_shutdownvars PROVE OwnersInv'
  OBVIOUS
<1>1. CASE Serve
  BY <1>1, LocksStep, TimedStep DEF SInv, OwnersInv, Serve, HubNext
<1>2. CASE UNCHANGED shutdownvars
  BY <1>2, LocksStep, TimedStep DEF SInv, OwnersInv, shutdownvars
<1>3. CASE Main \/ \E r \in Request : FireInVain(r)
  <2>1. stage' # "open" /\ UNCHANGED <<lock, dpc, target>>
    BY <1>3 DEF Main, Signal, Expire, Drain, Exit, CancelSession, FireInVain, hubvars, deleting
  <2> QED BY <2>1, LocksStay DEF OwnersInv
<1> QED BY <1>1, <1>2, <1>3 DEF ShutdownNext

(* Locks keep their owners and sessions their timers. *)
LEMMA OwnersInvariance == ShutdownSpec => [](SInv /\ OwnersInv)
<1>1. ShutdownInit => SInv /\ OwnersInv
  BY ShutdownStart, OwnersStart DEF ShutdownInit, OwnersInv
<1>2. (SInv /\ OwnersInv) /\ [ShutdownNext]_shutdownvars => (SInv /\ OwnersInv)'
  BY ShutdownStep, OwnersStep
<1> QED BY <1>1, <1>2, PTL DEF ShutdownSpec

(* The session's lock excludes: one DELETE at a time is between line 595 and  *)
(* its Unlock, and a lock that is held is held by one.                        *)
THEOREM LocksHaveOwners == ShutdownSpec => []LocksOwned
<1>1. OwnersInv => LocksOwned
  BY DEF OwnersInv
<1> QED BY <1>1, OwnersInvariance, PTL

(* No session of the map is forgotten while the program serves: its timer     *)
(* will fire, or a DELETE of it is on its way and finds the lock free.        *)
NeverForgotten == stage = "open" /\ ~disorder => \A r \in sessions :
  \/ timer[r] = "armed"
  \/ \E d \in Deleter : target[d] = r /\ (dpc[d] = "get" \/ (dpc[d] = "lock" /\ ~lock[r]))

(* The DELETE that waits for the lock of its session is alone with it. *)
LEMMA LockIsFree ==
  ASSUME SInv, OwnersInv, ~disorder, NEW d \in Deleter, dpc[d] = "lock"
  PROVE  target[d] \in Request /\ ~lock[target[d]]
<1>1. target[d] \in Request /\ OwnTargets
  BY Types DEF SInv, OrderInv, Ordered
<1>2. \A e \in Deleter : dpc[e] \in UnderLock => target[e] # target[d]
  BY <1>1 DEF OwnTargets, AtWork, Stopping, UnderLock
<1> QED BY <1>1, <1>2 DEF OwnersInv, LocksOwned

(* Whatever create(), the clients and the timers do to it, a session that is  *)
(* in the map has something coming that will take it out.                     *)
THEOREM NoSessionForgotten == ShutdownSpec => []NeverForgotten
<1>1. SInv /\ OwnersInv => NeverForgotten
  <2> SUFFICES ASSUME SInv, OwnersInv, stage = "open", ~disorder, NEW r \in sessions,
                      timer[r] # "armed"
               PROVE  \E d \in Deleter :
                        target[d] = r /\ (dpc[d] = "get" \/ (dpc[d] = "lock" /\ ~lock[r]))
    BY DEF NeverForgotten
  <2>1. r \in Request /\ r \in Deleter /\ target[r] = r
    BY Types DEF SInv, HubInv, Timers
  <2>2. CASE dpc[r] = "get"
    BY <2>1, <2>2
  <2>3. ASSUME NEW d \in Deleter, target[d] = r, dpc[d] = "lock"  PROVE ~lock[r]
    BY <2>3, LockIsFree
  <2> QED BY <2>1, <2>2, <2>3 DEF OwnersInv, SessionsTimed
<1> QED BY <1>1, OwnersInvariance, PTL

(* Until a DELETE meets create() or another DELETE, only the line of the      *)
(* queue holds anybody up: whoever receives from a channel or takes a lock    *)
(* finds what it needs or, at queued, a pusher that has yet to run.           *)
OnlyTheLineWaits == ~disorder =>
  /\ NeverStarves /\ TokenComes
  /\ \A d \in Deleter : /\ dpc[d] = "lock" => ~lock[target[d]]
                        /\ dpc[d] = "release" => limit > 0
                        /\ dpc[d] = "uncount" => used > 0

(* A DELETE that has its session takes it out and gives the slot back without *)
(* waiting for anybody, and no receive of the queue waits in vain.            *)
THEOREM NobodyBlocks == ShutdownSpec => []OnlyTheLineWaits
<1>1. SInv /\ OwnersInv => OnlyTheLineWaits
  <2> SUFFICES ASSUME SInv, OwnersInv, ~disorder PROVE OnlyTheLineWaits
    BY DEF OnlyTheLineWaits
  <2>1. Ordered /\ IInv /\ \A d \in Deleter : target[d] \in Request
    BY Types DEF SInv, OrderInv, Ordered
  <2>2. NeverStarves /\ TokenComes
    BY <2>1, QueueFlows, TokenIsDue
  <2>3. ASSUME NEW d \in Deleter
        PROVE  /\ dpc[d] = "release" => limit > 0
               /\ dpc[d] = "uncount" => used > 0
    BY <2>1, <2>2 DEF Ordered, Places, NeverStarves
  <2> QED BY <2>2, <2>3, LockIsFree DEF OnlyTheLineWaits
<1> QED BY <1>1, OwnersInvariance, PTL
===============================================================================
