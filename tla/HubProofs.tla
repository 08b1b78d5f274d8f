------------------------------ MODULE HubProofs ------------------------------
(* What create() and the DELETEs keep, for any number of requests, clients,   *)
(* slots and attempts: the lemmas that module ShutdownProofs rests on.  The   *)
(* first invariant, HubInv, holds whatever the order of the steps is; the     *)
(* second, OrderInv, until a DELETE meets create() or another DELETE.         *)
EXTENDS Hub, QueueProofs

Stopping == {"release", "uncount", "forward", "cancel"}
AtWork   == Stopping \cup {"lock"}

(* The attempt after a 404 is the last that is not bounded by RetryCount. *)
LoopBounded == \A r \in Request : /\ joined[r] <= attempt[r]
                                  /\ base[r] = "short" => attempt[r] <= RetryCount

(* What create() has got and not yet given away, at each of its places. *)
Handlers == \A r \in Request :
  /\ at[r] \in {"attempting", "reading", "named", "timed"}
       => pc[r] = "serving" /\ browser[r] = "up"
  /\ at[r] = "panicked" => pc[r] = "serving"
  /\ at[r] = "begin" => browser[r] # "up"
  /\ r \in sessions => at[r] = "put"
  /\ timer[r] # "off" => at[r] \in {"timed", "put"}

(* A DELETE is about a session that has been named, and which is not in the   *)
(* map any more when it has been taken out.                                   *)
Deletes == \A d \in Deleter :
  /\ dpc[d] = "get" => at[target[d]] \in {"named", "timed", "put"}
  /\ dpc[d] \in AtWork => at[target[d]] = "put"
  /\ dpc[d] \in Stopping => target[d] \notin sessions

(* A timer that has not fired is not at work on its DELETE. *)
Timers == \A r \in Request : /\ target[r] = r
                             /\ timer[r] \in {"off", "armed"} => dpc[r] = "idle"

HubInv == /\ HubTypeOK /\ LineAccounted /\ LoopBounded /\ Handlers
          /\ Deletes /\ Timers /\ BrowsersAccounted

(* Where the queue has the session of a DELETE. *)
Places == \A d \in Deleter :
  /\ dpc[d] = "lock" => target[d] \in sessions
  /\ dpc[d] \in {"lock", "release"} => pc[target[d]] = "open"
  /\ dpc[d] = "uncount" => pc[target[d]] = "releasing"

(* No session has two DELETEs that got past the lookup. *)
OwnTargets == \A d, e \in Deleter :
  d # e /\ dpc[d] \in AtWork /\ dpc[e] \in AtWork => target[d] # target[e]

Ordered == IInv /\ Places /\ OwnTargets /\ sessions \subseteq At({"serving", "creating", "open"})

OrderInv == ~disorder => Ordered

------------------------------------------------------------------------------
(* Every value of the variables, named once for the leaves below. *)
LEMMA Types ==
  ASSUME HubInv
  PROVE  /\ pc \in [Request -> Location] /\ at \in [Request -> Where]
         /\ attempt \in [Request -> 1..RetryCount + 1] /\ base \in [Request -> {"short", "long"}]
         /\ joined \in [Request -> 0..RetryCount + 1]
         /\ browser \in [Request -> {"none", "up", "stopped"}]
         /\ sessions \subseteq Request /\ lock \in [Request -> BOOLEAN]
         /\ timer \in [Request -> {"off", "armed", "fired", "closed"}]
         /\ dpc \in [Deleter -> Progress] /\ target \in [Deleter -> Request]
         /\ disorder \in BOOLEAN /\ TypeOK /\ LineAccounted
         /\ Request \subseteq Deleter /\ Client \subseteq Deleter
BY DEF HubInv, HubTypeOK, TypeOK, Deleter

(* <-limit, by whomever: the first of the line moves, and nobody else. *)
LEMMA AnyReceive ==
  ASSUME TypeOK, LineAccounted, NEW pcs \in [Request -> Location], RecvLimit(pcs),
         \A x \in Request : pcs[x] = "waiting" <=> pc[x] = "waiting"
  PROVE  /\ limit' \in 0..Limit /\ sendq' \in Seq(Request) /\ pc' \in [Request -> Location]
         /\ LineAccounted'
         /\ \A x \in Request : \/ pc'[x] = pcs[x]
                               \/ pcs[x] = "waiting" /\ pc'[x] = "acquired"
<1> USE DEF Location, Outcome
<1>0. /\ sendq \in Seq(Request) /\ limit \in 0..Limit /\ Limit \in Nat /\ IsInjective(sendq)
      /\ Range(sendq) = {x \in Request : pc[x] = "waiting"} /\ (sendq # <<>> => limit = Limit)
  BY LimitAssumption DEF TypeOK, LineAccounted, InLine, At
<1>1. CASE sendq = <<>>
  BY <1>0, <1>1 DEF RecvLimit, LineAccounted, InLine, At
<1>2. CASE sendq # <<>>
  <2>1. /\ Head(sendq) \in Request /\ pc[Head(sendq)] = "waiting"
        /\ Tail(sendq) \in Seq(Request) /\ IsInjective(Tail(sendq))
        /\ Range(Tail(sendq)) = {x \in Request : pc[x] = "waiting"} \ {Head(sendq)}
    BY <1>0, <1>2, HeadWaits DEF InLine
  <2>2. /\ sendq' = Tail(sendq) /\ limit' = limit /\ limit = Limit
        /\ pc' = [pcs EXCEPT ![Head(sendq)] = "acquired"]
    BY <1>0, <1>2 DEF RecvLimit
  <2>3. {x \in Request : pc'[x] = "waiting"} = Range(sendq')
    BY <2>1, <2>2
  <2> QED BY <1>0, <2>1, <2>2, <2>3 DEF LineAccounted, InLine, At
<1> QED BY <1>1, <1>2

(* What the calls of create() and the way in do to the places of others. *)
LEMMA EnterMoves ==
  ASSUME TypeOK, LineAccounted, NEW r \in Request, Protect(r) \/ Push(r)
  PROVE  /\ TypeOK' /\ LineAccounted'
         /\ \A x \in Request : pc[x] \in Outcome => pc'[x] = pc[x]
<1>1. TypeOK' /\ LineAccounted'
  BY TypeStep, LineStep DEF Next
<1>2. pc \in [Request -> Location]
  BY DEF TypeOK
<1>3. \A x \in Request : pc[x] \in Outcome => pc'[x] = pc[x]
  BY <1>2 DEF Protect, Push, ArriveAdmitted, ArriveRefused, ArriveFull, SelectAdmitted, SendLimit,
              SelectBlocks, Disconnect, LeaveQueued, Accept, Unqueue, Outcome
<1> QED BY <1>1, <1>3

LEMMA CreateMoves ==
  ASSUME TypeOK, LineAccounted, NEW r \in Request, Create(r)
  PROVE  /\ TypeOK' /\ LineAccounted'
         /\ pc[r] \in {"serving", "creating"} /\ pc'[r] \in {"creating", "open"}
         /\ \A x \in Request \ {r} : pc'[x] = pc[x]
<1>1. TypeOK' /\ LineAccounted'
  BY TypeStep, LineStep DEF Next
<1>2. pc \in [Request -> Location]
  BY DEF TypeOK
<1> QED BY <1>1, <1>2 DEF Create, CreatePending, CreateUsed

LEMMA DropMoves ==
  ASSUME TypeOK, LineAccounted, NEW r \in Request, Drop(r)
  PROVE  /\ TypeOK' /\ LineAccounted'
         /\ pc[r] \in {"serving", "dropping"}
         /\ \A x \in Request \ {r} : pc[x] \in Outcome => pc'[x] = pc[x]
<1>1. TypeOK' /\ LineAccounted'
  BY TypeStep, LineStep DEF Next
<1>2. pc \in [Request -> Location]
  BY DEF TypeOK
<1>3. CASE DropLimit(r)
  <2>1. \A x \in Request \ {r} : pc'[x] = pc[x] \/ pc[x] = "waiting"
    BY <1>3, RecvMoves DEF DropLimit, Location, Outcome
  <2> QED BY <1>1, <1>3, <2>1 DEF DropLimit, Outcome
<1>4. CASE DropPending(r)
  BY <1>1, <1>2, <1>4 DEF DropPending
<1> QED BY <1>3, <1>4 DEF Drop

LEMMA AgainMoves ==
  ASSUME TypeOK, LineAccounted, NEW r \in Request, Again(r)
  PROVE  /\ TypeOK' /\ LineAccounted'
         /\ pc[r] = "over" /\ pc'[r] = "idle"
         /\ \A x \in Request \ {r} : pc'[x] = pc[x]
<1>1. TypeOK' /\ LineAccounted'
  BY TypeStep, LineStep DEF Next
<1>2. pc \in [Request -> Location]
  BY DEF TypeOK
<1> QED BY <1>1, <1>2 DEF Again

(* The two receives of Release, for a session that need not be open. *)
LEMMA FreeMoves ==
  ASSUME TypeOK, LineAccounted, NEW d \in Deleter, target[d] \in Request, FreeSlot(d)
  PROVE  /\ TypeOK' /\ LineAccounted'
         /\ pc[target[d]] = "open" => pc'[target[d]] = "releasing"
         /\ \A x \in Request : pc[x] \in Outcome \ {"open"} => pc'[x] = pc[x]
         /\ \A x \in Request \ {target[d]} : pc[x] = "open" => pc'[x] = pc[x]
<1> DEFINE pcs == Released(target[d], "open", "releasing")
<1>0. pc \in [Request -> Location]
  BY DEF TypeOK
<1>1. /\ pcs \in [Request -> Location]
      /\ \A x \in Request : pcs[x] = IF x = target[d] /\ pc[x] = "open" THEN "releasing" ELSE pc[x]
  BY <1>0 DEF Released, Location, Outcome
<1>2. RecvLimit(pcs)
  BY DEF FreeSlot
<1> HIDE DEF pcs
<1>3. /\ limit' \in 0..Limit /\ sendq' \in Seq(Request) /\ pc' \in [Request -> Location]
      /\ LineAccounted'
      /\ \A x \in Request : \/ pc'[x] = pcs[x]
                            \/ pcs[x] = "waiting" /\ pc'[x] = "acquired"
  BY <1>1, <1>2, AnyReceive
<1>4. TypeOK'
  BY <1>3 DEF TypeOK, FreeSlot
<1> QED BY <1>0, <1>1, <1>3, <1>4 DEF Outcome

LEMMA UncountMoves ==
  ASSUME TypeOK, LineAccounted, NEW d \in Deleter, target[d] \in Request, Uncount(d)
  PROVE  /\ TypeOK' /\ LineAccounted'
         /\ \A x \in Request : x # target[d] \/ pc[x] # "releasing" => pc'[x] = pc[x]
<1>0. pc \in [Request -> Location] /\ used \in Nat /\ used > 0 /\ used' = used - 1
  BY DEF TypeOK, Uncount
<1>1. /\ pc' \in [Request -> Location]
      /\ \A x \in Request : pc'[x] = IF x = target[d] /\ pc[x] = "releasing" THEN "over" ELSE pc[x]
  BY <1>0 DEF Uncount, Released, Location
<1>2. TypeOK'
  BY <1>0, <1>1 DEF TypeOK, Uncount
<1>3. {x \in Request : pc'[x] = "waiting"} = {x \in Request : pc[x] = "waiting"}
  BY <1>1
<1>4. LineAccounted'
  BY <1>3 DEF LineAccounted, InLine, At, Uncount
<1> QED BY <1>1, <1>2, <1>4

------------------------------------------------------------------------------
(* The loop's variables, after an attempt has begun or the loop is left. *)
Loop == /\ at \in [Request -> Where] /\ attempt \in [Request -> 1..RetryCount + 1]
        /\ base \in [Request -> {"short", "long"}] /\ joined \in [Request -> 0..RetryCount + 1]
        /\ LoopBounded

LEMMA LoopLeft ==
  ASSUME HubInv, NEW r \in Request, NEW where \in Where, Goes(r, where)
  PROVE  Loop' /\ at' = [at EXCEPT ![r] = where]
BY RetryAssumption, Types DEF HubInv, Loop, LoopBounded, Goes

LEMMA LoopGoesOn ==
  ASSUME HubInv, NEW r \in Request, NEW n \in 1..RetryCount + 1, NEW path \in {"short", "long"},
         NEW before \in 0..RetryCount, before < n, path = "short" => n <= RetryCount,
         Attempt(r, n, path, before)
  PROVE  Loop' /\ at' = [at EXCEPT ![r] = "attempting"]
<1>1. at' = [at EXCEPT ![r] = "attempting"] /\ at' \in [Request -> Where]
  BY Types DEF Attempt, Where
<1>2. attempt' = [attempt EXCEPT ![r] = n] /\ attempt' \in [Request -> 1..RetryCount + 1]
  BY Types DEF Attempt
<1>3. base' = [base EXCEPT ![r] = path] /\ base' \in [Request -> {"short", "long"}]
  BY Types DEF Attempt
<1> DEFINE j == IF path = "long" THEN before + 1 ELSE before
<1>4. j \in 0..RetryCount + 1 /\ joined' = [joined EXCEPT ![r] = j] /\ j <= n
  BY RetryAssumption DEF Attempt
<1> HIDE DEF j
<1>5. joined' \in [Request -> 0..RetryCount + 1]
  BY <1>4, Types
<1>6. LoopBounded'
  BY <1>2, <1>3, <1>4, Types DEF HubInv, LoopBounded
<1> QED BY <1>1, <1>2, <1>3, <1>5, <1>6 DEF Loop

LEMMA QueueAlone ==
  ASSUME TypeOK, LineAccounted, UNCHANGED vars
  PROVE  TypeOK' /\ LineAccounted'
BY TypeStep, LineStep

(* create() between its start and the answer of the browser. *)
LEMMA TriesKeep ==
  ASSUME HubInv, NEW r \in Request,
         \/ Reject(r) \/ AttemptTimesOut(r) \/ AttemptFails(r)
         \/ AttemptMisses(r) \/ Answered(r) \/ ReadAnswer(r)
  PROVE  HubInv'
<1>0. /\ RetryCount \in Nat /\ RetryCount >= 1
      /\ \A x \in Request : /\ joined[x] <= attempt[x]
                            /\ base[x] = "short" => attempt[x] <= RetryCount
  BY RetryAssumption DEF HubInv, LoopBounded
<1>1. /\ at[r] \in {"begin", "attempting", "reading"}
      /\ UNCHANGED <<vars, browser, sessions, lock, timer, deleting, disorder>>
  BY DEF Reject, AttemptTimesOut, AttemptFails, AttemptMisses, Answered, ReadAnswer
<1>2. PICK where \in {"failed", "attempting", "reading", "panicked", "named"} :
        /\ Loop' /\ at' = [at EXCEPT ![r] = where]
        /\ at[r] = "begin" => where = "failed"
  <2>1. CASE Reject(r) \/ AttemptFails(r)
    BY <2>1, LoopLeft DEF Reject, AttemptFails, Where
  <2>2. CASE AttemptTimesOut(r)
    <3>1. CASE attempt[r] < RetryCount
      <4>1. /\ attempt[r] + 1 \in 1..RetryCount + 1 /\ joined[r] \in 0..RetryCount
            /\ joined[r] < attempt[r] + 1 /\ attempt[r] + 1 <= RetryCount
        BY <1>0, <3>1, Types
      <4> QED BY <2>2, <3>1, <4>1, LoopGoesOn, Types DEF AttemptTimesOut
    <3>2. CASE ~(attempt[r] < RetryCount)
      BY <2>2, <3>2, LoopLeft DEF AttemptTimesOut, Where
    <3> QED BY <3>1, <3>2
  <2>3. CASE AttemptMisses(r)
    <3>1. attempt[r] + 1 \in 1..RetryCount + 1 /\ joined[r] \in 0..RetryCount /\ joined[r] < attempt[r] + 1
      BY <1>0, <2>3, Types DEF AttemptMisses
    <3> QED BY <2>3, <3>1, LoopGoesOn, Types DEF AttemptMisses
  <2>4. CASE Answered(r) \/ ReadAnswer(r)
    BY <2>4, LoopLeft DEF Answered, ReadAnswer, Where
  <2> QED BY <2>1, <2>2, <2>3, <2>4
<1>3. /\ UNCHANGED <<pc, browser, sessions, lock, timer, dpc, target, disorder>>
      /\ TypeOK' /\ LineAccounted'
  BY <1>1, Types, QueueAlone DEF vars, deleting
<1>4. \A x \in Request : at'[x] = IF x = r THEN where ELSE at[x]
  BY <1>2, Types
<1>5. HubTypeOK' /\ LoopBounded'
  BY <1>2, <1>3 DEF HubInv, HubTypeOK, Loop
<1>6. Handlers'
  BY <1>1, <1>2, <1>3, <1>4 DEF HubInv, Handlers
<1>7. Deletes'
  BY <1>1, <1>3, <1>4, Types DEF HubInv, Deletes, AtWork, Stopping
<1>8. Timers'
  BY <1>3 DEF HubInv, Timers
<1>9. BrowsersAccounted'
  BY <1>1, <1>2, <1>3, <1>4 DEF HubInv, Handlers, BrowsersAccounted, Abandoned, About, Where
<1> QED BY <1>3, <1>5, <1>6, <1>7, <1>8, <1>9 DEF HubInv

LEMMA StartKeeps ==
  ASSUME HubInv, NEW r \in Request, Start(r)
  PROVE  HubInv'
<1>1. Loop' /\ at' = [at EXCEPT ![r] = "attempting"]
  BY LoopGoesOn, RetryAssumption DEF Start
<1>2. /\ UNCHANGED <<pc, sessions, lock, timer, dpc, target, disorder>> /\ TypeOK' /\ LineAccounted'
  BY Types, QueueAlone DEF Start, vars, deleting
<1>3. /\ \A x \in Request : at'[x] = IF x = r THEN "attempting" ELSE at[x]
      /\ \A x \in Request : browser'[x] = IF x = r THEN "up" ELSE browser[x]
      /\ browser' \in [Request -> {"none", "up", "stopped"}]
      /\ at[r] = "begin" /\ pc[r] = "serving"
  BY <1>1, Types DEF Start
<1>4. HubTypeOK' /\ LoopBounded'
  BY <1>1, <1>2, <1>3 DEF HubInv, HubTypeOK, Loop
<1>5. Handlers'
  BY <1>2, <1>3 DEF HubInv, Handlers
<1>6. Deletes'
  BY <1>2, <1>3, Types DEF HubInv, Deletes, AtWork, Stopping
<1>7. Timers'
  BY <1>2 DEF HubInv, Timers
<1>8. BrowsersAccounted'
  BY <1>2, <1>3 DEF HubInv, BrowsersAccounted, Abandoned, About, Where
<1> QED BY <1>2, <1>4, <1>5, <1>6, <1>7, <1>8 DEF HubInv

LEMMA AbandonKeeps ==
  ASSUME HubInv, NEW r \in Request, Abandon(r)
  PROVE  HubInv'
<1>1. PICK where \in {"left", "panicked"}, left \in {"none", "up"} :
        Goes(r, where) /\ browser' = [browser EXCEPT ![r] = left]
  BY DEF Abandon
<1>2. Loop' /\ at' = [at EXCEPT ![r] = where]
  BY <1>1, LoopLeft DEF Where
<1>3. /\ UNCHANGED <<pc, sessions, lock, timer, dpc, target, disorder>> /\ TypeOK' /\ LineAccounted'
  BY Types, QueueAlone DEF Abandon, vars, deleting
<1>4. /\ \A x \in Request : at'[x] = IF x = r THEN where ELSE at[x]
      /\ \A x \in Request : browser'[x] = IF x = r THEN left ELSE browser[x]
      /\ browser' \in [Request -> {"none", "up", "stopped"}]
      /\ at[r] = "begin" /\ pc[r] = "serving"
  BY <1>1, <1>2, Types DEF Abandon
<1>5. HubTypeOK' /\ LoopBounded'
  BY <1>2, <1>3, <1>4 DEF HubInv, HubTypeOK, Loop
<1>6. Handlers'
  BY <1>3, <1>4 DEF HubInv, Handlers
<1>7. Deletes'
  BY <1>3, <1>4, Types DEF HubInv, Deletes, AtWork, Stopping
<1>8. Timers'
  BY <1>3 DEF HubInv, Timers
<1>9. BrowsersAccounted'
  BY <1>3, <1>4 DEF HubInv, BrowsersAccounted, Abandoned, About
<1> QED BY <1>3, <1>5, <1>6, <1>7, <1>8, <1>9 DEF HubInv

LEMMA StartTimerKeeps ==
  ASSUME HubInv, NEW r \in Request, StartTimer(r)
  PROVE  HubInv'
<1>1. Loop' /\ at' = [at EXCEPT ![r] = "timed"]
  BY LoopLeft DEF StartTimer, Where
<1>2. /\ UNCHANGED <<pc, browser, sessions, lock, dpc, target, disorder>> /\ TypeOK' /\ LineAccounted'
  BY Types, QueueAlone DEF StartTimer, vars, deleting
<1>3. /\ \A x \in Request : at'[x] = IF x = r THEN "timed" ELSE at[x]
      /\ \A x \in Request : timer'[x] = IF x = r THEN "armed" ELSE timer[x]
      /\ timer' \in [Request -> {"off", "armed", "fired", "closed"}]
      /\ at[r] = "named"
  BY <1>1, Types DEF StartTimer
<1>4. HubTypeOK' /\ LoopBounded'
  BY <1>1, <1>2, <1>3 DEF HubInv, HubTypeOK, Loop
<1>5. Handlers'
  BY <1>2, <1>3 DEF HubInv, Handlers
<1>6. Deletes'
  BY <1>2, <1>3, Types DEF HubInv, Deletes, AtWork, Stopping
<1>7. Timers'
  <2>1. timer[r] = "off"
    BY <1>3, Types DEF HubInv, Handlers
  <2> QED BY <1>2, <1>3, <2>1 DEF HubInv, Timers
<1>8. BrowsersAccounted'
  BY <1>2, <1>3 DEF HubInv, BrowsersAccounted, Abandoned, About, Where
<1> QED BY <1>2, <1>4, <1>5, <1>6, <1>7, <1>8 DEF HubInv

LEMMA PutKeeps ==
  ASSUME HubInv, NEW r \in Request, Put(r)
  PROVE  HubInv'
<1>1. Loop' /\ at' = [at EXCEPT ![r] = "put"]
  BY LoopLeft DEF Put, Where
<1>2. /\ UNCHANGED <<pc, browser, lock, timer, dpc, target, disorder>> /\ TypeOK' /\ LineAccounted'
  BY Types, QueueAlone DEF Put, vars, deleting
<1>3. /\ \A x \in Request : at'[x] = IF x = r THEN "put" ELSE at[x]
      /\ sessions' = sessions \cup {r} /\ at[r] = "timed"
  BY <1>1, Types DEF Put
<1>4. HubTypeOK' /\ LoopBounded'
  BY <1>1, <1>2, <1>3, Types DEF HubInv, HubTypeOK, Loop
<1>5. Handlers'
  BY <1>2, <1>3 DEF HubInv, Handlers
<1>6. Deletes'
  BY <1>2, <1>3, Types DEF HubInv, Deletes, AtWork, Stopping
<1>7. Timers'
  BY <1>2 DEF HubInv, Timers
<1>8. BrowsersAccounted'
  BY <1>2, <1>3 DEF HubInv, BrowsersAccounted, Abandoned, About, Where
<1> QED BY <1>2, <1>4, <1>5, <1>6, <1>7, <1>8 DEF HubInv

(* Create, Drop, cancel, and the way into create(). *)
LEMMA CallsKeep ==
  ASSUME HubInv, NEW r \in Request, CallCreate(r) \/ CallDrop(r) \/ Enter(r)
  PROVE  HubInv'
<1>1. /\ UNCHANGED <<at, attempt, base, joined, browser, sessions, lock, timer, dpc, target, disorder>>
      /\ TypeOK' /\ LineAccounted'
      /\ \A x \in Request : pc[x] = "serving" /\ at[x] \notin {"failed", "left", "put"} => pc'[x] = "serving"
  <2>1. CASE CallCreate(r)
    <3>1. at[r] = "put"
      BY <2>1 DEF CallCreate
    <3> QED BY <2>1, <3>1, Types, CreateMoves DEF CallCreate, handler, deleting
  <2>2. CASE CallDrop(r)
    <3>1. at[r] \in {"failed", "left"}
      BY <2>2 DEF CallDrop
    <3> QED BY <2>2, <3>1, Types, DropMoves DEF CallDrop, handler, deleting, Outcome
  <2>3. CASE Enter(r)
    BY <2>3, Types, EnterMoves DEF Enter, handler, deleting, Outcome
  <2> QED BY <2>1, <2>2, <2>3
<1>2. HubTypeOK' /\ LoopBounded'
  BY <1>1 DEF HubInv, HubTypeOK, LoopBounded
<1>3. Handlers' /\ Timers'
  BY <1>1 DEF HubInv, Handlers, Timers
<1>4. Deletes' /\ BrowsersAccounted'
  BY <1>1 DEF HubInv, Deletes, BrowsersAccounted, Abandoned, About
<1> QED BY <1>1, <1>2, <1>3, <1>4 DEF HubInv

(* The plain cancel. *)
LEMMA CancelKeeps ==
  ASSUME HubInv, NEW r \in Request, Cancel(r)
  PROVE  HubInv'
<1>1. /\ UNCHANGED <<pc, at, attempt, base, joined, sessions, lock, timer, dpc, target, disorder>>
      /\ TypeOK' /\ LineAccounted'
  BY Types, QueueAlone DEF Cancel, vars, handler, deleting
<1>2. /\ \A x \in Request : browser'[x] = IF x = r THEN "stopped" ELSE browser[x]
      /\ browser' \in [Request -> {"none", "up", "stopped"}]
      /\ at[r] = "failed"
  BY Types DEF Cancel
<1>3. HubTypeOK' /\ LoopBounded'
  BY <1>1, <1>2 DEF HubInv, HubTypeOK, LoopBounded
<1>4. Handlers' /\ Timers'
  BY <1>1, <1>2 DEF HubInv, Handlers, Timers
<1>5. Deletes' /\ BrowsersAccounted'
  BY <1>1, <1>2 DEF HubInv, Deletes, BrowsersAccounted, Abandoned, About
<1> QED BY <1>1, <1>3, <1>4, <1>5 DEF HubInv

LEMMA NewRequestKeeps ==
  ASSUME HubInv, NEW r \in Request, NewRequest(r)
  PROVE  HubInv'
<1>1. Loop' /\ at' = [at EXCEPT ![r] = "begin"]
  BY LoopLeft DEF NewRequest, Where
<1>2. /\ UNCHANGED <<sessions, lock, dpc, disorder>> /\ TypeOK' /\ LineAccounted'
      /\ \A x \in Request \ {r} : pc'[x] = pc[x]
  BY Types, AgainMoves DEF NewRequest
<1>3. /\ \A x \in Request : at'[x] = IF x = r THEN "begin" ELSE at[x]
      /\ \A x \in Request : browser'[x] = IF x = r THEN "none" ELSE browser[x]
      /\ \A x \in Request : timer'[x] = IF x = r THEN "off" ELSE timer[x]
      /\ browser' \in [Request -> {"none", "up", "stopped"}]
      /\ timer' \in [Request -> {"off", "armed", "fired", "closed"}]
      /\ r \notin sessions
      /\ \A d \in Deleter : dpc[d] = "idle" \/ target[d] # r
  BY <1>1, Types DEF NewRequest, About
<1>4. /\ target' \in [Deleter -> Request]
      /\ \A d \in Deleter : target'[d] # target[d] => d \in Client /\ dpc[d] = "idle"
  <2>1. (CHOOSE x \in Request : TRUE) \in Request
    OBVIOUS
  <2> QED BY <1>3, <2>1, Types DEF NewRequest
<1>5. \A x \in Request : target'[x] = x
  BY <1>4, DeleterAssumption, Types DEF HubInv, Timers
<1>6. HubTypeOK' /\ LoopBounded'
  BY <1>1, <1>2, <1>3, <1>4, Types DEF HubInv, HubTypeOK, Loop
<1>7. Handlers'
  BY <1>2, <1>3 DEF HubInv, Handlers
<1>8. Deletes'
  BY <1>2, <1>3, <1>4, Types DEF HubInv, Deletes, AtWork, Stopping
<1>9. Timers'
  BY <1>2, <1>3, <1>5, Types DEF HubInv, Timers
<1>10. BrowsersAccounted'
  BY <1>2, <1>3, <1>4 DEF HubInv, BrowsersAccounted, Abandoned, About, Where
<1> QED BY <1>2, <1>6, <1>7, <1>8, <1>9, <1>10 DEF HubInv

(* A timer's channel is closed or its time is up: Fire is more than that. *)
LEMMA TimerEndsKeeps ==
  ASSUME HubInv, NEW r \in Request, timer[r] = "armed",
         timer' = [timer EXCEPT ![r] = "fired"],
         UNCHANGED <<vars, handler, browser, sessions, lock, deleting, disorder>>
  PROVE  HubInv'
<1>1. /\ UNCHANGED <<pc, at, attempt, base, joined, browser, sessions, lock, dpc, target, disorder>>
      /\ TypeOK' /\ LineAccounted'
  BY Types, QueueAlone DEF vars, handler, deleting
<1>2. /\ \A x \in Request : timer'[x] = IF x = r THEN "fired" ELSE timer[x]
      /\ timer' \in [Request -> {"off", "armed", "fired", "closed"}]
  BY Types
<1>3. HubTypeOK' /\ LoopBounded'
  BY <1>1, <1>2 DEF HubInv, HubTypeOK, LoopBounded
<1>4. Handlers' /\ Timers'
  BY <1>1, <1>2 DEF HubInv, Handlers, Timers
<1>5. Deletes' /\ BrowsersAccounted'
  BY <1>1 DEF HubInv, Deletes, BrowsersAccounted, Abandoned, About
<1> QED BY <1>1, <1>3, <1>4, <1>5 DEF HubInv

(* A client sends a DELETE, or a timer does. *)
LEMMA BeginsKeep ==
  ASSUME HubInv,
         \/ \E c \in Client, r \in Request : SendDelete(c, r)
         \/ \E r \in Request : Fire(r)
  PROVE  HubInv'
<1>1. PICK d \in Deleter, r \in Request :
        /\ dpc' = [dpc EXCEPT ![d] = "get"] /\ target' = [target EXCEPT ![d] = r]
        /\ dpc[d] = "idle" /\ at[r] \in {"named", "timed", "put"}
        /\ UNCHANGED <<vars, handler, browser, sessions, lock, disorder>>
        /\ \/ d \in Client /\ UNCHANGED timer
           \/ d = r /\ timer[r] = "armed" /\ timer' = [timer EXCEPT ![r] = "fired"]
  <2>1. ASSUME NEW c \in Client, NEW r \in Request, SendDelete(c, r)
        PROVE  \E d \in Deleter, x \in Request :
                 /\ dpc' = [dpc EXCEPT ![d] = "get"] /\ target' = [target EXCEPT ![d] = x]
                 /\ dpc[d] = "idle" /\ at[x] \in {"named", "timed", "put"}
                 /\ UNCHANGED <<vars, handler, browser, sessions, lock, disorder>>
                 /\ \/ d \in Client /\ UNCHANGED timer
                    \/ d = x /\ timer[x] = "armed" /\ timer' = [timer EXCEPT ![x] = "fired"]
    BY <2>1, Types DEF SendDelete
  <2>2. ASSUME NEW r \in Request, Fire(r)
        PROVE  \E d \in Deleter, x \in Request :
                 /\ dpc' = [dpc EXCEPT ![d] = "get"] /\ target' = [target EXCEPT ![d] = x]
                 /\ dpc[d] = "idle" /\ at[x] \in {"named", "timed", "put"}
                 /\ UNCHANGED <<vars, handler, browser, sessions, lock, disorder>>
                 /\ \/ d \in Client /\ UNCHANGED timer
                    \/ d = x /\ timer[x] = "armed" /\ timer' = [timer EXCEPT ![x] = "fired"]
    <3>1. r \in Deleter /\ target[r] = r /\ dpc[r] = "idle" /\ at[r] \in {"timed", "put"}
      BY <2>2, Types DEF HubInv, Timers, Handlers, Fire
    <3>2. target = [target EXCEPT ![r] = r]
      BY <3>1, Types
    <3> QED BY <2>2, <3>1, <3>2 DEF Fire
  <2> QED BY <2>1, <2>2
<1>2. /\ UNCHANGED <<pc, at, attempt, base, joined, browser, sessions, lock, disorder>>
      /\ TypeOK' /\ LineAccounted'
  BY <1>1, Types, QueueAlone DEF vars, handler
<1>3. /\ dpc' \in [Deleter -> Progress] /\ target' \in [Deleter -> Request]
      /\ \A e \in Deleter : dpc'[e] = IF e = d THEN "get" ELSE dpc[e]
      /\ \A e \in Deleter : target'[e] = IF e = d THEN r ELSE target[e]
  BY <1>1, Types DEF Progress
<1>4. /\ timer' \in [Request -> {"off", "armed", "fired", "closed"}]
      /\ \A x \in Request : timer'[x] = timer[x] \/ (x = d /\ timer[x] = "armed" /\ timer'[x] = "fired")
      /\ d \in Request => d = r /\ timer'[d] = "fired"
  BY <1>1, DeleterAssumption, Types
<1>5. HubTypeOK' /\ LoopBounded'
  BY <1>2, <1>3, <1>4 DEF HubInv, HubTypeOK, LoopBounded
<1>6. Handlers'
  BY <1>2, <1>4 DEF HubInv, Handlers
<1>7. Deletes'
  BY <1>1, <1>2, <1>3 DEF HubInv, Deletes, AtWork, Stopping
<1>8. Timers'
  BY <1>3, <1>4, Types DEF HubInv, Timers
<1>9. BrowsersAccounted'
  BY <1>1, <1>2, <1>3 DEF HubInv, BrowsersAccounted, Abandoned, About
<1> QED BY <1>2, <1>5, <1>6, <1>7, <1>8, <1>9 DEF HubInv

(* A DELETE goes on: what it leaves alone, for the steps that follow. *)
LEMMA GetKeeps ==
  ASSUME HubInv, NEW d \in Deleter, Get(d) \/ Forward(d)
  PROVE  HubInv'
<1>1. /\ UNCHANGED <<pc, at, attempt, base, joined, browser, sessions, lock, timer, target>>
      /\ disorder' \in BOOLEAN /\ TypeOK' /\ LineAccounted'
  BY Types, QueueAlone DEF Get, Forward, vars, handler
<1>2. PICK place \in {"idle", "lock", "cancel"} :
        /\ dpc' = [dpc EXCEPT ![d] = place]
        /\ place = "lock" => dpc[d] = "get" /\ target[d] \in sessions
        /\ place = "idle" => dpc[d] = "get"
        /\ place = "cancel" => dpc[d] = "forward"
        /\ dpc[d] \in {"get", "forward"}
  BY Types DEF Get, Forward
<1>3. /\ \A e \in Deleter : dpc'[e] = IF e = d THEN place ELSE dpc[e]
      /\ dpc' \in [Deleter -> Progress]
  BY <1>2, Types DEF Progress
<1>4. HubTypeOK' /\ LoopBounded'
  BY <1>1, <1>3 DEF HubInv, HubTypeOK, LoopBounded
<1>5. Handlers'
  BY <1>1 DEF HubInv, Handlers
<1>6. Deletes'
  <2>1. target[d] \in sessions => at[target[d]] = "put"
    BY Types DEF HubInv, Handlers
  <2> QED BY <1>1, <1>2, <1>3, <2>1 DEF HubInv, Deletes, AtWork, Stopping
<1>7. Timers'
  BY <1>1, <1>2, <1>3, Types DEF HubInv, Timers
<1>8. BrowsersAccounted'
  BY <1>1, <1>2, <1>3 DEF HubInv, BrowsersAccounted, Abandoned, About
<1> QED BY <1>1, <1>4, <1>5, <1>6, <1>7, <1>8 DEF HubInv

LEMMA TakeOutKeeps ==
  ASSUME HubInv, NEW d \in Deleter, TakeOut(d)
  PROVE  HubInv'
<1> DEFINE r == target[d]
<1>0. r \in Request /\ at[r] = "put"
  BY Types DEF HubInv, Deletes, AtWork, TakeOut
<1>1. /\ UNCHANGED <<pc, at, attempt, base, joined, browser, target, disorder>>
      /\ TypeOK' /\ LineAccounted'
  BY Types, QueueAlone DEF TakeOut, vars, handler
<1>2. /\ \A e \in Deleter : dpc'[e] = IF e = d THEN "release" ELSE dpc[e]
      /\ dpc' \in [Deleter -> Progress]
      /\ dpc[d] = "lock" /\ sessions' = sessions \ {r}
      /\ lock' \in [Request -> BOOLEAN]
  BY <1>0, Types DEF TakeOut, Progress
<1>3. /\ timer' \in [Request -> {"off", "armed", "fired", "closed"}]
      /\ \A x \in Request : timer'[x] = timer[x] \/ (timer[x] = "armed" /\ timer'[x] = "closed")
  BY <1>0, Types DEF TakeOut
<1> HIDE DEF r
<1>4. HubTypeOK' /\ LoopBounded'
  BY <1>1, <1>2, <1>3, Types DEF HubInv, HubTypeOK, LoopBounded
<1>5. Handlers'
  BY <1>1, <1>2, <1>3 DEF HubInv, Handlers
<1>6. Deletes'
  BY <1>0, <1>1, <1>2 DEF HubInv, Deletes, AtWork, Stopping, r
<1>7. Timers'
  BY <1>1, <1>2, <1>3, Types DEF HubInv, Timers
<1>8. BrowsersAccounted'
  <2> SUFFICES ASSUME NEW x \in Request, browser[x] = "up"
               PROVE  \/ at[x] \in Where \ {"begin", "put"}
                      \/ x \in sessions'
                      \/ \E e \in Deleter : dpc'[e] \in Stopping /\ target[e] = x
    BY <1>1 DEF BrowsersAccounted, Abandoned, About, Where, Stopping
  <2>1. CASE x = r
    BY <1>2, <2>1 DEF r, Stopping
  <2>2. CASE x # r
    BY <1>2, <2>2 DEF HubInv, BrowsersAccounted, Abandoned, About, Where, Stopping
  <2> QED BY <2>1, <2>2
<1> QED BY <1>1, <1>4, <1>5, <1>6, <1>7, <1>8 DEF HubInv

(* Release, whether it is the session's own place or not. *)
LEMMA ReleaseKeeps ==
  ASSUME HubInv, NEW d \in Deleter, FreeSlot(d) \/ Uncount(d)
  PROVE  HubInv'
<1>1. /\ UNCHANGED <<at, attempt, base, joined, browser, sessions, timer, target, disorder>>
      /\ lock' \in [Request -> BOOLEAN]
  BY Types DEF FreeSlot, Uncount, handler
<1>2. /\ TypeOK' /\ LineAccounted'
      /\ \A x \in Request : pc[x] = "serving" => pc'[x] = "serving"
  BY Types, FreeMoves, UncountMoves DEF Outcome
<1>3. PICK place \in {"uncount", "forward"} :
        /\ dpc' = [dpc EXCEPT ![d] = place]
        /\ dpc[d] \in {"release", "uncount"}
  BY DEF FreeSlot, Uncount
<1>4. /\ \A e \in Deleter : dpc'[e] = IF e = d THEN place ELSE dpc[e]
      /\ dpc' \in [Deleter -> Progress]
  BY <1>3, Types DEF Progress
<1>5. HubTypeOK' /\ LoopBounded'
  BY <1>1, <1>2, <1>4 DEF HubInv, HubTypeOK, LoopBounded
<1>6. Handlers'
  BY <1>1, <1>2 DEF HubInv, Handlers
<1>7. Deletes'
  BY <1>1, <1>3, <1>4 DEF HubInv, Deletes, AtWork, Stopping
<1>8. Timers'
  BY <1>1, <1>3, <1>4, Types DEF HubInv, Timers
<1>9. BrowsersAccounted'
  BY <1>1, <1>3, <1>4 DEF HubInv, BrowsersAccounted, Abandoned, About
<1> QED BY <1>2, <1>5, <1>6, <1>7, <1>8, <1>9 DEF HubInv

LEMMA StopKeeps ==
  ASSUME HubInv, NEW d \in Deleter, Stop(d)
  PROVE  HubInv'
<1>0. target[d] \in Request /\ at[target[d]] = "put" /\ target[d] \notin sessions /\ dpc[d] = "cancel"
  BY Types DEF HubInv, Deletes, AtWork, Stopping, Stop
<1>1. /\ UNCHANGED <<pc, at, attempt, base, joined, sessions, lock, timer, target, disorder>>
      /\ TypeOK' /\ LineAccounted'
  BY Types, QueueAlone DEF Stop, vars, handler
<1>2. /\ \A e \in Deleter : dpc'[e] = IF e = d THEN "idle" ELSE dpc[e]
      /\ dpc' \in [Deleter -> Progress]
      /\ \A x \in Request : browser'[x] = IF x = target[d] THEN "stopped" ELSE browser[x]
      /\ browser' \in [Request -> {"none", "up", "stopped"}]
  BY <1>0, Types DEF Stop, Progress
<1>3. HubTypeOK' /\ LoopBounded'
  BY <1>1, <1>2 DEF HubInv, HubTypeOK, LoopBounded
<1>4. Handlers'
  BY <1>0, <1>1, <1>2 DEF HubInv, Handlers
<1>5. Deletes'
  BY <1>1, <1>2 DEF HubInv, Deletes, AtWork, Stopping
<1>6. Timers'
  BY <1>1, <1>2, Types DEF HubInv, Timers
<1>7. BrowsersAccounted'
  BY <1>1, <1>2 DEF HubInv, BrowsersAccounted, Abandoned, About
<1> QED BY <1>1, <1>3, <1>4, <1>5, <1>6, <1>7 DEF HubInv

(* The invariant of any order. *)
LEMMA HubStart == HubInit => HubInv
<1> SUFFICES ASSUME HubInit PROVE HubInv
  OBVIOUS
<1>1. IInv
  BY InitInv DEF HubInit
<1>2. HubTypeOK /\ LineAccounted
  <2>1. TypeOK /\ LineAccounted /\ sessions = {} /\ disorder = FALSE /\ target \in [Deleter -> Request]
    BY <1>1 DEF IInv, HubInit
  <2>2. /\ at \in [Request -> Where] /\ attempt \in [Request -> 1..RetryCount + 1]
        /\ base \in [Request -> {"short", "long"}] /\ joined \in [Request -> 0..RetryCount + 1]
    BY RetryAssumption DEF HubInit, Where
  <2>3. /\ browser \in [Request -> {"none", "up", "stopped"}] /\ lock \in [Request -> BOOLEAN]
        /\ timer \in [Request -> {"off", "armed", "fired", "closed"}]
    BY DEF HubInit
  <2>4. dpc \in [Deleter -> Progress]
    BY DEF HubInit, Progress
  <2> QED BY <2>1, <2>2, <2>3, <2>4 DEF HubTypeOK
<1>3. LoopBounded /\ Handlers /\ Timers
  BY RetryAssumption DEF HubInit, LoopBounded, Handlers, Timers, Deleter
<1>4. Deletes /\ BrowsersAccounted
  BY DEF HubInit, Deletes, AtWork, Stopping, BrowsersAccounted
<1> QED BY <1>2, <1>3, <1>4 DEF HubInv

LEMMA HubStep == HubInv /\ [HubNext]_hubvars => HubInv'
<1> SUFFICES ASSUME HubInv, [HubNext]_hubvars PROVE HubInv'
  OBVIOUS
<1>1. ASSUME NEW r \in Request, CreateSession(r)  PROVE HubInv'
  BY <1>1, TriesKeep, AbandonKeeps, StartKeeps, StartTimerKeeps, PutKeeps, CallsKeep,
          CancelKeeps DEF CreateSession
<1>2. ASSUME NEW d \in Deleter, DeleteSession(d)  PROVE HubInv'
  BY <1>2, GetKeeps, TakeOutKeeps, ReleaseKeeps, StopKeeps DEF DeleteSession
<1>3. ASSUME NEW r \in Request, Enter(r) \/ NewRequest(r)  PROVE HubInv'
  BY <1>3, CallsKeep, NewRequestKeeps
<1>4. CASE UNCHANGED hubvars
  <2>1. /\ UNCHANGED <<pc, at, attempt, base, joined, browser, sessions, lock, timer, dpc, target, disorder>>
        /\ TypeOK' /\ LineAccounted'
    BY <1>4, Types, QueueAlone DEF hubvars, vars, handler, deleting
  <2> QED BY <2>1 DEF HubInv, HubTypeOK, LoopBounded, Handlers, Deletes, Timers, BrowsersAccounted, Abandoned, About
<1> QED BY <1>1, <1>2, <1>3, <1>4, BeginsKeep DEF HubNext, Connects, Works

------------------------------------------------------------------------------
(* Until a DELETE meets another or create(). *)

LEMMA DisorderStays == HubInv /\ [HubNext]_hubvars /\ disorder => disorder'
<1> SUFFICES ASSUME HubInv, [HubNext]_hubvars, disorder PROVE disorder'
  OBVIOUS
<1>1. ASSUME NEW r \in Request, CreateSession(r) \/ Enter(r) \/ NewRequest(r) \/ Fire(r)
      PROVE  disorder'
  BY <1>1 DEF CreateSession, Reject, Abandon, Start, AttemptTimesOut, AttemptFails, AttemptMisses, Answered,
              ReadAnswer, StartTimer, Put, CallCreate, CallDrop, Cancel, Enter, NewRequest, Fire
<1>2. ASSUME NEW d \in Deleter, DeleteSession(d)  PROVE disorder'
  BY <1>2 DEF DeleteSession, Get, TakeOut, FreeSlot, Uncount, Forward, Stop
<1>3. ASSUME NEW c \in Client, NEW r \in Request, SendDelete(c, r)  PROVE disorder'
  BY <1>3 DEF SendDelete
<1>4. CASE UNCHANGED hubvars
  BY <1>4 DEF hubvars
<1> QED BY <1>1, <1>2, <1>3, <1>4 DEF HubNext, Connects, Works

(* Every step of the hub is one of the queue or none: the session that a      *)
(* DELETE releases is open when it takes from limit, and then releasing.      *)
LEMMA CallsStep == HubInv /\ Ordered /\ [HubNext]_hubvars => [Next]_vars
<1> SUFFICES ASSUME HubInv, Ordered, [HubNext]_hubvars PROVE [Next]_vars
  OBVIOUS
<1>0. pc \in [Request -> Location] /\ target \in [Deleter -> Request]
  BY Types
<1>1. ASSUME NEW r \in Request, CreateSession(r) \/ Enter(r) \/ NewRequest(r) \/ Fire(r)
      PROVE  [Next]_vars
  <2>1. CASE CallCreate(r) \/ CallDrop(r) \/ Enter(r) \/ NewRequest(r)
    BY <2>1 DEF CallCreate, CallDrop, Enter, NewRequest, Next
  <2>2. CASE UNCHANGED vars
    BY <2>2
  <2> QED BY <1>1, <2>1, <2>2
          DEF CreateSession, Reject, Abandon, Start, AttemptTimesOut, AttemptFails, AttemptMisses, Answered,
              ReadAnswer, StartTimer, Put, Cancel, Fire
<1>2. ASSUME NEW d \in Deleter, FreeSlot(d)  PROVE [Next]_vars
  <2>1. pc[target[d]] = "open" /\ target[d] \in Request
    BY <1>0, <1>2 DEF Ordered, Places, FreeSlot
  <2>2. Released(target[d], "open", "releasing") = [pc EXCEPT ![target[d]] = "releasing"]
    BY <1>0, <2>1 DEF Released
  <2>3. ReleaseLimit(target[d])
    BY <1>2, <2>1, <2>2 DEF FreeSlot, ReleaseLimit
  <2> QED BY <2>1, <2>3 DEF Next, Release
<1>3. ASSUME NEW d \in Deleter, Uncount(d)  PROVE [Next]_vars
  <2>1. pc[target[d]] = "releasing" /\ target[d] \in Request
    BY <1>0, <1>3 DEF Ordered, Places, Uncount
  <2>2. Released(target[d], "releasing", "over") = [pc EXCEPT ![target[d]] = "over"]
    BY <1>0, <2>1 DEF Released
  <2>3. ReleaseUsed(target[d])
    BY <1>3, <2>1, <2>2 DEF Uncount, ReleaseUsed
  <2> QED BY <2>1, <2>3 DEF Next, Release
<1>4. ASSUME NEW d \in Deleter, Get(d) \/ TakeOut(d) \/ Forward(d) \/ Stop(d)  PROVE [Next]_vars
  BY <1>4 DEF Get, TakeOut, Forward, Stop
<1>5. ASSUME NEW c \in Client, NEW r \in Request, SendDelete(c, r)  PROVE [Next]_vars
  BY <1>5 DEF SendDelete
<1>6. CASE UNCHANGED hubvars
  BY <1>6 DEF hubvars
<1> QED BY <1>1, <1>2, <1>3, <1>4, <1>5, <1>6 DEF HubNext, Connects, Works, DeleteSession

LEMMA QueueStep == IInv /\ [Next]_vars => IInv'
BY TypeStep, SlotsStep, GaugesStep, LineStep, PushersStep DEF IInv

(* What a step that is not of a DELETE at work has to leave as it is. *)
LEMMA AsideOfDeletes ==
  ASSUME HubInv, Ordered,
         \A d \in Deleter : dpc'[d] \in AtWork => dpc'[d] = dpc[d] /\ target'[d] = target[d],
         \A x \in Request : pc[x] \in {"open", "releasing"} => pc'[x] = pc[x],
         sessions \subseteq sessions'
  PROVE  Places' /\ OwnTargets'
<1>1. \A d \in Deleter : target[d] \in Request
  BY Types
<1>2. Places'
  BY <1>1 DEF Ordered, Places, AtWork, Stopping
<1>3. OwnTargets'
  BY DEF Ordered, OwnTargets
<1> QED BY <1>2, <1>3

LEMMA CreateInOrder ==
  ASSUME HubInv, Ordered, NEW r \in Request, CreateSession(r) \/ Enter(r) \/ NewRequest(r)
  PROVE  Places' /\ OwnTargets' /\ sessions' \subseteq At({"serving", "creating", "open"})'
<1> USE DEF Outcome
<1>0. /\ sessions \subseteq Request
      /\ \A x \in sessions : pc[x] \in {"serving", "creating", "open"} /\ at[x] = "put"
  BY Types DEF Ordered, At, HubInv, Handlers
<1>1. CASE CallCreate(r) \/ CallDrop(r) \/ Enter(r)
  <2>1. /\ UNCHANGED <<dpc, target, sessions>>
        /\ \A x \in Request : pc[x] \in {"open", "releasing"} => pc'[x] = pc[x]
        /\ \A x \in sessions : pc'[x] \in {"serving", "creating", "open"}
    <3>1. CASE CallCreate(r)
      BY <1>0, <3>1, Types, CreateMoves DEF CallCreate, deleting
    <3>2. CASE CallDrop(r)
      <4>1. at[r] \in {"failed", "left"}
        BY <3>2 DEF CallDrop
      <4> QED BY <1>0, <3>2, <4>1, Types, DropMoves DEF CallDrop, deleting
    <3>3. CASE Enter(r)
      BY <1>0, <3>3, Types, EnterMoves DEF Enter, deleting
    <3> QED BY <1>1, <3>1, <3>2, <3>3
  <2> QED BY <1>0, <2>1, AsideOfDeletes DEF At
<1>2. CASE NewRequest(r)
  <2>1. /\ UNCHANGED <<dpc, sessions>> /\ r \notin sessions
        /\ pc[r] = "over" /\ \A x \in Request \ {r} : pc'[x] = pc[x]
    BY <1>2, Types, AgainMoves DEF NewRequest
  <2>2. \A d \in Deleter : dpc'[d] \in AtWork => dpc'[d] = dpc[d] /\ target'[d] = target[d]
    BY <1>2, <2>1 DEF NewRequest, About, AtWork, Stopping
  <2>3. /\ \A x \in Request : pc[x] \in {"open", "releasing"} => pc'[x] = pc[x]
        /\ \A x \in sessions : pc'[x] \in {"serving", "creating", "open"}
    BY <1>0, <2>1
  <2> QED BY <1>0, <2>1, <2>2, <2>3, AsideOfDeletes DEF At
<1>3. CASE Put(r)
  <2>1. pc[r] = "serving"
    BY <1>3 DEF HubInv, Handlers, Put
  <2>2. UNCHANGED <<dpc, target, pc>> /\ sessions' = sessions \cup {r}
    BY <1>3 DEF Put, deleting, vars
  <2> QED BY <1>0, <2>1, <2>2, AsideOfDeletes DEF At
<1>4. CASE UNCHANGED <<vars, sessions, deleting>>
  <2>1. UNCHANGED <<dpc, target, pc, sessions>>
    BY <1>4 DEF vars, deleting
  <2> QED BY <1>0, <2>1, AsideOfDeletes DEF At
<1> QED BY <1>1, <1>2, <1>3, <1>4
        DEF CreateSession, Reject, Abandon, Start, AttemptTimesOut, AttemptFails, AttemptMisses, Answered,
            ReadAnswer, StartTimer, Cancel

LEMMA BeginInOrder ==
  ASSUME HubInv, Ordered,
         \/ \E c \in Client, r \in Request : SendDelete(c, r)
         \/ \E r \in Request : Fire(r)
  PROVE  Places' /\ OwnTargets' /\ sessions' \subseteq At({"serving", "creating", "open"})'
<1>1. /\ UNCHANGED <<pc, sessions>>
      /\ \E d \in Deleter : /\ dpc' = [dpc EXCEPT ![d] = "get"]
                            /\ \A e \in Deleter \ {d} : target'[e] = target[e]
  BY Types DEF SendDelete, Fire, vars
<1>2. \A d \in Deleter : dpc'[d] \in AtWork => dpc'[d] = dpc[d] /\ target'[d] = target[d]
  BY <1>1, Types DEF AtWork, Stopping
<1> QED BY <1>1, <1>2, AsideOfDeletes DEF Ordered, At

LEMMA DeleteInOrder ==
  ASSUME HubInv, Ordered, NEW d \in Deleter, DeleteSession(d), ~disorder'
  PROVE  Places' /\ OwnTargets' /\ sessions' \subseteq At({"serving", "creating", "open"})'
<1> USE DEF AtWork, Stopping, Outcome
<1>0. /\ sessions \subseteq Request /\ target \in [Deleter -> Request] /\ dpc \in [Deleter -> Progress]
      /\ \A x \in sessions : pc[x] \in {"serving", "creating", "open"}
  BY Types DEF Ordered, At
<1>1. CASE Get(d)
  <2>1. UNCHANGED <<pc, sessions, target>> /\ dpc[d] = "get"
    BY <1>1 DEF Get, vars
  <2>2. \A e \in Deleter : dpc'[e] = IF e # d THEN dpc[e]
                                    ELSE IF target[d] \in sessions THEN "lock" ELSE "idle"
    BY <1>0, <1>1 DEF Get
  <2>3. target[d] \in sessions => /\ pc[target[d]] = "open"
                                 /\ \A e \in Deleter : dpc[e] = "lock" => target[e] # target[d]
    BY <1>1 DEF Get, About
  <2>4. Places'
    BY <2>1, <2>2, <2>3 DEF Ordered, Places
  <2>5. OwnTargets'
    BY <2>1, <2>2, <2>3 DEF Ordered, OwnTargets, HubInv, Deletes
  <2> QED BY <1>0, <2>1, <2>4, <2>5 DEF At
<1>2. CASE TakeOut(d)
  <2>1. UNCHANGED <<pc, target>> /\ dpc[d] = "lock" /\ sessions' = sessions \ {target[d]}
    BY <1>2 DEF TakeOut, vars
  <2>2. \A e \in Deleter : dpc'[e] = IF e # d THEN dpc[e] ELSE "release"
    BY <1>0, <1>2 DEF TakeOut
  <2>3. Places'
    BY <2>1, <2>2 DEF Ordered, Places, OwnTargets
  <2>4. OwnTargets'
    BY <2>1, <2>2 DEF Ordered, OwnTargets
  <2> QED BY <1>0, <2>1, <2>3, <2>4 DEF At
<1>3. CASE FreeSlot(d)
  <2>1. UNCHANGED <<sessions, target>> /\ dpc[d] = "release"
    BY <1>3 DEF FreeSlot
  <2>2. \A e \in Deleter : dpc'[e] = IF e # d THEN dpc[e] ELSE "uncount"
    BY <1>0, <1>3 DEF FreeSlot
  <2>3. /\ pc[target[d]] = "open" /\ pc'[target[d]] = "releasing"
        /\ \A x \in Request \ {target[d]} : pc[x] \in Outcome => pc'[x] = pc[x]
        /\ target[d] \notin sessions
    BY <1>0, <1>3, <2>1, FreeMoves, Types DEF Ordered, Places, HubInv, Deletes
  <2>4. Places'
    BY <1>0, <2>1, <2>2, <2>3 DEF Ordered, Places, OwnTargets
  <2>5. OwnTargets'
    BY <2>1, <2>2 DEF Ordered, OwnTargets
  <2> QED BY <1>0, <2>1, <2>3, <2>4, <2>5 DEF At
<1>4. CASE Uncount(d)
  <2>1. UNCHANGED <<sessions, target>> /\ dpc[d] = "uncount"
    BY <1>4 DEF Uncount
  <2>2. \A e \in Deleter : dpc'[e] = IF e # d THEN dpc[e] ELSE "forward"
    BY <1>0, <1>4 DEF Uncount
  <2>3. /\ \A x \in Request \ {target[d]} : pc[x] \in Outcome => pc'[x] = pc[x]
        /\ target[d] \notin sessions
    BY <1>0, <1>4, <2>1, UncountMoves, Types DEF HubInv, Deletes
  <2>4. Places'
    BY <1>0, <2>1, <2>2, <2>3 DEF Ordered, Places, OwnTargets
  <2>5. OwnTargets'
    BY <2>1, <2>2 DEF Ordered, OwnTargets
  <2> QED BY <1>0, <2>1, <2>3, <2>4, <2>5 DEF At
<1>5. CASE Forward(d) \/ Stop(d)
  <2>1. UNCHANGED <<pc, sessions, target>> /\ dpc[d] \in {"forward", "cancel"}
    BY <1>5 DEF Forward, Stop, vars
  <2>2. \A e \in Deleter : e # d => dpc'[e] = dpc[e]
    BY <1>0, <1>5 DEF Forward, Stop
  <2>3. dpc'[d] \in {"cancel", "idle"}
    BY <1>0, <1>5 DEF Forward, Stop
  <2>4. Places'
    BY <2>1, <2>2, <2>3 DEF Ordered, Places
  <2>5. OwnTargets'
    BY <2>1, <2>2, <2>3 DEF Ordered, OwnTargets
  <2> QED BY <1>0, <2>1, <2>4, <2>5 DEF At
<1> QED BY <1>1, <1>2, <1>3, <1>4, <1>5 DEF DeleteSession

(* The invariant of order. *)
LEMMA OrderStart == HubInit => OrderInv
<1> SUFFICES ASSUME HubInit PROVE Ordered
  BY DEF OrderInv
<1>1. IInv
  BY InitInv DEF HubInit
<1>2. Places /\ OwnTargets /\ sessions = {}
  BY DEF HubInit, Places, OwnTargets, AtWork, Stopping
<1> QED BY <1>1, <1>2 DEF Ordered

LEMMA OrderStep == HubInv /\ OrderInv /\ [HubNext]_hubvars => OrderInv'
<1> SUFFICES ASSUME HubInv, OrderInv, [HubNext]_hubvars, ~disorder' PROVE Ordered'
  BY DEF OrderInv
<1>1. Ordered
  BY DisorderStays DEF OrderInv
<1>2. IInv'
  BY <1>1, CallsStep, QueueStep DEF Ordered
<1>3. Places' /\ OwnTargets' /\ sessions' \subseteq At({"serving", "creating", "open"})'
  <2>1. CASE UNCHANGED hubvars
    <3>1. UNCHANGED <<dpc, target, pc, sessions>>
      BY <2>1 DEF hubvars, vars, deleting
    <3> QED BY <1>1, <3>1, AsideOfDeletes DEF Ordered, At
  <2> QED BY <1>1, <2>1, CreateInOrder, BeginInOrder, DeleteInOrder DEF HubNext, Connects, Works
<1> QED BY <1>2, <1>3 DEF Ordered
------------------------------------------------------------------------------
(* The session's lock and its timer.                                          *)

UnderLock == {"release", "uncount"}

(* A lock that is held is held by one DELETE, between line 595 and the end of *)
(* Release, whatever else is wrong.                                           *)
LocksOwned ==
  /\ \A r \in Request : lock[r] => \E d \in Deleter : target[d] = r /\ dpc[d] \in UnderLock
  /\ \A d \in Deleter : dpc[d] \in UnderLock => lock[target[d]]
  /\ \A d, e \in Deleter :
       dpc[d] \in UnderLock /\ dpc[e] \in UnderLock /\ target[d] = target[e] => d = e

(* A session, from its timer's start on, has its timer, or the DELETE of the  *)
(* timer, or another DELETE that has found it in the map.                     *)
SessionsTimed == ~disorder => \A r \in Request : at[r] = "timed" \/ r \in sessions =>
  \/ timer[r] = "armed" \/ dpc[r] = "get"
  \/ \E d \in Deleter : target[d] = r /\ dpc[d] = "lock"

(* The lock stays with whom it was when no DELETE takes it or gives it back.  *)
LEMMA LocksStay ==
  ASSUME LocksOwned, lock' = lock,
         \A d \in Deleter : /\ dpc'[d] \in UnderLock <=> dpc[d] \in UnderLock
                            /\ dpc[d] \in UnderLock => target'[d] = target[d]
  PROVE  LocksOwned'
BY DEF LocksOwned

(* TakeOut takes a free lock and Uncount gives back its own. *)
LEMMA LocksStep == HubInv /\ LocksOwned /\ [HubNext]_hubvars => LocksOwned'
<1> SUFFICES ASSUME HubInv, LocksOwned, [HubNext]_hubvars PROVE LocksOwned'
  OBVIOUS
<1> USE DEF UnderLock
<1>0. /\ dpc \in [Deleter -> Progress] /\ target \in [Deleter -> Request]
      /\ lock \in [Request -> BOOLEAN] /\ Request \subseteq Deleter /\ Client \subseteq Deleter
  BY Types
<1>1. ASSUME NEW r \in Request, CreateSession(r) \/ Enter(r)  PROVE LocksOwned'
  <2>1. UNCHANGED <<lock, dpc, target>>
    BY <1>1 DEF CreateSession, Reject, Abandon, Start, AttemptTimesOut, AttemptFails, AttemptMisses, Answered,
                ReadAnswer, StartTimer, Put, CallCreate, CallDrop, Cancel, Enter, deleting
  <2> QED BY <2>1, LocksStay
<1>2. ASSUME NEW r \in Request, NewRequest(r)  PROVE LocksOwned'
  <2>1. UNCHANGED <<lock, dpc>> /\ \A d \in Deleter : dpc[d] # "idle" => target'[d] = target[d]
    BY <1>0, <1>2 DEF NewRequest, About
  <2> QED BY <2>1, LocksStay
<1>3. ASSUME NEW r \in Request, Fire(r) \/ \E c \in Client : SendDelete(c, r)  PROVE LocksOwned'
  <2>1. /\ lock' = lock
        /\ \E d \in Deleter : /\ dpc[d] = "idle" /\ dpc' = [dpc EXCEPT ![d] = "get"]
                              /\ \A x \in Deleter \ {d} : target'[x] = target[x]
    BY <1>0, <1>3 DEF Fire, SendDelete, HubInv, Timers
  <2> QED BY <1>0, <2>1, LocksStay
<1>4. ASSUME NEW d \in Deleter, Get(d) \/ FreeSlot(d) \/ Forward(d) \/ Stop(d)  PROVE LocksOwned'
  BY <1>0, <1>4, LocksStay DEF Get, FreeSlot, Forward, Stop
<1>5. ASSUME NEW d \in Deleter, TakeOut(d)  PROVE LocksOwned'
  <2>1. /\ ~lock[target[d]] /\ lock' = [lock EXCEPT ![target[d]] = TRUE]
        /\ dpc' = [dpc EXCEPT ![d] = "release"] /\ target' = target /\ target[d] \in Request
    BY <1>0, <1>5 DEF TakeOut
  <2>2. \A e \in Deleter : dpc[e] \in UnderLock => target[e] # target[d]
    BY <2>1 DEF LocksOwned
  <2> QED BY <1>0, <2>1, <2>2 DEF LocksOwned
<1>6. ASSUME NEW d \in Deleter, Uncount(d)  PROVE LocksOwned'
  <2>1. /\ dpc[d] = "uncount" /\ lock' = [lock EXCEPT ![target[d]] = FALSE]
        /\ dpc' = [dpc EXCEPT ![d] = "forward"] /\ target' = target /\ target[d] \in Request
    BY <1>0, <1>6 DEF Uncount
  <2>2. \A e \in Deleter \ {d} : dpc[e] \in UnderLock => target[e] # target[d]
    BY <2>1 DEF LocksOwned
  <2> QED BY <1>0, <2>1, <2>2 DEF LocksOwned
<1>7. CASE UNCHANGED hubvars
  BY <1>7, LocksStay DEF hubvars, deleting
<1> QED BY <1>1, <1>2, <1>3, <1>4, <1>5, <1>6, <1>7 DEF HubNext, Connects, Works, DeleteSession

(* A session keeps what will end it when none of that changes. *)
LEMMA TimersStay ==
  ASSUME HubInv, SessionsTimed, [HubNext]_hubvars,
         UNCHANGED <<timer, dpc, target>>,
         \A r \in Request : at'[r] = "timed" \/ r \in sessions' => at[r] = "timed" \/ r \in sessions
  PROVE  SessionsTimed'
BY DisorderStays DEF SessionsTimed

(* A timer that fires turns into a DELETE, and a DELETE that gets past the    *)
(* lookup takes the session out.                                              *)
LEMMA TimedStep == HubInv /\ SessionsTimed /\ [HubNext]_hubvars => SessionsTimed'
<1> SUFFICES ASSUME HubInv, SessionsTimed, [HubNext]_hubvars PROVE SessionsTimed'
  OBVIOUS
<1>0. /\ dpc \in [Deleter -> Progress] /\ target \in [Deleter -> Request] /\ at \in [Request -> Where]
      /\ timer \in [Request -> {"off", "armed", "fired", "closed"}]
      /\ sessions \subseteq Request /\ Request \subseteq Deleter /\ Client \subseteq Deleter
      /\ \A r \in Request : target[r] = r
      /\ disorder => disorder'
  BY Types, DisorderStays DEF HubInv, Timers
<1>1. ASSUME NEW r \in Request, StartTimer(r)  PROVE SessionsTimed'
  <2>1. /\ timer' = [timer EXCEPT ![r] = "armed"]
        /\ \A x \in Request \ {r} : at'[x] = at[x]
        /\ UNCHANGED <<sessions, dpc, target, disorder>>
    BY <1>0, <1>1 DEF StartTimer, Goes, deleting
  <2> QED BY <1>0, <2>1 DEF SessionsTimed
<1>2. ASSUME NEW r \in Request, CreateSession(r) \/ Enter(r), ~StartTimer(r)  PROVE SessionsTimed'
  <2>1. UNCHANGED <<timer, dpc, target>>
    BY <1>2 DEF CreateSession, Reject, Abandon, Start, AttemptTimesOut, AttemptFails, AttemptMisses, Answered,
                ReadAnswer, Put, CallCreate, CallDrop, Cancel, Enter, deleting
  <2>2. \A x \in Request : at'[x] = "timed" \/ x \in sessions' => at[x] = "timed" \/ x \in sessions
    BY <1>0, <1>2 DEF CreateSession, Reject, Abandon, Start, AttemptTimesOut, AttemptFails, AttemptMisses,
                      Answered, ReadAnswer, Put, CallCreate, CallDrop, Cancel, Enter, Goes, Attempt,
                      handler
  <2> QED BY <2>1, <2>2, TimersStay
<1>3. ASSUME NEW r \in Request, NewRequest(r)  PROVE SessionsTimed'
  <2>1. /\ UNCHANGED <<sessions, dpc, disorder>> /\ r \notin sessions /\ at'[r] = "begin"
        /\ \A x \in Request \ {r} : at'[x] = at[x] /\ timer'[x] = timer[x]
        /\ \A d \in Deleter : dpc[d] # "idle" => target'[d] = target[d]
    BY <1>0, <1>3 DEF NewRequest, Goes, About
  <2> QED BY <1>0, <2>1 DEF SessionsTimed
<1>4. ASSUME NEW r \in Request, NEW c \in Client, SendDelete(c, r)  PROVE SessionsTimed'
  <2>1. /\ UNCHANGED <<at, sessions, timer, disorder>> /\ dpc[c] = "idle" /\ c \notin Request
        /\ dpc' = [dpc EXCEPT ![c] = "get"] /\ target' = [target EXCEPT ![c] = r]
    BY <1>4, DeleterAssumption DEF SendDelete, handler
  <2> QED BY <1>0, <2>1 DEF SessionsTimed
<1>5. ASSUME NEW r \in Request, Fire(r)  PROVE SessionsTimed'
  <2>1. /\ UNCHANGED <<at, sessions, target, disorder>> /\ dpc[r] = "idle"
        /\ dpc' = [dpc EXCEPT ![r] = "get"] /\ \A x \in Request \ {r} : timer'[x] = timer[x]
    BY <1>0, <1>5 DEF Fire, handler, HubInv, Timers
  <2> QED BY <1>0, <2>1 DEF SessionsTimed
<1>6. ASSUME NEW d \in Deleter, Get(d)  PROVE SessionsTimed'
  <2>1. /\ UNCHANGED <<at, sessions, target, timer>> /\ dpc[d] = "get" /\ target[d] \in Request
        /\ dpc' = [dpc EXCEPT ![d] = IF target[d] \in sessions THEN "lock" ELSE "idle"]
        /\ ~disorder' /\ d \in Request => at[target[d]] # "timed"
    BY <1>0, <1>6 DEF Get, handler
  <2> QED BY <1>0, <2>1 DEF SessionsTimed
<1>7. ASSUME NEW d \in Deleter, TakeOut(d)  PROVE SessionsTimed'
  <2>1. /\ UNCHANGED <<at, target, disorder>> /\ dpc[d] = "lock" /\ target[d] \in Request
        /\ sessions' = sessions \ {target[d]} /\ dpc' = [dpc EXCEPT ![d] = "release"]
        /\ \A x \in Request \ {target[d]} : timer'[x] = timer[x]
    BY <1>0, <1>7 DEF TakeOut, handler
  <2>2. at[target[d]] = "put"
    BY <2>1 DEF HubInv, Deletes, AtWork
  <2> QED BY <1>0, <2>1, <2>2 DEF SessionsTimed
<1>8. ASSUME NEW d \in Deleter, FreeSlot(d) \/ Uncount(d) \/ Forward(d) \/ Stop(d)
      PROVE  SessionsTimed'
  <2>1. /\ UNCHANGED <<at, sessions, target, timer, disorder>> /\ dpc[d] \notin {"get", "lock"}
        /\ \A e \in Deleter \ {d} : dpc'[e] = dpc[e]
    BY <1>0, <1>8 DEF FreeSlot, Uncount, Forward, Stop, handler
  <2> QED BY <1>0, <2>1 DEF SessionsTimed
<1>9. CASE UNCHANGED hubvars
  BY <1>9, TimersStay DEF hubvars, handler, deleting
<1> QED BY <1>1, <1>2, <1>3, <1>4, <1>5, <1>6, <1>7, <1>8, <1>9
        DEF HubNext, Connects, Works, DeleteSession

(* The parts of the invariant hold at the start. *)
LEMMA OwnersStart == HubInit => LocksOwned /\ SessionsTimed
BY DEF HubInit, LocksOwned, SessionsTimed, UnderLock

==============================================================================
