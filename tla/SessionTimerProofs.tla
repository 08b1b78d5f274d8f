-------------------------- MODULE SessionTimerProofs --------------------------
(* What module SessionTimer guarantees for every number of commands, DELETEs, *)
(* connections and messages, every number of channels and every Timeout: as   *)
(* long as no two uses of the session overlap, the session has one timer, its *)
(* channel is closed once, and neither a session that is used nor one with an *)
(* open connection times out; and, whatever overlaps, an idle session ends in *)
(* time.                                                                      *)
EXTENDS SessionTimer, TLAPS

(* The processes are different goroutines. *)
LEMMA Processes ==
  /\ Stream \subseteq Process /\ Chan \subseteq Process /\ Ticker \subseteq Process
  /\ \A s \in Stream : /\ TickerOf(s) \in Ticker
                       /\ TickerOf(s) \notin Stream /\ TickerOf(s) \notin Chan
                       /\ TickerOf(s) \notin Deleter /\ TickerOf(s) \notin Locked
                       /\ TickerOf(s) \notin Message /\ s \notin Locked
  /\ \A s, t \in Stream : TickerOf(s) = TickerOf(t) => s = t
  /\ \A t \in Ticker : \E s \in Stream : t = TickerOf(s)
  /\ \A p \in Process : p \in Locked \/ p \in Stream \/ p \in Message \/ p \in Ticker
  /\ NoOne \notin Process
<1> USE ProcessAssumption DEF Process, Locked, Unlocked, Deleter, Ticker, TickerOf
<1>1. \A s, t \in Stream : TickerOf(s) = TickerOf(t) => s = t
  OBVIOUS
<1>2. \A s \in Stream : /\ TickerOf(s) \in Ticker /\ TickerOf(s) \notin Stream
                        /\ TickerOf(s) \notin Message /\ TickerOf(s) \notin Locked /\ s \notin Locked
  OBVIOUS
<1> QED BY <1>1, <1>2

(* What moving a process does, and what the history variable remembers of it. *)
LEMMA Moves ==
  ASSUME TypeOK, NEW p \in Process, NEW l, MoveTo(p, l)
  PROVE  /\ pc'[p] = l
         /\ \A q \in Process \ {p} : pc'[q] = pc[q]
         /\ ~raced' => ~raced
         /\ ~raced' /\ l = "select" => \A q \in Process \ {p} : pc[q] \notin Refreshing
         /\ l \in Location => pc' \in [Process -> Location]
         /\ raced' \in BOOLEAN /\ ~crashed
BY DEF TypeOK, MoveTo

(* The invariant holds at the start. *)
LEMMA InitInv == Init => IInv
<1> SUFFICES ASSUME Init PROVE IInv
  OBVIOUS
<1> USE Processes, PeriodAssumption DEF Init
<1>0. Timeout \in Nat /\ Timeout \in 0..Timeout /\ 0 \in 0..Timeout /\ Period \in 0..Period
  BY DEF Timeout
<1>1. TypeOK
  <2>1. pc \in [Process -> Location] /\ timer \in [Chan -> {"armed", "fired", "closed"}]
    BY DEF Location
  <2>2. left \in [Chan -> 0..Timeout] /\ due \in [Stream -> 0..Period]
    BY <1>0
  <2> QED BY <1>0, <2>1, <2>2 DEF TypeOK
<1>2. \A p \in Process : pc[p] \in {"off", "idle"}
  OBVIOUS
<1>3. OneUser /\ ChannelAsLeft
  BY <1>2 DEF OneUser, ChannelAsLeft, Refreshing
<1>4. OneTimer
  BY DEF OneTimer
<1>5. TimerSinceUse
  BY DEF TimerSinceUse, Timeout
<1>6. \A s \in Stream : pc[s] = "idle" /\ pc[TickerOf(s)] = "off"
  OBVIOUS
<1>7. TickerInTime /\ TickersTicking /\ TimersReset
  BY <1>6 DEF TickerInTime, TickersTicking, TimersReset, Refreshing
<1> QED BY <1>1, <1>3, <1>4, <1>5, <1>7 DEF IInv

(* Types are kept. *)
LEMMA TypeStep == TypeOK /\ [Next]_vars => TypeOK'
<1> SUFFICES ASSUME TypeOK, [Next]_vars PROVE TypeOK'
  OBVIOUS
<1> USE PeriodAssumption, Processes
<1>1. CASE UNCHANGED vars
  BY <1>1 DEF TypeOK, vars
<1>2. ASSUME NEW p \in Process, Select(p) \/ Close(p) \/ Panic(p)  PROVE TypeOK'
  <2>1. CASE Select(p)
    BY <2>1, Moves DEF Select, TypeOK, Location
  <2>2. CASE Close(p)
    BY <2>2, Moves DEF Close, TypeOK, Location, Timeout
  <2>3. CASE Panic(p)
    BY <2>3, Moves DEF Panic, Unlock, TypeOK, Location
  <2> QED BY <1>2, <2>1, <2>2, <2>3
<1>3. ASSUME NEW p \in Process, Arm(p)  PROVE TypeOK'
  <2>1. ch' \in Chan
    BY <1>3 DEF Arm
  <2>2. pc' \in [Process -> Location]
    BY <1>3 DEF Arm, TypeOK, Location
  <2> QED BY <1>3, <2>1, <2>2 DEF Arm, Unlock, TypeOK, Timeout
<1>4. ASSUME NEW p \in Process, Get(p) \/ Lock(p) \/ Remove(p)  PROVE TypeOK'
  <2>1. CASE Get(p)
    BY <2>1, Moves DEF Get, TypeOK, Location
  <2>2. CASE Lock(p)
    BY <2>2, Moves DEF Lock, TypeOK, Location
  <2>3. CASE Remove(p)
    BY <2>3, Moves DEF Remove, Unlock, TypeOK, Location
  <2> QED BY <1>4, <2>1, <2>2, <2>3
<1>5. ASSUME NEW p \in Process, Open(p)  PROVE TypeOK'
  BY <1>5, Moves DEF Open, TypeOK, Location
<1>6. ASSUME NEW s \in Stream, Connects(s)  PROVE TypeOK'
  <2>0. s \in Process /\ TickerOf(s) \in Process
    OBVIOUS
  <2>1. CASE Tick(s)
    BY <2>0, <2>1, Moves DEF Tick, TypeOK, Location
  <2>2. CASE StreamReturns(s) \/ StreamAborts(s)
    BY <2>0, <2>2, Moves DEF StreamReturns, StreamAborts, TypeOK, Location
  <2>3. CASE CloseDone(s)
    BY <2>0, <2>3, Moves DEF CloseDone, TypeOK, Location
  <2>4. CASE TickerStops(s)
    BY <2>0, <2>4, Moves DEF TickerStops, TypeOK, Location
  <2> QED BY <1>6, <2>1, <2>2, <2>3, <2>4 DEF Connects
<1>7. ASSUME NEW c \in Chan, Fire(c)  PROVE TypeOK'
  <2>0. c \in Process
    OBVIOUS
  <2> QED BY <1>7, <2>0, Moves DEF Fire, TypeOK, Location, Timeout
<1>8. CASE TimePasses
  <2>1. left' \in [Chan -> 0..Timeout]
    <3>1. \A c \in Chan : timer[c] = "armed" => left[c] # 0
      BY <1>8 DEF TimePasses, Urgent
    <3> QED BY <1>8, <3>1 DEF TimePasses, TypeOK, Timeout
  <2>2. due' \in [Stream -> 0..Period]
    <3>1. \A s \in Stream : pc[TickerOf(s)] = "waiting" => due[s] # 0
      BY <1>8 DEF TimePasses, Urgent
    <3> QED BY <1>8, <3>1 DEF TimePasses, TypeOK
  <2> QED BY <1>8, <2>1, <2>2 DEF TimePasses, TypeOK, Timeout
<1>9. CASE Dead
  BY <1>1, <1>9 DEF Dead
<1> QED BY <1>1, <1>2, <1>3, <1>4, <1>5, <1>6, <1>7, <1>8, <1>9 DEF Next, Use, Proxy

(* A ticker only is where its goroutine takes it. *)
LEMMA TickersStep == TypeOK /\ TickersTicking /\ [Next]_vars => TickersTicking'
<1> SUFFICES ASSUME TypeOK, TickersTicking, [Next]_vars, NEW s \in Stream
             PROVE  pc'[TickerOf(s)] \in {"off", "waiting"} \cup Refreshing
  BY DEF TickersTicking
<1> DEFINE t == TickerOf(s)
<1>0. /\ t \in Ticker /\ t \in Process /\ t \notin Locked /\ t \notin Deleter /\ t \notin Stream
      /\ t \notin Message /\ t \notin Chan
      /\ pc[t] \in {"off", "waiting"} \cup Refreshing
  BY Processes DEF TickersTicking
<1> HIDE DEF t
<1> USE Processes DEF Refreshing
<1>1. UNCHANGED vars => pc'[t] \in {"off", "waiting"} \cup Refreshing
  BY <1>0 DEF vars
<1>2. ASSUME NEW p \in Process, Select(p) \/ Close(p) \/ Panic(p)
      PROVE  pc'[t] \in {"off", "waiting"} \cup Refreshing
  BY <1>0, <1>2, Moves DEF Select, Close, Panic
<1>3. ASSUME NEW p \in Process, Arm(p)  PROVE pc'[t] \in {"off", "waiting"} \cup Refreshing
  BY <1>0, <1>3 DEF Arm, TypeOK
<1>4. ASSUME NEW p \in Process, Get(p) \/ Lock(p) \/ Remove(p) \/ Open(p)
      PROVE  pc'[t] \in {"off", "waiting"} \cup Refreshing
  BY <1>0, <1>4, Moves DEF Get, Lock, Remove, Open
<1>5. ASSUME NEW x \in Stream, Connects(x)  PROVE pc'[t] \in {"off", "waiting"} \cup Refreshing
  <2>0. x \in Process /\ TickerOf(x) \in Process /\ x # t
    BY <1>0
  <2> QED BY <1>0, <1>5, <2>0, Moves
          DEF Connects, Tick, StreamReturns, StreamAborts, CloseDone, TickerStops
<1>6. ASSUME NEW c \in Chan, Fire(c)  PROVE pc'[t] \in {"off", "waiting"} \cup Refreshing
  BY <1>0, <1>6, Moves DEF Fire
<1>7. TimePasses \/ Dead => pc'[t] \in {"off", "waiting"} \cup Refreshing
  BY <1>0, <1>1 DEF TimePasses, Dead
<1> QED BY <1>1, <1>2, <1>3, <1>4, <1>5, <1>6, <1>7 DEF Next, Use, Proxy, t

(* A timer that is not running starts from the whole Timeout. *)
LEMMA ResetStep == TypeOK /\ TimersReset /\ [Next]_vars => TimersReset'
<1> SUFFICES ASSUME TypeOK, TimersReset, [Next]_vars PROVE TimersReset'
  OBVIOUS
<1> USE DEF TimersReset
<1>1. CASE UNCHANGED <<timer, left>>
  BY <1>1
<1>2. ASSUME NEW p \in Process, Close(p)  PROVE TimersReset'
  BY <1>2 DEF Close, TypeOK
<1>3. ASSUME NEW p \in Process, Arm(p)  PROVE TimersReset'
  <2>1. ch' \in Chan /\ timer' = [timer EXCEPT ![ch'] = "armed"] /\ left' = left
    BY <1>3 DEF Arm
  <2> QED BY <2>1 DEF TypeOK
<1>4. ASSUME NEW c \in Chan, Fire(c)  PROVE TimersReset'
  BY <1>4 DEF Fire, TypeOK
<1>5. CASE TimePasses
  BY <1>5 DEF TimePasses
<1>6. ASSUME NEW p \in Process, Use(p) \/ Proxy(p) \/ Open(p)  PROVE TimersReset'
  BY <1>1, <1>2, <1>3, <1>6 DEF Use, Select, Panic, Proxy, Get, Lock, Remove, Open
<1>7. ASSUME NEW s \in Stream, Connects(s)  PROVE TimersReset'
  BY <1>1, <1>7 DEF Connects, Tick, StreamReturns, StreamAborts, CloseDone, TickerStops
<1> QED BY <1>1, <1>4, <1>5, <1>6, <1>7 DEF Next, Dead, vars

------------------------------------------------------------------------------
(* What the invariant says of a state in which no uses have overlapped. *)
LEMMA SerialFacts ==
  ASSUME IInv, ~raced
  PROVE  /\ TypeOK /\ TickersTicking /\ TimersReset
         /\ \A p, q \in Process : pc[p] \in Refreshing /\ pc[q] \in Refreshing => p = q
         /\ \A c \in Chan : timer[c] = "armed" => c = ch
         /\ \A p \in Process : pc[p] = "close" => IsOpen(ch)
         /\ \A p \in Process : pc[p] = "arm" => ~IsOpen(ch)
         /\ \A c \in Chan : timer[c] = "armed" => left[c] + idle = Timeout
         /\ \A s \in Stream :
              /\ pc[s] \in {"streaming", "closing"} => pc[TickerOf(s)] # "off"
              /\ s \in done => pc[s] = "idle" /\ pc[TickerOf(s)] # "off"
              /\ pc[TickerOf(s)] = "waiting" => idle + due[s] <= Period
              /\ pc[TickerOf(s)] \in Refreshing => idle <= Period
BY DEF IInv, OneUser, OneTimer, ChannelAsLeft, TimerSinceUse, TickerInTime

(* Once they have overlapped it is remembered. *)
LEMMA RacedForGood == TypeOK /\ [Next]_vars /\ ~raced' => ~raced
<1> SUFFICES ASSUME TypeOK, [Next]_vars, ~raced' PROVE ~raced
  OBVIOUS
<1> USE Processes
<1>1. ASSUME NEW p \in Process, NEW l, MoveTo(p, l)  PROVE ~raced
  BY <1>1, Moves
<1>2. CASE UNCHANGED vars
  BY <1>2 DEF vars
<1>3. ASSUME NEW p \in Process, Use(p) \/ Proxy(p) \/ Open(p)  PROVE ~raced
  BY <1>1, <1>3 DEF Use, Select, Close, Panic, Arm, Proxy, Get, Lock, Remove, Open
<1>4. ASSUME NEW s \in Stream, Connects(s)  PROVE ~raced
  <2>1. s \in Process /\ TickerOf(s) \in Process
    OBVIOUS
  <2> QED BY <1>1, <1>4, <2>1 DEF Connects, Tick, StreamReturns, StreamAborts, CloseDone, TickerStops
<1>5. ASSUME NEW c \in Chan, Fire(c)  PROVE ~raced
  BY <1>1, <1>5 DEF Fire
<1>6. CASE TimePasses \/ Dead
  BY <1>6 DEF TimePasses, Dead, vars
<1> QED BY <1>2, <1>3, <1>4, <1>5, <1>6 DEF Next

(* A channel closed once is not closed again. *)
LEMMA NoPanic ==
  ASSUME IInv, ~raced, NEW p \in Process
  PROVE  ~Panic(p)
BY SerialFacts DEF Panic

(* One use at a time stays one use at a time. *)
LEMMA OneUserStep == IInv /\ [Next]_vars => OneUser'
<1> SUFFICES ASSUME IInv, [Next]_vars, ~raced',
                    NEW p \in Process, NEW q \in Process,
                    pc'[p] \in Refreshing, pc'[q] \in Refreshing
             PROVE  p = q
  BY DEF OneUser
<1>0. /\ ~raced /\ TypeOK
      /\ \A x, y \in Process : pc[x] \in Refreshing /\ pc[y] \in Refreshing => x = y
  BY RacedForGood, SerialFacts DEF IInv
<1> USE Processes
<1>1. ASSUME NEW x \in Process, NEW l, MoveTo(x, l),
             l \in Refreshing => l = "select" \/ pc[x] \in Refreshing
      PROVE  p = q
  BY <1>0, <1>1, Moves
<1>2. CASE UNCHANGED vars
  BY <1>0, <1>2 DEF vars
<1>3. ASSUME NEW x \in Process, Use(x)  PROVE p = q
  <2>1. CASE Select(x) \/ Close(x) \/ Panic(x)
    BY <1>1, <2>1 DEF Select, Close, Panic, Refreshing
  <2>2. CASE Arm(x)
    <3>1. \A y \in Process : pc'[y] \in Refreshing => pc[y] \in Refreshing
      BY <1>0, <2>2 DEF Arm, TypeOK, Refreshing
    <3> QED BY <1>0, <3>1
  <2> QED BY <1>3, <2>1, <2>2 DEF Use
<1>4. ASSUME NEW x \in Process, Proxy(x) \/ Open(x)  PROVE p = q
  BY <1>1, <1>4 DEF Proxy, Get, Lock, Remove, Open, Refreshing
<1>5. ASSUME NEW s \in Stream, Connects(s)  PROVE p = q
  <2>1. s \in Process /\ TickerOf(s) \in Process
    OBVIOUS
  <2> QED BY <1>1, <1>5, <2>1
          DEF Connects, Tick, StreamReturns, StreamAborts, CloseDone, TickerStops, Refreshing
<1>6. ASSUME NEW c \in Chan, Fire(c)  PROVE p = q
  BY <1>1, <1>6 DEF Fire, Refreshing
<1>7. CASE TimePasses \/ Dead
  BY <1>0, <1>7 DEF TimePasses, Dead, vars
<1> QED BY <1>2, <1>3, <1>4, <1>5, <1>6, <1>7 DEF Next

(* A session keeps one timer, started when the session was last used, and its *)
(* user keeps its channel as it found or left it.                             *)
LEMMA TimerStep ==
  IInv /\ [Next]_vars => OneTimer' /\ ChannelAsLeft' /\ TimerSinceUse'
<1> SUFFICES ASSUME IInv, [Next]_vars, ~raced'
             PROVE  /\ \A c \in Chan : timer'[c] = "armed" => c = ch' /\ left'[c] + idle' = Timeout
                    /\ \A p \in Process : /\ pc'[p] = "close" => IsOpen(ch)'
                                          /\ pc'[p] = "arm" => ~IsOpen(ch)'
  BY DEF OneTimer, ChannelAsLeft, TimerSinceUse
<1> DEFINE Goal == /\ \A c \in Chan : timer'[c] = "armed" => c = ch' /\ left'[c] + idle' = Timeout
                   /\ \A p \in Process : /\ pc'[p] = "close" => IsOpen(ch)'
                                         /\ pc'[p] = "arm" => ~IsOpen(ch)'
<1>0. /\ ~raced /\ TypeOK
      /\ \A x, y \in Process : pc[x] \in Refreshing /\ pc[y] \in Refreshing => x = y
      /\ \A c \in Chan : timer[c] = "armed" => c = ch /\ left[c] + idle = Timeout
      /\ \A p \in Process : pc[p] = "close" => IsOpen(ch)
      /\ \A p \in Process : pc[p] = "arm" => ~IsOpen(ch)
  BY RacedForGood, SerialFacts DEF IInv
<1>1. ch \in Chan /\ timer \in [Chan -> {"armed", "fired", "closed"}]
      /\ left \in [Chan -> 0..Timeout] /\ idle \in 0..Timeout /\ Timeout \in Nat /\ Period \in Nat \ {0}
  BY <1>0, PeriodAssumption DEF TypeOK, Timeout
<1> USE Processes
<1>2. ASSUME NEW x \in Process, NEW l, MoveTo(x, l), UNCHANGED <<ch, timer, left, idle>>,
             l = "close" => IsOpen(ch), l = "arm" => ~IsOpen(ch)
      PROVE  Goal
  BY <1>0, <1>2, Moves DEF IsOpen
<1>3. CASE UNCHANGED vars
  BY <1>0, <1>3 DEF vars, IsOpen
<1>4. ASSUME NEW x \in Process, Select(x)  PROVE Goal
  BY <1>2, <1>4 DEF Select
<1>5. ASSUME NEW x \in Process, Close(x)  PROVE Goal
  <2>1. /\ pc[x] = "close" /\ pc'[x] = "arm" /\ \A y \in Process \ {x} : pc'[y] = pc[y]
    BY <1>0, <1>5, Moves DEF Close
  <2>2. \A y \in Process \ {x} : pc'[y] \notin Refreshing
    BY <1>0, <2>1 DEF Refreshing
  <2>3. \A c \in Chan : timer'[c] # "armed"
    BY <1>0, <1>1, <1>5 DEF Close
  <2>4. ~IsOpen(ch)'
    BY <1>1, <1>5 DEF Close, IsOpen
  <2> QED BY <2>1, <2>2, <2>3, <2>4 DEF Refreshing
<1>6. ASSUME NEW x \in Process, Panic(x)  PROVE Goal
  BY <1>0, <1>6, NoPanic
<1>7. ASSUME NEW x \in Process, Arm(x)  PROVE Goal
  <2>1. /\ pc[x] = "arm" /\ pc'[x] \notin Refreshing
        /\ \A y \in Process \ {x} : pc'[y] = pc[y] \/ pc'[y] \notin Refreshing
    BY <1>0, <1>7 DEF Arm, TypeOK, Refreshing
  <2>2. \A y \in Process : pc'[y] \notin Refreshing
    BY <1>0, <2>1 DEF Refreshing
  <2>3. ch' \in Chan /\ Unused(ch')
    BY <1>7 DEF Arm
  <2>4. timer' = [timer EXCEPT ![ch'] = "armed"] /\ left' = left /\ idle' = 0
    BY <1>7 DEF Arm
  <2>5. ~IsOpen(ch)
    BY <1>0, <2>1
  <2>6. left[ch'] = Timeout
    BY <1>0, <2>3, SerialFacts DEF Unused, TimersReset
  <2>7. \A c \in Chan : timer'[c] = "armed" => c = ch'
    BY <1>0, <1>1, <2>4, <2>5 DEF IsOpen
  <2> QED BY <1>1, <2>2, <2>4, <2>6, <2>7 DEF Refreshing
<1>8. ASSUME NEW x \in Process, Proxy(x) \/ Open(x)  PROVE Goal
  BY <1>2, <1>8 DEF Proxy, Get, Lock, Remove, Open
<1>9. ASSUME NEW s \in Stream, Connects(s)  PROVE Goal
  <2>1. s \in Process /\ TickerOf(s) \in Process
    OBVIOUS
  <2> QED BY <1>2, <1>9, <2>1
          DEF Connects, Tick, StreamReturns, StreamAborts, CloseDone, TickerStops
<1>10. ASSUME NEW c \in Chan, Fire(c)  PROVE Goal
  <2>1. c = ch /\ IsOpen(ch) /\ \A p \in Process : pc[p] # "arm"
    BY <1>0, <1>1, <1>10 DEF Fire, IsOpen
  <2>2. /\ pc'[c] = "get" /\ \A y \in Process \ {c} : pc'[y] = pc[y]
    BY <1>0, <1>10, Moves DEF Fire
  <2>3. \A d \in Chan : timer'[d] # "armed"
    BY <1>0, <1>1, <1>10, <2>1 DEF Fire
  <2>4. IsOpen(ch)'
    BY <1>1, <1>10, <2>1 DEF Fire, IsOpen
  <2>5. \A p \in Process : pc'[p] # "arm"
    BY <2>1, <2>2
  <2> QED BY <2>3, <2>4, <2>5
<1>11. CASE TimePasses
  <2>1. \A c \in Chan : timer[c] = "armed" => left[c] # 0
    BY <1>11 DEF TimePasses, Urgent
  <2>2. \A c \in Chan : timer[c] = "armed" => left'[c] + idle' = Timeout
    BY <1>0, <1>1, <1>11, <2>1 DEF TimePasses
  <2> QED BY <1>0, <1>11, <2>2 DEF TimePasses, IsOpen
<1>12. CASE Dead
  BY <1>3, <1>12 DEF Dead
<1> QED BY <1>3, <1>4, <1>5, <1>6, <1>7, <1>8, <1>9, <1>10, <1>11, <1>12 DEF Next, Use

(* Without overlaps a ticker puts the timer back in time. *)
LEMMA TickerStep == IInv /\ [Next]_vars => TickerInTime'
<1> SUFFICES ASSUME IInv, [Next]_vars, ~raced', NEW s \in Stream
             PROVE  /\ pc'[s] \in {"streaming", "closing"} => pc'[TickerOf(s)] # "off"
                    /\ s \in done' => pc'[s] = "idle" /\ pc'[TickerOf(s)] # "off"
                    /\ pc'[TickerOf(s)] = "waiting" => idle' + due'[s] <= Period
                    /\ pc'[TickerOf(s)] \in Refreshing => idle' <= Period
  BY DEF TickerInTime
<1> DEFINE t == TickerOf(s)
           Goal == /\ pc'[s] \in {"streaming", "closing"} => pc'[t] # "off"
                   /\ s \in done' => pc'[s] = "idle" /\ pc'[t] # "off"
                   /\ pc'[t] = "waiting" => idle' + due'[s] <= Period
                   /\ pc'[t] \in Refreshing => idle' <= Period
<1>0. /\ ~raced /\ TypeOK
      /\ \A x, y \in Process : pc[x] \in Refreshing /\ pc[y] \in Refreshing => x = y
      /\ pc[s] \in {"streaming", "closing"} => pc[t] # "off"
      /\ s \in done => pc[s] = "idle" /\ pc[t] # "off"
      /\ pc[t] = "waiting" => idle + due[s] <= Period
      /\ pc[t] \in Refreshing => idle <= Period
      /\ pc[t] \in {"off", "waiting"} \cup Refreshing
  BY RacedForGood, SerialFacts DEF IInv, TickersTicking
<1>1. /\ s \in Process /\ t \in Process /\ t \in Ticker /\ t # s
      /\ t \notin Locked /\ t \notin Deleter /\ t \notin Stream /\ t \notin Message
      /\ t \notin Chan /\ s \notin Locked /\ s \notin Chan
      /\ \A x \in Stream : x # s => TickerOf(x) # t
      /\ \A x \in Stream : x \in Process /\ TickerOf(x) \in Process /\ TickerOf(x) # s
  BY Processes, ProcessAssumption DEF Locked, Deleter
<1>2. /\ due \in [Stream -> 0..Period] /\ idle \in 0..Timeout /\ Period \in Nat \ {0}
      /\ due[s] \in 0..Period /\ Timeout \in Nat
  BY <1>0, PeriodAssumption DEF TypeOK, Timeout
<1>3. ASSUME UNCHANGED <<due, done, idle>>, pc'[s] = pc[s], pc'[t] = pc[t]
      PROVE  Goal
  BY <1>0, <1>3
<1>4. ASSUME NEW x \in Process, NEW l, MoveTo(x, l), x # s, x # t, UNCHANGED <<due, done, idle>>
      PROVE  Goal
  BY <1>0, <1>1, <1>3, <1>4, Moves
<1>5. ASSUME NEW x \in Process, Select(x)  PROVE Goal
  <2>1. CASE x = t
    BY <1>0, <1>1, <1>5, <2>1, Moves DEF Select, Refreshing
  <2>2. CASE x = s
    BY <1>0, <1>1, <1>5, <2>2, Moves DEF Select, Refreshing
  <2> QED BY <1>4, <1>5, <2>1, <2>2 DEF Select
<1>6. ASSUME NEW x \in Process, Close(x)  PROVE Goal
  <2>1. CASE x = t
    BY <1>0, <1>1, <1>6, <2>1, Moves DEF Close, Refreshing
  <2>2. CASE x = s
    BY <1>0, <1>1, <1>6, <2>2, Moves DEF Close, Refreshing
  <2> QED BY <1>4, <1>6, <2>1, <2>2 DEF Close
<1>7. ASSUME NEW x \in Process, Arm(x)  PROVE Goal
  <2>1. /\ pc[x] = "arm" /\ idle' = 0 /\ due' = due /\ done' = done
        /\ x \in Stream => pc' = [pc EXCEPT ![x] = "streaming", ![TickerOf(x)] = "waiting"]
        /\ x \notin Stream => pc' = [pc EXCEPT ![x] = IF x \in Ticker THEN "waiting" ELSE "idle"]
    BY <1>7 DEF Arm
  <2>2. CASE x = s
    BY <1>0, <1>1, <1>2, <2>1, <2>2 DEF TypeOK, Refreshing
  <2>3. CASE x = t
    BY <1>0, <1>1, <1>2, <2>1, <2>3 DEF TypeOK, Refreshing
  <2>4. CASE x # s /\ x # t
    <3>1. pc'[s] = pc[s] /\ pc'[t] = pc[t]
      BY <1>0, <1>1, <2>1, <2>4 DEF TypeOK
    <3> QED BY <1>0, <1>2, <2>1, <3>1
  <2> QED BY <2>2, <2>3, <2>4
<1>8. ASSUME NEW x \in Process, Proxy(x)  PROVE Goal
  <2>1. x \in Locked
    BY <1>8, Processes DEF Proxy, Get, Lock, Remove, Locked, Deleter
  <2> QED BY <1>1, <1>4, <1>8, <2>1 DEF Proxy, Get, Lock, Remove
<1>9. ASSUME NEW x \in Process, Open(x)  PROVE Goal
  <2>1. CASE x = s
    BY <1>0, <1>1, <1>9, <2>1, Moves DEF Open, Refreshing
  <2> QED BY <1>1, <1>4, <1>9, <2>1 DEF Open
<1>10. ASSUME NEW x \in Stream, Connects(x), x # s  PROVE Goal
  <2>1. x # t /\ TickerOf(x) # t /\ TickerOf(x) # s /\ x \in Process /\ TickerOf(x) \in Process
    BY <1>1, <1>10
  <2>2. due'[s] = due[s] /\ (s \in done' <=> s \in done) /\ idle' = idle
    BY <1>2, <1>10 DEF Connects, Tick, StreamReturns, StreamAborts, CloseDone, TickerStops
  <2>3. pc'[s] = pc[s] /\ pc'[t] = pc[t]
    BY <1>0, <1>1, <1>10, <2>1, Moves
       DEF Connects, Tick, StreamReturns, StreamAborts, CloseDone, TickerStops
  <2> QED BY <1>0, <2>2, <2>3
<1>11. Connects(s) => Goal
  <2>1. CASE Tick(s)
    BY <1>0, <1>1, <1>2, <2>1, Moves DEF Tick, Refreshing
  <2>2. CASE StreamReturns(s) \/ StreamAborts(s)
    BY <1>0, <1>1, <2>2, Moves DEF StreamReturns, StreamAborts
  <2>3. CASE CloseDone(s)
    BY <1>0, <1>1, <2>3, Moves DEF CloseDone
  <2>4. CASE TickerStops(s)
    BY <1>0, <1>1, <2>4, Moves DEF TickerStops, Refreshing
  <2> QED BY <2>1, <2>2, <2>3, <2>4 DEF Connects
<1>12. ASSUME NEW c \in Chan, Fire(c)  PROVE Goal
  BY <1>1, <1>4, <1>12, Processes DEF Fire
<1>13. ASSUME TimePasses  PROVE Goal
  <2>1. pc[t] # "waiting" => pc[t] = "off"
    BY <1>0, <1>1, <1>13 DEF TimePasses, Urgent
  <2>2. /\ pc[t] = "waiting" => due[s] # 0 /\ due'[s] = due[s] - 1
        /\ idle' \in {idle, idle + 1} /\ pc' = pc /\ done' = done
    BY <1>13 DEF TimePasses, Urgent
  <2> QED BY <1>0, <1>2, <2>1, <2>2 DEF Refreshing
<1>14. ASSUME Dead \/ UNCHANGED vars  PROVE Goal
  BY <1>3, <1>14 DEF Dead, vars
<1>15. Goal
  <2>1. ASSUME NEW x \in Process, Use(x) \/ Proxy(x) \/ Open(x)  PROVE Goal
    BY <1>5, <1>6, <1>7, <1>8, <1>9, <2>1, NoPanic, <1>0 DEF Use
  <2>2. ASSUME NEW x \in Stream, Connects(x)  PROVE Goal
    BY <1>10, <1>11, <2>2
  <2> QED BY <2>1, <2>2, <1>12, <1>13, <1>14 DEF Next
<1> QED BY <1>15

------------------------------------------------------------------------------
(* The invariant is one. *)
THEOREM Invariance == Spec => []IInv
<1>1. Init => IInv
  BY InitInv
<1>2. IInv /\ [Next]_vars => IInv'
  BY TypeStep, OneUserStep, TimerStep, TickerStep, ResetStep, TickersStep DEF IInv
<1> QED BY <1>1, <1>2, PTL DEF Spec

(* Every variable has a value of its kind. *)
THEOREM TypeCorrectness == Spec => []TypeOK
<1>1. IInv => TypeOK
  BY DEF IInv
<1> QED BY <1>1, Invariance, PTL

(* As long as the uses of a session do not overlap, no goroutine other than   *)
(* the one of its present channel may delete it (onTimeout).                  *)
THEOREM SingleTimer == Spec => []OneTimer
<1>1. IInv => OneTimer
  BY DEF IInv
<1> QED BY <1>1, Invariance, PTL

(* No use of a session closes its channel twice, unless uses overlap.         *)
THEOREM ClosesOnce == Spec => ClosedOnce
<1>1. IInv /\ [Next]_vars => [\A p \in Process : Panic(p) => raced]_vars
  BY NoPanic
<1> QED BY <1>1, Invariance, PTL DEF Spec, ClosedOnce

(* When no uses have overlapped, a timer that fires has seen its session      *)
(* unused for the whole Timeout.                                              *)
LEMMA FiresIdle ==
  ASSUME IInv, NEW c \in Chan, Fire(c), ~raced
  PROVE  idle = Timeout /\ \A s \in Stream : pc[s] # "streaming"
<1>1. left[c] + idle = Timeout /\ left[c] = 0 /\ idle \in 0..Timeout
  BY SerialFacts DEF Fire, TypeOK
<1>2. idle = Timeout /\ Timeout > Period /\ Period \in Nat
  BY <1>1, PeriodAssumption DEF Timeout
<1>3. ASSUME NEW s \in Stream, pc[s] = "streaming"  PROVE FALSE
  <2>1. /\ pc[TickerOf(s)] # "off" /\ pc[TickerOf(s)] \in {"off", "waiting"} \cup Refreshing
        /\ pc[TickerOf(s)] = "waiting" => idle + due[s] <= Period
        /\ pc[TickerOf(s)] \in Refreshing => idle <= Period
        /\ due[s] \in 0..Period
    BY <1>3, SerialFacts DEF TickersTicking, TypeOK
  <2>2. idle <= Period
    BY <1>1, <1>2, <2>1, PeriodAssumption DEF Timeout
  <2> QED BY <1>2, <2>2, PeriodAssumption DEF Timeout
<1> QED BY <1>2, <1>3

(* A session is not timed out before its Timeout, unless uses overlap.        *)
THEOREM TimesOutWhenIdle == Spec => SerialTimesOutOnlyWhenIdle
<1>1. IInv /\ [Next]_vars => [\A c \in Chan : Fire(c) /\ ~raced => idle = Timeout]_vars
  BY FiresIdle
<1> QED BY <1>1, Invariance, PTL DEF Spec, SerialTimesOutOnlyWhenIdle

(* A session with an established connection is not timed out at all, unless   *)
(* uses overlap: the ticker of reverseProxy is fast enough.                   *)
THEOREM ConnectionsKeepSessions == Spec => ConnectionKeepsSession
<1>1. IInv /\ [Next]_vars
        => [\A c \in Chan : Fire(c) /\ ~raced => \A s \in Stream : pc[s] # "streaming"]_vars
  BY FiresIdle
<1> QED BY <1>1, Invariance, PTL DEF Spec, ConnectionKeepsSession
------------------------------------------------------------------------------
(* A session in the map is attended to, whatever overlaps.                    *)
LEMMA AttendedStep == TypeOK /\ Attended /\ [Next]_vars => Attended'
<1> SUFFICES ASSUME TypeOK, Attended, [Next]_vars PROVE Attended'
  OBVIOUS
<1> USE Processes
<1>0. /\ ch \in Chan /\ timer \in [Chan -> {"armed", "fired", "closed"}] /\ pc \in [Process -> Location]
      /\ \A c \in Chan : c \in Deleter /\ c \in Process /\ c \notin Stream \cup Message \cup Ticker
  BY ProcessAssumption DEF TypeOK, Deleter, Locked, Unlocked
<1>1. CASE UNCHANGED vars
  BY <1>1 DEF Attended, vars
<1>2. ASSUME NEW p \in Process, Select(p)  PROVE Attended'
  <2>1. /\ pc[p] = "select" /\ pc'[p] = (IF IsOpen(ch) THEN "close" ELSE "arm")
        /\ \A q \in Process \ {p} : pc'[q] = pc[q]
    BY <1>2, Moves DEF Select
  <2> QED BY <1>0, <1>2, <2>1 DEF Select, Attended, IsOpen
<1>3. ASSUME NEW p \in Process, Close(p)  PROVE Attended'
  <2>1. /\ pc[p] = "close" /\ pc'[p] = "arm" /\ \A q \in Process \ {p} : pc'[q] = pc[q]
    BY <1>3, Moves DEF Close
  <2> QED BY <1>0, <1>3, <2>1 DEF Close, Attended
<1>4. ASSUME NEW p \in Process, Panic(p)  PROVE Attended'
  <2>1. /\ pc[p] = "close" /\ pc'[p] \in {"off", "idle"} /\ ~crashed
        /\ \A q \in Process \ {p} : pc'[q] = pc[q]
    BY <1>4, Moves DEF Panic
  <2>2. timer[ch] = "closed" /\ UNCHANGED <<alive, ch, timer>>
    BY <1>0, <1>4 DEF Panic, IsOpen
  <2> QED BY <1>0, <2>1, <2>2 DEF Attended
<1>5. ASSUME NEW p \in Process, Arm(p)  PROVE Attended'
  <2>1. ch' \in Chan /\ Unused(ch') /\ timer' = [timer EXCEPT ![ch'] = "armed"]
    BY <1>5 DEF Arm
  <2>2. \A c \in Chan : pc'[c] = pc[c]
    <3>1. p \notin Chan
      BY <1>5 DEF Arm, Deleter
    <3> QED BY <1>0, <1>5, <3>1 DEF Arm
  <2> QED BY <1>0, <2>1, <2>2 DEF Attended, Unused
<1>6. ASSUME NEW p \in Process, Get(p) \/ Lock(p)  PROVE Attended'
  <2>1. /\ pc[p] \in {"get", "lock"} \/ p \notin Chan
        /\ \A q \in Process \ {p} : pc'[q] = pc[q]
        /\ alive /\ p \in Deleter => pc'[p] \in {"lock", "select"}
        /\ pc[p] \notin {"select", "close", "arm"}
    BY <1>6, Moves DEF Get, Lock
  <2> QED BY <1>0, <1>6, <2>1 DEF Get, Lock, Attended
<1>7. ASSUME NEW p \in Process, Remove(p)  PROVE Attended'
  <2>1. ~alive' /\ pc[p] # "idle" /\ \A q \in Process \ {p} : pc'[q] = pc[q]
    BY <1>7, Moves DEF Remove
  <2> QED BY <1>0, <1>7, <2>1 DEF Remove, Attended
<1>8. ASSUME NEW p \in Process, Open(p)  PROVE Attended'
  <2>1. p \in Stream \cup Message /\ pc[p] = "idle" /\ \A q \in Process \ {p} : pc'[q] = pc[q]
    BY <1>8, Moves DEF Open
  <2> QED BY <1>0, <1>8, <2>1 DEF Open, Attended
<1>9. ASSUME NEW s \in Stream, Connects(s)  PROVE Attended'
  <2>1. PICK p \in {s, TickerOf(s)} :
             /\ pc[p] \in {"waiting", "streaming", "closing"}
             /\ \A q \in Process \ {p} : pc'[q] = pc[q]
    <3>1. CASE Tick(s) \/ TickerStops(s)
      BY <3>1, Moves DEF Tick, TickerStops
    <3>2. CASE StreamReturns(s) \/ StreamAborts(s) \/ CloseDone(s)
      BY <3>2, Moves DEF StreamReturns, StreamAborts, CloseDone
    <3> QED BY <1>9, <3>1, <3>2 DEF Connects
  <2>2. UNCHANGED <<alive, ch, timer, crashed>>
    BY <1>9 DEF Connects, Tick, StreamReturns, StreamAborts, CloseDone, TickerStops
  <2> QED BY <1>0, <2>1, <2>2 DEF Attended
<1>10. ASSUME NEW c \in Chan, Fire(c)  PROVE Attended'
  <2>1. /\ pc[c] = "idle" /\ pc'[c] = "get" /\ \A q \in Process \ {c} : pc'[q] = pc[q]
    BY <1>0, <1>10, Moves DEF Fire, Attended
  <2> QED BY <1>0, <1>10, <2>1 DEF Fire, Attended
<1>11. CASE TimePasses \/ Dead
  BY <1>11 DEF TimePasses, Dead, vars, Attended
<1> QED BY <1>1, <1>2, <1>3, <1>4, <1>5, <1>6, <1>7, <1>8, <1>9, <1>10, <1>11 DEF Next, Use, Proxy

(* A session in the map is attended to in every reachable state. *)
LEMMA AttendedInvariance == Spec => [](TypeOK /\ Attended)
<1>1. Init => TypeOK /\ Attended
  <2>1. ASSUME Init PROVE Attended
    <3>1. \A c \in Chan : c \notin Ticker
      BY ProcessAssumption DEF Locked, Unlocked, Deleter
    <3> QED BY <2>1, <3>1, Processes DEF Init, Attended
  <2> QED BY <2>1, InitInv DEF IInv
<1>2. (TypeOK /\ Attended) /\ [Next]_vars => (TypeOK /\ Attended)'
  BY TypeStep, AttendedStep
<1> QED BY <1>1, <1>2, PTL DEF Spec

(* A session that nobody is using is never left without a timer that will end *)
(* it: this needs no condition on overlaps.                                   *)
THEOREM SessionsStayTimed == Spec => []NeverUntimed
<1>1. TypeOK /\ Attended => NeverUntimed
  BY Processes DEF Attended, NeverUntimed, Refreshing, TypeOK
<1> QED BY <1>1, AttendedInvariance, PTL

(* The channel of the session is armed with the whole Timeout when it is put  *)
(* back, and from then on loses what idle gains.                              *)
LEMMA CurrentStep == TypeOK /\ TimersReset /\ CurrentTimer /\ [Next]_vars => CurrentTimer'
<1> SUFFICES ASSUME TypeOK, TimersReset, CurrentTimer, [Next]_vars PROVE CurrentTimer'
  OBVIOUS
<1> USE DEF CurrentTimer
<1>0. /\ ch \in Chan /\ timer \in [Chan -> {"armed", "fired", "closed"}]
      /\ left \in [Chan -> 0..Timeout] /\ idle \in 0..Timeout /\ Timeout \in Nat
  BY PeriodAssumption DEF TypeOK, Timeout
<1>1. UNCHANGED <<ch, timer, left, idle>> => CurrentTimer'
  OBVIOUS
<1>2. ASSUME NEW p \in Process, Close(p)  PROVE CurrentTimer'
  BY <1>0, <1>2 DEF Close
<1>3. ASSUME NEW p \in Process, Arm(p)  PROVE CurrentTimer'
  <2>1. ch' \in Chan /\ Unused(ch') /\ left' = left /\ idle' = 0
    BY <1>3 DEF Arm
  <2> QED BY <1>0, <2>1 DEF Unused, TimersReset
<1>4. ASSUME NEW c \in Chan, Fire(c)  PROVE CurrentTimer'
  BY <1>0, <1>4 DEF Fire
<1>5. ASSUME TimePasses  PROVE CurrentTimer'
  <2>1. timer[ch] = "armed" => left[ch] # 0
    BY <1>0, <1>5 DEF TimePasses, Urgent
  <2> QED BY <1>0, <1>5, <2>1 DEF TimePasses
<1>6. ASSUME NEW p \in Process, Use(p) \/ Proxy(p) \/ Open(p)  PROVE CurrentTimer'
  BY <1>1, <1>2, <1>3, <1>6 DEF Use, Select, Panic, Proxy, Get, Lock, Remove, Open
<1>7. ASSUME NEW s \in Stream, Connects(s)  PROVE CurrentTimer'
  BY <1>1, <1>7 DEF Connects, Tick, StreamReturns, StreamAborts, CloseDone, TickerStops
<1> QED BY <1>1, <1>4, <1>5, <1>6, <1>7 DEF Next, Dead, vars

(* The core of IdleSessionEnds, with a bound: whatever overlaps, a session in *)
(* the map that has been idle for its Timeout is ended or used at once.       *)
THEOREM SessionsEndInTime == Spec => []EndsInTime
<1> DEFINE CInv == TypeOK /\ TimersReset /\ CurrentTimer
<1>1. Init => CInv
  BY InitInv, PeriodAssumption DEF IInv, CurrentTimer, Init, Timeout
<1>2. CInv /\ [Next]_vars => CInv'
  BY TypeStep, ResetStep, CurrentStep
<1>3. CInv /\ Attended => EndsInTime
  <2> SUFFICES ASSUME CInv, Attended, alive, ~crashed, idle = Timeout,
                      \A p \in Process : pc[p] \notin Refreshing \cup {"lock", "get", "closing"}
               PROVE  timer[ch] = "armed" /\ left[ch] = 0
    BY DEF EndsInTime
  <2>1. timer[ch] = "armed"
    BY Processes DEF Attended, Refreshing
  <2> QED BY <2>1, PeriodAssumption DEF TypeOK, CurrentTimer, Timeout
<1> QED BY <1>1, <1>2, <1>3, AttendedInvariance, PTL DEF Spec
==============================================================================
