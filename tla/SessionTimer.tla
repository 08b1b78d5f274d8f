----------------------------- MODULE SessionTimer -----------------------------
(* The idle timer of one session (selenoid.go).  sess.TimeoutCh is a channel  *)
(* whose goroutine, started by onTimeout, sends the session's DELETE after    *)
(* sess.Timeout unless the channel is closed before.  Whoever uses the        *)
(* session closes the channel and puts a new one in its place:                *)
(*   - proxy, for WebDriver commands, under sess.Lock; a DELETE takes the     *)
(*     session out of the map instead;                                        *)
(*   - reverseProxy, for devtools, VNC, ... connections, and the ticker       *)
(*     goroutine it starts, without the lock;                                 *)
(*   - wsdriverRoute, for each message, without the lock.                     *)
(* One action per statement that reads or writes the channel, so that the     *)
(* steps of the unlocked users interleave with everything else.               *)
(*                                                                            *)
(* What is due is done before time passes: the scheduler is fast when         *)
(* compared with the minutes of a Timeout.                                    *)
EXTENDS Naturals, FiniteSets

CONSTANTS Command,   \* WebDriver commands other than DELETE
          Delete,    \* DELETE requests of clients
          Stream,    \* connections served by reverseProxy
          Message,   \* connections served by wsdriverRoute
          Chan,      \* timeout channels; one that nobody uses is made again
          NoOne,
          Period     \* of the ticker: sess.Timeout / 2, in units of time

Timeout == 2 * Period

Ticker   == {<<"ticker", s>> : s \in Stream}
Deleter  == Delete \cup Chan         \* a channel's goroutine sends a DELETE too
Locked   == Command \cup Deleter
Unlocked == Stream \cup Message \cup Ticker
Process  == Locked \cup Unlocked

TickerOf(s) == <<"ticker", s>>

ASSUME PeriodAssumption  == Period \in Nat \ {0}
ASSUME ProcessAssumption ==
  /\ Command \cap Delete = {} /\ Command \cap Chan = {} /\ Delete \cap Chan = {}
  /\ Stream \cap Message = {} /\ Ticker \cap (Stream \cup Message) = {}
  /\ Locked \cap Unlocked = {} /\ NoOne \notin Process

VARIABLES
  alive,    \* the session is in the sessions map
  lock,     \* who holds sess.Lock
  ch,       \* sess.TimeoutCh
  timer,    \* each channel: open and armed, open and fired, or closed
  left,     \* time until an armed timer fires, Timeout for the others
  pc,       \* where each process is
  due,      \* time until the next tick of a stream's ticker, Period if it is off
  done,     \* streams whose webSocketsDoneChannel is closed
  idle,     \* time since the timer was last put back, Timeout at most
  crashed,  \* a panic outside of a request handler ended the program
  raced     \* history: two processes were at lines 655-662 or the like at once

vars == <<alive, lock, ch, timer, left, pc, due, done, idle, crashed, raced>>

(* off, idle  not running     get     a timer's DELETE is on its way          *)
(* lock       before sess.Lock.Lock()                                         *)
(* select     before `case <-sess.TimeoutCh`                                  *)
(* close      chose `default`, before close(sess.TimeoutCh)                   *)
(* arm        before sess.TimeoutCh = onTimeout(...), or sessions.Remove      *)
(* streaming, closing  a stream is served, and is before line 696             *)
(* waiting    a ticker is at its select                                       *)
Location   == {"off", "idle", "get", "lock", "select", "close", "arm",
               "streaming", "closing", "waiting"}
Refreshing == {"select", "close", "arm"}

Init == /\ alive = TRUE /\ lock = NoOne /\ crashed = FALSE /\ raced = FALSE
        /\ ch \in Chan
        /\ timer = [c \in Chan |-> IF c = ch THEN "armed" ELSE "closed"]
        /\ left = [c \in Chan |-> Timeout]
        /\ pc = [p \in Process |-> IF p \in Ticker THEN "off" ELSE "idle"]
        /\ due = [s \in Stream |-> Period] /\ done = {} /\ idle = 0

IsOpen(c) == timer[c] # "closed"

(* A channel nobody refers to any more, as good as a new one. *)
Unused(c) == c # ch /\ timer[c] # "armed" /\ pc[c] = "idle"

(* Bound: a use of the session begins only if the channels suffice for it and *)
(* for the uses already begun.                                                *)
Spare == Cardinality({p \in Process \ Deleter : pc[p] \in Refreshing \cup {"lock", "waiting"}})
           < Cardinality({c \in Chan : Unused(c)})

MoveTo(p, location) ==
  /\ ~crashed
  /\ pc' = [pc EXCEPT ![p] = location]
  /\ raced' = (raced \/ (location = "select"
                         /\ \E q \in Process \ {p} : pc[q] \in Refreshing))

------------------------------------------------------------------------------
(* Lines 584 and 595: the session is looked up before its lock is taken, and  *)
(* not again after.                                                           *)
Get(p) == /\ p \in Locked /\ pc[p] = IF p \in Chan THEN "get" ELSE "idle"
          /\ alive \/ p \in Chan
          /\ p \notin Chan => Spare
          /\ MoveTo(p, IF alive THEN "lock" ELSE "idle")
          /\ UNCHANGED <<alive, lock, ch, timer, left, due, done, idle, crashed>>

Lock(p) == /\ p \in Locked /\ pc[p] = "lock" /\ lock = NoOne
           /\ lock' = p
           /\ MoveTo(p, "select")
           /\ UNCHANGED <<alive, ch, timer, left, due, done, idle, crashed>>

(* Lines 653 and 882: a stream, once per connection, and a message look the   *)
(* session up and go on without the lock.                                     *)
Open(p) == /\ p \in Stream \cup Message /\ pc[p] = "idle"
           /\ p \in Stream => pc[TickerOf(p)] = "off"
           /\ alive /\ Spare
           /\ MoveTo(p, "select")
           /\ UNCHANGED <<alive, lock, ch, timer, left, due, done, idle, crashed>>

(* Wrong variant of Tick: the ticker's period is longer than the timeout. *)
TickLate(s) == /\ pc[TickerOf(s)] = "waiting" /\ due[s] = 0
               /\ due' = [due EXCEPT ![s] = Timeout + Period]
               /\ MoveTo(TickerOf(s), "select")
               /\ UNCHANGED <<alive, lock, ch, timer, left, done, idle, crashed>>

(* Line 671. *)
Tick(s) == /\ pc[TickerOf(s)] = "waiting" /\ due[s] = 0
           /\ due' = [due EXCEPT ![s] = Period]
           /\ MoveTo(TickerOf(s), "select")
           /\ UNCHANGED <<alive, lock, ch, timer, left, done, idle, crashed>>

(* Wrong variants of Select: the channel is closed without a look at it, or   *)
(* left open.                                                                 *)
SelectBlindly(p) == /\ pc[p] = "select"
                    /\ MoveTo(p, "close")
                    /\ UNCHANGED <<alive, lock, ch, timer, left, due, done, idle, crashed>>

SelectLeavesOpen(p) == /\ pc[p] = "select"
                       /\ MoveTo(p, "arm")
                       /\ UNCHANGED <<alive, lock, ch, timer, left, due, done, idle, crashed>>

(* Lines 597-598, 655-656, 672-673, 885-886. *)
Select(p) == /\ pc[p] = "select"
             /\ MoveTo(p, IF IsOpen(ch) THEN "close" ELSE "arm")
             /\ UNCHANGED <<alive, lock, ch, timer, left, due, done, idle, crashed>>

(* Lines 600, 658, 675, 888: sess.TimeoutCh is read again.                    *)
Close(p) == /\ pc[p] = "close" /\ IsOpen(ch)
            /\ timer' = [timer EXCEPT ![ch] = "closed"]
            /\ left' = [left EXCEPT ![ch] = Timeout]
            /\ MoveTo(p, "arm")
            /\ UNCHANGED <<alive, lock, ch, due, done, idle, crashed>>

Unlock(p) == lock' = IF lock = p THEN NoOne ELSE lock

(* The channel is closed by now: close panics.  net/http recovers from the    *)
(* panic of a handler and a deferred call unlocks; nobody recovers from that  *)
(* of a ticker.                                                               *)
Panic(p) == /\ pc[p] = "close" /\ ~IsOpen(ch)
            /\ Unlock(p)
            /\ MoveTo(p, IF p \in Ticker THEN "off" ELSE "idle")
            /\ crashed' = (p \in Ticker)
            /\ UNCHANGED <<alive, ch, timer, left, due, done, idle>>

(* Wrong variants of Arm: the timer is not put back, or with half its time.   *)
ArmForgotten(p) == /\ p \notin Deleter /\ pc[p] = "arm"
                   /\ Unlock(p)
                   /\ MoveTo(p, IF p \in Ticker THEN "waiting" ELSE "idle")
                   /\ UNCHANGED <<alive, ch, timer, left, due, done, idle, crashed>>

ArmHalf(p) == /\ p \notin Deleter /\ pc[p] = "arm"
              /\ ch' = CHOOSE c \in Chan : Unused(c)
              /\ timer' = [timer EXCEPT ![ch'] = "armed"]
              /\ left' = [left EXCEPT ![ch'] = Period]
              /\ idle' = 0
              /\ Unlock(p)
              /\ MoveTo(p, IF p \in Ticker THEN "waiting" ELSE "idle")
              /\ UNCHANGED <<alive, due, done, crashed>>

(* Lines 611, 660, 677, 891 with onTimeout, and what follows: proxy unlocks,  *)
(* reverseProxy starts its ticker and serves the connection.                  *)
Arm(p) == /\ ~crashed /\ p \notin Deleter /\ pc[p] = "arm"
          /\ \E c \in Chan : Unused(c)
          /\ ch' = CHOOSE c \in Chan : Unused(c)
          /\ timer' = [timer EXCEPT ![ch'] = "armed"]
          /\ idle' = 0
          /\ Unlock(p)
          /\ IF p \in Stream
               THEN pc' = [pc EXCEPT ![p] = "streaming", ![TickerOf(p)] = "waiting"]
               ELSE pc' = [pc EXCEPT ![p] = IF p \in Ticker THEN "waiting" ELSE "idle"]
          /\ UNCHANGED <<alive, left, due, done, crashed, raced>>

(* Wrong variant of Remove: the session stays in the map. *)
RemoveForgotten(p) == /\ p \in Deleter /\ pc[p] = "arm"
                      /\ Unlock(p)
                      /\ MoveTo(p, "idle")
                      /\ UNCHANGED <<alive, ch, timer, left, due, done, idle, crashed>>

(* Lines 602-609: a DELETE leaves the channel closed and removes the session. *)
Remove(p) == /\ p \in Deleter /\ pc[p] = "arm"
             /\ alive' = FALSE
             /\ Unlock(p)
             /\ MoveTo(p, "idle")
             /\ UNCHANGED <<ch, timer, left, due, done, idle, crashed>>

------------------------------------------------------------------------------
(* Lines 908-909 and 80-101: the time is over first and the goroutine sends   *)
(* the session's DELETE to its own server.                                    *)
Fire(c) == /\ timer[c] = "armed" /\ left[c] = 0
           /\ timer' = [timer EXCEPT ![c] = "fired"]
           /\ left' = [left EXCEPT ![c] = Timeout]
           /\ MoveTo(c, "get")
           /\ UNCHANGED <<alive, lock, ch, due, done, idle, crashed>>

(* Line 693: the connection ends, and the call returns or panics: the reverse *)
(* proxy aborts the handler when it cannot copy the rest of a response.       *)
StreamReturns(s) == /\ pc[s] = "streaming"
                    /\ MoveTo(s, "closing")
                    /\ UNCHANGED <<alive, lock, ch, timer, left, due, done, idle, crashed>>

StreamAborts(s) == /\ pc[s] = "streaming"
                   /\ MoveTo(s, "idle")
                   /\ UNCHANGED <<alive, lock, ch, timer, left, due, done, idle, crashed>>

(* Line 696, and what the ticker makes of it at lines 680-681. *)
CloseDone(s) == /\ pc[s] = "closing"
                /\ done' = done \cup {s}
                /\ MoveTo(s, "idle")
                /\ UNCHANGED <<alive, lock, ch, timer, left, due, idle, crashed>>

TickerStops(s) == /\ pc[TickerOf(s)] = "waiting" /\ s \in done
                  /\ due' = [due EXCEPT ![s] = Period]
                  /\ done' = done \ {s}
                  /\ MoveTo(TickerOf(s), "off")
                  /\ UNCHANGED <<alive, lock, ch, timer, left, idle, crashed>>

(* Something has to happen now. *)
Urgent == \/ \E p \in Process : pc[p] \in Refreshing \cup {"lock", "get", "closing"}
          \/ \E c \in Chan : timer[c] = "armed" /\ left[c] = 0
          \/ \E s \in Stream : pc[TickerOf(s)] = "waiting" /\ (due[s] = 0 \/ s \in done)

TimePasses == /\ ~crashed /\ ~Urgent
              /\ left' = [c \in Chan |-> IF timer[c] = "armed" THEN left[c] - 1 ELSE left[c]]
              /\ due' = [s \in Stream |-> IF pc[TickerOf(s)] = "waiting" THEN due[s] - 1
                                                                         ELSE due[s]]
              /\ idle' = IF idle < Timeout THEN idle + 1 ELSE idle
              /\ UNCHANGED <<alive, lock, ch, timer, pc, done, crashed, raced>>

------------------------------------------------------------------------------
Use(p)      == Select(p) \/ Close(p) \/ Panic(p) \/ Arm(p)
Proxy(p)    == Get(p) \/ Lock(p) \/ Remove(p)
Connects(s) == Tick(s) \/ StreamReturns(s) \/ StreamAborts(s) \/ CloseDone(s) \/ TickerStops(s)

(* The program is dead. *)
Dead == crashed /\ UNCHANGED vars

Next == \/ \E p \in Process : Use(p) \/ Proxy(p) \/ Open(p)
        \/ \E s \in Stream : Connects(s)
        \/ \E c \in Chan : Fire(c)
        \/ TimePasses
        \/ Dead

Spec == Init /\ [][Next]_vars

(* Time passes, and what has begun goes on.  Nobody has to use the session    *)
(* and no connection has to end.                                              *)
Fairness == /\ \A p \in Process : WF_vars(Use(p) \/ Lock(p) \/ Remove(p))
            /\ \A c \in Chan : WF_vars(Fire(c) \/ Get(c))
            /\ \A s \in Stream : WF_vars(Tick(s) \/ CloseDone(s) \/ TickerStops(s))
            /\ WF_vars(TimePasses)

FairSpec == Spec /\ Fairness

------------------------------------------------------------------------------
(* The state is made of values of the right kinds. *)
TypeOK == /\ alive \in BOOLEAN /\ crashed \in BOOLEAN /\ raced \in BOOLEAN
          /\ lock \in Locked \cup {NoOne} /\ ch \in Chan
          /\ timer \in [Chan -> {"armed", "fired", "closed"}]
          /\ left \in [Chan -> 0..Timeout]
          /\ pc \in [Process -> Location]
          /\ due \in [Stream -> 0..Period] /\ done \subseteq Stream
          /\ idle \in 0..Timeout

(* As long as the uses of the session do not overlap, it has one timer: every *)
(* goroutine that may delete it waits on the channel the next use will close. *)
OneTimer == ~raced => \A c \in Chan : timer[c] = "armed" => c = ch

(* What else holds as long as the uses do not overlap: there is one at a time, *)
(* the channel is as its user found or left it, an armed timer started when    *)
(* the session was last used, and the ticker of an open connection runs and    *)
(* has put the timer back less than its period ago.                            *)
OneUser == ~raced => \A p, q \in Process :
                       pc[p] \in Refreshing /\ pc[q] \in Refreshing => p = q

ChannelAsLeft ==
  ~raced => \A p \in Process : /\ pc[p] = "close" => IsOpen(ch)
                               /\ pc[p] = "arm" => ~IsOpen(ch)

TimerSinceUse == ~raced => \A c \in Chan : timer[c] = "armed" => left[c] + idle = Timeout

TickerInTime ==
  ~raced => \A s \in Stream :
              /\ pc[s] \in {"streaming", "closing"} => pc[TickerOf(s)] # "off"
              /\ s \in done => pc[s] = "idle" /\ pc[TickerOf(s)] # "off"
              /\ pc[TickerOf(s)] = "waiting" => idle + due[s] <= Period
              /\ pc[TickerOf(s)] \in Refreshing => idle <= Period

TimersReset == \A c \in Chan : timer[c] # "armed" => left[c] = Timeout

TickersTicking == \A s \in Stream : pc[TickerOf(s)] \in {"off", "waiting"} \cup Refreshing

IInv == TypeOK /\ OneUser /\ OneTimer /\ ChannelAsLeft /\ TimerSinceUse
               /\ TickerInTime /\ TimersReset /\ TickersTicking

(* A session in the map that nobody is using is never left without a timer:   *)
(* the channel of the session is armed or a DELETE is on its way.             *)
NeverUntimed == alive /\ ~crashed /\ (\A p \in Process : pc[p] \notin Refreshing)
                  => \/ timer[ch] = "armed"
                     \/ \E d \in Deleter : pc[d] \in {"get", "lock"}

(* What keeps it so, overlaps or not: an armed channel's goroutine sends its   *)
(* DELETE from the start, who saw the channel open after it fired comes back   *)
(* to close it, and who closed it, or saw it closed, puts it right.            *)
Attended ==
  /\ \A c \in Chan : timer[c] = "armed" => pc[c] = "idle"
  /\ alive /\ ~crashed =>
       \/ timer[ch] = "armed"
       \/ timer[ch] = "fired" /\ \E p \in Process :
            \/ p \in Deleter /\ pc[p] \in {"get", "lock"}
            \/ pc[p] \in {"select", "close"}
       \/ timer[ch] = "closed" /\ \E p \in Process : pc[p] = "arm"

(* Overlaps or not, the armed channel of the session started when it was last *)
(* put back.                                                                  *)
CurrentTimer == timer[ch] = "armed" => left[ch] + idle = Timeout

(* When a session has been idle for the whole Timeout its own timer is due, or *)
(* somebody is at work on it who cannot wait: a use that overlaps another may *)
(* cut the session's time short, never prolong it.                            *)
EndsInTime == alive /\ ~crashed /\ idle = Timeout =>
  \/ timer[ch] = "armed" /\ left[ch] = 0
  \/ \E p \in Process : pc[p] \in Refreshing \cup {"lock", "get", "closing"}

(* docs/faq.adoc:43: the timer only ends a session nobody has used for the    *)
(* whole Timeout.                                                             *)
TimesOutOnlyWhenIdle == [][\A c \in Chan : Fire(c) => idle = Timeout \/ ~alive]_vars

(* So it is as long as the uses of the session do not overlap. *)
SerialTimesOutOnlyWhenIdle ==
  [][\A c \in Chan : Fire(c) /\ ~raced => idle = Timeout]_vars

(* selenoid.go:664: the ticker keeps the session as long as a connection is   *)
(* established, if the uses of the session do not overlap.                    *)
ConnectionKeepsSession ==
  [][\A c \in Chan : Fire(c) /\ ~raced => \A s \in Stream : pc[s] # "streaming"]_vars

(* A channel is closed once: no use of the session panics unless it overlaps  *)
(* with another.                                                              *)
ClosedOnce == [][\A p \in Process : Panic(p) => raced]_vars

(* A session is never idle for good: it is deleted, used again, or the        *)
(* program is dead.                                                           *)
IdleSessionEnds == []<>(~alive \/ idle < Timeout \/ crashed)

(* selenoid.go:695: a ticker does not survive its connection. *)
TickerEnds == \A s \in Stream :
                pc[s] = "idle" /\ pc[TickerOf(s)] # "off"
                  ~> pc[TickerOf(s)] = "off" \/ crashed
==============================================================================
