--------------------------------- MODULE Hub ---------------------------------
(* The life of sessions: create() makes one of a request that the queue let   *)
(* in, and a DELETE, of a client through proxy() or of the session's timer,   *)
(* ends it (selenoid.go).  The queue is module Queue; what create() calls of  *)
(* it, Drop and Create, and what the DELETE calls, Release, become enabled    *)
(* here when the code gets there.  A session is named by its request.         *)
(*                                                                            *)
(* Commands, connections and messages, which only put the timer of a session  *)
(* back, are in module SessionTimer.                                          *)
EXTENDS Queue

CONSTANTS Client,       \* clients that send DELETEs
          RetryCount    \* -retry-count

Deleter == Client \cup Request       \* r: the goroutine that waits on r's timer

ASSUME RetryAssumption   == RetryCount \in Nat \ {0}
ASSUME DeleterAssumption == Client \cap Request = {}

VARIABLES
  at,         \* where create() is, for each request
  attempt,    \* i of its loop
  base,       \* u.Path: short, which adds nothing to r.URL.Path, or long
  joined,     \* how often a longer u.Path is put before r.URL.Path
  browser,    \* the container or driver of each request: none, up or stopped
  sessions,   \* the sessions map
  lock,       \* session.Lock: held by a DELETE or not
  timer,      \* the session's timer: off, armed, fired or closed
  dpc,        \* where each DELETE is
  target,     \* the session it is about
  disorder    \* history: a DELETE met a create() or another DELETE at work

handler == <<at, attempt, base, joined>>
deleting == <<dpc, target>>
hubvars == <<vars, handler, browser, sessions, lock, timer, deleting, disorder>>

(* begin       line 118          attempting  in httpClient.Do, line 229       *)
(* reading     past the loop, line 269                                        *)
(* named       the client has the session's id, line 313                      *)
(* timed       onTimeout runs, line 331         put  in the map, line 383     *)
(* failed      calls Drop, and then cancel if there is a browser              *)
(* left        calls Drop: a start that failed has left its container behind  *)
(* panicked    a panic that net/http recovered from                           *)
Where    == {"begin", "attempting", "reading", "named", "timed", "put", "failed", "left",
             "panicked"}
(* idle        no DELETE         get       before sessions.Get, line 584      *)
(* lock        line 595          release   line 608, at `<-limit`             *)
(* uncount     at `<-used`       forward   on its way to the browser and back *)
(* cancel      the handler has returned, line 573                             *)
Progress == {"idle", "get", "lock", "release", "uncount", "forward", "cancel"}

About(d, r) == dpc[d] # "idle" /\ target[d] = r

HubInit == /\ Init
           /\ at = [r \in Request |-> "begin"]
           /\ attempt = [r \in Request |-> 1]
           /\ base = [r \in Request |-> "short"]
           /\ joined = [r \in Request |-> 0]
           /\ browser = [r \in Request |-> "none"]
           /\ sessions = {}
           /\ lock = [r \in Request |-> FALSE]
           /\ timer = [r \in Request |-> "off"]
           /\ dpc = [d \in Deleter |-> "idle"]
           /\ target \in [Deleter -> Request]
           /\ \A r \in Request : target[r] = r
           /\ \A c \in Client : target[c] = CHOOSE r \in Request : TRUE
           /\ disorder = FALSE

------------------------------------------------------------------------------
(* The loop of create(): line 218 writes the path of an attempt into the      *)
(* request, where the next attempt finds it.                                  *)
Attempt(r, n, path, before) ==
  /\ at' = [at EXCEPT ![r] = "attempting"]
  /\ attempt' = [attempt EXCEPT ![r] = n]
  /\ base' = [base EXCEPT ![r] = path]
  /\ joined' = [joined EXCEPT ![r] = IF path = "long" THEN before + 1 ELSE before]

(* Outside of the loop its variables do not matter any more. *)
Goes(r, where) == /\ at' = [at EXCEPT ![r] = where]
                  /\ attempt' = [attempt EXCEPT ![r] = 1]
                  /\ base' = [base EXCEPT ![r] = "short"]
                  /\ joined' = [joined EXCEPT ![r] = 0]

(* Lines 118-207: the request is refused or no browser starts, or one that     *)
(* did has been ended again.                                                  *)
Reject(r) == /\ pc[r] = "serving" /\ at[r] = "begin"
             /\ Goes(r, "failed")
             /\ UNCHANGED <<vars, browser, sessions, lock, timer, deleting, disorder>>

(* Line 201, where module Services has the places unconnected, that of an     *)
(* error after which the container runs on, and panicked, in whose case it    *)
(* may have ended.  There is no cancel function yet.                          *)
Abandon(r) == /\ pc[r] = "serving" /\ at[r] = "begin"
              /\ \E where \in {"left", "panicked"} : \E left \in {"none", "up"} :
                   /\ where = "left" => left = "up"
                   /\ Goes(r, where)
                   /\ browser' = [browser EXCEPT ![r] = left]
              /\ UNCHANGED <<vars, sessions, lock, timer, deleting, disorder>>

(* Lines 201-229. *)
Start(r) == /\ pc[r] = "serving" /\ at[r] = "begin"
            /\ browser' = [browser EXCEPT ![r] = "up"]
            /\ \E path \in {"short", "long"} : Attempt(r, 1, path, 0)
            /\ UNCHANGED <<vars, sessions, lock, timer, deleting, disorder>>

(* Wrong variant: one attempt too many. *)
AttemptTimesOutOnceMore(r) ==
  /\ at[r] = "attempting"
  /\ IF attempt[r] <= RetryCount
       THEN Attempt(r, attempt[r] + 1, base[r], joined[r])
       ELSE Goes(r, "failed")
  /\ UNCHANGED <<vars, browser, sessions, lock, timer, deleting, disorder>>

(* Lines 236-243. *)
AttemptTimesOut(r) ==
  /\ at[r] = "attempting"
  /\ IF attempt[r] < RetryCount
       THEN Attempt(r, attempt[r] + 1, base[r], joined[r])
       ELSE Goes(r, "failed")
  /\ UNCHANGED <<vars, browser, sessions, lock, timer, deleting, disorder>>

(* Lines 244-260: the client is gone or the browser does not answer. *)
AttemptFails(r) == /\ at[r] = "attempting"
                   /\ Goes(r, "failed")
                   /\ UNCHANGED <<vars, browser, sessions, lock, timer, deleting, disorder>>

(* Lines 262-265: 404, and no path is configured. *)
AttemptMisses(r) ==
  /\ at[r] = "attempting" /\ base[r] = "short"
  /\ Attempt(r, attempt[r] + 1, "long", joined[r])
  /\ UNCHANGED <<vars, browser, sessions, lock, timer, deleting, disorder>>

Answered(r) == /\ at[r] = "attempting"
               /\ Goes(r, "reading")
               /\ UNCHANGED <<vars, browser, sessions, lock, timer, deleting, disorder>>

(* Lines 276-318: an answer that cannot be read, is no JSON or names no       *)
(* session fails; one whose sessionId is no string panics at line 455; from   *)
(* any other, the client knows the session before create() goes on.           *)
ReadAnswer(r) == /\ at[r] = "reading"
                 /\ \E where \in {"failed", "panicked", "named"} : Goes(r, where)
                 /\ UNCHANGED <<vars, browser, sessions, lock, timer, deleting, disorder>>

(* Wrong variant: the session has no timer before it is first used. *)
StartTimerForgotten(r) == /\ at[r] = "named"
                          /\ Goes(r, "timed")
                          /\ UNCHANGED <<vars, browser, sessions, lock, timer, deleting, disorder>>

(* Line 327. *)
StartTimer(r) == /\ at[r] = "named"
                 /\ timer' = [timer EXCEPT ![r] = "armed"]
                 /\ Goes(r, "timed")
                 /\ UNCHANGED <<vars, browser, sessions, lock, deleting, disorder>>

(* Line 382. *)
Put(r) == /\ at[r] = "timed"
          /\ sessions' = sessions \cup {r}
          /\ Goes(r, "put")
          /\ UNCHANGED <<vars, browser, lock, timer, deleting, disorder>>

(* Line 383. *)
CallCreate(r) == /\ at[r] = "put"
                 /\ Create(r)
                 /\ UNCHANGED <<handler, browser, sessions, lock, timer, deleting, disorder>>

(* Each of the failures: Drop. *)
CallDrop(r) == /\ at[r] \in {"failed", "left"}
               /\ Drop(r)
               /\ UNCHANGED <<handler, browser, sessions, lock, timer, deleting, disorder>>

(* Wrong variant: a failure that drops the request and not its browser. *)
CancelForgotten(r) == /\ at[r] = "failed" /\ pc[r] = "over" /\ browser[r] = "up"
                      /\ Goes(r, "begin")
                      /\ UNCHANGED <<vars, browser, sessions, lock, timer, deleting, disorder>>

(* Lines 248, 259, 295, 303, 316: cancel, after Drop. *)
Cancel(r) == /\ at[r] = "failed" /\ pc[r] = "over" /\ browser[r] = "up"
             /\ browser' = [browser EXCEPT ![r] = "stopped"]
             /\ UNCHANGED <<vars, handler, sessions, lock, timer, deleting, disorder>>

------------------------------------------------------------------------------
(* A client deletes a session that it knows. *)
SendDelete(c, r) == /\ c \in Client /\ dpc[c] = "idle"
                    /\ at[r] \in {"named", "timed", "put"}
                    /\ dpc' = [dpc EXCEPT ![c] = "get"]
                    /\ target' = [target EXCEPT ![c] = r]
                    /\ UNCHANGED <<vars, handler, browser, sessions, lock, timer, disorder>>

(* Lines 908-909 and 80-101: the timer's goroutine does. *)
Fire(r) == /\ timer[r] = "armed"
           /\ timer' = [timer EXCEPT ![r] = "fired"]
           /\ dpc' = [dpc EXCEPT ![r] = "get"]
           /\ UNCHANGED <<vars, handler, browser, sessions, lock, target, disorder>>

(* Line 584: an unknown session makes an error page of the request.           *)
(* The history: create() has not finished, or another DELETE has the session. *)
Get(d) == /\ dpc[d] = "get"
          /\ dpc' = [dpc EXCEPT ![d] = IF target[d] \in sessions THEN "lock" ELSE "idle"]
          /\ disorder' = \/ disorder
                         \/ at[target[d]] = "timed" /\ d \in Request
                         \/ target[d] \in sessions
                              /\ \/ pc[target[d]] # "open"
                                 \/ \E e \in Deleter : About(e, target[d]) /\ dpc[e] = "lock"
          /\ UNCHANGED <<vars, handler, browser, sessions, lock, timer, target>>

(* Wrong variant of TakeOut: the session is left in the map. *)
TakeOutNot(d) == LET r == target[d] IN
  /\ dpc[d] = "lock" /\ ~lock[r]
  /\ lock' = [lock EXCEPT ![r] = TRUE]
  /\ timer' = [timer EXCEPT ![r] = IF @ = "armed" THEN "closed" ELSE @]
  /\ dpc' = [dpc EXCEPT ![d] = "release"]
  /\ UNCHANGED <<vars, handler, browser, sessions, target, disorder>>

(* Lines 595-607: the lock, the timer, the cancel function and the map. *)
TakeOut(d) == LET r == target[d] IN
  /\ dpc[d] = "lock" /\ ~lock[r]
  /\ lock' = [lock EXCEPT ![r] = TRUE]
  /\ timer' = [timer EXCEPT ![r] = IF @ = "armed" THEN "closed" ELSE @]
  /\ sessions' = sessions \ {r}
  /\ dpc' = [dpc EXCEPT ![d] = "release"]
  /\ UNCHANGED <<vars, handler, browser, target, disorder>>

(* Where the queue has a session that is being released. *)
Released(r, from, to) == [pc EXCEPT ![r] = IF @ = from THEN to ELSE @]

(* Wrong variant: Release is called a second time, as if by the cancel        *)
(* function too.                                                              *)
FreeSlotTwice(d) == /\ dpc[d] \in {"release", "forward"}
                    /\ RecvLimit(Released(target[d], "open", "releasing"))
                    /\ dpc' = [dpc EXCEPT ![d] = "uncount"]
                    /\ UNCHANGED <<queued, pending, used, pusher>>
                    /\ UNCHANGED <<handler, browser, sessions, lock, timer, target, disorder>>

(* Line 608: Release takes an element of limit and one of used, whosesoever.  *)
FreeSlot(d) == /\ dpc[d] = "release"
               /\ RecvLimit(Released(target[d], "open", "releasing"))
               /\ dpc' = [dpc EXCEPT ![d] = "uncount"]
               /\ UNCHANGED <<queued, pending, used, pusher>>
               /\ UNCHANGED <<handler, browser, sessions, lock, timer, target, disorder>>

(* The deferred Unlock follows. *)
Uncount(d) == /\ dpc[d] = "uncount" /\ used > 0
              /\ used' = used - 1
              /\ pc' = Released(target[d], "releasing", "over")
              /\ lock' = [lock EXCEPT ![target[d]] = FALSE]
              /\ dpc' = [dpc EXCEPT ![d] = "forward"]
              /\ UNCHANGED <<limit, queued, pending, sendq, pusher>>
              /\ UNCHANGED <<handler, browser, sessions, timer, target, disorder>>

(* Wrong variant: the browser is also stopped by the handler itself. *)
StopTwice(d) == /\ dpc[d] \in {"forward", "cancel"}
                /\ browser' = [browser EXCEPT ![target[d]] = "stopped"]
                /\ dpc' = [dpc EXCEPT ![d] = IF @ = "cancel" THEN "idle" ELSE "cancel"]
                /\ UNCHANGED <<vars, handler, sessions, lock, timer, target, disorder>>

(* Lines 624-634: the browser answers the DELETE or fails to, and so the      *)
(* client has its answer.                                                     *)
Forward(d) == /\ dpc[d] = "forward"
              /\ dpc' = [dpc EXCEPT ![d] = "cancel"]
              /\ UNCHANGED <<vars, handler, browser, sessions, lock, timer, target, disorder>>

(* Lines 572-578 and 332: a goroutine of its own stops the browser.           *)
Stop(d) == /\ dpc[d] = "cancel"
           /\ browser' = [browser EXCEPT ![target[d]] = "stopped"]
           /\ dpc' = [dpc EXCEPT ![d] = "idle"]
           /\ UNCHANGED <<vars, handler, sessions, lock, timer, target, disorder>>

------------------------------------------------------------------------------
(* Module Queue up to next.ServeHTTP. *)
Enter(r) == /\ Protect(r) \/ Push(r)
            /\ UNCHANGED <<handler, browser, sessions, lock, timer, deleting, disorder>>

(* The next request of a client, when nothing is left of its last. *)
NewRequest(r) == /\ Again(r)
                 /\ browser[r] # "up" /\ timer[r] # "armed" /\ r \notin sessions
                 /\ \A d \in Deleter : ~About(d, r)
                 /\ Goes(r, "begin")
                 /\ browser' = [browser EXCEPT ![r] = "none"]
                 /\ timer' = [timer EXCEPT ![r] = "off"]
                 /\ target' = [d \in Deleter |-> IF d \in Client /\ target[d] = r
                                                   THEN CHOOSE x \in Request : TRUE
                                                   ELSE target[d]]
                 /\ UNCHANGED <<sessions, lock, dpc, disorder>>

CreateSession(r) == \/ Reject(r) \/ Abandon(r) \/ Start(r)
                    \/ AttemptTimesOut(r) \/ AttemptFails(r) \/ AttemptMisses(r)
                    \/ Answered(r) \/ ReadAnswer(r) \/ StartTimer(r) \/ Put(r)
                    \/ CallCreate(r) \/ CallDrop(r) \/ Cancel(r)

DeleteSession(d) == \/ Get(d) \/ TakeOut(d) \/ FreeSlot(d) \/ Uncount(d)
                    \/ Forward(d) \/ Stop(d)

(* What needs a new connection to the program, and what does not. *)
Connects == \/ \E r \in Request : (pc[r] = "idle" /\ Enter(r)) \/ Fire(r)
            \/ \E c \in Client, r \in Request : SendDelete(c, r)

Works == \/ \E r \in Request : (pc[r] # "idle" /\ Enter(r)) \/ NewRequest(r) \/ CreateSession(r)
         \/ \E d \in Deleter : DeleteSession(d)

HubNext == Connects \/ Works

HubSpec == HubInit /\ [][HubNext]_hubvars

(* A goroutine that can run runs, every attempt ends by its deadline at the   *)
(* latest, and timers fire.                                                   *)
HubFairness == /\ \A r \in Request : WF_hubvars(CreateSession(r)) /\ WF_hubvars(Fire(r))
               /\ \A d \in Deleter : WF_hubvars(DeleteSession(d))

HubFairSpec == HubSpec /\ HubFairness

------------------------------------------------------------------------------
(* The state is made of values of the right kinds; there is at most one       *)
(* attempt more than RetryCount says, that after a 404.                       *)
HubTypeOK == /\ TypeOK
             /\ at \in [Request -> Where]
             /\ attempt \in [Request -> 1..RetryCount + 1]
             /\ base \in [Request -> {"short", "long"}]
             /\ joined \in [Request -> 0..RetryCount + 1]
             /\ browser \in [Request -> {"none", "up", "stopped"}]
             /\ sessions \subseteq Request
             /\ lock \in [Request -> BOOLEAN]
             /\ timer \in [Request -> {"off", "armed", "fired", "closed"}]
             /\ dpc \in [Deleter -> Progress]
             /\ target \in [Deleter -> Request]
             /\ disorder \in BOOLEAN

(* The ways out of create() after which nobody will stop the browser: a start *)
(* that fails and leaves its container, and a panic.                          *)
Abandoned(r) == at[r] \in {"left", "panicked"}

(* Whoever has started a browser is still at work on its request, or has      *)
(* handed the browser to a session in the map, or a DELETE has taken it from  *)
(* there and is about to stop it; but for those that create() abandons.       *)
BrowsersAccounted == \A r \in Request : browser[r] = "up" =>
  \/ at[r] \in {"attempting", "reading", "named", "timed", "failed"}
  \/ r \in sessions
  \/ Abandoned(r)
  \/ \E d \in Deleter : About(d, r) /\ dpc[d] \in {"release", "uncount", "forward", "cancel"}

(* A session in the map has its place in the queue, so that there are no more *)
(* than Limit of them, and a browser that has outlived its place in the queue *)
(* is about to be stopped, by create() or by the DELETE; unless a DELETE has  *)
(* met create() or another DELETE.  One that a start has left is the exception. *)
SessionsHoldSlots == ~disorder =>
  /\ sessions \subseteq At({"serving", "creating", "open"})
  /\ \A r \in Request : browser[r] = "up" =>
       \/ r \in At({"serving", "creating", "open"})
       \/ at[r] \in {"failed", "left"}
       \/ \E d \in Deleter : About(d, r) /\ dpc[d] \in {"uncount", "forward", "cancel"}

(* create() and the DELETEs call Drop, Create and Release as the queue        *)
(* expects it: every step is one of module Queue or does not touch it.        *)
CallsInOrder == [][~disorder' => [Next]_vars]_hubvars

(* A browser is stopped once, and it is its own that a DELETE stops.          *)
StoppedOnce == [][\A d \in Deleter : Stop(d) => disorder \/ browser[target[d]] = "up"]_hubvars

------------------------------------------------------------------------------
(* docs/usage-statistics.adoc:62: no more than Limit sessions. *)
SessionsWithinLimit == Cardinality(sessions) <= Limit

(* docs/browsers-configuration-file.adoc:139: a new session is requested at   *)
(* the configured path.                                                       *)
AttemptsAtPath == \A r \in Request :
  at[r] = "attempting" => joined[r] = IF base[r] = "long" THEN 1 ELSE 0
==============================================================================
