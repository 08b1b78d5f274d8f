-------------------------------- MODULE Queue --------------------------------
(* protect/queue.go: the wrapper Protect that every new-session request goes  *)
(* through, and the calls Drop, Create and Release of the code it protects,   *)
(* one action per channel operation.                                          *)
(*                                                                            *)
(* The four channels carry no data, so each is the number of its elements.    *)
(* queued, pending and used have room for 2^31-1 elements and their senders   *)
(* never block; limit has room for Limit elements, and sendq is the runtime's *)
(* line of goroutines blocked sending to it: a receive from a full channel    *)
(* hands the freed room to the first of them, so nobody can slip in between.  *)
EXTENDS Naturals, Sequences, SequencesExt, FiniteSets

CONSTANTS Request,   \* goroutines that run Protect's handler, each again and again
          Limit,     \* size of the limit channel (-limit)
          Disabled   \* -disable-queue

ASSUME LimitAssumption   == Limit \in Nat
ASSUME RequestAssumption == IsFiniteSet(Request)
ASSUME DisabledAssumption == Disabled \in BOOLEAN

VARIABLES limit, queued, pending, used,   \* elements in each channel
          sendq,                          \* goroutines blocked on limit
          pc,                             \* where each request is
          pusher                          \* the goroutine of lines 54-56

channels == <<limit, queued, pending, used, sendq>>
vars     == <<limit, queued, pending, used, sendq, pc, pusher>>

(* idle       no request                                                      *)
(* selecting  refused at line 28, about to block at line 58                   *)
(* waiting    blocked at line 58, in sendq                                    *)
(* leaving    its client is gone, at line 60                                  *)
(* acquired   has its element in limit, at line 67                            *)
(* accepted   has its element in pending, at line 68                          *)
(* serving    in next.ServeHTTP, line 70                                      *)
(* dropping   in Drop, at line 92         creating  in Create, at `used <-`   *)
(* open       its session is open         releasing in Release, at line 103   *)
(* over       finished, whatever the outcome                                  *)
Outcome   == {"serving", "dropping", "creating", "open", "releasing"}
Location  == {"idle", "selecting", "waiting", "leaving", "acquired", "accepted",
              "over"} \cup Outcome

At(locations) == {r \in Request : pc[r] \in locations}
InLine        == Range(sendq)

Init == /\ limit = 0 /\ queued = 0 /\ pending = 0 /\ used = 0
        /\ sendq = <<>>
        /\ pc = [r \in Request |-> "idle"]
        /\ pusher = [r \in Request |-> "none"]

------------------------------------------------------------------------------
(* Wrong variant of SendLimit: the channel has room for one element too many. *)
SendLimitOneMore(r) == /\ limit <= Limit
                       /\ limit' = limit + 1
                       /\ pc' = [pc EXCEPT ![r] = "acquired"]
                       /\ UNCHANGED sendq

(* limit <- struct{}{} succeeds at once. *)
SendLimit(r) == /\ limit < Limit
                /\ limit' = limit + 1
                /\ pc' = [pc EXCEPT ![r] = "acquired"]
                /\ UNCHANGED sendq

(* Wrong variants of RecvLimit: the room it frees goes to the last of the      *)
(* line, or to nobody in particular, as if the waiters polled for it.         *)
RecvLimitLastIn(pcs) == /\ limit > 0
                        /\ IF sendq = <<>>
                             THEN limit' = limit - 1 /\ pc' = pcs /\ UNCHANGED sendq
                             ELSE /\ pc' = [pcs EXCEPT ![sendq[Len(sendq)]] = "acquired"]
                                  /\ sendq' = RemoveAt(sendq, Len(sendq))
                                  /\ UNCHANGED limit

RecvLimitNoHandoff(pcs) == /\ limit > 0
                           /\ limit' = limit - 1 /\ pc' = pcs
                           /\ UNCHANGED sendq

(* <-limit by a goroutine that thereby moves the locations to pcs.  The room  *)
(* it frees goes to the first blocked sender, if any.                         *)
RecvLimit(pcs) == /\ limit > 0
                  /\ IF sendq = <<>>
                       THEN limit' = limit - 1 /\ pc' = pcs /\ UNCHANGED sendq
                       ELSE /\ pc' = [pcs EXCEPT ![Head(sendq)] = "acquired"]
                            /\ sendq' = Tail(sendq)
                            /\ UNCHANGED limit

------------------------------------------------------------------------------
(* Lines 26-49 and the launch of the pusher: a request is admitted when there *)
(* is room, is refused when it may not wait (its header X-Selenoid-No-Wait or *)
(* the flag -disable-queue says so), and is to wait otherwise.                *)
ArriveAdmitted(r) == /\ pc[r] = "idle"
                     /\ SendLimit(r)
                     /\ pusher' = [pusher EXCEPT ![r] = "ready"]
                     /\ UNCHANGED <<queued, pending, used>>

ArriveRefused(r) == /\ pc[r] = "idle" /\ limit = Limit
                    /\ \E noWait \in BOOLEAN : noWait \/ Disabled
                    /\ pc' = [pc EXCEPT ![r] = "over"]
                    /\ UNCHANGED <<channels, pusher>>

(* Wrong variant: the pusher is only started for the requests let in at once. *)
ArriveFullNoPusher(r) == /\ pc[r] = "idle" /\ limit = Limit /\ ~Disabled
                         /\ pc' = [pc EXCEPT ![r] = "selecting"]
                         /\ UNCHANGED <<channels, pusher>>

ArriveFull(r) == /\ pc[r] = "idle" /\ limit = Limit
                 /\ \E noWait \in BOOLEAN : ~noWait /\ ~Disabled
                 /\ pc' = [pc EXCEPT ![r] = "selecting"]
                 /\ pusher' = [pusher EXCEPT ![r] = "ready"]
                 /\ UNCHANGED channels

(* Lines 54-56, a goroutine of its own: it may run long after the others. *)
Push(r) == /\ pusher[r] = "ready"
           /\ queued' = queued + 1
           /\ pusher' = [pusher EXCEPT ![r] = "done"]
           /\ UNCHANGED <<limit, pending, used, sendq, pc>>

(* Line 58: the select goes through at once when there is room, and blocks    *)
(* otherwise; a client that is gone is noticed before or while it blocks.     *)
SelectAdmitted(r) == /\ pc[r] = "selecting"
                     /\ SendLimit(r)
                     /\ UNCHANGED <<queued, pending, used, pusher>>

SelectBlocks(r) == /\ pc[r] = "selecting" /\ limit = Limit
                   /\ sendq' = Append(sendq, r)
                   /\ pc' = [pc EXCEPT ![r] = "waiting"]
                   /\ UNCHANGED <<limit, queued, pending, used, pusher>>

Disconnect(r) == /\ pc[r] \in {"selecting", "waiting"}
                 /\ IF r \in InLine
                      THEN \E i \in DOMAIN sendq :
                             sendq[i] = r /\ sendq' = RemoveAt(sendq, i)
                      ELSE UNCHANGED sendq
                 /\ pc' = [pc EXCEPT ![r] = "leaving"]
                 /\ UNCHANGED <<limit, queued, pending, used, pusher>>

(* Wrong variant of LeaveQueued: a client that leaves is not uncounted. *)
LeaveQueuedForgotten(r) == /\ pc[r] = "leaving"
                           /\ pc' = [pc EXCEPT ![r] = "over"]
                           /\ UNCHANGED <<channels, pusher>>

(* Line 60: any element of queued will do, not only the one r pushed. *)
LeaveQueued(r) == /\ pc[r] = "leaving" /\ queued > 0
                  /\ queued' = queued - 1
                  /\ pc' = [pc EXCEPT ![r] = "over"]
                  /\ UNCHANGED <<limit, pending, used, sendq, pusher>>

(* Line 67. *)
Accept(r) == /\ pc[r] = "acquired"
             /\ pending' = pending + 1
             /\ pc' = [pc EXCEPT ![r] = "accepted"]
             /\ UNCHANGED <<limit, queued, used, sendq, pusher>>

(* Line 68. *)
Unqueue(r) == /\ pc[r] = "accepted" /\ queued > 0
              /\ queued' = queued - 1
              /\ pc' = [pc EXCEPT ![r] = "serving"]
              /\ UNCHANGED <<limit, pending, used, sendq, pusher>>

------------------------------------------------------------------------------
(* The calls of the protected handler: Drop when no session came of the       *)
(* request, Create when one did and Release when that session is closed.      *)
(* Wrong variant: Drop forgets the slot and takes the pending element only. *)
DropLimitForgotten(r) == /\ pc[r] = "serving"
                         /\ pc' = [pc EXCEPT ![r] = "dropping"]
                         /\ UNCHANGED <<channels, pusher>>

DropLimit(r) == /\ pc[r] = "serving"
                /\ RecvLimit([pc EXCEPT ![r] = "dropping"])
                /\ UNCHANGED <<queued, pending, used, pusher>>

DropPending(r) == /\ pc[r] = "dropping" /\ pending > 0
                  /\ pending' = pending - 1
                  /\ pc' = [pc EXCEPT ![r] = "over"]
                  /\ UNCHANGED <<limit, queued, used, sendq, pusher>>

CreatePending(r) == /\ pc[r] = "serving" /\ pending > 0
                    /\ pending' = pending - 1
                    /\ pc' = [pc EXCEPT ![r] = "creating"]
                    /\ UNCHANGED <<limit, queued, used, sendq, pusher>>

(* Wrong variants: Create does not send to used, or gives the slot back too. *)
CreateUsedForgotten(r) == /\ pc[r] = "creating"
                          /\ pc' = [pc EXCEPT ![r] = "open"]
                          /\ UNCHANGED <<channels, pusher>>

CreateUsedAndFreed(r) == /\ pc[r] = "creating"
                         /\ used' = used + 1
                         /\ RecvLimit([pc EXCEPT ![r] = "open"])
                         /\ UNCHANGED <<queued, pending, pusher>>

CreateUsed(r) == /\ pc[r] = "creating"
                 /\ used' = used + 1
                 /\ pc' = [pc EXCEPT ![r] = "open"]
                 /\ UNCHANGED <<limit, queued, pending, sendq, pusher>>

(* Wrong variant: Release uncounts the session and keeps its slot. *)
ReleaseLimitForgotten(r) == /\ pc[r] = "open"
                            /\ pc' = [pc EXCEPT ![r] = "releasing"]
                            /\ UNCHANGED <<channels, pusher>>

ReleaseLimit(r) == /\ pc[r] = "open"
                   /\ RecvLimit([pc EXCEPT ![r] = "releasing"])
                   /\ UNCHANGED <<queued, pending, used, pusher>>

ReleaseUsed(r) == /\ pc[r] = "releasing" /\ used > 0
                  /\ used' = used - 1
                  /\ pc' = [pc EXCEPT ![r] = "over"]
                  /\ UNCHANGED <<limit, queued, pending, sendq, pusher>>

(* A finished request makes room for the next one of its client. *)
Again(r) == /\ pc[r] = "over" /\ pusher[r] # "ready"
            /\ pc' = [pc EXCEPT ![r] = "idle"]
            /\ pusher' = [pusher EXCEPT ![r] = "none"]
            /\ UNCHANGED channels

------------------------------------------------------------------------------
Protect(r) == \/ ArriveAdmitted(r) \/ ArriveRefused(r) \/ ArriveFull(r)
              \/ SelectAdmitted(r) \/ SelectBlocks(r) \/ Disconnect(r)
              \/ LeaveQueued(r) \/ Accept(r) \/ Unqueue(r)

Drop(r)    == DropLimit(r) \/ DropPending(r)
Create(r)  == CreatePending(r) \/ CreateUsed(r)
Release(r) == ReleaseLimit(r) \/ ReleaseUsed(r)

Next == \E r \in Request : \/ Protect(r) \/ Push(r) \/ Again(r)
                           \/ Drop(r) \/ Create(r) \/ Release(r)

Spec == Init /\ [][Next]_vars

(* A goroutine that can run runs.  Goroutines blocked in a receive on queued  *)
(* are served in the order they came, as the runtime keeps them in a line of  *)
(* their own, so a token that comes again and again reaches each: strong      *)
(* fairness.  Drop, Create and Release go on once they have begun, but        *)
(* nobody has to call them: a protected handler may panic or never return,    *)
(* and a session may stay open.  No request has to arrive or to be abandoned. *)
Fairness == \A r \in Request :
              /\ WF_vars(Push(r))
              /\ WF_vars(SelectAdmitted(r) \/ SelectBlocks(r))
              /\ WF_vars(Accept(r))
              /\ SF_vars(LeaveQueued(r) \/ Unqueue(r))
              /\ WF_vars(DropPending(r) \/ CreateUsed(r) \/ ReleaseUsed(r))

FairSpec == Spec /\ Fairness

------------------------------------------------------------------------------
(* The state is made of values of the right kinds. *)
TypeOK == /\ limit \in 0..Limit
          /\ queued \in Nat /\ pending \in Nat /\ used \in Nat
          /\ sendq \in Seq(Request)
          /\ pc \in [Request -> Location]
          /\ pusher \in [Request -> {"none", "ready", "done"}]

(* Those who hold an element of limit, and of each of the other channels. *)
Holders   == At({"acquired", "accepted", "serving", "creating", "open"})
Pending   == At({"accepted", "serving", "dropping"})
Used      == At({"open", "releasing"})
Pushed    == {r \in Request : pusher[r] = "done"}
Unqueued  == {r \in Request : \/ pc[r] \in Outcome
                              \/ pc[r] = "over" /\ pusher[r] # "none"}

(* No slot leaks and none is given out twice: the elements of limit are those *)
(* of the requests that were let in and whose session is not closed, for all  *)
(* the ways in and out of Protect, Drop, Create and Release.                  *)
SlotsAccounted == limit = Cardinality(Holders)

(* The gauges of /status stay true: every element of pending and used belongs *)
(* to a request being created or an open session, and those of queued to the  *)
(* pushers that ran and whose element nobody took, whoever took the others.   *)
GaugesAccounted == /\ pending = Cardinality(Pending)
                   /\ used = Cardinality(Used)
                   /\ queued + Cardinality(Unqueued) = Cardinality(Pushed)

(* The line of blocked senders is the set of requests at line 58, each once,  *)
(* and a request only stands in it while every slot is taken: no slot is idle *)
(* while somebody waits for one.                                              *)
LineAccounted == /\ InLine = At({"waiting"})
                 /\ IsInjective(sendq)
                 /\ sendq # <<>> => limit = Limit

(* Every request that got past line 49 has a pusher, and no other has. *)
PushersAccounted == \A r \in Request :
                      /\ pc[r] = "idle" => pusher[r] = "none"
                      /\ pc[r] \notin {"idle", "over"} => pusher[r] # "none"

(* The inductive invariant of the queue. *)
IInv == TypeOK /\ SlotsAccounted /\ GaugesAccounted /\ LineAccounted /\ PushersAccounted

(* The receives of Drop, Create and Release, which have no timeout and run    *)
(* under the session lock, always find an element.                            *)
NeverStarves == \A r \in Request :
                  /\ pc[r] \in {"serving", "open"} => limit > 0
                  /\ pc[r] \in {"serving", "dropping"} => pending > 0
                  /\ pc[r] = "releasing" => used > 0

(* A request that has joined the line is not overtaken: whoever gets a slot   *)
(* while somebody waits is the one that has waited longest.                   *)
NoOvertaking ==
  [][\A r \in Request : pc[r] # "acquired" /\ pc'[r] = "acquired"
        => sendq = <<>> \/ r = Head(sendq)]_vars

(* The queue implements the promise made to its clients. *)
Line == INSTANCE Admission WITH line <- sendq, inside <- Holders
Promise == Line!Spec

(* A request only waits for good if all the slots are taken for good, each by *)
(* a handler that neither drops its request nor creates a session, or by a    *)
(* session that is never released: as long as one slot comes back again and   *)
(* again, everybody's turn comes.                                             *)
Stays(s) == <>[](pc[s] \in {"serving", "open"})
WaitingEnds == \A r \in Request :
  []<>(pc[r] # "waiting")
    \/ \E S \in SUBSET Request : Cardinality(S) = Limit /\ \A s \in S : Stays(s)

(* Nobody is held up at lines 60 and 68, where an element of queued is taken  *)
(* that another request's pusher may have sent and another request taken.     *)
QueuedTokenComes == \A r \in Request :
                      pc[r] \in {"accepted", "leaving"} ~> pc[r] \in {"serving", "over"}
==============================================================================
