----------------------------- MODULE QueueProofs -----------------------------
(* What module Queue guarantees for every number of requests and slots: the   *)
(* slots, the gauges and the line of waiting requests are accounted for, the  *)
(* receives of Drop, Create and Release never block, nobody is overtaken and  *)
(* the channels implement module Admission.                                   *)
EXTENDS Queue, TLAPS, FiniteSetTheorems, SequenceTheorems

------------------------------------------------------------------------------
(* Lines of distinct elements.                                                *)

(* An element that joins the end of a line is in it, once. *)
LEMMA JoinLine ==
  ASSUME NEW S, NEW s \in Seq(S), NEW x \in S, IsInjective(s), x \notin Range(s)
  PROVE  /\ Append(s, x) \in Seq(S)
         /\ Append(s, x) # <<>>
         /\ IsInjective(Append(s, x))
         /\ Range(Append(s, x)) = Range(s) \cup {x}
<1>1. Append(s, x) \in Seq(S) /\ Len(Append(s, x)) = Len(s) + 1 /\ Len(s) \in Nat
  OBVIOUS
<1>2. /\ DOMAIN s = 1..Len(s) /\ DOMAIN Append(s, x) = 1..Len(s) + 1
      /\ \A i \in 1..Len(s) : Append(s, x)[i] = s[i]
      /\ Append(s, x)[Len(s) + 1] = x
  BY <1>1
<1>3. \A i \in 1..Len(s) : s[i] # x
  BY <1>2 DEF Range
<1>4. IsInjective(Append(s, x))
  BY <1>1, <1>2, <1>3 DEF IsInjective
<1>5. Range(Append(s, x)) = Range(s) \cup {x}
  <2>1. \A i \in 1..Len(s) + 1 : i \in 1..Len(s) \/ i = Len(s) + 1
    BY <1>1
  <2>2. ASSUME NEW y \in Range(Append(s, x))  PROVE y \in Range(s) \cup {x}
    BY <1>2, <2>1 DEF Range
  <2>3. ASSUME NEW y \in Range(s) \cup {x}  PROVE y \in Range(Append(s, x))
    <3>1. CASE y = x
      BY <1>1, <1>2, <3>1 DEF Range
    <3>2. CASE y \in Range(s)
      <4>1. PICK i \in 1..Len(s) : y = s[i]
        BY <1>2, <3>2 DEF Range
      <4>2. i \in 1..Len(s) + 1 /\ Append(s, x)[i] = y
        BY <1>1, <1>2, <4>1
      <4> QED BY <1>2, <4>2 DEF Range
    <3> QED BY <2>3, <3>1, <3>2
  <2> QED BY <2>2, <2>3
<1> QED BY <1>1, <1>4, <1>5

(* The head of a line leaves it, and leaves the others in it. *)
LEMMA HeadLeavesLine ==
  ASSUME NEW S, NEW s \in Seq(S), s # <<>>, IsInjective(s)
  PROVE  /\ Head(s) \in S /\ Head(s) \in Range(s)
         /\ Tail(s) \in Seq(S)
         /\ IsInjective(Tail(s))
         /\ Range(Tail(s)) = Range(s) \ {Head(s)}
<1>1. /\ Len(s) \in Nat \ {0} /\ DOMAIN s = 1..Len(s) /\ Head(s) = s[1]
      /\ Tail(s) \in Seq(S) /\ Len(Tail(s)) = Len(s) - 1
      /\ DOMAIN Tail(s) = 1..Len(s) - 1
      /\ \A i \in 1..Len(s) - 1 : Tail(s)[i] = s[i + 1]
  BY HeadTailProperties, EmptySeq
<1>2. Head(s) \in S /\ Head(s) \in Range(s)
  BY <1>1 DEF Range
<1>3. IsInjective(Tail(s))
  BY <1>1 DEF IsInjective
<1>4. Range(Tail(s)) = Range(s) \ {Head(s)}
  <2>1. ASSUME NEW i \in 1..Len(s) - 1
        PROVE  s[i + 1] \in Range(s) /\ s[i + 1] # Head(s)
    BY <1>1 DEF Range, IsInjective
  <2>2. ASSUME NEW i \in 1..Len(s), i # 1
        PROVE  s[i] \in Range(Tail(s))
    <3>1. i - 1 \in 1..Len(s) - 1 /\ Tail(s)[i - 1] = s[i]
      BY <1>1, <2>2
    <3> QED BY <1>1, <3>1 DEF Range
  <2> QED BY <1>1, <2>1, <2>2 DEF Range
<1> QED BY <1>1, <1>2, <1>3, <1>4

(* Whoever quits a line leaves the others in it. *)
LEMMA QuitLine ==
  ASSUME NEW S, NEW s \in Seq(S), NEW i \in DOMAIN s, IsInjective(s)
  PROVE  /\ RemoveAt(s, i) \in Seq(S)
         /\ IsInjective(RemoveAt(s, i))
         /\ Range(RemoveAt(s, i)) = Range(s) \ {s[i]}
         /\ DOMAIN RemoveAt(s, i) = 1..Len(s) - 1
         /\ \A j \in 1..Len(s) - 1 : RemoveAt(s, i)[j] = IF j < i THEN s[j] ELSE s[j + 1]
<1> DEFINE n == Len(s)
           t == RemoveAt(s, i)
<1>1. n \in Nat /\ DOMAIN s = 1..n /\ i \in 1..n /\ \A j \in 1..n : s[j] \in S
  OBVIOUS
<1>2. /\ SubSeq(s, 1, i - 1) \in Seq(S) /\ Len(SubSeq(s, 1, i - 1)) = i - 1
      /\ \A j \in 1..i - 1 : SubSeq(s, 1, i - 1)[j] = s[j]
  BY <1>1, SubSeqProperties
<1>3. /\ SubSeq(s, i + 1, n) \in Seq(S) /\ Len(SubSeq(s, i + 1, n)) = n - i
      /\ \A j \in 1..n - i : SubSeq(s, i + 1, n)[j] = s[i + j]
  <2>1. \A j \in i + 1..n : s[j] \in S
    BY <1>1
  <2>2. n - (i + 1) + 1 = n - i /\ \A j \in 1..n - i : i + 1 + j - 1 = i + j
    BY <1>1
  <2>3. /\ SubSeq(s, i + 1, n) \in Seq(S)
        /\ Len(SubSeq(s, i + 1, n)) = IF i + 1 <= n THEN n - (i + 1) + 1 ELSE 0
        /\ \A j \in 1..n - (i + 1) + 1 : SubSeq(s, i + 1, n)[j] = s[i + 1 + j - 1]
    BY <1>1, <2>1, SubSeqProperties
  <2> QED BY <1>1, <2>2, <2>3
<1>4. /\ t \in Seq(S) /\ Len(t) = n - 1 /\ DOMAIN t = 1..n - 1
      /\ \A j \in 1..n - 1 : t[j] = IF j < i THEN s[j] ELSE s[j + 1]
  <2> DEFINE a == SubSeq(s, 1, i - 1)
             b == SubSeq(s, i + 1, n)
  <2>0. t = a \o b
    BY DEF RemoveAt
  <2> HIDE DEF a, b, t, n
  <2>1. /\ t \in Seq(S) /\ Len(t) = Len(a) + Len(b)
        /\ \A j \in 1..Len(a) + Len(b) : t[j] = IF j <= Len(a) THEN a[j] ELSE b[j - Len(a)]
    BY <1>2, <1>3, <2>0, ConcatProperties DEF a, b
  <2>2. Len(a) = i - 1 /\ Len(b) = n - i
    BY <1>2, <1>3 DEF a, b
  <2>3. /\ \A j \in 1..i - 1 : a[j] = s[j]
        /\ \A j \in 1..n - i : b[j] = s[i + j]
    BY <1>2, <1>3 DEF a, b
  <2>4. Len(t) = n - 1
    BY <1>1, <2>1, <2>2
  <2>5. ASSUME NEW j \in 1..n - 1
        PROVE  t[j] = IF j < i THEN s[j] ELSE s[j + 1]
    <3>1. t[j] = IF j <= i - 1 THEN a[j] ELSE b[j - (i - 1)]
      BY <1>1, <2>1, <2>2
    <3>2. CASE j < i
      BY <1>1, <2>3, <3>1, <3>2
    <3>3. CASE ~(j < i)
      <4>1. j - (i - 1) \in 1..n - i /\ i + (j - (i - 1)) = j + 1
        BY <1>1, <3>3
      <4> QED BY <1>1, <2>3, <3>1, <3>3, <4>1
    <3> QED BY <3>2, <3>3
  <2> QED BY <2>1, <2>4, <2>5, LenProperties
<1>5. IsInjective(t)
  <2> DEFINE old(j) == IF j < i THEN j ELSE j + 1
  <2>1. SUFFICES ASSUME NEW j \in 1..n - 1, NEW k \in 1..n - 1, t[j] = t[k]
                 PROVE  j = k
    BY <1>4 DEF IsInjective
  <2>2. /\ old(j) \in DOMAIN s /\ old(k) \in DOMAIN s
        /\ t[j] = s[old(j)] /\ t[k] = s[old(k)]
    BY <1>1, <1>4
  <2>3. old(j) = old(k)
    BY <2>1, <2>2 DEF IsInjective
  <2> QED BY <1>1, <2>3
<1>6. Range(t) = Range(s) \ {s[i]}
  <2>1. ASSUME NEW j \in 1..n - 1
        PROVE  t[j] \in Range(s) /\ t[j] # s[i]
    <3>1. PICK k \in DOMAIN s : k # i /\ t[j] = s[k]
      <4>1. CASE j < i
        BY <1>1, <1>4, <4>1
      <4>2. CASE ~(j < i)
        BY <1>1, <1>4, <4>2
      <4> QED BY <4>1, <4>2
    <3> QED BY <3>1 DEF Range, IsInjective
  <2>2. ASSUME NEW j \in 1..n, j # i
        PROVE  s[j] \in Range(t)
    <3>1. CASE j < i
      <4>1. j \in 1..n - 1 /\ t[j] = s[j]
        BY <1>1, <1>4, <3>1
      <4> QED BY <1>4, <4>1 DEF Range
    <3>2. CASE j > i
      <4>1. j - 1 \in 1..n - 1 /\ t[j - 1] = s[j]
        BY <1>1, <1>4, <3>2
      <4> QED BY <1>4, <4>1 DEF Range
    <3> QED BY <1>1, <2>2, <3>1, <3>2
  <2> QED BY <1>1, <1>4, <2>1, <2>2 DEF Range
<1> QED BY <1>4, <1>5, <1>6

------------------------------------------------------------------------------
(* Counting: one more, one less.  Every set of requests is finite.            *)
LEMMA OneMore ==
  ASSUME NEW S, NEW x, IsFiniteSet(S), x \notin S
  PROVE  Cardinality(S \cup {x}) = Cardinality(S) + 1
BY FS_AddElement

LEMMA OneLess ==
  ASSUME NEW S, NEW x, IsFiniteSet(S), x \in S
  PROVE  Cardinality(S \ {x}) = Cardinality(S) - 1
BY FS_RemoveElement

LEMMA FiniteRequests ==
  ASSUME NEW S \in SUBSET Request
  PROVE  IsFiniteSet(S) /\ Cardinality(S) \in Nat
BY RequestAssumption, FS_Subset, FS_CardinalityType

------------------------------------------------------------------------------
(* The inductive invariant holds at the start. *)
LEMMA InitInv == Init => IInv
<1> SUFFICES ASSUME Init PROVE IInv
  OBVIOUS
<1>1. TypeOK
  BY LimitAssumption DEF Init, TypeOK, Location
<1>2. Holders = {} /\ Pending = {} /\ Used = {} /\ Pushed = {} /\ Unqueued = {} /\ At({"waiting"}) = {}
  BY DEF Init, Holders, Pending, Used, Pushed, Unqueued, At, Outcome
<1>3. SlotsAccounted /\ GaugesAccounted
  BY <1>2, FS_EmptySet DEF Init, SlotsAccounted, GaugesAccounted
<1>4. LineAccounted
  BY <1>2 DEF Init, LineAccounted, InLine, Range, IsInjective
<1>5. PushersAccounted
  BY DEF Init, PushersAccounted
<1> QED BY <1>1, <1>3, <1>4, <1>5 DEF IInv

(* The first of the line waits: it is at line 58, and no other goroutine is it. *)
LEMMA HeadWaits ==
  ASSUME TypeOK, LineAccounted, sendq # <<>>
  PROVE  /\ Head(sendq) \in Request /\ pc[Head(sendq)] = "waiting"
         /\ Tail(sendq) \in Seq(Request) /\ IsInjective(Tail(sendq))
         /\ Range(Tail(sendq)) = InLine \ {Head(sendq)}
BY HeadLeavesLine DEF TypeOK, LineAccounted, InLine, At

(* Types are kept. *)
LEMMA TypeStep == TypeOK /\ LineAccounted /\ [Next]_vars => TypeOK'
<1> SUFFICES ASSUME TypeOK, LineAccounted, [Next]_vars PROVE TypeOK'
  OBVIOUS
<1> USE LimitAssumption DEF TypeOK, Location, Outcome
<1>1. CASE UNCHANGED vars
  BY <1>1 DEF vars
<1>2. ASSUME NEW r \in Request, SendLimit(r)
      PROVE  limit' \in 0..Limit /\ sendq' \in Seq(Request) /\ pc' \in [Request -> Location]
  BY <1>2 DEF SendLimit
<1>3. ASSUME NEW pcs \in [Request -> Location], RecvLimit(pcs)
      PROVE  limit' \in 0..Limit /\ sendq' \in Seq(Request) /\ pc' \in [Request -> Location]
  <2>1. CASE sendq = <<>>
    BY <1>3, <2>1 DEF RecvLimit
  <2>2. CASE sendq # <<>>
    <3>1. Head(sendq) \in Request /\ Tail(sendq) \in Seq(Request)
      BY <2>2, HeadWaits
    <3> QED BY <1>3, <2>2, <3>1 DEF RecvLimit
  <2> QED BY <2>1, <2>2
<1>4. ASSUME NEW r \in Request, Protect(r)  PROVE TypeOK'
  <2>1. CASE ArriveAdmitted(r)
    BY <1>2, <2>1 DEF ArriveAdmitted
  <2>2. CASE ArriveRefused(r)
    BY <2>2 DEF ArriveRefused, channels
  <2>3. CASE ArriveFull(r)
    BY <2>3 DEF ArriveFull, channels
  <2>4. CASE SelectAdmitted(r)
    BY <1>2, <2>4 DEF SelectAdmitted
  <2>5. CASE SelectBlocks(r)
    BY <2>5 DEF SelectBlocks
  <2>6. CASE Disconnect(r)
    <3>1. sendq' \in Seq(Request)
      BY <2>6, QuitLine DEF Disconnect, LineAccounted
    <3> QED BY <2>6, <3>1 DEF Disconnect
  <2>7. CASE LeaveQueued(r)
    BY <2>7 DEF LeaveQueued
  <2>8. CASE Accept(r)
    BY <2>8 DEF Accept
  <2>9. CASE Unqueue(r)
    BY <2>9 DEF Unqueue
  <2> QED BY <1>4, <2>1, <2>2, <2>3, <2>4, <2>5, <2>6, <2>7, <2>8, <2>9 DEF Protect
<1>5. ASSUME NEW r \in Request, Drop(r) \/ Create(r) \/ Release(r)  PROVE TypeOK'
  <2>1. CASE DropLimit(r)
    BY <1>3, <2>1 DEF DropLimit
  <2>2. CASE ReleaseLimit(r)
    BY <1>3, <2>2 DEF ReleaseLimit
  <2>3. CASE DropPending(r) \/ CreatePending(r)
    BY <2>3 DEF DropPending, CreatePending
  <2>4. CASE CreateUsed(r) \/ ReleaseUsed(r)
    BY <2>4 DEF CreateUsed, ReleaseUsed
  <2> QED BY <1>5, <2>1, <2>2, <2>3, <2>4 DEF Drop, Create, Release
<1>6. ASSUME NEW r \in Request, Push(r) \/ Again(r)  PROVE TypeOK'
  BY <1>6 DEF Push, Again, channels
<1> QED BY <1>1, <1>4, <1>5, <1>6 DEF Next

(* A sender of limit that is served, and a receiver whose room goes to the    *)
(* first of the line, if there is one.                                        *)
LEMMA SendHolders ==
  ASSUME IInv, NEW r \in Request, SendLimit(r), pc[r] \notin {"acquired", "accepted", "serving", "creating", "open"}
  PROVE  /\ Holders' = Holders \cup {r} /\ r \notin Holders
         /\ SlotsAccounted'
<1>1. Holders' = Holders \cup {r} /\ r \notin Holders
  BY DEF IInv, TypeOK, SendLimit, Holders, At
<1>2. IsFiniteSet(Holders)
  BY FiniteRequests DEF Holders, At
<1>3. Cardinality(Holders') = Cardinality(Holders) + 1
  BY <1>1, <1>2, OneMore
<1> QED BY <1>1, <1>3 DEF IInv, SlotsAccounted, SendLimit

LEMMA RecvHolders ==
  ASSUME IInv, NEW r \in Request, r \in Holders,
         NEW l \in {"dropping", "releasing"},
         RecvLimit([pc EXCEPT ![r] = l])
  PROVE  /\ Holders' = IF sendq = <<>> THEN Holders \ {r}
                                       ELSE (Holders \ {r}) \cup {Head(sendq)}
         /\ SlotsAccounted'
<1>1. IsFiniteSet(Holders) /\ IsFiniteSet(Holders \ {r})
  BY FiniteRequests DEF Holders, At
<1>2. Cardinality(Holders \ {r}) = limit - 1 /\ limit \in Nat
  BY <1>1, OneLess, LimitAssumption DEF IInv, TypeOK, SlotsAccounted
<1>3. CASE sendq = <<>>
  <2>1. Holders' = Holders \ {r}
    BY <1>3 DEF IInv, TypeOK, RecvLimit, Holders, At
  <2> QED BY <1>2, <1>3, <2>1 DEF SlotsAccounted, RecvLimit
<1>4. CASE sendq # <<>>
  <2>1. Head(sendq) \in Request /\ pc[Head(sendq)] = "waiting" /\ Head(sendq) \notin Holders
    BY <1>4, HeadWaits DEF IInv, Holders, At
  <2>2. Holders' = (Holders \ {r}) \cup {Head(sendq)}
    BY <1>4, <2>1 DEF IInv, TypeOK, RecvLimit, Holders, At
  <2>3. Cardinality(Holders') = limit
    BY <1>1, <1>2, <2>1, <2>2, OneMore
  <2> QED BY <1>4, <2>2, <2>3 DEF SlotsAccounted, RecvLimit
<1> QED BY <1>3, <1>4

(* The slots stay accounted for. *)
LEMMA SlotsStep == IInv /\ [Next]_vars => SlotsAccounted'
<1> SUFFICES ASSUME IInv, [Next]_vars PROVE SlotsAccounted'
  OBVIOUS
<1>0. pc \in [Request -> Location]
  BY DEF IInv, TypeOK
<1>1. ASSUME Holders' = Holders, limit' = limit  PROVE SlotsAccounted'
  BY <1>1 DEF IInv, SlotsAccounted
<1>2. CASE UNCHANGED vars
  BY <1>1, <1>2 DEF vars, Holders, At
<1>3. ASSUME NEW r \in Request, Protect(r)  PROVE SlotsAccounted'
  <2>1. CASE ArriveAdmitted(r) \/ SelectAdmitted(r)
    BY <2>1, SendHolders DEF ArriveAdmitted, SelectAdmitted
  <2>2. CASE ArriveRefused(r) \/ ArriveFull(r)
    BY <1>0, <1>1, <2>2 DEF ArriveRefused, ArriveFull, channels, Holders, At
  <2>3. CASE SelectBlocks(r) \/ Disconnect(r) \/ LeaveQueued(r)
    BY <1>0, <1>1, <2>3 DEF SelectBlocks, Disconnect, LeaveQueued, Holders, At
  <2>4. CASE Accept(r) \/ Unqueue(r)
    BY <1>0, <1>1, <2>4 DEF Accept, Unqueue, Holders, At
  <2> QED BY <1>3, <2>1, <2>2, <2>3, <2>4 DEF Protect
<1>4. ASSUME NEW r \in Request, Drop(r)  PROVE SlotsAccounted'
  <2>1. CASE DropLimit(r)
    BY <1>0, <2>1, RecvHolders DEF DropLimit, Holders, At
  <2>2. CASE DropPending(r)
    BY <1>0, <1>1, <2>2 DEF DropPending, Holders, At
  <2> QED BY <1>4, <2>1, <2>2 DEF Drop
<1>5. ASSUME NEW r \in Request, Create(r)  PROVE SlotsAccounted'
  BY <1>0, <1>1, <1>5 DEF Create, CreatePending, CreateUsed, Holders, At
<1>6. ASSUME NEW r \in Request, Release(r)  PROVE SlotsAccounted'
  <2>1. CASE ReleaseLimit(r)
    BY <1>0, <2>1, RecvHolders DEF ReleaseLimit, Holders, At
  <2>2. CASE ReleaseUsed(r)
    BY <1>0, <1>1, <2>2 DEF ReleaseUsed, Holders, At
  <2> QED BY <1>6, <2>1, <2>2 DEF Release
<1>7. ASSUME NEW r \in Request, Push(r) \/ Again(r)  PROVE SlotsAccounted'
  BY <1>0, <1>1, <1>7 DEF Push, Again, channels, Holders, At
<1> QED BY <1>2, <1>3, <1>4, <1>5, <1>6, <1>7 DEF Next

(* What a receive from limit does to the locations of the others: the first of *)
(* the line moves, from waiting to acquired, and nobody else.                  *)
LEMMA RecvMoves ==
  ASSUME TypeOK, LineAccounted, NEW r \in Request, pc[r] # "waiting",
         NEW l \in Location, RecvLimit([pc EXCEPT ![r] = l])
  PROVE  /\ pc'[r] = l
         /\ \A x \in Request \ {r} : \/ pc'[x] = pc[x]
                                     \/ pc[x] = "waiting" /\ pc'[x] = "acquired"
<1>1. CASE sendq = <<>>
  BY <1>1 DEF TypeOK, RecvLimit
<1>2. CASE sendq # <<>>
  <2>1. Head(sendq) \in Request /\ pc[Head(sendq)] = "waiting"
    BY <1>2, HeadWaits
  <2> QED BY <1>2, <2>1 DEF TypeOK, RecvLimit
<1> QED BY <1>1, <1>2

(* The gauges stay accounted for. *)
LEMMA GaugesStep == IInv /\ [Next]_vars => GaugesAccounted'
<1> SUFFICES ASSUME IInv, [Next]_vars PROVE GaugesAccounted'
  OBVIOUS
<1> DEFINE Same == /\ Pending' = Pending /\ pending' = pending
                   /\ Used' = Used /\ used' = used
                   /\ Unqueued' = Unqueued /\ Pushed' = Pushed /\ queued' = queued
<1> USE DEF Outcome, Location
<1>0. /\ pc \in [Request -> Location] /\ pusher \in [Request -> {"none", "ready", "done"}]
      /\ TypeOK /\ LineAccounted
      /\ pending = Cardinality(Pending) /\ used = Cardinality(Used)
      /\ queued + Cardinality(Unqueued) = Cardinality(Pushed)
      /\ queued \in Nat /\ pending \in Nat /\ used \in Nat
  BY DEF IInv, TypeOK, GaugesAccounted
<1>1. /\ IsFiniteSet(Pending) /\ IsFiniteSet(Used)
      /\ IsFiniteSet(Pushed) /\ Cardinality(Pushed) \in Nat
      /\ IsFiniteSet(Unqueued) /\ Cardinality(Unqueued) \in Nat
  BY FiniteRequests DEF Pending, Used, Pushed, Unqueued, At
<1>2. ASSUME Same  PROVE GaugesAccounted'
  BY <1>0, <1>2 DEF GaugesAccounted
<1>3. CASE UNCHANGED vars
  BY <1>2, <1>3 DEF vars, Pending, Used, Pushed, Unqueued, At
<1>4. ASSUME NEW r \in Request,
             ArriveAdmitted(r) \/ ArriveRefused(r) \/ ArriveFull(r) \/ SelectAdmitted(r)
      PROVE  GaugesAccounted'
  <2>1. pusher[r] = "none" \/ pc[r] = "selecting"
    BY <1>4 DEF IInv, PushersAccounted, ArriveAdmitted, ArriveRefused, ArriveFull, SelectAdmitted
  <2>2. CASE ArriveAdmitted(r) \/ SelectAdmitted(r)
    BY <1>0, <1>2, <2>1, <2>2
    DEF ArriveAdmitted, SelectAdmitted, SendLimit, Pending, Used, Pushed, Unqueued, At
  <2>3. CASE ArriveRefused(r) \/ ArriveFull(r)
    BY <1>0, <1>2, <2>1, <2>3
    DEF ArriveRefused, ArriveFull, channels, Pending, Used, Pushed, Unqueued, At, IInv, PushersAccounted
  <2> QED BY <1>4, <2>2, <2>3
<1>5. ASSUME NEW r \in Request, SelectBlocks(r) \/ Disconnect(r)  PROVE GaugesAccounted'
  BY <1>0, <1>2, <1>5 DEF SelectBlocks, Disconnect, Pending, Used, Pushed, Unqueued, At
<1>6. ASSUME NEW r \in Request, LeaveQueued(r) \/ Unqueue(r)  PROVE GaugesAccounted'
  <2>1. pusher[r] # "none"
    BY <1>6 DEF IInv, PushersAccounted, LeaveQueued, Unqueue
  <2>2. Unqueued' = Unqueued \cup {r} /\ r \notin Unqueued
    BY <1>0, <1>6, <2>1 DEF LeaveQueued, Unqueue, Unqueued
  <2>3. Cardinality(Unqueued') = Cardinality(Unqueued) + 1
    BY <1>1, <2>2, OneMore
  <2>4. /\ Pending' = Pending /\ Used' = Used /\ Pushed' = Pushed
        /\ pending' = pending /\ used' = used /\ queued' = queued - 1
    BY <1>0, <1>6 DEF LeaveQueued, Unqueue, Pending, Used, Pushed, At
  <2> QED BY <1>0, <1>1, <2>3, <2>4 DEF GaugesAccounted
<1>7. ASSUME NEW r \in Request, Accept(r)  PROVE GaugesAccounted'
  <2>1. Pending' = Pending \cup {r} /\ r \notin Pending
    BY <1>0, <1>7 DEF Accept, Pending, At
  <2>2. Cardinality(Pending') = Cardinality(Pending) + 1
    BY <1>1, <2>1, OneMore
  <2>3. /\ Used' = Used /\ Pushed' = Pushed /\ Unqueued' = Unqueued
        /\ pending' = pending + 1 /\ used' = used /\ queued' = queued
    BY <1>0, <1>7 DEF Accept, Used, Pushed, Unqueued, At
  <2> QED BY <1>0, <2>2, <2>3 DEF GaugesAccounted
<1>8. ASSUME NEW r \in Request, DropPending(r) \/ CreatePending(r)  PROVE GaugesAccounted'
  <2>1. Pending' = Pending \ {r} /\ r \in Pending
    BY <1>0, <1>8 DEF DropPending, CreatePending, Pending, At
  <2>2. Cardinality(Pending') = Cardinality(Pending) - 1
    BY <1>1, <2>1, OneLess
  <2>3. pusher[r] # "none"
    BY <1>8 DEF IInv, PushersAccounted, DropPending, CreatePending
  <2>4. /\ Used' = Used /\ Pushed' = Pushed /\ Unqueued' = Unqueued
        /\ pending' = pending - 1 /\ used' = used /\ queued' = queued
    BY <1>0, <1>8, <2>3 DEF DropPending, CreatePending, Used, Pushed, Unqueued, At
  <2> QED BY <1>0, <2>2, <2>4 DEF GaugesAccounted
<1>9. ASSUME NEW r \in Request, CreateUsed(r)  PROVE GaugesAccounted'
  <2>1. Used' = Used \cup {r} /\ r \notin Used
    BY <1>0, <1>9 DEF CreateUsed, Used, At
  <2>2. Cardinality(Used') = Cardinality(Used) + 1
    BY <1>1, <2>1, OneMore
  <2>3. /\ Pending' = Pending /\ Pushed' = Pushed /\ Unqueued' = Unqueued
        /\ pending' = pending /\ used' = used + 1 /\ queued' = queued
    BY <1>0, <1>9 DEF CreateUsed, Pending, Pushed, Unqueued, At
  <2> QED BY <1>0, <2>2, <2>3 DEF GaugesAccounted
<1>10. ASSUME NEW r \in Request, ReleaseUsed(r)  PROVE GaugesAccounted'
  <2>1. Used' = Used \ {r} /\ r \in Used
    BY <1>0, <1>10 DEF ReleaseUsed, Used, At
  <2>2. Cardinality(Used') = Cardinality(Used) - 1
    BY <1>1, <2>1, OneLess
  <2>3. pusher[r] # "none"
    BY <1>10 DEF IInv, PushersAccounted, ReleaseUsed
  <2>4. /\ Pending' = Pending /\ Pushed' = Pushed /\ Unqueued' = Unqueued
        /\ pending' = pending /\ used' = used - 1 /\ queued' = queued
    BY <1>0, <1>10, <2>3 DEF ReleaseUsed, Pending, Pushed, Unqueued, At
  <2> QED BY <1>0, <2>2, <2>4 DEF GaugesAccounted
<1>11. ASSUME NEW r \in Request, DropLimit(r) \/ ReleaseLimit(r)  PROVE GaugesAccounted'
  <2>1. CASE DropLimit(r)
    <3>1. /\ pc[r] = "serving" /\ pc'[r] = "dropping"
          /\ \A x \in Request \ {r} : \/ pc'[x] = pc[x]
                                      \/ pc[x] = "waiting" /\ pc'[x] = "acquired"
      BY <1>0, <2>1, RecvMoves DEF DropLimit
    <3> QED BY <1>0, <1>2, <2>1, <3>1 DEF DropLimit, Pending, Used, Pushed, Unqueued, At
  <2>2. CASE ReleaseLimit(r)
    <3>1. /\ pc[r] = "open" /\ pc'[r] = "releasing"
          /\ \A x \in Request \ {r} : \/ pc'[x] = pc[x]
                                      \/ pc[x] = "waiting" /\ pc'[x] = "acquired"
      BY <1>0, <2>2, RecvMoves DEF ReleaseLimit
    <3> QED BY <1>0, <1>2, <2>2, <3>1 DEF ReleaseLimit, Pending, Used, Pushed, Unqueued, At
  <2> QED BY <1>11, <2>1, <2>2
<1>12. ASSUME NEW r \in Request, Push(r)  PROVE GaugesAccounted'
  <2>1. Pushed' = Pushed \cup {r} /\ r \notin Pushed
    BY <1>0, <1>12 DEF Push, Pushed
  <2>2. Cardinality(Pushed') = Cardinality(Pushed) + 1
    BY <1>1, <2>1, OneMore
  <2>3. /\ Pending' = Pending /\ Used' = Used /\ Unqueued' = Unqueued
        /\ pending' = pending /\ used' = used /\ queued' = queued + 1
    BY <1>0, <1>12 DEF Push, Pending, Used, Unqueued, At
  <2> QED BY <1>0, <1>1, <2>2, <2>3 DEF GaugesAccounted
<1>13. ASSUME NEW r \in Request, Again(r)  PROVE GaugesAccounted'
  <2>1. /\ Pending' = Pending /\ Used' = Used
        /\ pending' = pending /\ used' = used /\ queued' = queued
    BY <1>0, <1>13 DEF Again, channels, Pending, Used, At
  <2>2. CASE pusher[r] = "none"
    BY <1>0, <1>2, <1>13, <2>1, <2>2 DEF Again, Pushed, Unqueued
  <2>3. CASE pusher[r] = "done"
    <3>1. /\ Pushed' = Pushed \ {r} /\ r \in Pushed
          /\ Unqueued' = Unqueued \ {r} /\ r \in Unqueued
      BY <1>0, <1>13, <2>3 DEF Again, Pushed, Unqueued
    <3>2. /\ Cardinality(Pushed') = Cardinality(Pushed) - 1
          /\ Cardinality(Unqueued') = Cardinality(Unqueued) - 1
      BY <1>1, <3>1, OneLess
    <3> QED BY <1>0, <1>1, <2>1, <3>2 DEF GaugesAccounted
  <2> QED BY <1>0, <1>13, <2>2, <2>3 DEF Again
<1> QED BY <1>3, <1>4, <1>5, <1>6, <1>7, <1>8, <1>9, <1>10, <1>11, <1>12, <1>13
        DEF Next, Protect, Drop, Create, Release

(* The line stays accounted for. *)
LEMMA LineStep == TypeOK /\ LineAccounted /\ [Next]_vars => LineAccounted'
<1> SUFFICES ASSUME TypeOK, LineAccounted, [Next]_vars PROVE LineAccounted'
  OBVIOUS
<1> USE DEF Outcome, Location
<1>0. /\ TypeOK /\ pc \in [Request -> Location] /\ sendq \in Seq(Request)
      /\ limit \in 0..Limit /\ Limit \in Nat
      /\ LineAccounted /\ Range(sendq) = {x \in Request : pc[x] = "waiting"} /\ IsInjective(sendq)
      /\ sendq # <<>> => limit = Limit
  BY LimitAssumption DEF TypeOK, LineAccounted, InLine, At
<1>1. ASSUME UNCHANGED <<sendq, limit>>, \A x \in Request : pc[x] = "waiting" <=> pc'[x] = "waiting"
      PROVE  LineAccounted'
  BY <1>0, <1>1 DEF LineAccounted, InLine, At
<1>2. CASE UNCHANGED vars
  BY <1>1, <1>2 DEF vars
<1>3. ASSUME NEW r \in Request, SendLimit(r), pc[r] # "waiting"  PROVE LineAccounted'
  <2>1. sendq = <<>>
    BY <1>0, <1>3 DEF SendLimit
  <2> QED BY <1>0, <1>3, <2>1 DEF SendLimit, LineAccounted, InLine, At
<1>4. ASSUME NEW r \in Request, pc[r] # "waiting", NEW l \in {"dropping", "releasing"},
             RecvLimit([pc EXCEPT ![r] = l])
      PROVE  LineAccounted'
  <2>1. CASE sendq = <<>>
    BY <1>0, <1>4, <2>1 DEF RecvLimit, LineAccounted, InLine, At
  <2>2. CASE sendq # <<>>
    <3>1. /\ Head(sendq) \in Request /\ IsInjective(Tail(sendq))
          /\ Range(Tail(sendq)) = {x \in Request : pc[x] = "waiting"} \ {Head(sendq)}
      BY <1>0, <2>2, HeadWaits DEF InLine
    <3>2. /\ sendq' = Tail(sendq) /\ limit' = limit /\ limit = Limit
          /\ pc' = [[pc EXCEPT ![r] = l] EXCEPT ![Head(sendq)] = "acquired"]
      BY <1>0, <1>4, <2>2 DEF RecvLimit
    <3>3. {x \in Request : pc'[x] = "waiting"} = Range(sendq')
      BY <1>0, <1>4, <3>1, <3>2
    <3> QED BY <3>1, <3>2, <3>3 DEF LineAccounted, InLine, At
  <2> QED BY <2>1, <2>2
<1>5. ASSUME NEW r \in Request, ArriveAdmitted(r) \/ SelectAdmitted(r)  PROVE LineAccounted'
  BY <1>3, <1>5 DEF ArriveAdmitted, SelectAdmitted
<1>6. ASSUME NEW r \in Request, ArriveRefused(r) \/ ArriveFull(r)  PROVE LineAccounted'
  BY <1>0, <1>1, <1>6 DEF ArriveRefused, ArriveFull, channels
<1>7. ASSUME NEW r \in Request, SelectBlocks(r)  PROVE LineAccounted'
  <2>1. r \notin Range(sendq)
    BY <1>0, <1>7 DEF SelectBlocks
  <2>2. /\ sendq' # <<>> /\ IsInjective(sendq')
        /\ Range(sendq') = Range(sendq) \cup {r}
    BY <1>0, <1>7, <2>1, JoinLine DEF SelectBlocks
  <2>3. {x \in Request : pc'[x] = "waiting"} = {x \in Request : pc[x] = "waiting"} \cup {r}
    BY <1>0, <1>7 DEF SelectBlocks
  <2> QED BY <1>0, <1>7, <2>2, <2>3 DEF SelectBlocks, LineAccounted, InLine, At
<1>8. ASSUME NEW r \in Request, Disconnect(r)  PROVE LineAccounted'
  <2>1. {x \in Request : pc'[x] = "waiting"} = {x \in Request : pc[x] = "waiting"} \ {r}
    BY <1>0, <1>8 DEF Disconnect
  <2>2. IsInjective(sendq') /\ Range(sendq') = Range(sendq) \ {r}
    <3>1. CASE r \in InLine
      <4>1. PICK i \in DOMAIN sendq : sendq[i] = r /\ sendq' = RemoveAt(sendq, i)
        BY <1>8, <3>1 DEF Disconnect
      <4> QED BY <1>0, <4>1, QuitLine
    <3>2. CASE r \notin InLine
      BY <1>0, <1>8, <3>2 DEF Disconnect, InLine
    <3> QED BY <3>1, <3>2
  <2>3. sendq' # <<>> => sendq # <<>>
    <3>1. sendq = <<>> => r \notin InLine
      BY DEF InLine, Range
    <3> QED BY <1>8, <3>1 DEF Disconnect
  <2> QED BY <1>0, <1>8, <2>1, <2>2, <2>3 DEF Disconnect, LineAccounted, InLine, At
<1>9. ASSUME NEW r \in Request, LeaveQueued(r) \/ Accept(r) \/ Unqueue(r)  PROVE LineAccounted'
  BY <1>0, <1>1, <1>9 DEF LeaveQueued, Accept, Unqueue
<1>10. ASSUME NEW r \in Request, DropLimit(r) \/ ReleaseLimit(r)  PROVE LineAccounted'
  BY <1>4, <1>10 DEF DropLimit, ReleaseLimit
<1>11. ASSUME NEW r \in Request, DropPending(r) \/ Create(r) \/ ReleaseUsed(r)  PROVE LineAccounted'
  BY <1>0, <1>1, <1>11 DEF DropPending, Create, CreatePending, CreateUsed, ReleaseUsed
<1>12. ASSUME NEW r \in Request, Push(r) \/ Again(r)  PROVE LineAccounted'
  BY <1>0, <1>1, <1>12 DEF Push, Again, channels
<1> QED BY <1>2, <1>5, <1>6, <1>7, <1>8, <1>9, <1>10, <1>11, <1>12
        DEF Next, Protect, Drop, Release

(* So do the pushers. *)
LEMMA PushersStep == IInv /\ [Next]_vars => PushersAccounted'
<1> SUFFICES ASSUME IInv, [Next]_vars PROVE PushersAccounted'
  OBVIOUS
<1> USE DEF Outcome, Location, PushersAccounted
<1>0. /\ TypeOK /\ LineAccounted /\ pc \in [Request -> Location]
      /\ pusher \in [Request -> {"none", "ready", "done"}] /\ PushersAccounted
  BY DEF IInv, TypeOK
<1>1. CASE UNCHANGED vars
  BY <1>0, <1>1 DEF vars
<1>2. ASSUME NEW r \in Request, ArriveAdmitted(r) \/ SelectAdmitted(r)  PROVE PushersAccounted'
  BY <1>0, <1>2 DEF ArriveAdmitted, SelectAdmitted, SendLimit
<1>3. ASSUME NEW r \in Request, ArriveRefused(r) \/ ArriveFull(r)  PROVE PushersAccounted'
  BY <1>0, <1>3 DEF ArriveRefused, ArriveFull, channels
<1>4. ASSUME NEW r \in Request, SelectBlocks(r) \/ Disconnect(r) \/ LeaveQueued(r)  PROVE PushersAccounted'
  BY <1>0, <1>4 DEF SelectBlocks, Disconnect, LeaveQueued
<1>5. ASSUME NEW r \in Request, Accept(r) \/ Unqueue(r) \/ Push(r) \/ Again(r)  PROVE PushersAccounted'
  BY <1>0, <1>5 DEF Accept, Unqueue, Push, Again
<1>6. ASSUME NEW r \in Request, DropLimit(r) \/ ReleaseLimit(r)  PROVE PushersAccounted'
  <2>1. \A x \in Request \ {r} : \/ pc'[x] = pc[x]
                                 \/ pc[x] = "waiting" /\ pc'[x] = "acquired"
    BY <1>0, <1>6, RecvMoves DEF DropLimit, ReleaseLimit
  <2>2. pc[r] \in {"serving", "open"} /\ pc'[r] \in {"dropping", "releasing"} /\ pusher' = pusher
    BY <1>0, <1>6, RecvMoves DEF DropLimit, ReleaseLimit
  <2> QED BY <1>0, <2>1, <2>2
<1>7. ASSUME NEW r \in Request, DropPending(r) \/ Create(r) \/ ReleaseUsed(r)  PROVE PushersAccounted'
  BY <1>0, <1>7 DEF DropPending, Create, CreatePending, CreateUsed, ReleaseUsed
<1> QED BY <1>1, <1>2, <1>3, <1>4, <1>5, <1>6, <1>7 DEF Next, Protect, Drop, Release

------------------------------------------------------------------------------
(* The inductive invariant holds in every reachable state. *)
THEOREM Invariance == Spec => []IInv
<1>1. IInv /\ [Next]_vars => IInv'
  BY TypeStep, SlotsStep, GaugesStep, LineStep, PushersStep DEF IInv
<1> QED BY <1>1, InitInv, PTL DEF Spec

(* The channels and the locations of the requests keep their types. *)
THEOREM TypeCorrectness == Spec => []TypeOK
<1>1. IInv => TypeOK
  BY DEF IInv
<1> QED BY <1>1, Invariance, PTL

(* No slot leaks and none is given out twice, for every number of requests,   *)
(* of slots and every order of their steps.                                   *)
THEOREM SlotSafety == Spec => []SlotsAccounted
<1>1. IInv => SlotsAccounted
  BY DEF IInv
<1> QED BY <1>1, Invariance, PTL

(* At most Limit requests are being created or have an open session. *)
THEOREM LimitIsRespected == Spec => [](Cardinality(Holders) <= Limit)
<1>1. IInv => Cardinality(Holders) <= Limit
  BY LimitAssumption DEF IInv, TypeOK, SlotsAccounted
<1> QED BY <1>1, Invariance, PTL

(* The gauges shown by /status are those of the requests' locations. *)
THEOREM GaugesAreTrue == Spec => []GaugesAccounted
<1>1. IInv => GaugesAccounted
  BY DEF IInv
<1> QED BY <1>1, Invariance, PTL

(* No slot is idle while a request waits, and no request waits twice. *)
THEOREM NoIdleSlot == Spec => []LineAccounted
<1>1. IInv => LineAccounted
  BY DEF IInv
<1> QED BY <1>1, Invariance, PTL

(* Whoever receives belongs to those whose elements the channel holds. *)
LEMMA QueueFlows == IInv => NeverStarves
<1> SUFFICES ASSUME IInv, NEW r \in Request
             PROVE  /\ pc[r] \in {"serving", "open"} => limit > 0
                    /\ pc[r] \in {"serving", "dropping"} => pending > 0
                    /\ pc[r] = "releasing" => used > 0
  BY DEF NeverStarves
<1>1. /\ IsFiniteSet(Holders) /\ Cardinality(Holders) \in Nat
      /\ IsFiniteSet(Pending) /\ Cardinality(Pending) \in Nat
      /\ IsFiniteSet(Used) /\ Cardinality(Used) \in Nat
  BY FiniteRequests DEF Holders, Pending, Used, At
<1>5. pc[r] \in {"serving", "open"} => limit > 0
  <2>1. pc[r] \in {"serving", "open"} => r \in Holders
    BY DEF Holders, At
  <2>2. r \in Holders => limit > 0
    BY <1>1, FS_EmptySet DEF IInv, SlotsAccounted
  <2> QED BY <2>1, <2>2
<1>6. pc[r] \in {"serving", "dropping"} => pending > 0
  <2>1. pc[r] \in {"serving", "dropping"} => r \in Pending
    BY DEF Pending, At
  <2>2. r \in Pending => pending > 0
    BY <1>1, FS_EmptySet DEF IInv, GaugesAccounted
  <2> QED BY <2>1, <2>2
<1>7. pc[r] = "releasing" => used > 0
  <2>1. pc[r] = "releasing" => r \in Used
    BY DEF Used, At
  <2>2. r \in Used => used > 0
    BY <1>1, FS_EmptySet DEF IInv, GaugesAccounted
  <2> QED BY <2>1, <2>2
<1> QED BY <1>5, <1>6, <1>7

(* Drop, Create and Release never block: the element each of their receives   *)
(* takes is there, whatever the others do meanwhile.                          *)
THEOREM ReceivesNeverBlock == Spec => []NeverStarves
BY QueueFlows, Invariance, PTL

(* Nobody that waits is overtaken: a slot goes to the head of the line, and a *)
(* newcomer finds one only when the line is empty.                            *)
THEOREM FirstComeFirstServed == Spec => NoOvertaking
<1> DEFINE Fair == \A r \in Request : pc[r] # "acquired" /\ pc'[r] = "acquired"
                                        => sendq = <<>> \/ r = Head(sendq)
<1>1. IInv /\ [Next]_vars => [Fair]_vars
  <2> SUFFICES ASSUME IInv, Next, sendq # <<>>, NEW r \in Request,
                      pc[r] # "acquired", pc'[r] = "acquired"
               PROVE  r = Head(sendq)
    OBVIOUS
  <2>0. TypeOK /\ LineAccounted /\ limit = Limit /\ Limit \in Nat /\ pc \in [Request -> Location]
    BY LimitAssumption DEF IInv, TypeOK, LineAccounted
  <2>1. PICK s \in Request : \/ Protect(s) \/ Push(s) \/ Again(s)
                             \/ Drop(s) \/ Create(s) \/ Release(s)
    BY DEF Next
  <2>2. ~SendLimit(s)
    BY <2>0 DEF SendLimit
  <2>3. CASE Protect(s)
    BY <2>0, <2>2, <2>3
    DEF Protect, ArriveAdmitted, ArriveRefused, ArriveFull, SelectAdmitted,
        SelectBlocks, Disconnect, LeaveQueued, Accept, Unqueue
  <2>4. CASE Push(s) \/ Again(s)
    BY <2>0, <2>4 DEF Push, Again
  <2>5. CASE DropLimit(s) \/ ReleaseLimit(s)
    <3>1. \A l \in {"dropping", "releasing"} :
            RecvLimit([pc EXCEPT ![s] = l])
              => pc' = [[pc EXCEPT ![s] = l] EXCEPT ![Head(sendq)] = "acquired"]
      BY DEF RecvLimit
    <3>2. Head(sendq) \in Request
      BY <2>0, HeadWaits
    <3> QED BY <2>0, <2>5, <3>1, <3>2 DEF DropLimit, ReleaseLimit
  <2>6. CASE DropPending(s) \/ Create(s) \/ ReleaseUsed(s)
    BY <2>0, <2>6 DEF DropPending, Create, CreatePending, CreateUsed, ReleaseUsed
  <2> QED BY <2>1, <2>3, <2>4, <2>5, <2>6 DEF Drop, Release
<1> QED BY <1>1, Invariance, PTL DEF Spec, NoOvertaking

(* Nobody receives in vain at lines 60 and 68: an element of queued is there, *)
(* or a pusher that has not run yet will bring one, though any request may    *)
(* have taken the element of any other.                                       *)
TokenComes == \A r \in Request : pc[r] \in {"accepted", "leaving"} =>
                queued > 0 \/ \E s \in Request : pusher[s] = "ready"

(* With no pusher left to run, who receives has pushed and is not counted    *)
(* among those who have got an element.                                       *)
LEMMA TokenIsDue == IInv => TokenComes
<1> SUFFICES ASSUME IInv, NEW r \in Request, pc[r] \in {"accepted", "leaving"},
                    \A s \in Request : pusher[s] # "ready"
             PROVE  queued > 0
  BY DEF TokenComes
<1>0. /\ pc \in [Request -> Location] /\ pusher \in [Request -> {"none", "ready", "done"}]
      /\ queued \in Nat /\ queued + Cardinality(Unqueued) = Cardinality(Pushed)
  BY DEF IInv, TypeOK, GaugesAccounted
<1>1. \A s \in Request : pusher[s] # "none" => s \in Pushed
  BY <1>0 DEF Pushed
<1>2. Unqueued \cup {r} \subseteq Pushed
  <2>1. \A s \in Unqueued \cup {r} : s \in Request /\ pusher[s] # "none"
    BY DEF IInv, PushersAccounted, Unqueued, Outcome
  <2> QED BY <1>1, <2>1
<1>3. r \notin Unqueued
  BY DEF Unqueued, Outcome
<1>4. /\ IsFiniteSet(Unqueued) /\ Cardinality(Unqueued) \in Nat
      /\ IsFiniteSet(Pushed) /\ Cardinality(Pushed) \in Nat
  BY FiniteRequests DEF Unqueued, Pushed
<1>5. Cardinality(Unqueued \cup {r}) = Cardinality(Unqueued) + 1
  BY <1>3, <1>4, OneMore
<1>6. Cardinality(Unqueued \cup {r}) <= Cardinality(Pushed)
  BY <1>2, <1>4, FS_Subset
<1> QED BY <1>0, <1>4, <1>5, <1>6

(* The pushers, however late they run, always bring what the requests receive *)
(* from queued.                                                               *)
THEOREM TokensAreDue == Spec => []TokenComes
BY TokenIsDue, Invariance, PTL

------------------------------------------------------------------------------
(* The order of the line.                                                     *)

(* q stands before r. *)
Before(line, q, r) == \E i, j \in DOMAIN line : i < j /\ line[i] = q /\ line[j] = r

(* Nobody gets in before a request that waits, and each slot that is freed    *)
(* lets it in or takes away the head of the line before it.                   *)
MovesUp ==
  /\ \A q, r \in Request : pc[r] = "waiting" /\ Before(sendq', q, r) => Before(sendq, q, r)
  /\ \A s \in Request : DropLimit(s) \/ ReleaseLimit(s) =>
       \A r \in Request : pc[r] = "waiting" =>
         \/ pc'[r] = "acquired"
         \/ Before(sendq, Head(sendq), r) /\ ~Before(sendq', Head(sendq), r)
LineMovesUp == [][MovesUp]_vars

(* Who joins the end of a line stands before nobody. *)
LEMMA JoinsBehind ==
  ASSUME NEW S, NEW s \in Seq(S), NEW x \in S, NEW q, NEW r, r # x,
         Before(Append(s, x), q, r)
  PROVE  Before(s, q, r)
<1>1. /\ Len(s) \in Nat /\ DOMAIN s = 1..Len(s) /\ DOMAIN Append(s, x) = 1..Len(s) + 1
      /\ \A i \in 1..Len(s) : Append(s, x)[i] = s[i]
      /\ Append(s, x)[Len(s) + 1] = x
  OBVIOUS
<1>2. PICK i, j \in 1..Len(s) + 1 : i < j /\ Append(s, x)[i] = q /\ Append(s, x)[j] = r
  BY <1>1 DEF Before
<1>3. i \in 1..Len(s) /\ j \in 1..Len(s)
  BY <1>1, <1>2
<1> QED BY <1>1, <1>2, <1>3 DEF Before

(* The order of those who stay is kept when the head leaves, who was before   *)
(* all of them and is before nobody then.                                     *)
LEMMA HeadWasFirst ==
  ASSUME NEW S, NEW s \in Seq(S), s # <<>>, IsInjective(s)
  PROVE  /\ \A q, r : Before(Tail(s), q, r) => Before(s, q, r)
         /\ \A r \in Range(s) : r # Head(s) => Before(s, Head(s), r)
         /\ \A r : ~Before(Tail(s), Head(s), r)
<1>1. /\ Len(s) \in Nat \ {0} /\ DOMAIN s = 1..Len(s) /\ Head(s) = s[1]
      /\ DOMAIN Tail(s) = 1..Len(s) - 1
      /\ \A i \in 1..Len(s) - 1 : Tail(s)[i] = s[i + 1]
  BY HeadTailProperties, EmptySeq
<1>2. ASSUME NEW q, NEW r, Before(Tail(s), q, r)  PROVE Before(s, q, r)
  <2>1. PICK i, j \in 1..Len(s) - 1 : i < j /\ Tail(s)[i] = q /\ Tail(s)[j] = r
    BY <1>1, <1>2 DEF Before
  <2>2. /\ i + 1 \in 1..Len(s) /\ j + 1 \in 1..Len(s) /\ i + 1 < j + 1
        /\ s[i + 1] = q /\ s[j + 1] = r
    BY <1>1, <2>1
  <2> QED BY <1>1, <2>2 DEF Before
<1>3. ASSUME NEW r \in Range(s), r # Head(s)  PROVE Before(s, Head(s), r)
  <2>1. PICK j \in 1..Len(s) : s[j] = r
    BY <1>1 DEF Range
  <2>2. 1 < j /\ 1 \in 1..Len(s)
    BY <1>1, <1>3, <2>1
  <2> QED BY <1>1, <2>1, <2>2 DEF Before
<1>4. ASSUME NEW r, Before(Tail(s), Head(s), r)  PROVE FALSE
  <2>1. PICK i \in 1..Len(s) - 1 : Tail(s)[i] = Head(s)
    BY <1>1, <1>4 DEF Before
  <2>2. i + 1 \in 1..Len(s) /\ 1 \in 1..Len(s) /\ i + 1 # 1 /\ s[i + 1] = s[1]
    BY <1>1, <2>1
  <2> QED BY <1>1, <2>2 DEF IsInjective
<1> QED BY <1>2, <1>3, <1>4

(* So it is when somebody quits. *)
LEMMA OthersKeepOrder ==
  ASSUME NEW S, NEW s \in Seq(S), NEW k \in DOMAIN s, IsInjective(s),
         NEW q, NEW r, Before(RemoveAt(s, k), q, r)
  PROVE  Before(s, q, r)
<1> DEFINE t == RemoveAt(s, k)
           old(i) == IF i < k THEN i ELSE i + 1
<1>1. /\ Len(s) \in Nat /\ DOMAIN s = 1..Len(s) /\ DOMAIN t = 1..Len(s) - 1 /\ k \in Nat
      /\ \A i \in 1..Len(s) - 1 : t[i] = IF i < k THEN s[i] ELSE s[i + 1]
  BY QuitLine
<1> HIDE DEF t
<1>2. PICK i, j \in 1..Len(s) - 1 : i < j /\ t[i] = q /\ t[j] = r
  BY <1>1 DEF Before, t
<1>3. /\ old(i) \in 1..Len(s) /\ old(j) \in 1..Len(s) /\ old(i) < old(j)
      /\ s[old(i)] = q /\ s[old(j)] = r
  BY <1>1, <1>2
<1> QED BY <1>1, <1>3 DEF Before

(* Only a slot that is freed, a request that blocks and one that leaves       *)
(* change the line.                                                           *)
LEMMA MovesUpStep == IInv /\ [Next]_vars => [MovesUp]_vars
<1> SUFFICES ASSUME IInv, Next PROVE MovesUp
  OBVIOUS
<1>0. /\ TypeOK /\ LineAccounted /\ sendq \in Seq(Request) /\ pc \in [Request -> Location]
      /\ InLine = {x \in Request : pc[x] = "waiting"} /\ IsInjective(sendq)
  BY DEF IInv, TypeOK, LineAccounted, At
<1>1. ASSUME NEW s \in Request, DropLimit(s) \/ ReleaseLimit(s)
      PROVE  /\ \A q, r \in Request : Before(sendq', q, r) => Before(sendq, q, r)
             /\ \A r \in Request : pc[r] = "waiting" =>
                  \/ pc'[r] = "acquired"
                  \/ Before(sendq, Head(sendq), r) /\ ~Before(sendq', Head(sendq), r)
  <2>0. PICK l \in {"dropping", "releasing"} : RecvLimit([pc EXCEPT ![s] = l])
    BY <1>1 DEF DropLimit, ReleaseLimit
  <2>1. CASE sendq = <<>>
    <3>1. sendq' = sendq /\ InLine = {}
      BY <2>0, <2>1 DEF RecvLimit, InLine, Range
    <3> QED BY <1>0, <3>1 DEF Before
  <2>2. CASE sendq # <<>>
    <3>1. /\ sendq' = Tail(sendq) /\ Head(sendq) \in Request
          /\ pc' = [[pc EXCEPT ![s] = l] EXCEPT ![Head(sendq)] = "acquired"]
      BY <1>0, <2>0, <2>2, HeadWaits DEF RecvLimit
    <3>2. pc'[Head(sendq)] = "acquired"
      BY <1>0, <3>1
    <3>3. /\ \A q, r : Before(sendq', q, r) => Before(sendq, q, r)
          /\ \A r \in InLine : r # Head(sendq) => Before(sendq, Head(sendq), r)
          /\ \A r : ~Before(sendq', Head(sendq), r)
      BY <1>0, <2>2, <3>1, HeadWasFirst DEF InLine
    <3> QED BY <1>0, <3>2, <3>3
  <2> QED BY <2>1, <2>2
<1>2. ASSUME NEW s \in Request, SelectBlocks(s)
      PROVE  \A q, r \in Request : pc[r] = "waiting" /\ Before(sendq', q, r) => Before(sendq, q, r)
  <2>1. sendq' = Append(sendq, s) /\ pc[s] = "selecting"
    BY <1>2 DEF SelectBlocks
  <2>2. ASSUME NEW q \in Request, NEW r \in Request, r # s, Before(sendq', q, r)
        PROVE  Before(sendq, q, r)
    BY <1>0, <2>1, <2>2, JoinsBehind
  <2>3. \A r \in Request : pc[r] = "waiting" => r # s
    BY <2>1
  <2> QED BY <2>2, <2>3
<1>3. ASSUME NEW s \in Request, Disconnect(s)
      PROVE  \A q, r \in Request : Before(sendq', q, r) => Before(sendq, q, r)
  <2>1. CASE sendq' = sendq
    BY <2>1
  <2>2. CASE \E k \in DOMAIN sendq : sendq' = RemoveAt(sendq, k)
    BY <1>0, <2>2, OthersKeepOrder
  <2> QED BY <1>3, <2>1, <2>2 DEF Disconnect
<1>4. ASSUME sendq' = sendq
      PROVE  \A q, r \in Request : Before(sendq', q, r) => Before(sendq, q, r)
  BY <1>4
<1>5. PICK s \in Request : \/ Protect(s) \/ Push(s) \/ Again(s)
                           \/ Drop(s) \/ Create(s) \/ Release(s)
  BY DEF Next
<1>6. \/ DropLimit(s) \/ ReleaseLimit(s) \/ SelectBlocks(s) \/ Disconnect(s)
      \/ sendq' = sendq
  BY <1>5 DEF Protect, ArriveAdmitted, ArriveRefused, ArriveFull, SelectAdmitted, SendLimit,
              LeaveQueued, Accept, Unqueue, Push, Again, Drop, DropPending, Create,
              CreatePending, CreateUsed, Release, ReleaseUsed, channels
<1>7. \A q, r \in Request : pc[r] = "waiting" /\ Before(sendq', q, r) => Before(sendq, q, r)
  BY <1>1, <1>2, <1>3, <1>4, <1>6
<1> QED BY <1>1, <1>7 DEF MovesUp

(* Who waits at line 58 only moves towards the head of the line, by one place *)
(* or more with each slot that is given back.                                 *)
THEOREM NobodyGetsBefore == Spec => LineMovesUp
BY MovesUpStep, Invariance, PTL DEF Spec, LineMovesUp

------------------------------------------------------------------------------
(* Every step of the channels is a step of module Admission or leaves its     *)
(* state alone: to let in, to join the line, to quit it or to hand over.      *)
LEMMA RefinementStep == IInv /\ [Next]_vars => [Line!Next]_(Line!vars)
<1> SUFFICES ASSUME IInv, [Next]_vars PROVE [Line!Next]_(Line!vars)
  OBVIOUS
<1>0. /\ TypeOK /\ LineAccounted /\ pc \in [Request -> Location] /\ limit \in Nat /\ Limit \in Nat
      /\ limit = Cardinality(Holders) /\ limit <= Limit
      /\ Range(sendq) = {x \in Request : pc[x] = "waiting"}
  BY LimitAssumption DEF IInv, TypeOK, SlotsAccounted, LineAccounted, InLine, At
<1>11. Line!Cardinality(Holders) = Cardinality(Holders)
  BY DEF Line!Cardinality, Cardinality
<1>1. ASSUME Holders' = Holders, sendq' = sendq  PROVE [Line!Next]_(Line!vars)
  BY <1>1 DEF Line!vars
<1>2. CASE UNCHANGED vars
  BY <1>1, <1>2 DEF vars, Holders, At
<1>3. ASSUME NEW r \in Request, pc[r] \in {"idle", "selecting"}
      PROVE  r \in Line!Outside
  BY <1>0, <1>3 DEF Line!Outside, Line!Waiting, Line!Range, Range, Holders, At
<1>4. ASSUME NEW r \in Request, ArriveAdmitted(r) \/ SelectAdmitted(r)
      PROVE  Line!Enter(r)
  <2>1. SendLimit(r) /\ pc[r] \in {"idle", "selecting"} /\ limit < Limit
    BY <1>4 DEF ArriveAdmitted, SelectAdmitted, SendLimit
  <2>2. Holders' = Holders \cup {r} /\ sendq' = sendq
    BY <2>1, SendHolders DEF SendLimit
  <2> QED BY <1>0, <1>3, <1>11, <2>1, <2>2 DEF Line!Enter, Line!Full
<1>5. ASSUME NEW r \in Request, SelectBlocks(r)  PROVE Line!Join(r)
  <2>1. Holders' = Holders
    BY <1>0, <1>5 DEF SelectBlocks, Holders, At
  <2> QED BY <1>0, <1>3, <1>5, <1>11, <2>1 DEF SelectBlocks, Line!Join, Line!Full
<1>6. ASSUME NEW r \in Request, Disconnect(r)  PROVE [Line!Next]_(Line!vars)
  <2>1. Holders' = Holders
    BY <1>0, <1>6 DEF Disconnect, Holders, At
  <2>2. CASE r \in InLine
    <3>1. \E i \in DOMAIN sendq : Line!Quit(i)
      BY <1>6, <2>1, <2>2 DEF Disconnect, Line!Quit, Line!RemoveAt, RemoveAt
    <3> QED BY <3>1 DEF Line!Next
  <2>3. CASE r \notin InLine
    BY <1>1, <1>6, <2>1, <2>3 DEF Disconnect
  <2> QED BY <2>2, <2>3
<1>7. ASSUME NEW r \in Request, DropLimit(r) \/ ReleaseLimit(r)  PROVE Line!Leave(r)
  <2>1. /\ r \in Holders
        /\ \E l \in {"dropping", "releasing"} : RecvLimit([pc EXCEPT ![r] = l])
    BY <1>7 DEF DropLimit, ReleaseLimit, Holders, At
  <2>2. Holders' = IF sendq = <<>> THEN Holders \ {r}
                                   ELSE (Holders \ {r}) \cup {Head(sendq)}
    BY <2>1, RecvHolders
  <2>3. IF sendq = <<>> THEN sendq' = sendq ELSE sendq' = Tail(sendq)
    BY <2>1 DEF RecvLimit
  <2> QED BY <2>1, <2>2, <2>3 DEF Line!Leave
<1>8. ASSUME NEW r \in Request, \/ ArriveRefused(r) \/ ArriveFull(r) \/ LeaveQueued(r)
                                \/ Accept(r) \/ Unqueue(r)
      PROVE  [Line!Next]_(Line!vars)
  BY <1>0, <1>1, <1>8
  DEF ArriveRefused, ArriveFull, LeaveQueued, Accept, Unqueue, channels, Holders, At
<1>9. ASSUME NEW r \in Request, \/ DropPending(r) \/ Create(r) \/ ReleaseUsed(r)
                                \/ Push(r) \/ Again(r)
      PROVE  [Line!Next]_(Line!vars)
  BY <1>0, <1>1, <1>9
  DEF DropPending, Create, CreatePending, CreateUsed, ReleaseUsed, Push, Again,
      channels, Holders, At
<1>10. ASSUME NEW r \in Request, Line!Enter(r) \/ Line!Join(r) \/ Line!Leave(r)
       PROVE  [Line!Next]_(Line!vars)
  BY <1>10 DEF Line!Next
<1> QED BY <1>2, <1>4, <1>5, <1>6, <1>7, <1>8, <1>9, <1>10
        DEF Next, Protect, Drop, Release

(* The channels keep the promise made to the clients: every step is a step of *)
(* module Admission or leaves its state alone.                                *)
THEOREM QueueImplementsAdmission == Spec => Promise
<1>1. Init => Line!Init
  BY DEF Init, Line!Init, Holders, At
<1> QED BY <1>1, RefinementStep, Invariance, PTL DEF Spec, Promise, Line!Spec
==============================================================================
