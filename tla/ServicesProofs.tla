---------------------------- MODULE ServicesProofs ----------------------------
(* What module Services guarantees for any number of networks: nothing that   *)
(* runs is lost, Cancel takes a browser away last, error paths and Cancel end *)
(* after a few calls, and wait() tells its goroutine when it has returned.    *)
EXTENDS Services, TLAPS, SequenceTheorems

Call == {"kill", "await", "logs", "stop", "remove", "signal", "reap"} \X Thing

(* A list of calls that will end c. *)
Ends(steps, c) == \E i \in DOMAIN steps : steps[i][2] = c /\ steps[i][1] # "logs"

(* Calls whose outcome does not count are followed by one whose does. *)
Paired(steps) == \A i \in 1..Len(steps) :
  /\ steps[i][1] = "stop" => i < Len(steps) /\ steps[i + 1] = <<"remove", steps[i][2]>>
  /\ steps[i][1] = "signal" => i < Len(steps) /\ steps[i + 1] = <<"reap", steps[i][2]>>

(* Nothing is left to do but on an error path and in Cancel. *)
TodoInPlace == pc \notin {"failing", "cancelling"} => todo = <<>>

(* What runs is what the kind of the browser and its place allow. *)
ThingsInPlace ==
  /\ kind = "docker" => ~Alive("process")
  /\ kind = "driver" => ~Alive("browser") /\ ~Alive("video")
  /\ Alive("video") => want.video
  /\ pc \in {"begin", "create", "exec"} => \A c \in Thing : ~Alive(c)
  /\ pc \in {"start", "connect", "inspect", "createVideo"} => ~Alive("video")
  /\ pc \in {"create", "start", "connect", "inspect", "createVideo", "startVideo"}
       => kind = "docker"
  /\ pc = "exec" => kind = "driver"
  /\ pc \in {"createVideo", "startVideo"} => want.video

(* In Cancel, whatever ends the browser comes after what ends its recorder    *)
(* and after the copy of its log.                                             *)
Orderly(steps) == \A i \in 1..Len(steps) : steps[i][1] # "logs" /\ steps[i][2] = "browser" =>
  /\ Alive("video") => \/ "video" \in spared
                       \/ \E j \in 1..i - 1 : steps[j][2] = "video"
  /\ want.log => \/ logged # "none"
                 \/ \E j \in 1..i - 1 : steps[j] = <<"logs", "browser">>

IInv == /\ ServicesTypeOK /\ TodoInPlace /\ ThingsInPlace /\ NothingLost
        /\ Paired(todo)
        /\ pc = "cancelling" => Orderly(todo)

------------------------------------------------------------------------------
(* Lists of calls.                                                            *)

(* A list made of two ends what either of them ends. *)
LEMMA ConcatEnds ==
  ASSUME NEW s \in Seq(Call), NEW t \in Seq(Call), NEW c
  PROVE  Ends(s \o t, c) <=> Ends(s, c) \/ Ends(t, c)
<1>1. /\ Len(s) \in Nat /\ Len(t) \in Nat /\ s \o t \in Seq(Call)
      /\ DOMAIN s = 1..Len(s) /\ DOMAIN t = 1..Len(t)
      /\ DOMAIN (s \o t) = 1..Len(s) + Len(t)
      /\ \A i \in 1..Len(s) + Len(t) :
           (s \o t)[i] = IF i <= Len(s) THEN s[i] ELSE t[i - Len(s)]
  BY ConcatProperties, LenProperties
<1> DEFINE st == s \o t
<1> HIDE DEF st
<1>2. ASSUME NEW i \in 1..Len(s) + Len(t), st[i][2] = c, st[i][1] # "logs"
      PROVE  Ends(s, c) \/ Ends(t, c)
  <2>1. CASE i <= Len(s)
    BY <1>1, <1>2, <2>1 DEF Ends, st
  <2>2. CASE i > Len(s)
    <3>1. i - Len(s) \in 1..Len(t) /\ st[i] = t[i - Len(s)]
      BY <1>1, <2>2 DEF st
    <3> QED BY <1>1, <1>2, <3>1 DEF Ends
  <2> QED BY <1>1, <2>1, <2>2
<1>3. ASSUME NEW i \in 1..Len(s), s[i][2] = c, s[i][1] # "logs"  PROVE Ends(st, c)
  <2>1. i \in 1..Len(s) + Len(t) /\ st[i] = s[i]
    BY <1>1 DEF st
  <2> QED BY <1>1, <1>3, <2>1 DEF Ends, st
<1>4. ASSUME NEW i \in 1..Len(t), t[i][2] = c, t[i][1] # "logs"  PROVE Ends(st, c)
  <2>1. Len(s) + i \in 1..Len(s) + Len(t) /\ st[Len(s) + i] = t[i]
    BY <1>1 DEF st
  <2> QED BY <1>1, <1>4, <2>1 DEF Ends, st
<1> QED BY <1>1, <1>2, <1>3, <1>4 DEF Ends, st

(* Calls that are paired in two lists are paired in the list made of them. *)
LEMMA ConcatPaired ==
  ASSUME NEW s \in Seq(Call), NEW t \in Seq(Call), Paired(s), Paired(t)
  PROVE  Paired(s \o t)
<1> DEFINE st == s \o t
<1>1. /\ Len(s) \in Nat /\ Len(t) \in Nat /\ Len(st) = Len(s) + Len(t)
      /\ \A i \in 1..Len(s) + Len(t) : st[i] = IF i <= Len(s) THEN s[i] ELSE t[i - Len(s)]
  BY ConcatProperties, LenProperties
<1> HIDE DEF st
<1> SUFFICES ASSUME NEW i \in 1..Len(s) + Len(t)
             PROVE  /\ st[i][1] = "stop" => /\ i < Len(st)
                                            /\ st[i + 1] = <<"remove", st[i][2]>>
                    /\ st[i][1] = "signal" => /\ i < Len(st)
                                              /\ st[i + 1] = <<"reap", st[i][2]>>
  BY <1>1 DEF Paired, st
<1>2. CASE i <= Len(s)
  <2>1. st[i] = s[i] /\ i \in 1..Len(s)
    BY <1>1, <1>2
  <2>2. i < Len(s) => st[i + 1] = s[i + 1] /\ i < Len(st)
    BY <1>1
  <2> QED BY <2>1, <2>2 DEF Paired
<1>3. CASE i > Len(s)
  <2> DEFINE k == i - Len(s)
  <2>1. st[i] = t[k] /\ k \in 1..Len(t)
    BY <1>1, <1>3
  <2>2. k < Len(t) => st[i + 1] = t[k + 1] /\ i < Len(st)
    BY <1>1, <1>3
  <2> HIDE DEF k
  <2> QED BY <2>1, <2>2 DEF Paired
<1> QED BY <1>1, <1>2, <1>3

(* The lists that the code starts from. *)
LEMMA Lists ==
  ASSUME NEW c \in Thing
  PROVE  /\ RemoveContainer(c) \in Seq(Call) /\ Paired(RemoveContainer(c))
         /\ Ends(RemoveContainer(c), c) /\ RemoveContainer(c) # <<>>
         /\ \A i \in DOMAIN RemoveContainer(c) :
              RemoveContainer(c)[i][1] # "logs" /\ RemoveContainer(c)[i][2] = c
         /\ StopProcess \in Seq(Call) /\ Paired(StopProcess)
         /\ Ends(StopProcess, "process") /\ StopProcess # <<>>
         /\ \A i \in DOMAIN StopProcess : StopProcess[i][2] = "process"
         /\ StopVideoContainer \in Seq(Call) /\ Paired(StopVideoContainer)
         /\ want.video => Ends(StopVideoContainer, "video")
         /\ \A i \in DOMAIN StopVideoContainer : StopVideoContainer[i][2] = "video"
<1>1. \A op \in {"kill", "stop", "remove"} : <<op, c>> \in Call
  BY DEF Call
<1>2. /\ RemoveContainer(c) \in Seq(Call) /\ Paired(RemoveContainer(c))
      /\ Ends(RemoveContainer(c), c) /\ RemoveContainer(c) # <<>>
      /\ \A i \in DOMAIN RemoveContainer(c) :
              RemoveContainer(c)[i][1] # "logs" /\ RemoveContainer(c)[i][2] = c
  <2>1. CASE want.graceful
    <3>1. RemoveContainer(c) = << <<"stop", c>>, <<"remove", c>> >>
      BY <2>1 DEF RemoveContainer
    <3> QED BY <1>1, <3>1 DEF Paired, Ends
  <2>2. CASE ~want.graceful
    <3>1. RemoveContainer(c) = << <<"remove", c>> >>
      BY <2>2 DEF RemoveContainer
    <3> QED BY <1>1, <3>1 DEF Paired, Ends
  <2> QED BY <2>1, <2>2
<1>3. /\ StopProcess \in Seq(Call) /\ Paired(StopProcess)
      /\ Ends(StopProcess, "process") /\ StopProcess # <<>>
      /\ \A i \in DOMAIN StopProcess : StopProcess[i][2] = "process"
  <2>1. <<"signal", "process">> \in Call /\ <<"reap", "process">> \in Call
    BY DEF Call, Thing
  <2> QED BY <2>1 DEF StopProcess, Paired, Ends
<1>4. /\ StopVideoContainer \in Seq(Call) /\ Paired(StopVideoContainer)
      /\ want.video => Ends(StopVideoContainer, "video")
      /\ \A i \in DOMAIN StopVideoContainer : StopVideoContainer[i][2] = "video"
  <2>1. <<"kill", "video">> \in Call
    BY DEF Call, Thing
  <2> QED BY <2>1 DEF StopVideoContainer, Paired, Ends
<1> QED BY <1>2, <1>3, <1>4

------------------------------------------------------------------------------
(* What all calls have in common: the head of todo gives way to further calls *)
(* for the recorder, and what it was to end is ended, was spared or is ended  *)
(* by a call to come.                                                         *)
CallMade(op, c, steps) ==
  /\ Calls(op, c) /\ c \in Thing
  /\ steps \in Seq(Call) /\ Paired(steps) /\ Then(steps)
  /\ \A i \in 1..Len(steps) : steps[i][2] = "video"
  /\ steps # <<>> => c = "video" /\ Ends(steps, "video")
  /\ UNCHANGED <<fixed, left, probing>>
  /\ \E d \in Thing : thing' = [thing EXCEPT ![d] = "gone"] \/ thing' = thing
  /\ \A d \in Thing : Alive(d)' => Alive(d)
  /\ spared \subseteq spared' /\ spared' \subseteq Thing
  /\ logged' \in {"none", "saved", "failed"}
  /\ logged # "none" => logged' # "none"
  /\ op = "logs" => c = "browser" /\ logged' # "none"
  /\ op \notin {"logs", "stop", "signal"} =>
       ~Alive(c)' \/ c \in spared' \/ steps # <<>>

LEMMA EveryCall ==
  ASSUME IInv, NextCall
  PROVE  \E op \in {"kill", "await", "logs", "stop", "remove", "signal", "reap"},
            c \in Thing, steps \in Seq(Call) : CallMade(op, c, steps)
<1>0. /\ thing \in [Thing -> {"none", "created", "running", "exited", "gone"}]
      /\ spared \subseteq Thing /\ logged \in {"none", "saved", "failed"}
      /\ "browser" \in Thing /\ "video" \in Thing /\ "process" \in Thing
  BY DEF IInv, ServicesTypeOK, Thing
<1>1. <<>> \in Seq(Call) /\ Paired(<<>>) /\ 1..Len(<<>>) = {}
  BY DEF Paired
<1>2. CASE Kill
  <2>1. CASE Alive("video") /\ Then(<< <<"await", "video">> >>) /\ UNCHANGED spared
    <3> DEFINE steps == << <<"await", "video">> >>
    <3>1. <<"await", "video">> \in Call
      BY DEF Call, Thing
    <3>2. /\ steps \in Seq(Call) /\ Paired(steps) /\ Ends(steps, "video") /\ steps # <<>>
          /\ \A i \in 1..Len(steps) : steps[i][2] = "video"
      BY <3>1 DEF Paired, Ends
    <3> HIDE DEF steps
    <3>3. CallMade("kill", "video", steps)
      BY <1>0, <1>2, <2>1, <3>2 DEF CallMade, Kill, Alive, steps
    <3> QED BY <1>0, <3>2, <3>3
  <2>2. CASE Then(<<>>) /\ Refused("video")
    <3>1. CallMade("kill", "video", <<>>)
      BY <1>0, <1>1, <1>2, <2>2 DEF CallMade, Kill, Alive, Refused
    <3> QED BY <1>0, <1>1, <3>1
  <2> QED BY <1>2, <2>1, <2>2 DEF Kill
<1>3. CASE Await
  <2>1. CASE Then(RemoveContainer("video")) /\ UNCHANGED spared
    <3> DEFINE steps == RemoveContainer("video")
    <3>2. /\ steps \in Seq(Call) /\ Paired(steps) /\ Ends(steps, "video") /\ steps # <<>>
          /\ \A i \in 1..Len(steps) : steps[i][2] = "video"
      BY <1>0, Lists, LenProperties
    <3> HIDE DEF steps
    <3>3. CallMade("await", "video", steps)
      BY <1>0, <1>3, <2>1, <3>2 DEF CallMade, Await, Alive, steps
    <3> QED BY <1>0, <3>2, <3>3
  <2>2. CASE Then(<<>>) /\ Refused("video")
    <3>1. CallMade("await", "video", <<>>)
      BY <1>0, <1>1, <1>3, <2>2 DEF CallMade, Await, Alive, Refused
    <3> QED BY <1>0, <1>1, <3>1
  <2> QED BY <1>3, <2>1, <2>2 DEF Await
<1>4. CASE CopyLogs
  <2>1. CallMade("logs", "browser", <<>>)
    BY <1>0, <1>1, <1>4 DEF CallMade, CopyLogs, Alive
  <2> QED BY <1>0, <1>1, <2>1
<1>5. ASSUME NEW c \in {"browser", "video"}, Stop(c)
      PROVE  CallMade("stop", c, <<>>) /\ c \in Thing
  BY <1>0, <1>1, <1>5 DEF CallMade, Stop, Becomes, Alive
<1>6. ASSUME NEW c \in {"browser", "video"}, Remove(c)
      PROVE  CallMade("remove", c, <<>>) /\ c \in Thing
  BY <1>0, <1>1, <1>6 DEF CallMade, Remove, Becomes, Alive, Refused
<1>7. CASE Signal
  <2>1. CallMade("signal", "process", <<>>)
    BY <1>0, <1>1, <1>7 DEF CallMade, Signal, Alive, Refused
  <2> QED BY <1>0, <1>1, <2>1
<1>8. CASE Reap
  <2>1. CallMade("reap", "process", <<>>)
    BY <1>0, <1>1, <1>8 DEF CallMade, Reap, Becomes, Alive
  <2> QED BY <1>0, <1>1, <2>1
<1> QED BY <1>1, <1>2, <1>3, <1>4, <1>5, <1>6, <1>7, <1>8 DEF NextCall

(* The list after a call, element by element. *)
LEMMA Shift ==
  ASSUME todo \in Seq(Call), todo # <<>>, NEW steps \in Seq(Call), Then(steps)
  PROVE  /\ todo' \in Seq(Call)
         /\ Len(todo) \in Nat \ {0} /\ Len(steps) \in Nat
         /\ Len(todo') = Len(steps) + Len(todo) - 1
         /\ Head(todo) = todo[1]
         /\ \A i \in 1..Len(steps) : todo'[i] = steps[i]
         /\ \A i \in 2..Len(todo) : todo'[Len(steps) + i - 1] = todo[i]
<1>1. /\ Tail(todo) \in Seq(Call) /\ Len(Tail(todo)) = Len(todo) - 1
      /\ Len(todo) \in Nat \ {0} /\ Len(steps) \in Nat /\ Head(todo) = todo[1]
      /\ \A i \in 1..Len(todo) - 1 : Tail(todo)[i] = todo[i + 1]
  BY HeadTailProperties, EmptySeq, LenProperties
<1> DEFINE rest == Tail(todo)
<1>2. todo' = steps \o rest
  BY DEF Then
<1> HIDE DEF rest
<1>3. /\ todo' \in Seq(Call) /\ Len(todo') = Len(steps) + Len(rest)
      /\ \A i \in 1..Len(steps) + Len(rest) :
           todo'[i] = IF i <= Len(steps) THEN steps[i] ELSE rest[i - Len(steps)]
  BY <1>1, <1>2, ConcatProperties DEF rest
<1>4. \A i \in 2..Len(todo) : todo'[Len(steps) + i - 1] = todo[i]
  <2> SUFFICES ASSUME NEW i \in 2..Len(todo) PROVE todo'[Len(steps) + i - 1] = todo[i]
    OBVIOUS
  <2>1. todo'[Len(steps) + i - 1] = rest[i - 1]
    BY <1>1, <1>3 DEF rest
  <2>2. rest[i - 1] = todo[i]
    BY <1>1 DEF rest
  <2> QED BY <2>1, <2>2
<1>5. Len(todo') = Len(steps) + Len(todo) - 1
  BY <1>1, <1>3 DEF rest
<1>6. \A i \in 1..Len(steps) : todo'[i] = steps[i]
  BY <1>1, <1>3 DEF rest
<1> QED BY <1>1, <1>3, <1>4, <1>5, <1>6

------------------------------------------------------------------------------
(* The calls keep the invariant.                                              *)
LEMMA CallKeepsPairs ==
  ASSUME IInv, NEW op, NEW c, NEW steps, CallMade(op, c, steps)
  PROVE  Paired(todo')
<1>0. todo \in Seq(Call) /\ todo # <<>> /\ Paired(todo) /\ Paired(steps) /\ steps \in Seq(Call)
  BY DEF IInv, ServicesTypeOK, Call, CallMade, Calls
<1>1. /\ Len(todo) \in Nat \ {0} /\ Len(steps) \in Nat
      /\ Len(todo') = Len(steps) + Len(todo) - 1
      /\ \A i \in 1..Len(steps) : todo'[i] = steps[i]
      /\ \A i \in 2..Len(todo) : todo'[Len(steps) + i - 1] = todo[i]
  BY <1>0, Shift DEF CallMade
<1> SUFFICES ASSUME NEW k \in 1..Len(todo')
             PROVE  /\ todo'[k][1] = "stop" => /\ k < Len(todo')
                                               /\ todo'[k + 1] = <<"remove", todo'[k][2]>>
                    /\ todo'[k][1] = "signal" => /\ k < Len(todo')
                                                 /\ todo'[k + 1] = <<"reap", todo'[k][2]>>
  BY DEF Paired
<1>2. CASE k <= Len(steps)
  <2>1. todo'[k] = steps[k] /\ k \in 1..Len(steps)
    BY <1>1, <1>2
  <2>2. k < Len(steps) => todo'[k + 1] = steps[k + 1] /\ k < Len(todo')
    BY <1>1
  <2> QED BY <1>0, <2>1, <2>2 DEF Paired
<1>3. CASE k > Len(steps)
  <2> DEFINE i == k - Len(steps) + 1
  <2>1. i \in 2..Len(todo) /\ k = Len(steps) + i - 1
    BY <1>1, <1>3
  <2>2. todo'[k] = todo[i] /\ i \in 1..Len(todo)
    BY <1>1, <2>1
  <2>3. i < Len(todo) => k < Len(todo') /\ todo'[k + 1] = todo[i + 1]
    <3>1. i < Len(todo) => i + 1 \in 2..Len(todo) /\ Len(steps) + (i + 1) - 1 = k + 1
      BY <1>1, <2>1
    <3> QED BY <1>1, <2>1, <3>1
  <2> HIDE DEF i
  <2> QED BY <1>0, <2>2, <2>3 DEF Paired
<1> QED BY <1>1, <1>2, <1>3

(* What the head of the list was to end is ended, was spared, or is ended by  *)
(* what is now on the list.                                                   *)
LEMMA CallLosesNothing ==
  ASSUME IInv, NEW op, NEW c, NEW steps, CallMade(op, c, steps)
  PROVE  NothingLost'
<1>0. /\ todo \in Seq(Call) /\ todo # <<>> /\ Paired(todo) /\ steps \in Seq(Call)
      /\ pc \in {"failing", "cancelling"}
  BY DEF IInv, ServicesTypeOK, Call, CallMade, Calls, TodoInPlace
<1>1. /\ todo' \in Seq(Call)
      /\ Len(todo) \in Nat \ {0} /\ Len(steps) \in Nat /\ Head(todo) = todo[1]
      /\ Len(todo') = Len(steps) + Len(todo) - 1
      /\ \A i \in 1..Len(steps) : todo'[i] = steps[i]
      /\ \A i \in 2..Len(todo) : todo'[Len(steps) + i - 1] = todo[i]
  BY <1>0, Shift DEF CallMade
<1>2. /\ DOMAIN todo = 1..Len(todo) /\ DOMAIN todo' = 1..Len(todo')
      /\ DOMAIN steps = 1..Len(steps)
  BY <1>0, <1>1, LenProperties
<1>3. todo[1] = <<op, c>>
  BY <1>1 DEF CallMade, Calls
<1> SUFFICES ASSUME NEW d \in Thing, Alive(d)', d \notin spared'  PROVE Ends(todo', d)
  BY DEF NothingLost, InHand, Ends
<1>4. PICK i \in 1..Len(todo) : todo[i][2] = d /\ todo[i][1] # "logs"
  BY <1>0, <1>2 DEF CallMade, IInv, NothingLost, InHand
<1>5. ASSUME NEW k \in 2..Len(todo), todo[k][2] = d, todo[k][1] # "logs"
      PROVE  Ends(todo', d)
  <2>1. Len(steps) + k - 1 \in DOMAIN todo' /\ todo'[Len(steps) + k - 1] = todo[k]
    BY <1>1, <1>2
  <2> QED BY <1>5, <2>1 DEF Ends
<1>6. CASE i = 1
  <2>1. d = c /\ op # "logs"
    BY <1>3, <1>4, <1>6
  <2>2. CASE op \in {"stop", "signal"}
    <3>1. 2 \in 2..Len(todo) /\ todo[2][2] = d /\ todo[2][1] # "logs"
      BY <1>0, <1>1, <1>3, <2>1, <2>2 DEF Paired
    <3> QED BY <1>5, <3>1
  <2>3. CASE op \notin {"stop", "signal"}
    <3>1. steps # <<>> /\ d = "video" /\ Ends(steps, "video")
      BY <2>1, <2>3 DEF CallMade
    <3>2. PICK k \in 1..Len(steps) : steps[k][2] = d /\ steps[k][1] # "logs"
      BY <1>2, <3>1 DEF Ends
    <3>3. k \in DOMAIN todo' /\ todo'[k] = steps[k]
      BY <1>1, <1>2
    <3> QED BY <3>2, <3>3 DEF Ends
  <2> QED BY <2>2, <2>3
<1>7. CASE i # 1
  <2>1. i \in 2..Len(todo)
    BY <1>1, <1>7
  <2> QED BY <1>4, <1>5, <2>1
<1> QED BY <1>6, <1>7

(* A call that leaves the list has done what the browser's end waits for, or  *)
(* is followed by one that will.                                              *)
LEMMA CallKeepsOrder ==
  ASSUME IInv, NEW op, NEW c, NEW steps, CallMade(op, c, steps), Orderly(todo)
  PROVE  Orderly(todo)'
<1>0. /\ todo \in Seq(Call) /\ todo # <<>> /\ Paired(todo) /\ steps \in Seq(Call)
  BY DEF IInv, ServicesTypeOK, Call, CallMade, Calls
<1>1. /\ Len(todo) \in Nat \ {0} /\ Len(steps) \in Nat /\ Head(todo) = todo[1]
      /\ Len(todo') = Len(steps) + Len(todo) - 1
      /\ \A i \in 1..Len(steps) : todo'[i] = steps[i]
      /\ \A i \in 2..Len(todo) : todo'[Len(steps) + i - 1] = todo[i]
  BY <1>0, Shift DEF CallMade
<1>2. todo[1] = <<op, c>> /\ want' = want
  BY <1>1 DEF CallMade, Calls, fixed
<1> SUFFICES ASSUME NEW k \in 1..Len(todo'), todo'[k][1] # "logs", todo'[k][2] = "browser"
             PROVE  /\ Alive("video")' => \/ "video" \in spared'
                                          \/ \E j \in 1..k - 1 : todo'[j][2] = "video"
                    /\ want.log => \/ logged' # "none"
                                   \/ \E j \in 1..k - 1 : todo'[j] = <<"logs", "browser">>
  BY <1>2 DEF Orderly
<1>3. k > Len(steps)
  BY <1>1 DEF CallMade
<1> DEFINE i == k - Len(steps) + 1
<1>4. i \in 2..Len(todo) /\ k = Len(steps) + i - 1
  BY <1>1, <1>3
<1>5. todo[i] = todo'[k]
  BY <1>1, <1>4
<1> HIDE DEF i
<1>6. \A j \in 2..i - 1 : /\ Len(steps) + j - 1 \in 1..k - 1
                          /\ todo'[Len(steps) + j - 1] = todo[j]
  <2> SUFFICES ASSUME NEW j \in 2..i - 1
               PROVE  /\ Len(steps) + j - 1 \in 1..k - 1
                      /\ todo'[Len(steps) + j - 1] = todo[j]
    OBVIOUS
  <2>1. j \in 2..Len(todo)
    BY <1>1, <1>4
  <2>2. Len(steps) + j - 1 \in 1..k - 1
    BY <1>1, <1>4
  <2> QED BY <1>1, <2>1, <2>2
<1>7. /\ Alive("video") => "video" \in spared \/ \E j \in 1..i - 1 : todo[j][2] = "video"
      /\ want.log => logged # "none" \/ \E j \in 1..i - 1 : todo[j] = <<"logs", "browser">>
  <2>1. i \in 1..Len(todo) /\ todo[i][1] # "logs" /\ todo[i][2] = "browser"
    BY <1>1, <1>4, <1>5
  <2> QED BY <2>1 DEF Orderly
<1>8. ASSUME Alive("video")', "video" \notin spared'
      PROVE  \E j \in 1..k - 1 : todo'[j][2] = "video"
  <2>1. PICK j \in 1..i - 1 : todo[j][2] = "video"
    BY <1>7, <1>8 DEF CallMade, Thing
  <2>2. CASE j = 1
    <3>1. c = "video" /\ op # "logs"
      BY <1>2, <2>1, <2>2 DEF CallMade
    <3>2. CASE op \in {"stop", "signal"}
      <4>1. 2 \in 1..Len(todo) /\ todo[2][2] = "video"
        BY <1>0, <1>1, <1>2, <3>1, <3>2 DEF Paired
      <4>2. 2 \in 2..i - 1
        BY <1>4, <1>5, <4>1
      <4> QED BY <1>6, <4>1, <4>2
    <3>3. CASE op \notin {"stop", "signal"}
      <4>1. steps # <<>>
        BY <1>8, <3>1, <3>3 DEF CallMade
      <4>2. Len(steps) # 0
        BY <1>0, <4>1, EmptySeq
      <4>3. 1 \in 1..Len(steps) /\ 1 \in 1..k - 1
        BY <1>1, <1>3, <4>2
      <4> QED BY <1>1, <4>3 DEF CallMade
    <3> QED BY <3>2, <3>3
  <2>3. CASE j # 1
    <3>1. j \in 2..i - 1
      BY <1>4, <2>3
    <3> QED BY <1>6, <2>1, <3>1
  <2> QED BY <2>2, <2>3
<1>9. ASSUME want.log, logged' = "none"
      PROVE  \E j \in 1..k - 1 : todo'[j] = <<"logs", "browser">>
  <2>1. PICK j \in 1..i - 1 : todo[j] = <<"logs", "browser">>
    BY <1>7, <1>9 DEF CallMade
  <2>2. j # 1
    BY <1>2, <1>9, <2>1 DEF CallMade
  <2>3. j \in 2..i - 1
    BY <1>4, <2>2
  <2> QED BY <1>6, <2>1, <2>3
<1> QED BY <1>8, <1>9

LEMMA CallStep == IInv /\ NextCall => IInv'
<1> SUFFICES ASSUME IInv, NextCall PROVE IInv'
  OBVIOUS
<1>1. PICK op \in {"kill", "await", "logs", "stop", "remove", "signal", "reap"},
           c \in Thing, steps \in Seq(Call) : CallMade(op, c, steps)
  BY EveryCall
<1>2. todo \in Seq(Call) /\ todo # <<>> /\ Then(steps) /\ pc \in {"failing", "cancelling"}
  BY <1>1 DEF IInv, ServicesTypeOK, TodoInPlace, Call, CallMade, Calls
<1>3. pc' = IF todo' # <<>> THEN pc ELSE IF pc = "failing" THEN "failed" ELSE "cancelled"
  BY <1>2 DEF Then
<1>4. todo' \in Seq(Call)
  BY <1>2, Shift
<1>5. ServicesTypeOK'
  BY <1>1, <1>2, <1>3, <1>4
  DEF IInv, ServicesTypeOK, CallMade, fixed, probing, Call, Place
<1>6. TodoInPlace'
  BY <1>2, <1>3 DEF TodoInPlace
<1>7. ThingsInPlace'
  BY <1>1, <1>2, <1>3 DEF IInv, ThingsInPlace, CallMade, fixed, Thing
<1>8. Paired(todo)' /\ NothingLost'
  BY <1>1, CallKeepsPairs, CallLosesNothing
<1>9. (pc = "cancelling" => Orderly(todo))'
  BY <1>1, <1>2, <1>3, CallKeepsOrder DEF IInv
<1> QED BY <1>5, <1>6, <1>7, <1>8, <1>9 DEF IInv

------------------------------------------------------------------------------
(* The steps of a start keep the invariant.                                   *)

(* What is at hand before a step of a start. *)
LEMMA Starting ==
  ASSUME IInv, pc \notin {"failing", "cancelling"}
  PROVE  /\ todo = <<>> /\ todo \in Seq(Call) /\ Paired(<<>>)
         /\ \A c \in Thing : ~Ends(todo, c)
         /\ thing \in [Thing -> {"none", "created", "running", "exited", "gone"}]
         /\ Thing = {"browser", "video", "process"}
<1>1. todo = <<>> /\ DOMAIN <<>> = {}
  BY DEF IInv, TodoInPlace
<1> QED BY <1>1 DEF IInv, ServicesTypeOK, Ends, Paired, Call, Thing

(* A step that returns without anything left to do keeps the invariant if     *)
(* what runs is in hand at the place it goes to.                              *)
LEMMA ReturnKeeps ==
  ASSUME IInv, pc \notin {"failing", "cancelling"}, todo' = todo,
         pc' \notin {"failing", "cancelling"},
         ServicesTypeOK', ThingsInPlace',
         \A c \in Thing : Alive(c)' => InHand(c)' \/ c \in spared'
                                       \/ pc' \in {"unconnected", "panicked"}
  PROVE  IInv'
BY Starting DEF IInv, TodoInPlace, NothingLost

(* So does one that begins an error path which ends all that runs. *)
LEMMA ErrorPathKeeps ==
  ASSUME IInv, pc' = "failing",
         ServicesTypeOK', ThingsInPlace', Paired(todo'),
         \A c \in Thing : Alive(c)' => Ends(todo', c) \/ c \in spared'
  PROVE  IInv'
BY DEF IInv, TodoInPlace, NothingLost, InHand, Ends

LEMMA ConfigureStep == IInv /\ Configure => IInv'
<1> SUFFICES ASSUME IInv, Configure PROVE IInv'
  OBVIOUS
<1>1. pc' \in {"failed", "create", "exec"} /\ todo' = todo /\ thing' = thing
  BY DEF Configure, Returns
<1>2. ServicesTypeOK'
  BY <1>1 DEF Configure, IInv, ServicesTypeOK, fixed, probing, Place
<1>3. ThingsInPlace' /\ \A c \in Thing : ~Alive(c)'
  BY <1>1 DEF Configure, Returns, IInv, ServicesTypeOK, ThingsInPlace, Alive, fixed
<1> QED BY <1>1, <1>2, <1>3, ReturnKeeps DEF Configure

LEMMA CreateBrowserStep == IInv /\ CreateBrowser => IInv'
<1> SUFFICES ASSUME IInv, CreateBrowser PROVE IInv'
  OBVIOUS
<1>0. thing \in [Thing -> {"none", "created", "running", "exited", "gone"}] /\ todo = <<>>
      /\ Thing = {"browser", "video", "process"}
  BY Starting DEF CreateBrowser
<1>1. pc' \in {"failed", "start"} /\ todo' = todo
  BY DEF CreateBrowser, Returns
<1>2. ServicesTypeOK'
  BY <1>0, <1>1 DEF CreateBrowser, IInv, ServicesTypeOK, fixed, probing, Place, Becomes
<1>3. ThingsInPlace'
  BY <1>0, <1>1 DEF CreateBrowser, Returns, Becomes, IInv, ThingsInPlace, Alive, fixed
<1>4. \A c \in Thing : Alive(c)' => InHand(c)'
  BY <1>0, <1>1 DEF CreateBrowser, Returns, Becomes, IInv, ThingsInPlace, Alive, InHand
<1> QED BY <1>1, <1>2, <1>3, <1>4, ReturnKeeps DEF CreateBrowser

LEMMA StartBrowserStep == IInv /\ StartBrowser => IInv'
<1> SUFFICES ASSUME IInv, StartBrowser PROVE IInv'
  OBVIOUS
<1>0. thing \in [Thing -> {"none", "created", "running", "exited", "gone"}] /\ todo = <<>>
      /\ Thing = {"browser", "video", "process"}
  BY Starting DEF StartBrowser
<1> DEFINE steps == RemoveContainer("browser")
<1>1. /\ steps \in Seq(Call) /\ Paired(steps) /\ Ends(steps, "browser")
  BY <1>0, Lists
<1> HIDE DEF steps
<1>2. \E state \in {"created", "running", "gone"} : Becomes("browser", state)
  BY DEF StartBrowser
<1>3. thing' \in [Thing -> {"none", "created", "running", "exited", "gone"}]
  BY <1>0, <1>2 DEF Becomes
<1>4. kind = "docker" /\ \A c \in Thing \ {"browser"} : ~Alive(c)'
  BY <1>0, <1>2 DEF StartBrowser, Becomes, IInv, ThingsInPlace, Alive
<1>5. CASE Returns("connect")
  <2>1. ServicesTypeOK'
    BY <1>3, <1>5 DEF StartBrowser, Returns, IInv, ServicesTypeOK, fixed, probing, Place
  <2>2. ThingsInPlace'
    BY <1>0, <1>4, <1>5 DEF StartBrowser, Returns, ThingsInPlace, fixed
  <2>3. \A c \in Thing : Alive(c)' => InHand(c)'
    BY <1>0, <1>4, <1>5 DEF Returns, InHand
  <2> QED BY <1>5, <2>1, <2>2, <2>3, ReturnKeeps DEF StartBrowser, Returns
<1>6. CASE ReturnsAfter(steps)
  <2>1. ServicesTypeOK'
    BY <1>1, <1>3, <1>6
    DEF StartBrowser, ReturnsAfter, IInv, ServicesTypeOK, fixed, probing, Place, Call
  <2>2. ThingsInPlace'
    BY <1>0, <1>4, <1>6 DEF StartBrowser, ReturnsAfter, ThingsInPlace, fixed
  <2>3. \A c \in Thing : Alive(c)' => Ends(todo', c)
    BY <1>0, <1>1, <1>4, <1>6 DEF ReturnsAfter
  <2> QED BY <1>1, <1>6, <2>1, <2>2, <2>3, ErrorPathKeeps DEF ReturnsAfter
<1> QED BY <1>5, <1>6 DEF StartBrowser, steps

LEMMA ConnectStep == IInv /\ Connect => IInv'
<1> SUFFICES ASSUME IInv, Connect PROVE IInv'
  OBVIOUS
<1>1. /\ pc = "connect" /\ pc' \in {"connect", "inspect", "unconnected"} /\ todo' = todo
      /\ UNCHANGED <<kind, want, thing, spared>>
  BY DEF Connect, Returns, fixed
<1>2. left' \in 0..Networks
  BY NetworksAssumption DEF Connect, IInv, ServicesTypeOK
<1>3. ServicesTypeOK'
  BY <1>1, <1>2 DEF Connect, IInv, ServicesTypeOK, probing, Place
<1>4. ThingsInPlace'
  BY <1>1 DEF IInv, ThingsInPlace, Alive
<1>5. \A c \in Thing : Alive(c)' => InHand(c)' \/ pc' = "unconnected"
  BY <1>1 DEF IInv, ThingsInPlace, Alive, InHand, Thing
<1> QED BY <1>1, <1>3, <1>4, <1>5, ReturnKeeps

LEMMA InspectStep == IInv /\ Inspect => IInv'
<1> SUFFICES ASSUME IInv, Inspect PROVE IInv'
  OBVIOUS
<1>0. pc = "inspect" /\ UNCHANGED <<kind, want, left, thing, logged, spared>> /\ todo = <<>>
  BY Starting DEF Inspect, fixed
<1>1. kind = "docker" /\ \A c \in Thing \ {"browser"} : ~Alive(c)'
  BY <1>0 DEF IInv, ThingsInPlace, Alive, Thing
<1> DEFINE steps == RemoveContainer("browser")
<1>2. /\ steps \in Seq(Call) /\ Paired(steps) /\ Ends(steps, "browser")
  BY Lists DEF Thing
<1> HIDE DEF steps
<1>3. CASE ReturnsAfter(steps) /\ UNCHANGED probing
  <2>1. ServicesTypeOK'
    BY <1>0, <1>2, <1>3 DEF ReturnsAfter, IInv, ServicesTypeOK, probing, Place, Call
  <2>2. ThingsInPlace'
    BY <1>0, <1>1, <1>3 DEF ReturnsAfter, IInv, ThingsInPlace, Alive, Thing
  <2>3. \A c \in Thing : Alive(c)' => Ends(todo', c)
    BY <1>1, <1>2, <1>3 DEF ReturnsAfter
  <2> QED BY <1>2, <1>3, <2>1, <2>2, <2>3, ErrorPathKeeps DEF ReturnsAfter
<1>4. ASSUME pc' \in {"createVideo", "waiting", "panicked"}, todo' = todo,
             pc' = "createVideo" => want.video,
             prober' \in {"none", "checking", "asking", "sending", "ended"}, done' = done
      PROVE  IInv'
  <2>1. ServicesTypeOK'
    BY <1>0, <1>4 DEF IInv, ServicesTypeOK, Place
  <2>2. ThingsInPlace'
    BY <1>0, <1>1, <1>4 DEF IInv, ThingsInPlace, Alive, Thing
  <2>3. \A c \in Thing : Alive(c)' => InHand(c)' \/ pc' = "panicked"
    BY <1>1, <1>4 DEF InHand
  <2> QED BY <1>0, <1>4, <2>1, <2>2, <2>3, ReturnKeeps
<1>5. CASE Wait
  BY <1>4, <1>5 DEF Wait
<1>6. CASE want.video /\ Returns("createVideo") /\ UNCHANGED probing
  BY <1>4, <1>6 DEF Returns, probing, IInv, ServicesTypeOK
<1>7. CASE Returns("panicked") /\ UNCHANGED probing
  BY <1>4, <1>7 DEF Returns, probing, IInv, ServicesTypeOK
<1> QED BY <1>3, <1>5, <1>6, <1>7 DEF Inspect, steps

LEMMA CreateVideoStep == IInv /\ CreateVideo => IInv'
<1> SUFFICES ASSUME IInv, CreateVideo PROVE IInv'
  OBVIOUS
<1>0. thing \in [Thing -> {"none", "created", "running", "exited", "gone"}] /\ todo = <<>>
      /\ Thing = {"browser", "video", "process"}
  BY Starting DEF CreateVideo
<1> DEFINE steps == RemoveContainer("browser")
<1>1. /\ steps \in Seq(Call) /\ Paired(steps) /\ Ends(steps, "browser")
  BY <1>0, Lists
<1> HIDE DEF steps
<1>2. /\ kind = "docker" /\ want.video /\ ~Alive("process") /\ ~Alive("video")
      /\ pc = "createVideo" /\ UNCHANGED <<kind, want, left, logged, prober, done, spared>>
  BY DEF CreateVideo, IInv, ThingsInPlace, fixed, probing
<1>3. CASE Becomes("video", "created") /\ Returns("startVideo")
  <2>1. ServicesTypeOK'
    BY <1>0, <1>2, <1>3 DEF Becomes, Returns, IInv, ServicesTypeOK, Place
  <2>2. ThingsInPlace'
    BY <1>0, <1>2, <1>3 DEF Becomes, Returns, ThingsInPlace, Alive
  <2>3. \A c \in Thing : Alive(c)' => InHand(c)'
    BY <1>0, <1>2, <1>3 DEF Becomes, Returns, Alive, InHand
  <2> QED BY <1>2, <1>3, <2>1, <2>2, <2>3, ReturnKeeps DEF Returns
<1>4. CASE ReturnsAfter(steps) /\ UNCHANGED thing
  <2>1. ServicesTypeOK'
    BY <1>1, <1>2, <1>4 DEF ReturnsAfter, IInv, ServicesTypeOK, Place, Call
  <2>2. ThingsInPlace'
    BY <1>2, <1>4 DEF ReturnsAfter, ThingsInPlace, Alive
  <2>3. \A c \in Thing : Alive(c)' => Ends(todo', c)
    BY <1>0, <1>1, <1>2, <1>4 DEF ReturnsAfter, Alive
  <2> QED BY <1>1, <1>4, <2>1, <2>2, <2>3, ErrorPathKeeps DEF ReturnsAfter
<1> QED BY <1>3, <1>4 DEF CreateVideo, steps

LEMMA StartVideoStep == IInv /\ StartVideo => IInv'
<1> SUFFICES ASSUME IInv, StartVideo PROVE IInv'
  OBVIOUS
<1>0. thing \in [Thing -> {"none", "created", "running", "exited", "gone"}] /\ todo = <<>>
      /\ Thing = {"browser", "video", "process"}
  BY Starting DEF StartVideo
<1> DEFINE steps == RemoveContainer("browser") \o RemoveContainer("video")
<1>1. /\ steps \in Seq(Call) /\ Paired(steps)
      /\ Ends(steps, "browser") /\ Ends(steps, "video")
  <2>1. \A c \in {"browser", "video"} :
          RemoveContainer(c) \in Seq(Call) /\ Paired(RemoveContainer(c)) /\ Ends(RemoveContainer(c), c)
    BY <1>0, Lists
  <2> QED BY <2>1, ConcatProperties, ConcatPaired, ConcatEnds
<1> HIDE DEF steps
<1>2. /\ kind = "docker" /\ want.video /\ pc = "startVideo" /\ ~Alive("process")
      /\ UNCHANGED <<kind, want, left, logged, spared>>
  BY DEF StartVideo, IInv, ThingsInPlace, fixed
<1>3. \E state \in {"created", "running", "gone"} : Becomes("video", state)
  BY DEF StartVideo
<1>4. /\ thing' \in [Thing -> {"none", "created", "running", "exited", "gone"}]
      /\ ~Alive("process")'
  BY <1>0, <1>2, <1>3 DEF Becomes, Alive
<1>5. CASE Wait
  <2>1. ServicesTypeOK'
    BY <1>2, <1>4, <1>5 DEF Wait, IInv, ServicesTypeOK, Place
  <2>2. ThingsInPlace'
    BY <1>2, <1>4, <1>5 DEF Wait, ThingsInPlace, Alive
  <2>3. \A c \in Thing : Alive(c)' => InHand(c)'
    BY <1>0, <1>4, <1>5 DEF Wait, InHand
  <2> QED BY <1>2, <1>5, <2>1, <2>2, <2>3, ReturnKeeps DEF Wait
<1>6. CASE ReturnsAfter(steps) /\ UNCHANGED probing
  <2>1. ServicesTypeOK'
    BY <1>1, <1>2, <1>4, <1>6 DEF ReturnsAfter, IInv, ServicesTypeOK, probing, Place, Call
  <2>2. ThingsInPlace'
    BY <1>2, <1>4, <1>6 DEF ReturnsAfter, ThingsInPlace, Alive
  <2>3. \A c \in Thing : Alive(c)' => Ends(todo', c)
    BY <1>0, <1>1, <1>4, <1>6 DEF ReturnsAfter
  <2> QED BY <1>1, <1>6, <2>1, <2>2, <2>3, ErrorPathKeeps DEF ReturnsAfter
<1> QED BY <1>5, <1>6 DEF StartVideo, steps

LEMMA ExecStep == IInv /\ Exec => IInv'
<1> SUFFICES ASSUME IInv, Exec PROVE IInv'
  OBVIOUS
<1>0. thing \in [Thing -> {"none", "created", "running", "exited", "gone"}] /\ todo = <<>>
      /\ Thing = {"browser", "video", "process"}
  BY Starting DEF Exec
<1>1. /\ kind = "driver" /\ pc = "exec" /\ \A c \in Thing : ~Alive(c)
      /\ UNCHANGED <<kind, want, left, logged, spared>>
  BY DEF Exec, IInv, ThingsInPlace, fixed
<1>2. pc' \in {"waiting", "failed"} /\ todo' = todo
  BY DEF Exec, Wait, Returns
<1>3. /\ thing' \in [Thing -> {"none", "created", "running", "exited", "gone"}]
      /\ ~Alive("browser")' /\ ~Alive("video")'
      /\ Alive("process")' => pc' = "waiting"
  BY <1>0, <1>1 DEF Exec, Wait, Returns, Becomes, Alive
<1>4. ServicesTypeOK'
  BY <1>1, <1>2, <1>3 DEF Exec, Wait, IInv, ServicesTypeOK, probing, Place
<1>5. ThingsInPlace'
  BY <1>1, <1>2, <1>3 DEF ThingsInPlace
<1>6. \A c \in Thing : Alive(c)' => InHand(c)'
  BY <1>0, <1>3 DEF InHand
<1> QED BY <1>1, <1>2, <1>4, <1>5, <1>6, ReturnKeeps

LEMMA TimesOutStep == IInv /\ TimesOut => IInv'
<1> SUFFICES ASSUME IInv, TimesOut PROVE IInv'
  OBVIOUS
<1>1. /\ pc = "waiting" /\ done' = TRUE /\ ReturnsAfter(HowToEnd)
      /\ UNCHANGED <<kind, want, left, thing, logged, prober, spared>>
  BY DEF TimesOut, fixed
<1>2. /\ HowToEnd \in Seq(Call) /\ Paired(HowToEnd)
      /\ \A c \in Thing : Alive(c) => Ends(HowToEnd, c)
  <2>1. CASE kind = "docker"
    <3> DEFINE V == StopVideoContainer
               R == RemoveContainer("browser")
    <3>1. /\ V \in Seq(Call) /\ Paired(V) /\ (want.video => Ends(V, "video"))
          /\ R \in Seq(Call) /\ Paired(R) /\ Ends(R, "browser")
      BY Lists DEF Thing
    <3>2. HowToEnd = V \o R
      BY <2>1 DEF HowToEnd
    <3>3. ~Alive("process") /\ (Alive("video") => want.video)
      BY <2>1 DEF IInv, ThingsInPlace
    <3> HIDE DEF V, R
    <3> QED BY <3>1, <3>2, <3>3, ConcatProperties, ConcatPaired, ConcatEnds DEF Thing
  <2>2. CASE kind = "driver"
    <3>1. HowToEnd = StopProcess
      BY <2>2 DEF HowToEnd
    <3>2. ~Alive("browser") /\ ~Alive("video")
      BY <2>2 DEF IInv, ThingsInPlace
    <3>3. StopProcess \in Seq(Call) /\ Paired(StopProcess) /\ Ends(StopProcess, "process")
      BY Lists DEF Thing
    <3> QED BY <3>1, <3>2, <3>3 DEF Thing
  <2> QED BY <2>1, <2>2 DEF IInv, ServicesTypeOK
<1>3. ServicesTypeOK'
  BY <1>1, <1>2 DEF ReturnsAfter, IInv, ServicesTypeOK, Place, Call
<1>4. ThingsInPlace'
  BY <1>1 DEF ReturnsAfter, IInv, ThingsInPlace, Alive
<1>5. \A c \in Thing : Alive(c)' => Ends(todo', c)
  BY <1>1, <1>2 DEF ReturnsAfter, Alive
<1> QED BY <1>1, <1>2, <1>3, <1>4, <1>5, ErrorPathKeeps DEF ReturnsAfter

LEMMA IsUpStep == IInv /\ IsUp => IInv'
<1> SUFFICES ASSUME IInv, IsUp PROVE IInv'
  OBVIOUS
<1>1. /\ pc = "waiting" /\ pc' = "up" /\ prober' = "ended" /\ todo' = todo /\ todo = <<>>
      /\ UNCHANGED <<kind, want, left, thing, logged, done, spared>>
  BY Starting DEF IsUp, Returns, fixed
<1>2. ServicesTypeOK'
  BY <1>1 DEF IInv, ServicesTypeOK, Place
<1>3. ThingsInPlace'
  BY <1>1 DEF IInv, ThingsInPlace, Alive
<1>4. \A c \in Thing : Alive(c)' => InHand(c)'
  BY <1>1 DEF InHand, Thing
<1> QED BY <1>1, <1>2, <1>3, <1>4, ReturnKeeps

------------------------------------------------------------------------------
(* Cancel begins with a list that ends all that runs, the browser last. *)
LEMMA CancelStep == IInv /\ Cancel => IInv'
<1> SUFFICES ASSUME IInv, Cancel PROVE IInv'
  OBVIOUS
<1>1. /\ pc = "up" /\ pc' = "cancelling"
      /\ UNCHANGED <<kind, want, left, thing, logged, prober, done, spared>>
  BY DEF Cancel, fixed, probing
<1>2. /\ todo' \in Seq(Call) /\ todo' # <<>> /\ Paired(todo')
      /\ \A c \in Thing : Alive(c) => Ends(todo', c)
      /\ Orderly(todo)'
  <2>1. CASE kind = "docker"
    <3> DEFINE V == StopVideoContainer
               L == IF want.log THEN << <<"logs", "browser">> >> ELSE <<>>
               R == RemoveContainer("browser")
               VL == V \o L
    <3>1. /\ V \in Seq(Call) /\ Paired(V) /\ (want.video => Ends(V, "video"))
          /\ R \in Seq(Call) /\ Paired(R) /\ Ends(R, "browser") /\ R # <<>>
          /\ \A i \in DOMAIN V : V[i][2] = "video"
      BY Lists DEF Thing
    <3>2. L \in Seq(Call) /\ Paired(L) /\ \A i \in DOMAIN L : L[i] = <<"logs", "browser">>
      <4>1. <<"logs", "browser">> \in Call
        BY DEF Call, Thing
      <4> QED BY <4>1 DEF Paired
    <3>3. want.log => Len(L) = 1
      OBVIOUS
    <3>4. todo' = VL \o R
      BY <2>1 DEF Cancel
    <3>5. ~Alive("process") /\ (Alive("video") => want.video)
      BY <2>1 DEF IInv, ThingsInPlace
    <3> HIDE DEF V, L, R
    <3>6. /\ VL \in Seq(Call) /\ Paired(VL)
          /\ \A c : Ends(V, c) => Ends(VL, c)
      BY <3>1, <3>2, ConcatProperties, ConcatPaired, ConcatEnds
    <3>7. /\ Len(V) \in Nat /\ Len(L) \in Nat /\ Len(VL) = Len(V) + Len(L)
          /\ DOMAIN V = 1..Len(V) /\ DOMAIN L = 1..Len(L)
          /\ \A i \in 1..Len(V) : VL[i] = V[i]
          /\ \A i \in 1..Len(L) : VL[Len(V) + i] = L[i]
      <4>1. \A i \in 1..Len(V) + Len(L) : VL[i] = IF i <= Len(V) THEN V[i] ELSE L[i - Len(V)]
        BY <3>1, <3>2, ConcatProperties
      <4>2. Len(V) \in Nat /\ Len(L) \in Nat /\ Len(VL) = Len(V) + Len(L)
        BY <3>1, <3>2, ConcatProperties, LenProperties
      <4> HIDE DEF VL
      <4>3. DOMAIN V = 1..Len(V) /\ DOMAIN L = 1..Len(L)
        BY <3>1, <3>2, LenProperties
      <4> QED BY <4>1, <4>2, <4>3
    <3> HIDE DEF VL
    <3>8. /\ todo' \in Seq(Call) /\ Paired(todo')
          /\ \A c : Ends(VL, c) \/ Ends(R, c) => Ends(todo', c)
      BY <3>1, <3>4, <3>6, ConcatProperties, ConcatPaired, ConcatEnds
    <3>9. \A c \in Thing : Alive(c) => Ends(todo', c)
      BY <3>1, <3>5, <3>6, <3>8 DEF Thing
    <3>10. todo' # <<>>
      BY <3>1, <3>4, <3>6, ConcatEqualIffEmpty
    <3>11. /\ Len(R) \in Nat /\ Len(todo') = Len(VL) + Len(R) /\ Len(VL) \in Nat
           /\ \A i \in 1..Len(VL) : todo'[i] = VL[i]
      BY <3>1, <3>4, <3>6, ConcatProperties, LenProperties
    <3>12. ASSUME NEW i \in 1..Len(todo'), todo'[i][1] # "logs", todo'[i][2] = "browser"
           PROVE  i > Len(VL)
      <4> SUFFICES ASSUME i <= Len(VL) PROVE FALSE
        BY <3>11
      <4>1. CASE i <= Len(V)
        BY <3>1, <3>7, <3>11, <3>12, <4>1
      <4>2. CASE i > Len(V)
        <5>1. PICK j \in 1..Len(L) : i = Len(V) + j
          <6>1. i - Len(V) \in 1..Len(L) /\ i = Len(V) + (i - Len(V))
            BY <3>7, <3>11, <4>2
          <6> QED BY <6>1
        <5>2. VL[i] = L[j] /\ L[j] = <<"logs", "browser">>
          BY <3>2, <3>7, <5>1
        <5>3. todo'[i] = VL[i]
          BY <3>11
        <5> QED BY <3>12, <5>2, <5>3
      <4> QED BY <3>7, <4>1, <4>2
    <3>13. Alive("video") => \E j \in 1..Len(VL) : todo'[j][2] = "video"
      <4>1. Alive("video") => \E j \in 1..Len(V) : V[j][2] = "video"
        BY <3>1, <3>5, <3>7 DEF Ends
      <4> QED BY <3>7, <3>11, <4>1
    <3>14. want.log => \E j \in 1..Len(VL) : todo'[j] = <<"logs", "browser">>
      <4> SUFFICES ASSUME want.log PROVE \E j \in 1..Len(VL) : todo'[j] = <<"logs", "browser">>
        OBVIOUS
      <4>1. Len(V) + 1 \in 1..Len(VL) /\ VL[Len(V) + 1] = L[1] /\ 1 \in DOMAIN L
        BY <3>3, <3>7
      <4> QED BY <3>2, <3>11, <4>1
    <3>15. Orderly(todo)'
      <4>1. ASSUME NEW i \in 1..Len(todo'), i > Len(VL)  PROVE 1..Len(VL) \subseteq 1..i - 1
        BY <3>11, <4>1
      <4>2. Alive("video")' = Alive("video") /\ want' = want
        BY <1>1 DEF Alive
      <4> QED BY <3>12, <3>13, <3>14, <4>1, <4>2 DEF Orderly
    <3> QED BY <3>8, <3>9, <3>10, <3>15
  <2>2. CASE kind = "driver"
    <3>1. todo' = StopProcess
      BY <2>2 DEF Cancel
    <3>2. ~Alive("browser") /\ ~Alive("video")
      BY <2>2 DEF IInv, ThingsInPlace
    <3>3. /\ StopProcess \in Seq(Call) /\ Paired(StopProcess) /\ Ends(StopProcess, "process")
          /\ StopProcess # <<>> /\ \A i \in DOMAIN StopProcess : StopProcess[i][2] = "process"
      BY Lists DEF Thing
    <3>4. Orderly(todo)'
      BY <3>1, <3>3, LenProperties DEF Orderly
    <3> QED BY <3>1, <3>2, <3>3, <3>4 DEF Thing
  <2> QED BY <2>1, <2>2 DEF IInv, ServicesTypeOK
<1>3. ServicesTypeOK'
  BY <1>1, <1>2 DEF IInv, ServicesTypeOK, Place, Call
<1>4. ThingsInPlace'
  BY <1>1 DEF IInv, ThingsInPlace, Alive
<1>5. NothingLost'
  BY <1>1, <1>2 DEF NothingLost, InHand, Ends, Alive
<1> QED BY <1>1, <1>2, <1>3, <1>4, <1>5 DEF IInv, TodoInPlace

(* The goroutine of wait() changes nothing else. *)
LEMMA ProbeStep == IInv /\ (Probe \/ UNCHANGED svars) => IInv'
<1> SUFFICES ASSUME IInv, Probe \/ UNCHANGED svars PROVE IInv'
  OBVIOUS
<1>1. /\ UNCHANGED <<kind, want, pc, left, thing, todo, logged, done, spared>>
      /\ prober' \in {prober, "ended", "asking", "sending", "checking"}
  BY DEF Probe, CheckDone, Answers, AskAgain, fixed, svars, probing
<1>2. ServicesTypeOK'
  BY <1>1 DEF IInv, ServicesTypeOK
<1>3. TodoInPlace' /\ ThingsInPlace' /\ NothingLost' /\ Paired(todo)'
  BY <1>1 DEF IInv, TodoInPlace, ThingsInPlace, NothingLost, InHand, Alive, Paired
<1>4. (pc = "cancelling" => Orderly(todo))'
  BY <1>1 DEF IInv, Orderly, Alive
<1> QED BY <1>2, <1>3, <1>4 DEF IInv

(* What ends by itself need not be ended. *)
LEMMA ExitStep ==
  ASSUME IInv, NEW c \in Thing, Exit(c)
  PROVE  IInv'
<1>1. /\ UNCHANGED <<kind, want, pc, left, todo, logged, prober, done, spared>>
      /\ \E state \in {"exited", "gone"} : thing' = [thing EXCEPT ![c] = state]
  BY DEF Exit, Becomes, fixed, probing
<1>2. ServicesTypeOK'
  BY <1>1 DEF IInv, ServicesTypeOK
<1>3. \A d \in Thing : Alive(d)' => Alive(d)
  BY <1>1 DEF IInv, ServicesTypeOK, Alive
<1>4. TodoInPlace' /\ ThingsInPlace' /\ Paired(todo)'
  BY <1>1, <1>3 DEF IInv, TodoInPlace, ThingsInPlace, Paired, Thing
<1>5. NothingLost'
  BY <1>1, <1>3 DEF IInv, NothingLost, InHand
<1>6. (pc = "cancelling" => Orderly(todo))'
  BY <1>1, <1>3 DEF IInv, Orderly, Thing
<1> QED BY <1>2, <1>4, <1>5, <1>6 DEF IInv

LEMMA InitInv == ServicesInit => IInv
<1> SUFFICES ASSUME ServicesInit PROVE IInv
  OBVIOUS
<1>1. /\ thing \in [Thing -> {"none", "created", "running", "exited", "gone"}]
      /\ \A c \in Thing : ~Alive(c)
  BY DEF ServicesInit, Alive
<1>2. todo = <<>> /\ todo \in Seq(Call) /\ Paired(todo)
  BY DEF ServicesInit, Paired
<1>3. ServicesTypeOK
  <2>1. /\ kind \in {"docker", "driver"} /\ want \in Wish /\ pc \in Place
        /\ logged = "none" /\ prober = "none" /\ done = FALSE /\ spared = {}
    BY Zenon DEF ServicesInit, Place
  <2>2. left \in 0..Networks
    BY NetworksAssumption DEF ServicesInit
  <2> QED BY <1>1, <1>2, <2>1, <2>2 DEF ServicesTypeOK, Call
<1>4. TodoInPlace /\ ThingsInPlace /\ NothingLost
  BY <1>1, <1>2 DEF ServicesInit, TodoInPlace, ThingsInPlace, NothingLost, Thing
<1> QED BY <1>2, <1>3, <1>4 DEF IInv, ServicesInit

------------------------------------------------------------------------------
(* The inductive invariant holds in every reachable state. *)
THEOREM Invariance == ServicesSpec => []IInv
<1>1. IInv /\ [ServicesNext]_svars => IInv'
  BY ConfigureStep, CreateBrowserStep, StartBrowserStep, ConnectStep, InspectStep,
     CreateVideoStep, StartVideoStep, ExecStep, TimesOutStep, IsUpStep, CancelStep,
     CallStep, ProbeStep, ExitStep DEF ServicesNext, StartWithCancel
<1> QED BY <1>1, InitInv, PTL DEF ServicesSpec

(* The variables of a start and a cancel keep their types. *)
THEOREM TypeCorrectness == ServicesSpec => []ServicesTypeOK
<1>1. IInv => ServicesTypeOK
  BY DEF IInv
<1> QED BY <1>1, Invariance, PTL

(* Whatever call fails, and however it fails: a container or process that     *)
(* runs is in the hands of the start, of its session or of a call to come,    *)
(* was refused to be ended, or was left by one of the two ways out that do    *)
(* not clean up.                                                              *)
THEOREM NothingIsLost == ServicesSpec => []NothingLost
<1>1. IInv => NothingLost
  BY DEF IInv
<1> QED BY <1>1, Invariance, PTL

(* Once a start has failed by any other way than those two, or a cancel is    *)
(* over, nothing runs but what was refused to be ended.                       *)
THEOREM CleanWhenOver ==
  ServicesSpec => [](pc \in {"failed", "cancelled"} =>
                       \A c \in Thing : Alive(c) => c \in spared)
<1>1. IInv => (pc \in {"failed", "cancelled"} => \A c \in Thing : Alive(c) => c \in spared)
  BY Starting DEF IInv, NothingLost, InHand, Ends
<1> QED BY <1>1, Invariance, PTL

(* Cancel takes a browser away after its recorder and its log. *)
THEOREM BrowserGoesLast == ServicesSpec => BrowserLast
<1> DEFINE Last ==
      (pc = "cancelling" /\ \E op \in {"stop", "remove"} : Calls(op, "browser")) =>
         /\ ~Alive("video") \/ "video" \in spared
         /\ want.log => logged # "none"
<1>1. IInv => Last
  <2> SUFFICES ASSUME IInv, pc = "cancelling",
                      NEW op \in {"stop", "remove"}, Calls(op, "browser")
               PROVE  /\ ~Alive("video") \/ "video" \in spared
                      /\ want.log => logged # "none"
    OBVIOUS
  <2>1. Orderly(todo) /\ todo \in Seq(Call) /\ todo # <<>>
    BY DEF IInv, ServicesTypeOK, Call, Calls
  <2>2. 1 \in 1..Len(todo) /\ todo[1] = <<op, "browser">> /\ 1..1 - 1 = {}
    BY <2>1, EmptySeq DEF Calls
  <2> QED BY <2>1, <2>2 DEF Orderly
<1>2. IInv /\ [ServicesNext]_svars => [Last]_svars
  BY <1>1
<1> QED BY <1>2, Invariance, PTL DEF ServicesSpec, BrowserLast

------------------------------------------------------------------------------
(* How long the calls go on.                                                  *)

(* What a list of calls amounts to: a kill is followed by a wait, and a wait  *)
(* by a stop and a remove.                                                    *)
Work(steps) ==
  Len(steps) + (IF steps # <<>> /\ steps[1][1] = "kill" THEN 3
                ELSE IF steps # <<>> /\ steps[1][1] = "await" THEN 2 ELSE 0)

(* No call of the list is followed by others. *)
Plain(steps) == \A i \in 1..Len(steps) : steps[i][1] \notin {"kill", "await"}

(* Only the first one is. *)
RecorderFirst(steps) == \A i \in 2..Len(steps) : steps[i][1] \notin {"kill", "await"}

(* An error path or Cancel is at work as long as it has calls to make. *)
Busy == pc \in {"failing", "cancelling"} <=> todo # <<>>

CallsInv == Busy /\ RecorderFirst(todo) /\ Work(todo) <= 7

(* Plain calls may be added to any list. *)
LEMMA ConcatPlain ==
  ASSUME NEW s \in Seq(Call), NEW t \in Seq(Call), RecorderFirst(s), Plain(t)
  PROVE  /\ s \o t \in Seq(Call) /\ Len(s \o t) = Len(s) + Len(t)
         /\ RecorderFirst(s \o t)
         /\ Plain(s) => Plain(s \o t)
<1> DEFINE st == s \o t
<1>1. /\ Len(s) \in Nat /\ Len(t) \in Nat /\ st \in Seq(Call) /\ Len(st) = Len(s) + Len(t)
      /\ \A i \in 1..Len(s) + Len(t) : st[i] = IF i <= Len(s) THEN s[i] ELSE t[i - Len(s)]
  BY ConcatProperties, LenProperties
<1> HIDE DEF st
<1>2. ASSUME NEW i \in 1..Len(st), i > Len(s)  PROVE st[i][1] \notin {"kill", "await"}
  <2>1. i - Len(s) \in 1..Len(t) /\ st[i] = t[i - Len(s)]
    BY <1>1, <1>2
  <2> QED BY <2>1 DEF Plain
<1>3. \A i \in 1..Len(st) : i <= Len(s) => st[i] = s[i] /\ i \in 1..Len(s)
  BY <1>1
<1>4. RecorderFirst(st)
  BY <1>1, <1>2, <1>3 DEF RecorderFirst
<1>5. Plain(s) => Plain(st)
  BY <1>1, <1>2, <1>3 DEF Plain
<1> QED BY <1>1, <1>4, <1>5 DEF st

(* Four calls amount to seven at most. *)
LEMMA FourCalls ==
  ASSUME NEW steps \in Seq(Call), Len(steps) <= 4
  PROVE  Work(steps) <= 7
BY LenProperties DEF Work

(* The lists that the code starts from are short, and only StopVideoContainer *)
(* is not plain.                                                              *)
LEMMA ShortLists ==
  /\ \A c \in Thing : /\ RemoveContainer(c) \in Seq(Call) /\ Plain(RemoveContainer(c))
                       /\ RemoveContainer(c) # <<>> /\ Len(RemoveContainer(c)) \in {1, 2}
                       /\ Len(RemoveContainer(c)) <= 2
                       /\ RecorderFirst(RemoveContainer(c))
  /\ StopProcess \in Seq(Call) /\ StopProcess # <<>> /\ Len(StopProcess) <= 2
  /\ RecorderFirst(StopProcess)
  /\ StopVideoContainer \in Seq(Call) /\ Len(StopVideoContainer) <= 1
  /\ RecorderFirst(StopVideoContainer)
<1> USE DEF Plain, RecorderFirst
<1>1. ASSUME NEW c \in Thing
      PROVE  /\ Plain(RemoveContainer(c)) /\ Len(RemoveContainer(c)) \in {1, 2}
             /\ Len(RemoveContainer(c)) <= 2
             /\ RecorderFirst(RemoveContainer(c))
  <2>1. CASE want.graceful
    <3>1. RemoveContainer(c) = << <<"stop", c>>, <<"remove", c>> >>
      BY <2>1 DEF RemoveContainer
    <3> QED BY <3>1
  <2>2. CASE ~want.graceful
    <3>1. RemoveContainer(c) = << <<"remove", c>> >>
      BY <2>2 DEF RemoveContainer
    <3> QED BY <3>1
  <2> QED BY <2>1, <2>2
<1>2. Len(StopProcess) <= 2 /\ RecorderFirst(StopProcess)
  BY DEF StopProcess
<1>3. Len(StopVideoContainer) <= 1 /\ RecorderFirst(StopVideoContainer)
  BY DEF StopVideoContainer
<1> QED BY <1>1, <1>2, <1>3, Lists DEF Thing

(* Every list that an error path or Cancel starts from. *)
LEMMA CallsBegin ==
  ASSUME IInv, StartWithCancel \/ Cancel
  PROVE  \/ pc' \notin {"failing", "cancelling"} /\ todo' = <<>>
         \/ /\ pc' \in {"failing", "cancelling"} /\ todo' \in Seq(Call) /\ todo' # <<>>
            /\ RecorderFirst(todo') /\ Len(todo') <= 4
<1> DEFINE R == RemoveContainer("browser")
           V == StopVideoContainer
<1>0. /\ R \in Seq(Call) /\ Plain(R) /\ R # <<>> /\ Len(R) <= 2 /\ RecorderFirst(R)
      /\ V \in Seq(Call) /\ Len(V) <= 1 /\ RecorderFirst(V)
      /\ Len(R) \in Nat /\ Len(V) \in Nat
  BY ShortLists, LenProperties DEF Thing
<1>1. kind \in {"docker", "driver"}
  BY DEF IInv, ServicesTypeOK
<1> HIDE DEF R, V
<1>2. /\ V \o R \in Seq(Call) /\ RecorderFirst(V \o R) /\ Len(V \o R) <= 3 /\ V \o R # <<>>
  BY <1>0, ConcatPlain, ConcatEqualIffEmpty
<1>3. CASE pc' = "failing" /\ todo' = R
  BY <1>0, <1>3
<1>4. CASE StartVideo
  <2> DEFINE R2 == RemoveContainer("video")
  <2>1. R2 \in Seq(Call) /\ Plain(R2) /\ Len(R2) <= 2 /\ Len(R2) \in Nat
    BY ShortLists, LenProperties DEF Thing
  <2>2. \/ pc' = "failing" /\ todo' = R \o R2
        \/ pc' = "waiting" /\ todo' = <<>>
    <3>1. todo = <<>>
      BY <1>4 DEF StartVideo, IInv, TodoInPlace
    <3> QED BY <1>4, <3>1 DEF StartVideo, ReturnsAfter, Wait, R
  <2> HIDE DEF R2
  <2>3. /\ R \o R2 \in Seq(Call) /\ Len(R \o R2) = Len(R) + Len(R2) /\ RecorderFirst(R \o R2)
    BY <1>0, <2>1, ConcatPlain
  <2>4. R \o R2 # <<>>
    BY <1>0, <2>1, ConcatEqualIffEmpty
  <2>5. Len(R \o R2) <= 4
    BY <1>0, <2>1, <2>3
  <2> QED BY <2>2, <2>3, <2>4, <2>5
<1>5. CASE TimesOut
  BY <1>1, <1>2, <1>5, ShortLists DEF TimesOut, ReturnsAfter, HowToEnd, R, V
<1>6. CASE Cancel
  <2> DEFINE L == IF want.log THEN << <<"logs", "browser">> >> ELSE <<>>
  <2>1. L \in Seq(Call) /\ Plain(L) /\ Len(L) <= 1 /\ Len(L) \in Nat
    <3>1. <<"logs", "browser">> \in Call
      BY DEF Call, Thing
    <3> QED BY <3>1 DEF Plain
  <2>2. /\ pc' = "cancelling"
        /\ todo' = IF kind = "docker" THEN (V \o L) \o R ELSE StopProcess
    BY <1>6 DEF Cancel, R, V
  <2> HIDE DEF L
  <2>3. V \o L \in Seq(Call) /\ RecorderFirst(V \o L) /\ Len(V \o L) <= 2 /\ Len(V \o L) \in Nat
    BY <1>0, <2>1, ConcatPlain
  <2>4. /\ (V \o L) \o R \in Seq(Call) /\ RecorderFirst((V \o L) \o R)
        /\ Len((V \o L) \o R) <= 4 /\ (V \o L) \o R # <<>>
    <3> DEFINE VL == V \o L
    <3> HIDE DEF VL
    <3>1. /\ VL \o R \in Seq(Call) /\ RecorderFirst(VL \o R) /\ Len(VL \o R) = Len(VL) + Len(R)
      BY <1>0, <2>3, ConcatPlain DEF VL
    <3>2. VL \o R # <<>>
      BY <1>0, <2>3, ConcatEqualIffEmpty DEF VL
    <3> QED BY <1>0, <2>3, <3>1, <3>2 DEF VL
  <2> QED BY <2>2, <2>4, ShortLists
<1>7. CASE pc' \notin {"failing", "cancelling"} /\ todo' = todo /\ StartWithCancel
  <2>1. pc \notin {"failing", "cancelling"}
    BY <1>7 DEF StartWithCancel, Configure, CreateBrowser, StartBrowser, Connect, Inspect,
                CreateVideo, StartVideo, Exec, TimesOut, IsUp
  <2> QED BY <1>7, <2>1 DEF IInv, TodoInPlace
<1>8. ASSUME Configure \/ CreateBrowser \/ StartBrowser \/ Connect \/ Inspect \/ CreateVideo
             \/ Exec \/ IsUp
      PROVE  \/ pc' = "failing" /\ todo' = R
             \/ pc' \notin {"failing", "cancelling"} /\ todo' = todo
  BY <1>8 DEF Configure, CreateBrowser, StartBrowser, Connect, Inspect, CreateVideo,
              Exec, IsUp, Returns, ReturnsAfter, Wait, R
<1> QED BY <1>3, <1>4, <1>5, <1>6, <1>7, <1>8 DEF StartWithCancel

(* What comes of a call: nothing, a wait, or what ends a container. *)
FollowUp(op, steps) ==
  \/ steps = <<>>
  \/ op = "kill" /\ Len(steps) = 1 /\ steps[1][1] = "await"
  \/ op = "await" /\ Plain(steps) /\ Len(steps) \in {1, 2}

(* Every call leaves less to do. *)
LEMMA CallShortens ==
  ASSUME todo \in Seq(Call), RecorderFirst(todo), NEW op, NEW c, NEW steps \in Seq(Call),
         Calls(op, c), Then(steps),
         FollowUp(op, steps)
  PROVE  RecorderFirst(todo') /\ Work(todo') < Work(todo)
<1>1. /\ todo' \in Seq(Call) /\ Len(todo') = Len(steps) + Len(todo) - 1
      /\ Len(todo) \in Nat \ {0} /\ Len(steps) \in Nat /\ todo[1] = <<op, c>>
      /\ \A i \in 1..Len(steps) : todo'[i] = steps[i]
      /\ \A i \in 2..Len(todo) : todo'[Len(steps) + i - 1] = todo[i]
  BY Shift DEF Calls
<1>2. ASSUME NEW k \in 1..Len(todo'), k > Len(steps)  PROVE todo'[k][1] \notin {"kill", "await"}
  <2> DEFINE i == k - Len(steps) + 1
  <2>1. i \in 2..Len(todo) /\ k = Len(steps) + i - 1
    BY <1>1, <1>2
  <2>2. todo'[k] = todo[i]
    BY <1>1, <2>1
  <2> QED BY <2>1, <2>2 DEF RecorderFirst
<1>3. todo # <<>> /\ (todo' = <<>> <=> Len(todo') = 0)
  BY <1>1, EmptySeq DEF Calls
<1>4. CASE steps = <<>>
  <2>1. Len(steps) = 0
    BY <1>4
  <2>2. todo' # <<>> => todo'[1][1] \notin {"kill", "await"}
    BY <1>1, <1>2, <1>3, <2>1
  <2>3. RecorderFirst(todo')
    BY <1>1, <1>2, <2>1 DEF RecorderFirst
  <2> QED BY <1>1, <1>3, <2>1, <2>2, <2>3 DEF Work
<1>5. CASE op = "kill" /\ Len(steps) = 1 /\ steps[1][1] = "await"
  <2>1. Len(steps) = 1 /\ todo'[1][1] = "await" /\ Len(todo') = Len(todo)
    BY <1>1, <1>5
  <2>2. RecorderFirst(todo')
    BY <1>1, <1>2, <2>1 DEF RecorderFirst
  <2>3. Work(todo') = Len(todo) + 2 /\ Work(todo) = Len(todo) + 3
    BY <1>1, <1>3, <1>5, <2>1 DEF Work
  <2> QED BY <1>1, <2>2, <2>3
<1>6. CASE op = "await" /\ Plain(steps) /\ Len(steps) \in {1, 2}
  <2>1. Len(todo') \in {Len(todo), Len(todo) + 1}
    <3>1. CASE Len(steps) = 1
      BY <1>1, <3>1
    <3>2. CASE Len(steps) = 2
      BY <1>1, <3>2
    <3> QED BY <1>6, <3>1, <3>2
  <2>2. \A k \in 1..Len(todo') : todo'[k][1] \notin {"kill", "await"}
    <3>1. ASSUME NEW k \in 1..Len(todo'), ~(k > Len(steps))
          PROVE  k \in 1..Len(steps) /\ todo'[k] = steps[k]
      BY <1>1, <3>1
    <3> QED BY <1>2, <1>6, <3>1 DEF Plain
  <2>3. RecorderFirst(todo')
    BY <1>1, <2>2 DEF RecorderFirst
  <2>4. Work(todo') = Len(todo')
    BY <1>1, <1>3, <2>1, <2>2 DEF Work
  <2>5. Work(todo) = Len(todo) + 2
    BY <1>1, <1>3, <1>6 DEF Work
  <2> QED BY <1>1, <2>1, <2>3, <2>4, <2>5
<1> QED BY <1>4, <1>5, <1>6 DEF FollowUp

(* Whatever comes of it. *)
LEMMA NextCallShortens ==
  ASSUME IInv, CallsInv, NextCall
  PROVE  RecorderFirst(todo') /\ Work(todo') < Work(todo) /\ Busy'
<1>0. todo \in Seq(Call) /\ RecorderFirst(todo) /\ <<>> \in Seq(Call)
  BY DEF IInv, ServicesTypeOK, Call, CallsInv
<1> DEFINE Shorter == RecorderFirst(todo') /\ Work(todo') < Work(todo)
<1> SUFFICES Shorter
  <2>1. \E op, c, steps : Calls(op, c) /\ Then(steps)
    BY DEF NextCall, Kill, Await, CopyLogs, Signal, Reap, Stop, Remove
  <2> QED BY <2>1 DEF Calls, Then, CallsInv, Busy
<1>1. ASSUME NEW op, NEW c, Calls(op, c), Then(<<>>)  PROVE Shorter
  BY <1>0, <1>1, CallShortens DEF FollowUp
<1>2. CASE Kill
  <2> DEFINE W == << <<"await", "video">> >>
  <2>1. W \in Seq(Call) /\ Len(W) = 1 /\ W[1][1] = "await"
    BY DEF Call, Thing
  <2> HIDE DEF W
  <2>2. CASE Then(W)
    <3>1. Calls("kill", "video")
      BY <1>2 DEF Kill
    <3> QED BY <1>0, <2>1, <2>2, <3>1, CallShortens DEF FollowUp
  <2> QED BY <1>1, <1>2, <2>2 DEF Kill, W
<1>3. CASE Await
  <2> DEFINE R == RemoveContainer("video")
  <2>1. R \in Seq(Call) /\ Plain(R) /\ Len(R) \in {1, 2}
    BY ShortLists DEF Thing
  <2> HIDE DEF R
  <2>2. CASE Then(R)
    <3>1. Calls("await", "video")
      BY <1>3 DEF Await
    <3> QED BY <1>0, <2>1, <2>2, <3>1, CallShortens DEF FollowUp
  <2> QED BY <1>1, <1>3, <2>2 DEF Await, R
<1>4. CASE CopyLogs \/ Signal \/ Reap
  BY <1>1, <1>4 DEF CopyLogs, Signal, Reap
<1>5. CASE \E c \in {"browser", "video"} : Stop(c) \/ Remove(c)
  BY <1>1, <1>5 DEF Stop, Remove
<1> QED BY <1>2, <1>3, <1>4, <1>5 DEF NextCall

(* A list is begun short and gets shorter. *)
LEMMA CallsStep == IInv /\ CallsInv /\ [ServicesNext]_svars => CallsInv'
<1> SUFFICES ASSUME IInv, CallsInv, [ServicesNext]_svars PROVE CallsInv'
  OBVIOUS
<1>1. CASE NextCall
  <2>1. Work(todo) \in Nat /\ todo' \in Seq(Call) /\ Work(todo') \in Nat
    <3>1. todo \in Seq(Call)
      BY DEF IInv, ServicesTypeOK, Call
    <3>2. IInv'
      BY <1>1, CallStep
    <3>3. todo' \in Seq(Call)
      BY <3>2 DEF IInv, ServicesTypeOK, Call
    <3> QED BY <3>1, <3>3, LenProperties DEF Work
  <2> QED BY <1>1, <2>1, NextCallShortens DEF CallsInv
<1>2. ASSUME StartWithCancel \/ Cancel  PROVE CallsInv'
  <2>1. CASE todo' = <<>>
    BY <1>2, <2>1, CallsBegin DEF CallsInv, Busy, RecorderFirst, Work
  <2>2. CASE todo' # <<>>
    BY <1>2, <2>2, CallsBegin, FourCalls DEF CallsInv, Busy
  <2> QED BY <2>1, <2>2
<1>3. ASSUME UNCHANGED <<pc, todo>>  PROVE CallsInv'
  BY <1>3 DEF CallsInv, Busy, RecorderFirst, Work
<1> QED BY <1>1, <1>2, <1>3
        DEF ServicesNext, Probe, CheckDone, Answers, AskAgain, Exit, svars

(* An error path and Cancel are over when they have no call left to make;     *)
(* they begin with work for at most seven, and every call they make, whatever *)
(* its outcome, leaves less of it: none is tried again.                       *)
CallsRunOut ==
  /\ [](Busy /\ Work(todo) <= 7)
  /\ [][(pc \in {"failing", "cancelling"}) => todo' = todo \/ Work(todo') < Work(todo)]_svars

(* The core of CallsReturn: no sequence of failures keeps StartWithCancel or  *)
(* Cancel at work for ever, only a call that does not return.                 *)
THEOREM ErrorPathsEnd == ServicesSpec => CallsRunOut
<1>1. ServicesInit => IInv /\ CallsInv
  BY InitInv DEF ServicesInit, CallsInv, Busy, RecorderFirst, Work
<1>2. CallsInv => Busy /\ Work(todo) <= 7
  BY DEF CallsInv
<1>3. IInv /\ CallsInv /\ [ServicesNext]_svars =>
        [(pc \in {"failing", "cancelling"}) => todo' = todo \/ Work(todo') < Work(todo)]_svars
  <2> SUFFICES ASSUME IInv, CallsInv, ServicesNext, pc \in {"failing", "cancelling"}
               PROVE  todo' = todo \/ Work(todo') < Work(todo)
    OBVIOUS
  <2>1. ~StartWithCancel /\ ~Cancel
    BY DEF StartWithCancel, Configure, CreateBrowser, StartBrowser, Connect, Inspect,
           CreateVideo, StartVideo, Exec, TimesOut, IsUp, Cancel
  <2> QED BY <2>1, NextCallShortens DEF ServicesNext, Probe, CheckDone, Answers, AskAgain, Exit
<1> QED BY <1>1, <1>2, <1>3, CallsStep, Invariance, PTL DEF ServicesSpec, CallsRunOut

(* The goroutine of wait() is told when nobody waits for it any more: what it *)
(* finds at line 106 is a closed channel.                                     *)
ProberIsTold == prober \in {"checking", "asking", "sending"} => pc = "waiting" \/ done

(* The core of ProberStops: once wait() has returned, its goroutine is over   *)
(* or will see it at its next look.                                           *)
THEOREM ProberSeesTheEnd == ServicesSpec => []ProberIsTold
<1>1. ServicesInit => ProberIsTold
  BY DEF ServicesInit, ProberIsTold
<1>2. IInv /\ ProberIsTold /\ [ServicesNext]_svars => ProberIsTold'
  <2> SUFFICES ASSUME IInv, ProberIsTold, [ServicesNext]_svars PROVE ProberIsTold'
    OBVIOUS
  <2> USE DEF ProberIsTold
  <2>1. CASE StartWithCancel
    BY <2>1 DEF StartWithCancel, Configure, CreateBrowser, StartBrowser, Connect, Inspect,
                CreateVideo, StartVideo, Exec, TimesOut, IsUp, Returns, ReturnsAfter, Wait, probing
  <2>2. CASE Cancel \/ NextCall
    <3>1. pc # "waiting" /\ UNCHANGED <<prober, done>>
      BY <2>2 DEF Cancel, NextCall, Kill, Await, CopyLogs, Signal, Reap, Stop, Remove, Calls,
                  IInv, TodoInPlace, probing
    <3> QED BY <3>1
  <2>3. CASE Probe \/ \E c \in Thing : Exit(c)
    BY <2>3 DEF Probe, CheckDone, Answers, AskAgain, Exit, probing
  <2>4. CASE UNCHANGED svars
    BY <2>4 DEF svars, probing
  <2> QED BY <2>1, <2>2, <2>3, <2>4 DEF ServicesNext
<1> QED BY <1>1, <1>2, Invariance, PTL DEF ServicesSpec
===============================================================================
