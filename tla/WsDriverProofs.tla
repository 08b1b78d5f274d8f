---------------------------- MODULE WsDriverProofs ----------------------------
(* What module WsDriver guarantees for any number of commands and RequestIDs: *)
(* answers are made of their own commands, bodies are intact when they are    *)
(* read, and the connection implements the safety of module Answers.          *)
EXTENDS WsDriver, TLAPS, SequenceTheorems

(* The loop is between a command and its answer. *)
Serving == pc \in {"alive", "make", "do", "fill", "compose", "send"}

(* The answers follow the commands, the one at hand apart. *)
InStep == /\ Len(answers) <= Len(asked)
          /\ \A i \in 1..Len(answers) : answers[i].id = asked[i]
          /\ pc = "read" => Len(answers) = Len(asked)
          /\ Serving => /\ Len(answers) + 1 = Len(asked)
                        /\ reqMsg.id = asked[Len(asked)]

OwnContent(content, n) == /\ content.what \in {"response", "error"}
                          /\ content.of = n
                          /\ content.intact \/ early

(* At each place the buffer that is used next holds what it should. *)
BuffersAreOwn == /\ pc \in {"alive", "make"} => wsBuffer = Is("request", N)
                 /\ pc = "compose" => OwnContent(httpBuffer, N)
                 /\ pc = "send" => OwnContent(wsBuffer, N)

BufferOf(u) == IF u.buffer = "ws" THEN wsBuffer ELSE httpBuffer

(* Until a response is early, a body is being sent only while Do waits, and   *)
(* it is in its buffer.                                                       *)
UploadsInTime ==
  ~early => \A u \in uploads : pc = "do" /\ u.of = N /\ BufferOf(u) = Is("request", u.of)

IInv == WsDriverTypeOK /\ InStep /\ BuffersAreOwn /\ UploadsInTime /\ AnswersAreOwn

------------------------------------------------------------------------------
(* What a buffer is given is a content of the command at hand. *)
LEMMA ContentsOfCommand ==
  ASSUME NEW n \in 0..MaxCommands
  PROVE  /\ \A what \in {"nothing", "request", "response", "error"} :
              /\ Is(what, n) \in Content
              /\ Is(what, n).what = what /\ Is(what, n).of = n /\ Is(what, n).intact
         /\ \A content \in Content :
              /\ Cut(content) \in Content
              /\ Cut(content).what = content.what /\ Cut(content).of = content.of
  BY DEF Is, Cut, Content

(* The first command and those before MaxCommands are within the bound. *)
LEMMA CommandAtHand ==
  ASSUME WsDriverTypeOK
  PROVE  /\ N \in 0..MaxCommands /\ MaxCommands \in Nat
         /\ InStep /\ Serving => N \in 1..MaxCommands
<1>1. /\ asked \in Seq(Id) /\ Len(asked) \in Nat /\ Len(asked) <= MaxCommands
      /\ answers \in Seq([id : Id, content : Content]) /\ Len(answers) \in Nat
  BY DEF WsDriverTypeOK
<1>2. N \in 0..MaxCommands /\ MaxCommands \in Nat
  BY <1>1, MaxCommandsAssumption DEF N
<1>3. InStep /\ Serving => Len(asked) >= 1
  BY <1>1 DEF InStep
<1> QED BY <1>1, <1>2, <1>3 DEF N

LEMMA InitInv == WsDriverInit => IInv
<1> SUFFICES ASSUME WsDriverInit PROVE IInv
  OBVIOUS
<1>1. Nothing \in Content
  BY ContentsOfCommand, MaxCommandsAssumption DEF Nothing
<1>2. (CHOOSE id \in Id : TRUE) \in Id
  BY IdAssumption
<1>3. WsDriverTypeOK
  <2>1. reqMsg \in [id : Id, compression : 0..2]
    BY <1>2 DEF WsDriverInit
  <2>2. asked \in Seq(Id) /\ Len(asked) <= MaxCommands
    BY MaxCommandsAssumption DEF WsDriverInit
  <2>3. answers \in Seq([id : Id, content : Content])
    BY DEF WsDriverInit
  <2> QED BY <1>1, <2>1, <2>2, <2>3 DEF WsDriverInit, WsDriverTypeOK
<1>4. InStep /\ AnswersAreOwn
  BY DEF WsDriverInit, InStep, Serving, AnswersAreOwn
<1>5. BuffersAreOwn /\ UploadsInTime
  BY DEF WsDriverInit, BuffersAreOwn, UploadsInTime
<1> QED BY <1>3, <1>4, <1>5 DEF IInv

------------------------------------------------------------------------------
(* Each step keeps the types. *)
LEMMA TypeStep == IInv /\ [WsDriverNext]_wvars => WsDriverTypeOK'
<1> SUFFICES ASSUME IInv, [WsDriverNext]_wvars PROVE WsDriverTypeOK'
  OBVIOUS
<1>0. WsDriverTypeOK /\ InStep /\ N \in 0..MaxCommands /\ MaxCommands \in Nat
  BY CommandAtHand DEF IInv
<1>1. CASE UNCHANGED wvars
  BY <1>0, <1>1 DEF WsDriverTypeOK, wvars, buffers
<1>2. CASE Close \/ SessionEnds
  BY <1>0, <1>2 DEF WsDriverTypeOK, Close, SessionEnds, buffers
<1>3. ASSUME NEW f \in Frame, NEW id \in Id, Receive(f, id)  PROVE WsDriverTypeOK'
  <2>0. asked \in Seq(Id) /\ Len(asked) \in 0..MaxCommands
    BY <1>0 DEF WsDriverTypeOK, N
  <2>1. asked' \in Seq(Id) /\ Len(asked') <= MaxCommands /\ Len(asked') \in 0..MaxCommands
    <3>1. CASE UNCHANGED asked
      BY <1>0, <2>0, <3>1
    <3>2. CASE asked' = Append(asked, id) /\ Len(asked) < MaxCommands
      <4>1. asked' \in Seq(Id) /\ Len(asked') = Len(asked) + 1
        BY <2>0, <3>2
      <4> QED BY <1>0, <2>0, <3>2, <4>1
    <3> QED BY <1>3, <3>1, <3>2 DEF Receive
  <2>2. wsBuffer' \in Content
    BY <1>0, <1>3, <2>1, ContentsOfCommand DEF WsDriverTypeOK, Receive
  <2>3. reqMsg' \in [id : Id, compression : 0..2]
    <3>0. f.compression \in 0..3
      BY Zenon DEF Frame
    <3>1. Accepts(f) => f.compression \in 0..2
      BY <3>0 DEF Accepts
    <3>2. CASE f.binary /\ Accepts(f)
      <4>1. reqMsg' = [id |-> id, compression |-> f.compression]
        BY <1>3, <3>2 DEF Receive
      <4> QED BY <3>1, <3>2, <4>1
    <3>3. CASE ~(f.binary /\ Accepts(f))
      BY <1>0, <1>3, <3>3 DEF WsDriverTypeOK, Receive
    <3> QED BY <3>2, <3>3
  <2> QED BY <1>0, <1>3, <2>1, <2>2, <2>3 DEF WsDriverTypeOK, Receive
<1>4. CASE CheckAlive \/ Respond \/ Fill \/ Compose
  <2>1. wsBuffer' \in Content /\ httpBuffer' \in Content
    BY <1>0, <1>4, ContentsOfCommand, MaxCommandsAssumption
    DEF WsDriverTypeOK, CheckAlive, Respond, Fill, Compose, WriteError, Nothing
  <2>2. early' \in BOOLEAN
    BY <1>0, <1>4 DEF WsDriverTypeOK, CheckAlive, Respond, Fill, Compose, TooEarly
  <2> QED BY <1>0, <1>4, <2>1, <2>2
          DEF WsDriverTypeOK, CheckAlive, Respond, Fill, Compose, WriteError
<1>5. CASE MakeRequest
  <2>1. wsBuffer' \in Content /\ httpBuffer' \in Content
    BY <1>0, <1>5, ContentsOfCommand DEF WsDriverTypeOK, MakeRequest, WriteError, buffers
  <2>2. N \in 1..MaxCommands
    BY <1>0, <1>5, CommandAtHand DEF MakeRequest, Serving
  <2>3. uploads' \subseteq [of : 1..MaxCommands, buffer : {"ws", "http"}]
    BY <1>0, <1>5, <2>2 DEF WsDriverTypeOK, MakeRequest, Sends
  <2> QED BY <1>0, <1>5, <2>1, <2>3 DEF WsDriverTypeOK, MakeRequest, Sends, WriteError
<1>6. CASE Send
  <2>1. answers' \in Seq([id : Id, content : Content])
    BY <1>0, <1>6 DEF WsDriverTypeOK, Send
  <2> QED BY <1>0, <1>6, <2>1 DEF WsDriverTypeOK, Send, buffers
<1>7. ASSUME NEW u \in uploads, UploadEnds(u)  PROVE WsDriverTypeOK'
  BY <1>0, <1>7 DEF WsDriverTypeOK, UploadEnds, buffers
<1>8. ASSUME NEW u \in uploads, Steal(u)  PROVE WsDriverTypeOK'
  BY <1>0, <1>8, ContentsOfCommand DEF WsDriverTypeOK, Steal
<1> QED BY <1>1, <1>2, <1>3, <1>4, <1>5, <1>6, <1>7, <1>8 DEF WsDriverNext, Serve

(* Each step keeps the answers in step with the commands. *)
LEMMA InStepStep == IInv /\ [WsDriverNext]_wvars => InStep'
<1> SUFFICES ASSUME IInv, [WsDriverNext]_wvars PROVE InStep'
  OBVIOUS
<1>0. /\ InStep
      /\ asked \in Seq(Id) /\ Len(asked) \in Nat
      /\ answers \in Seq([id : Id, content : Content]) /\ Len(answers) \in Nat
  BY DEF IInv, WsDriverTypeOK
<1>1. ASSUME UNCHANGED <<asked, answers>>, UNCHANGED <<pc, reqMsg>>  PROVE InStep'
  BY <1>0, <1>1 DEF InStep, Serving
<1>2. ASSUME UNCHANGED <<asked, answers, reqMsg>>, Serving, Serving'  PROVE InStep'
  BY <1>0, <1>2 DEF InStep, Serving
<1>3. CASE Close
  BY <1>0, <1>3 DEF InStep, Serving, Close
<1>4. CASE UNCHANGED wvars \/ SessionEnds \/ \E u \in uploads : UploadEnds(u) \/ Steal(u)
  BY <1>1, <1>4 DEF wvars, SessionEnds, UploadEnds, Steal
<1>5. CASE CheckAlive \/ MakeRequest \/ Respond \/ Fill \/ Compose
  BY <1>2, <1>5
  DEF CheckAlive, MakeRequest, Respond, Fill, Compose, WriteError, Sends, Serving
<1>6. ASSUME NEW f \in Frame, NEW id \in Id, Receive(f, id)  PROVE InStep'
  <2>1. CASE f.binary /\ Accepts(f)
    <3>1. /\ asked' = Append(asked, id) /\ Len(asked') = Len(asked) + 1
          /\ \A i \in 1..Len(asked) : asked'[i] = asked[i]
          /\ asked'[Len(asked')] = id
      BY <1>0, <1>6, <2>1 DEF Receive
    <3>2. /\ Len(answers) = Len(asked) /\ answers' = answers
          /\ reqMsg'.id = id /\ pc' = "alive"
      BY <1>0, <1>6, <2>1 DEF Receive, InStep
    <3> QED BY <1>0, <3>1, <3>2 DEF InStep, Serving
  <2>2. CASE ~(f.binary /\ Accepts(f))
    BY <1>0, <1>6, <2>2 DEF Receive, InStep, Serving
  <2> QED BY <2>1, <2>2
<1>7. CASE Send
  <2> DEFINE answer == [id |-> reqMsg.id, content |-> wsBuffer]
  <2>1. answer \in [id : Id, content : Content] /\ answer.id = reqMsg.id
    BY DEF IInv, WsDriverTypeOK
  <2>2. /\ answers' = Append(answers, answer)
        /\ pc' = "read" /\ UNCHANGED <<asked, reqMsg>>
    BY <1>7 DEF Send
  <2> HIDE DEF answer
  <2>3. /\ Len(answers') = Len(answers) + 1 /\ answers'[Len(answers) + 1] = answer
        /\ \A i \in 1..Len(answers) : answers'[i] = answers[i]
    BY <1>0, <2>1, <2>2
  <2>4. Len(answers) + 1 = Len(asked) /\ reqMsg.id = asked[Len(asked)]
    BY <1>0, <1>7 DEF Send, InStep, Serving
  <2> QED BY <1>0, <2>1, <2>2, <2>3, <2>4 DEF InStep, Serving
<1> QED BY <1>3, <1>4, <1>5, <1>6, <1>7 DEF WsDriverNext, Serve

(* Each step leaves the right content where the next one takes it from. *)
LEMMA BuffersStep == IInv /\ [WsDriverNext]_wvars => BuffersAreOwn'
<1> SUFFICES ASSUME IInv, [WsDriverNext]_wvars PROVE BuffersAreOwn'
  OBVIOUS
<1>0. /\ WsDriverTypeOK /\ BuffersAreOwn /\ UploadsInTime
      /\ N \in 0..MaxCommands /\ MaxCommands \in Nat
  BY CommandAtHand DEF IInv
<1>1. CASE UNCHANGED wvars \/ SessionEnds \/ \E u \in uploads : UploadEnds(u)
  BY <1>0, <1>1 DEF wvars, buffers, SessionEnds, UploadEnds, BuffersAreOwn, OwnContent, N
<1>2. CASE Close \/ Send
  BY <1>2 DEF Close, Send, BuffersAreOwn
<1>3. ASSUME NEW f \in Frame, NEW id \in Id, Receive(f, id)  PROVE BuffersAreOwn'
  BY <1>3 DEF Receive, BuffersAreOwn, N
<1>4. ASSUME WriteError, UNCHANGED asked  PROVE BuffersAreOwn'
  BY <1>0, <1>4, ContentsOfCommand DEF WriteError, BuffersAreOwn, OwnContent, N
<1>5. CASE CheckAlive
  BY <1>0, <1>4, <1>5 DEF CheckAlive, BuffersAreOwn, N
<1>6. CASE MakeRequest
  BY <1>4, <1>6 DEF MakeRequest, Sends, BuffersAreOwn
<1>7. CASE Respond
  BY <1>4, <1>7 DEF Respond, BuffersAreOwn
<1>8. CASE Fill
  BY <1>0, <1>4, <1>8, ContentsOfCommand DEF Fill, BuffersAreOwn, OwnContent, N
<1>9. CASE Compose
  BY <1>0, <1>9 DEF Compose, BuffersAreOwn, OwnContent, N
<1>10. ASSUME NEW u \in uploads, Steal(u)  PROVE BuffersAreOwn'
  <2>1. early
    BY <1>0, <1>10 DEF Steal, UploadsInTime, BufferOf
  <2> QED BY <1>0, <1>10, <2>1, ContentsOfCommand
          DEF WsDriverTypeOK, Steal, BuffersAreOwn, OwnContent, N
<1> QED BY <1>1, <1>2, <1>3, <1>5, <1>6, <1>7, <1>8, <1>9, <1>10 DEF WsDriverNext, Serve

(* Until a response is early, no step puts anything over a body that is being *)
(* sent.                                                                      *)
LEMMA UploadsStep == IInv /\ [WsDriverNext]_wvars => UploadsInTime'
<1> SUFFICES ASSUME IInv, [WsDriverNext]_wvars, ~early'
             PROVE  \A u \in uploads' : /\ pc' = "do" /\ u.of = N'
                                       /\ BufferOf(u)' = Is("request", u.of)
  BY DEF UploadsInTime
<1>0. WsDriverTypeOK /\ BuffersAreOwn /\ UploadsInTime
  BY DEF IInv
<1>1. ~early
  BY <1>0 DEF wvars, buffers, WsDriverNext, Serve, CheckAlive, MakeRequest, Respond, Fill,
              Compose, Send, Receive, Close, SessionEnds, UploadEnds, Steal, TooEarly
<1>2. \A u \in uploads : pc = "do" /\ u.of = N /\ BufferOf(u) = Is("request", u.of)
  BY <1>0, <1>1 DEF UploadsInTime
<1>3. CASE UNCHANGED wvars \/ SessionEnds \/ \E u \in uploads : UploadEnds(u)
  BY <1>2, <1>3 DEF wvars, buffers, SessionEnds, UploadEnds, BufferOf, N
<1>4. ASSUME uploads' = uploads, pc # "do"
      PROVE  uploads' = {}
  BY <1>2, <1>4
<1>5. CASE Close \/ Send \/ CheckAlive \/ Fill \/ Compose \/ \E f \in Frame, id \in Id : Receive(f, id)
  BY <1>4, <1>5 DEF Close, Send, CheckAlive, Fill, Compose, Receive
<1>6. CASE MakeRequest
  <2>1. uploads = {}
    BY <1>2, <1>6 DEF MakeRequest
  <2>2. wsBuffer = Is("request", N)
    BY <1>0, <1>6 DEF MakeRequest, BuffersAreOwn
  <2> QED BY <1>6, <2>1, <2>2 DEF MakeRequest, Sends, WriteError, BufferOf, buffers, N
<1>7. CASE Respond
  BY <1>2, <1>7 DEF Respond, TooEarly
<1>8. ASSUME NEW u \in uploads, Steal(u)  PROVE FALSE
  BY <1>2, <1>8 DEF Steal, BufferOf
<1> QED BY <1>3, <1>5, <1>6, <1>7, <1>8 DEF WsDriverNext, Serve

(* Each answer that is written is made of the command at hand. *)
LEMMA OwnStep == IInv /\ [WsDriverNext]_wvars => AnswersAreOwn'
<1> SUFFICES ASSUME IInv, [WsDriverNext]_wvars PROVE AnswersAreOwn'
  OBVIOUS
<1>0. /\ AnswersAreOwn /\ BuffersAreOwn /\ InStep /\ early \in BOOLEAN
      /\ answers \in Seq([id : Id, content : Content]) /\ Len(answers) \in Nat
      /\ asked \in Seq(Id) /\ Len(asked) \in Nat
  BY DEF IInv, WsDriverTypeOK
<1>1. CASE answers' = answers
  <2>1. early => early'
    BY <1>0 DEF wvars, buffers, WsDriverNext, Serve, CheckAlive, MakeRequest, Respond, Fill,
                Compose, Send, Receive, Close, SessionEnds, UploadEnds, Steal, TooEarly
  <2> QED BY <1>0, <1>1, <2>1 DEF AnswersAreOwn
<1>2. CASE Send
  <2> DEFINE answer == [id |-> reqMsg.id, content |-> wsBuffer]
  <2>1. answer \in [id : Id, content : Content]
    BY DEF IInv, WsDriverTypeOK
  <2>2. answers' = Append(answers, answer) /\ early' = early
    BY <1>2 DEF Send
  <2>3. OwnContent(answer.content, Len(answers) + 1)
    BY <1>0, <1>2 DEF Send, InStep, Serving, BuffersAreOwn, N
  <2> HIDE DEF answer
  <2>4. /\ DOMAIN answers = 1..Len(answers) /\ DOMAIN answers' = 1..Len(answers) + 1
        /\ answers'[Len(answers) + 1] = answer
        /\ \A i \in 1..Len(answers) : answers'[i] = answers[i]
    BY <1>0, <2>1, <2>2
  <2> QED BY <1>0, <2>2, <2>3, <2>4 DEF AnswersAreOwn, OwnContent
<1> QED BY <1>1, <1>2
        DEF wvars, buffers, WsDriverNext, Serve, CheckAlive, MakeRequest, Respond, Fill,
            Compose, Receive, Close, SessionEnds, UploadEnds, Steal

------------------------------------------------------------------------------
(* The inductive invariant holds in every reachable state. *)
THEOREM Invariance == WsDriverSpec => []IInv
<1>1. IInv /\ [WsDriverNext]_wvars => IInv'
  BY TypeStep, InStepStep, BuffersStep, UploadsStep, OwnStep DEF IInv
<1> QED BY <1>1, InitInv, PTL DEF WsDriverSpec

(* The connection's variables keep their types. *)
THEOREM TypeCorrectness == WsDriverSpec => []WsDriverTypeOK
<1>1. IInv => WsDriverTypeOK
  BY DEF IInv
<1> QED BY <1>1, Invariance, PTL

(* The buffers shared by all commands never mix two of them up: an answer is  *)
(* made of its own command and complete, unless a response was early.         *)
THEOREM AnswersOfOwnCommand == WsDriverSpec => []AnswersAreOwn
<1>1. IInv => AnswersAreOwn
  BY DEF IInv
<1> QED BY <1>1, Invariance, PTL

(* A body is in its buffer when net/http has read it, unless a response was   *)
(* early.                                                                     *)
THEOREM BodiesArriveIntact == WsDriverSpec => RequestsIntact
<1> DEFINE Intact == \A u \in uploads \ uploads' :
       \/ early
       \/ Is("request", u.of) = IF u.buffer = "ws" THEN wsBuffer ELSE httpBuffer
<1>1. IInv /\ [WsDriverNext]_wvars => [Intact]_wvars
  BY DEF IInv, UploadsInTime, BufferOf
<1> QED BY <1>1, Invariance, PTL DEF WsDriverSpec, RequestsIntact

------------------------------------------------------------------------------
(* The connection keeps the promise of module Answers: what it accepts it     *)
(* answers once, with its own RequestID and in order, until it closes.        *)
THEOREM WsDriverImplementsAnswers == WsDriverSpec => Promised!Safety
<1> DEFINE ids == [i \in DOMAIN answers |-> answers[i].id]
<1>1. WsDriverInit => Promised!Init
  <2> SUFFICES ASSUME WsDriverInit PROVE asked = <<>> /\ ids = <<>> /\ pc # "closed"
    BY DEF Promised!Init
  <2>1. answers = <<>> /\ DOMAIN answers = {}
    BY DEF WsDriverInit
  <2> QED BY <2>1 DEF WsDriverInit
<1>2. IInv /\ [WsDriverNext]_wvars => [Promised!Next]_(Promised!vars)
  <2> SUFFICES ASSUME IInv, [WsDriverNext]_wvars PROVE [Promised!Next]_(Promised!vars)
    OBVIOUS
  <2>0. /\ InStep /\ asked \in Seq(Id) /\ Len(asked) \in Nat
        /\ answers \in Seq([id : Id, content : Content]) /\ Len(answers) \in Nat
    BY DEF IInv, WsDriverTypeOK
  <2>1. ASSUME UNCHANGED <<asked, answers>>, (pc = "closed") = (pc = "closed")'
        PROVE  UNCHANGED Promised!vars
    BY <2>1 DEF Promised!vars
  <2>2. ASSUME UNCHANGED <<asked, answers>>, pc # "closed", pc' = "closed"
        PROVE  Promised!Close
    BY <2>2 DEF Promised!Close
  <2>3. ASSUME NEW f \in Frame, NEW id \in Id, Receive(f, id)
        PROVE  [Promised!Next]_(Promised!vars)
    <3>1. CASE f.binary /\ Accepts(f)
      <4>1. Promised!Ask
        BY <2>3, <3>1 DEF Receive, Promised!Ask
      <4> QED BY <4>1 DEF Promised!Next
    <3>2. CASE ~(f.binary /\ Accepts(f))
      BY <2>2, <2>3, <3>2 DEF Receive, Promised!Next
    <3> QED BY <3>1, <3>2
  <2>4. CASE Send
    <3> DEFINE answer == [id |-> reqMsg.id, content |-> wsBuffer]
    <3>1. answer \in [id : Id, content : Content] /\ answer.id = reqMsg.id
      BY DEF IInv, WsDriverTypeOK
    <3>2. answers' = Append(answers, answer) /\ asked' = asked /\ pc = "send" /\ pc' = "read"
      BY <2>4 DEF Send
    <3> HIDE DEF answer
    <3>3. /\ DOMAIN answers = 1..Len(answers) /\ DOMAIN answers' = 1..Len(answers) + 1
          /\ answers'[Len(answers) + 1] = answer
          /\ \A i \in 1..Len(answers) : answers'[i] = answers[i]
      BY <2>0, <3>1, <3>2
    <3>4. Len(answers) + 1 = Len(asked) /\ reqMsg.id = asked[Len(answers) + 1]
      BY <2>0, <3>2 DEF InStep, Serving
    <3>5. ids \in Seq(Id) /\ Len(ids) = Len(answers)
      <4>1. \A i \in 1..Len(answers) : answers[i].id \in Id
        <5> DEFINE Answer == [id : Id, content : Content]
        <5>1. \A a \in Answer : a.id \in Id
          OBVIOUS
        <5>2. answers \in Seq(Answer)
          BY <2>0
        <5> HIDE DEF Answer
        <5> QED BY <5>1, <5>2, ElementOfSeq
      <4>2. DOMAIN ids = 1..Len(answers) /\ ids \in [1..Len(answers) -> Id]
        BY <2>0, <3>3, <4>1
      <4> HIDE DEF ids
      <4>3. ids \in Seq(Id)
        BY <2>0, <4>2, SeqDef
      <4> QED BY <2>0, <4>2, <4>3, LenProperties
    <3>6. ids' = Append(ids, asked[Len(ids) + 1])
      <4> DEFINE longer == Append(ids, reqMsg.id)
      <4>1. reqMsg.id \in Id
        BY DEF IInv, WsDriverTypeOK
      <4>2. /\ longer \in Seq(Id) /\ Len(longer) = Len(answers) + 1
            /\ \A i \in 1..Len(answers) : longer[i] = ids[i]
            /\ longer[Len(answers) + 1] = reqMsg.id
        BY <3>5, <4>1
      <4>3. longer = [i \in 1..Len(answers) + 1 |-> longer[i]]
        BY <4>2
      <4>4. \A i \in 1..Len(answers) + 1 : longer[i] = answers'[i].id
        BY <2>0, <3>1, <3>3, <4>2
      <4> HIDE DEF longer
      <4>5. longer = ids'
        BY <3>3, <4>3, <4>4
      <4> QED BY <3>4, <3>5, <4>5 DEF longer
    <3>7. Promised!Answer
      <4> HIDE DEF ids
      <4>1. Len(ids) < Len(asked)
        BY <2>0, <3>4, <3>5
      <4> QED BY <3>2, <3>6, <4>1 DEF Promised!Answer, ids
    <3> QED BY <3>7 DEF Promised!Next
  <2>5. CASE Close
    BY <2>2, <2>5 DEF Close, Promised!Next
  <2>6. CASE \/ CheckAlive \/ MakeRequest \/ Respond \/ Fill \/ Compose \/ SessionEnds
             \/ UNCHANGED wvars \/ \E u \in uploads : UploadEnds(u) \/ Steal(u)
    BY <2>1, <2>6
    DEF wvars, buffers, CheckAlive, MakeRequest, Respond, Fill, Compose, SessionEnds,
        UploadEnds, Steal, Sends, WriteError
  <2> QED BY <2>3, <2>4, <2>5, <2>6 DEF WsDriverNext, Serve
<1> QED BY <1>1, <1>2, Invariance, PTL DEF WsDriverSpec, Promised!Safety
===============================================================================
