------------------------------- MODULE WsDriver -------------------------------
(* One WsDriver connection (wsdriver/*.go): a loop that reads a command from  *)
(* the WebSocket, sends it to the hub as an HTTP request and writes the       *)
(* response back.  All of it happens in two buffers that live as long as the  *)
(* connection.  A goroutine of net/http sends the body of a request; it reads *)
(* the buffer the body is in, and may still do so when the response is there. *)
EXTENDS Naturals, Sequences

CONSTANTS Id,           \* RequestIDs
          MaxCommands   \* bound: commands accepted on one connection

ASSUME MaxCommandsAssumption == MaxCommands \in Nat
ASSUME IdAssumption == Id # {}

VARIABLES
  pc,         \* where HandleConnection is
  reqMsg,     \* the command at hand: its RequestID and compression
  wsBuffer, httpBuffer,
  live,       \* isSessionAliveFn
  uploads,    \* bodies that net/http is still sending
  asked,      \* history: the RequestIDs of accepted commands
  answers,    \* history: the responses written, RequestID and content
  early       \* history: a response or error came before the body was sent

buffers == <<wsBuffer, httpBuffer>>
wvars == <<pc, reqMsg, buffers, live, uploads, asked, answers, early>>

(* The content of a buffer: something of the of-th command, alone and         *)
(* complete or not.                                                           *)
Content == [what : {"nothing", "request", "response", "error"},
            of : 0..MaxCommands, intact : BOOLEAN]
Is(what, n) == [what |-> what, of |-> n, intact |-> TRUE]
Cut(content) == [content EXCEPT !.intact = FALSE]
Nothing == Is("nothing", 0)

(* A frame of the client: those features that decide what becomes of it, as   *)
(* what its path begins with.                                                 *)
Frame == [binary : BOOLEAN, size : 8..9, version : 0..1, type : 0..1,
          compression : 0..3, method : 8..9,
          path : {"unterminated", "empty", "dot", "slash", "plain"}]

(* Wrong variant: the compression is not looked at. *)
AcceptsAnyCompression(f) == /\ f.size >= 9 /\ f.version = 1 /\ f.type = 0
                            /\ f.method <= 8 /\ f.path = "plain"

(* ParseRequestV1. *)
Accepts(f) == /\ f.size >= 9
              /\ f.version = 1
              /\ f.type = 0
              /\ f.compression <= 2
              /\ f.method <= 8
              /\ f.path \notin {"unterminated", "empty", "dot", "slash"}

N == Len(asked)         \* the number of the command at hand

WsDriverInit ==
  /\ pc = "read"
  /\ reqMsg = [id |-> CHOOSE id \in Id : TRUE, compression |-> 0]
  /\ wsBuffer = Nothing /\ httpBuffer = Nothing
  /\ live = TRUE
  /\ uploads = {} /\ asked = <<>> /\ answers = <<>> /\ early = FALSE

------------------------------------------------------------------------------
(* Lines 59-85, 104, 115, 126 and 135 of wsdriver.go: the client has closed   *)
(* the connection, or a frame cannot be read or a response not be written.    *)
Close == /\ pc \in {"read", "send"}
         /\ pc' = "closed"
         /\ UNCHANGED <<reqMsg, buffers, live, uploads, asked, answers, early>>

(* Lines 70-98: a frame of the wrong kind or format closes the connection. *)
Receive(f, id) ==
  /\ pc = "read" /\ Len(asked) < MaxCommands
  /\ IF f.binary /\ Accepts(f)
       THEN /\ asked' = Append(asked, id)
            /\ reqMsg' = [id |-> id, compression |-> f.compression]
            /\ pc' = "alive"
       ELSE /\ pc' = "closed"
            /\ UNCHANGED <<asked, reqMsg>>
  /\ wsBuffer' = IF f.binary THEN Is("request", Len(asked')) ELSE wsBuffer
  /\ UNCHANGED <<httpBuffer, live, uploads, answers, early>>

WriteError == wsBuffer' = Is("error", N) /\ pc' = "send"

(* Lines 100-108; module SessionTimer has what isSessionAliveFn does. *)
CheckAlive == /\ pc = "alive"
              /\ IF live THEN pc' = "make" /\ UNCHANGED wsBuffer ELSE WriteError
              /\ UNCHANGED <<reqMsg, httpBuffer, live, uploads, asked, answers, early>>

SessionEnds == /\ live
               /\ live' = FALSE
               /\ UNCHANGED <<pc, reqMsg, buffers, uploads, asked, answers, early>>

Sends(buffer) == uploads' = uploads \cup {[of |-> N, buffer |-> buffer]} /\ pc' = "do"

(* Wrong variant: the buffer is not reset before decompression. *)
MakeRequestUnreset ==
  /\ pc = "make"
  /\ \/ reqMsg.compression = 0 /\ Sends("ws") /\ UNCHANGED buffers
     \/ /\ reqMsg.compression # 0
        /\ httpBuffer' = IF httpBuffer = Nothing THEN Is("request", N)
                                                 ELSE Cut(Is("request", N))
        /\ Sends("http") /\ UNCHANGED wsBuffer
  /\ UNCHANGED <<reqMsg, live, asked, answers, early>>

(* MakeRequest up to httpClient.Do: a compressed body may be no good, and any *)
(* path may make a URL that NewRequest refuses.                               *)
MakeRequest ==
  /\ pc = "make"
  /\ \/ reqMsg.compression = 0 /\ Sends("ws") /\ UNCHANGED buffers
     \/ /\ reqMsg.compression # 0
        /\ httpBuffer' = Is("request", N)
        /\ Sends("http") /\ UNCHANGED wsBuffer
     \/ /\ \/ UNCHANGED httpBuffer
           \/ /\ reqMsg.compression # 0
              /\ httpBuffer' \in {Is("request", N), Cut(Is("request", N))}
        /\ WriteError /\ UNCHANGED uploads
  /\ UNCHANGED <<reqMsg, live, asked, answers, early>>

(* The body has been read to its end, or the connection to the hub is closed. *)
UploadEnds(u) == /\ u \in uploads
                 /\ uploads' = uploads \ {u}
                 /\ UNCHANGED <<pc, reqMsg, buffers, live, asked, answers, early>>

(* A body in httpBuffer is read with httpBuffer's own offset: what else is    *)
(* put there in the meantime is taken away as well.                           *)
Steal(u) == /\ u \in uploads /\ u.buffer = "http"
            /\ httpBuffer.what # "nothing" /\ httpBuffer # Is("request", u.of)
            /\ httpBuffer' = Cut(httpBuffer)
            /\ UNCHANGED <<pc, reqMsg, wsBuffer, live, uploads, asked, answers, early>>

TooEarly == early' = (early \/ \E u \in uploads : u.of = N)

(* http_req.go, 80: Do. *)
Respond == /\ pc = "do"
           /\ \/ pc' = "fill" /\ UNCHANGED wsBuffer
              \/ WriteError
           /\ TooEarly
           /\ UNCHANGED <<reqMsg, httpBuffer, live, uploads, asked, answers>>

------------------------------------------------------------------------------
(* Wrong variant: httpBuffer is not reset, and begins with the request. *)
FillUnreset ==
  /\ pc = "fill"
  /\ httpBuffer' = IF httpBuffer = Nothing THEN Is("response", N) ELSE Cut(Is("response", N))
  /\ wsBuffer' = Nothing /\ pc' = "compose"
  /\ UNCHANGED <<reqMsg, live, uploads, asked, answers, early>>

(* ws_res.go, 37-47: both buffers are reset; the response may break off.      *)
Fill == /\ pc = "fill"
        /\ \/ /\ httpBuffer' = Is("response", N)
              /\ wsBuffer' = Nothing /\ pc' = "compose"
           \/ /\ httpBuffer' = Cut(Is("response", N))
              /\ WriteError
        /\ UNCHANGED <<reqMsg, live, uploads, asked, answers, early>>

(* ws_res.go, 50-105: whether compressed or not, wsBuffer has what httpBuffer *)
(* has now.                                                                   *)
Compose == /\ pc = "compose"
           /\ wsBuffer' = httpBuffer
           /\ pc' = "send"
           /\ UNCHANGED <<reqMsg, httpBuffer, live, uploads, asked, answers, early>>

(* Wrong variant: an answer that could not be had is skipped. *)
SendUnlessError ==
  /\ pc = "send"
  /\ answers' = IF wsBuffer.what = "error" THEN answers
                ELSE Append(answers, [id |-> reqMsg.id, content |-> wsBuffer])
  /\ pc' = "read"
  /\ UNCHANGED <<reqMsg, buffers, live, uploads, asked, early>>

(* Lines 102, 113, 124 and 132 of wsdriver.go. *)
Send == /\ pc = "send"
        /\ answers' = Append(answers, [id |-> reqMsg.id, content |-> wsBuffer])
        /\ pc' = "read"
        /\ UNCHANGED <<reqMsg, buffers, live, uploads, asked, early>>

------------------------------------------------------------------------------
(* What follows the acceptance of a command. *)
Serve == CheckAlive \/ MakeRequest \/ Respond \/ Fill \/ Compose \/ Send

WsDriverNext == \/ \E f \in Frame, id \in Id : Receive(f, id)
                \/ Serve \/ Close \/ SessionEnds
                \/ \E u \in uploads : UploadEnds(u) \/ Steal(u)

WsDriverSpec == WsDriverInit /\ [][WsDriverNext]_wvars

(* The hub answers or the three minutes of httpClient pass, and the client    *)
(* takes what is written.  It need not send anything.                         *)
WsDriverFairSpec == WsDriverSpec /\ WF_wvars(Serve)

------------------------------------------------------------------------------
WsDriverTypeOK ==
  /\ pc \in {"read", "alive", "make", "do", "fill", "compose", "send", "closed"}
  /\ reqMsg \in [id : Id, compression : 0..2]
  /\ wsBuffer \in Content /\ httpBuffer \in Content
  /\ live \in BOOLEAN
  /\ uploads \subseteq [of : 1..MaxCommands, buffer : {"ws", "http"}]
  /\ asked \in Seq(Id) /\ Len(asked) <= MaxCommands
  /\ answers \in Seq([id : Id, content : Content])
  /\ early \in BOOLEAN

(* wsdriver/README.md:580: a response echoes the RequestID of its command;    *)
(* the connection keeps the promise of module Answers.                        *)
Promised == INSTANCE Answers WITH
  answered <- [i \in DOMAIN answers |-> answers[i].id],
  open <- pc # "closed"
Promise == Promised!Spec

(* The i-th answer is made of the i-th command's response or error, of no     *)
(* other and of no request, though all of them share the buffers.  It is      *)
(* complete, unless the hub has answered before it had read a body.           *)
AnswersAreOwn == \A i \in DOMAIN answers :
  /\ answers[i].content.what \in {"response", "error"}
  /\ answers[i].content.of = i
  /\ answers[i].content.intact \/ early

(* wsdriver/README.md:533: the body of a command is what the hub receives.    *)
(* The buffer a body is in is not touched until net/http has read it, under   *)
(* the same condition.                                                        *)
RequestsIntact ==
  [][\A u \in uploads \ uploads' :
       \/ early
       \/ Is("request", u.of) = IF u.buffer = "ws" THEN wsBuffer ELSE httpBuffer]_wvars

------------------------------------------------------------------------------
(* wsdriver/README.md:581: the body of an answer is that of the HTTP response.*)
AnswersIntact == \A i \in DOMAIN answers : answers[i].content.intact
================================================================================
