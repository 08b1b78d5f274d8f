------------------------------- MODULE Services -------------------------------
(* One browser from StartWithCancel to Cancel (service/docker.go, driver.go   *)
(* and service.go): the containers of a browser and of its video recorder, or *)
(* a driver process; the calls to the container engine, each of which may     *)
(* fail; the goroutine of wait() that asks whether the browser is up.  create *)
(* and the DELETEs of module Hub see this as browser: none, up and stopped.   *)
EXTENDS Naturals, Sequences

CONSTANT Networks       \* how many networks a session asks for in addition

ASSUME NetworksAssumption == Networks \in Nat

VARIABLES
  kind,     \* the Starter that Find chose: docker or driver
  want,     \* capabilities and flags that matter
  pc,       \* where StartWithCancel or Cancel is
  left,     \* networks to connect
  thing,    \* the containers and the process
  todo,     \* the rest of an error path or of Cancel
  logged,   \* the browser's log: none, saved or failed
  prober,   \* the goroutine of wait()
  done,     \* the channel done is closed
  spared    \* history: those that the engine refused to end

fixed == <<kind, want>>
probing == <<prober, done>>
svars == <<fixed, pc, left, thing, todo, logged, probing, spared>>

Thing  == {"browser", "video", "process"}
Wish   == [video : BOOLEAN, log : BOOLEAN, graceful : BOOLEAN, published : BOOLEAN]

(* failing      an error path is at work          failed     it has returned  *)
(* unconnected  returned at line 182              panicked   in getHostPort   *)
Place  == {"begin", "create", "start", "connect", "inspect", "createVideo", "startVideo",
           "exec", "waiting", "up", "failing", "failed", "unconnected", "panicked",
           "cancelling", "cancelled"}

Alive(c) == thing[c] \in {"created", "running"}
Main == IF kind = "docker" THEN "browser" ELSE "process"

ServicesInit ==
  /\ kind \in {"docker", "driver"}
  /\ want \in Wish
  /\ kind = "driver" => want = [w \in DOMAIN want |-> FALSE]
  /\ pc = "begin" /\ left = Networks
  /\ thing = [c \in Thing |-> "none"]
  /\ todo = <<>> /\ logged = "none"
  /\ prober = "none" /\ done = FALSE
  /\ spared = {}

------------------------------------------------------------------------------
(* What has to be done to end something, call by call. *)
RemoveContainer(c) ==
  IF want.graceful THEN << <<"stop", c>>, <<"remove", c>> >> ELSE << <<"remove", c>> >>

StopVideoContainer == IF want.video THEN << <<"kill", "video">> >> ELSE <<>>

StopProcess == << <<"signal", "process">>, <<"reap", "process">> >>

Returns(place) == pc' = place /\ UNCHANGED todo
ReturnsAfter(steps) == pc' = "failing" /\ todo' = steps
Becomes(c, state) == thing' = [thing EXCEPT ![c] = state]

Wait == /\ pc' = "waiting" /\ prober' = "checking"
        /\ UNCHANGED <<todo, done>>

(* Lines 96-146 of docker.go and 28-46 of driver.go. *)
Configure == /\ pc = "begin"
             /\ Returns("failed") \/ Returns(IF kind = "docker" THEN "create" ELSE "exec")
             /\ UNCHANGED <<fixed, left, thing, logged, probing, spared>>

CreateBrowser == /\ pc = "create"
                 /\ \/ Becomes("browser", "created") /\ Returns("start")
                    \/ Returns("failed") /\ UNCHANGED thing
                 /\ UNCHANGED <<fixed, left, logged, probing, spared>>

(* Wrong variant: an error of ContainerStart returns at once. *)
StartBrowserOrLeaveIt ==
  /\ pc = "start"
  /\ \/ Becomes("browser", "running") /\ Returns("connect")
     \/ \E state \in {"created", "running", "gone"} :
          Becomes("browser", state) /\ Returns("failed")
  /\ UNCHANGED <<fixed, left, logged, probing, spared>>

(* A start that fails may leave the container, start it all the same or have  *)
(* it removed by the engine, which AutoRemove asks for.                       *)
StartBrowser ==
  /\ pc = "start"
  /\ \/ Becomes("browser", "running") /\ Returns("connect")
     \/ \E state \in {"created", "running", "gone"} :
          Becomes("browser", state) /\ ReturnsAfter(RemoveContainer("browser"))
  /\ UNCHANGED <<fixed, left, logged, probing, spared>>

(* Lines 178-185: an error returns at once. *)
Connect == /\ pc = "connect"
           /\ \/ left = 0 /\ Returns("inspect") /\ UNCHANGED left
              \/ left > 0 /\ Alive("browser") /\ left' = left - 1 /\ Returns("connect")
              \/ left > 0 /\ Returns("unconnected") /\ UNCHANGED left
           /\ UNCHANGED <<fixed, thing, logged, probing, spared>>

(* Lines 187-206: getHostPort panics if a port has no binding on the host;    *)
(* it has none if the container has ended.                                    *)
Inspect == /\ pc = "inspect"
           /\ \/ /\ Alive("browser")
                 /\ IF want.video THEN Returns("createVideo") /\ UNCHANGED probing ELSE Wait
              \/ want.published /\ Returns("panicked") /\ UNCHANGED probing
              \/ ReturnsAfter(RemoveContainer("browser")) /\ UNCHANGED probing
           /\ UNCHANGED <<fixed, left, thing, logged, spared>>

(* Lines 543-553. *)
CreateVideo == /\ pc = "createVideo"
               /\ \/ Becomes("video", "created") /\ Returns("startVideo")
                  \/ ReturnsAfter(RemoveContainer("browser")) /\ UNCHANGED thing
               /\ UNCHANGED <<fixed, left, logged, probing, spared>>

(* Lines 555-564. *)
StartVideo ==
  /\ pc = "startVideo"
  /\ \/ Becomes("video", "running") /\ Wait
     \/ /\ \E state \in {"created", "running", "gone"} : Becomes("video", state)
        /\ ReturnsAfter(RemoveContainer("browser") \o RemoveContainer("video"))
        /\ UNCHANGED probing
  /\ UNCHANGED <<fixed, left, logged, spared>>

(* driver.go, 57-72. *)
Exec == /\ pc = "exec"
        /\ \/ Becomes("process", "running") /\ Wait
           \/ Returns("failed") /\ UNCHANGED <<thing, probing>>
        /\ UNCHANGED <<fixed, left, logged, spared>>

------------------------------------------------------------------------------
(* wait(), service.go: whoever comes first, the goroutine with an answer or   *)
(* the timer, decides.                                                        *)
HowToEnd == IF kind = "docker" THEN StopVideoContainer \o RemoveContainer("browser")
                               ELSE StopProcess

(* Wrong variant: done is not closed. *)
TimesOutSilently == /\ pc = "waiting"
                    /\ ReturnsAfter(HowToEnd)
                    /\ UNCHANGED <<fixed, left, thing, logged, probing, spared>>

TimesOut == /\ pc = "waiting"
            /\ done' = TRUE
            /\ ReturnsAfter(HowToEnd)
            /\ UNCHANGED <<fixed, left, thing, logged, prober, spared>>

IsUp == /\ pc = "waiting" /\ prober = "sending"
        /\ prober' = "ended"
        /\ Returns("up")
        /\ UNCHANGED <<fixed, left, thing, logged, done, spared>>

CheckDone == /\ prober = "checking"
             /\ prober' = IF done THEN "ended" ELSE "asking"
             /\ UNCHANGED <<fixed, pc, left, thing, todo, logged, done, spared>>

(* Any server may answer at the address, this one while it is running. *)
Answers == /\ prober = "asking"
           /\ prober' = "sending"
           /\ UNCHANGED <<fixed, pc, left, thing, todo, logged, done, spared>>

(* With the pause of line 117. *)
AskAgain == /\ prober = "asking"
            /\ prober' = "checking"
            /\ UNCHANGED <<fixed, pc, left, thing, todo, logged, done, spared>>

------------------------------------------------------------------------------
(* Wrong variant: the browser goes before its recorder and its log. *)
CancelInHaste == /\ pc = "up"
                 /\ pc' = "cancelling"
                 /\ todo' = IF kind = "docker"
                              THEN RemoveContainer("browser") \o StopVideoContainer
                              ELSE StopProcess
                 /\ UNCHANGED <<fixed, left, thing, logged, probing, spared>>

(* docker.go, 246-273, and driver.go, 84. *)
Cancel == /\ pc = "up"
          /\ pc' = "cancelling"
          /\ todo' = IF kind = "docker"
                       THEN StopVideoContainer
                            \o (IF want.log THEN << <<"logs", "browser">> >> ELSE <<>>)
                            \o RemoveContainer("browser")
                       ELSE StopProcess
          /\ UNCHANGED <<fixed, left, thing, logged, probing, spared>>

(* The next call, and what is left to do after it. *)
Calls(op, c) == todo # <<>> /\ Head(todo) = <<op, c>>
Then(steps) == /\ todo' = steps \o Tail(todo)
               /\ pc' = IF todo' # <<>> THEN pc
                        ELSE IF pc = "failing" THEN "failed" ELSE "cancelled"
Refused(c) == spared' = IF Alive(c) THEN spared \cup {c} ELSE spared

(* Lines 577-581: an error is the end of it. *)
Kill == /\ Calls("kill", "video")
        /\ \/ Alive("video") /\ Then(<< <<"await", "video">> >>) /\ UNCHANGED spared
           \/ Then(<<>>) /\ Refused("video")
        /\ UNCHANGED <<fixed, left, thing, logged, probing>>

(* Wrong variant: without a timeout. *)
AwaitForEver == /\ Calls("await", "video") /\ ~Alive("video")
                /\ Then(RemoveContainer("video"))
                /\ UNCHANGED <<fixed, left, thing, logged, probing, spared>>

(* Lines 582-592: an error of ContainerWait counts as `does not exist'.       *)
Await == /\ Calls("await", "video")
         /\ \/ Then(RemoveContainer("video")) /\ UNCHANGED spared
            \/ Then(<<>>) /\ Refused("video")
         /\ UNCHANGED <<fixed, left, thing, logged, probing>>

(* Lines 251-271. *)
CopyLogs == /\ Calls("logs", "browser")
            /\ \/ logged' = "failed"
               \/ Alive("browser") /\ logged' = "saved"
            /\ Then(<<>>)
            /\ UNCHANGED <<fixed, left, thing, probing, spared>>

(* Lines 599-604: whatever comes of it, ContainerRemove follows. *)
Stop(c) == /\ Calls("stop", c)
           /\ Becomes(c, "gone") \/ UNCHANGED thing
           /\ Then(<<>>)
           /\ UNCHANGED <<fixed, left, logged, probing, spared>>

(* Lines 606-611. *)
Remove(c) == /\ Calls("remove", c)
             /\ \/ Becomes(c, "gone") /\ UNCHANGED spared
                \/ UNCHANGED thing /\ Refused(c)
             /\ Then(<<>>)
             /\ UNCHANGED <<fixed, left, logged, probing>>

(* stopProc, driver_unix.go: Wait has no timeout. *)
Signal == /\ Calls("signal", "process")
          /\ UNCHANGED spared \/ Refused("process")
          /\ Then(<<>>)
          /\ UNCHANGED <<fixed, left, thing, logged, probing>>

Reap == /\ Calls("reap", "process")
        /\ thing["process"] = "exited"
        /\ Becomes("process", "gone")
        /\ Then(<<>>)
        /\ UNCHANGED <<fixed, left, logged, probing, spared>>

(* A browser, a recorder or a driver ends by itself or when told to; the      *)
(* engine removes a container that has ended (AutoRemove).                    *)
Exit(c) == /\ thing[c] = "running"
           /\ Becomes(c, IF c = "process" THEN "exited" ELSE "gone")
           /\ UNCHANGED <<fixed, pc, left, todo, logged, probing, spared>>

------------------------------------------------------------------------------
StartWithCancel == \/ Configure \/ CreateBrowser \/ StartBrowser \/ Connect \/ Inspect
                   \/ CreateVideo \/ StartVideo \/ Exec \/ TimesOut \/ IsUp

NextCall == \/ Kill \/ Await \/ CopyLogs \/ Signal \/ Reap
            \/ \E c \in {"browser", "video"} : Stop(c) \/ Remove(c)

Probe == CheckDone \/ Answers \/ AskAgain

ServicesNext == \/ StartWithCancel \/ Cancel \/ NextCall \/ Probe
                \/ \E c \in Thing : Exit(c)

ServicesSpec == ServicesInit /\ [][ServicesNext]_svars

(* The engine answers, time passes, a request to a server that is gone fails, *)
(* and a driver obeys an interrupt.  Nobody has to cancel a browser.          *)
ServicesFairness ==
  /\ WF_svars(StartWithCancel) /\ WF_svars(NextCall)
  /\ WF_svars(CheckDone)
  /\ WF_svars((prober = "asking" /\ thing[Main] \in {"exited", "gone"}) /\ AskAgain)
  /\ WF_svars((Calls("reap", "process") /\ "process" \notin spared) /\ Exit("process"))

ServicesFairSpec == ServicesSpec /\ ServicesFairness

------------------------------------------------------------------------------
(* The state is made of values of the right kinds. *)
ServicesTypeOK ==
  /\ kind \in {"docker", "driver"} /\ want \in Wish
  /\ pc \in Place /\ left \in 0..Networks
  /\ thing \in [Thing -> {"none", "created", "running", "exited", "gone"}]
  /\ todo \in Seq({"kill", "await", "logs", "stop", "remove", "signal", "reap"} \X Thing)
  /\ logged \in {"none", "saved", "failed"}
  /\ prober \in {"none", "checking", "asking", "sending", "ended"}
  /\ done \in BOOLEAN
  /\ spared \subseteq Thing

(* Whatever runs is still in somebody's hands: the start is going on or has   *)
(* succeeded, or a call that is still to come ends it.  A container is left   *)
(* only if the engine refused to end it, or by the two ways out that do not   *)
(* clean up.                                                                  *)
InHand(c) == \/ \E i \in DOMAIN todo : todo[i][2] = c /\ todo[i][1] # "logs"
             \/ /\ c = "video"
                /\ pc \in {"startVideo", "waiting", "up"}
             \/ /\ c \in {"browser", "process"}
                /\ pc \in {"start", "connect", "inspect", "createVideo", "startVideo",
                           "waiting", "up"}

NothingLost == \A c \in Thing :
  Alive(c) => InHand(c) \/ c \in spared \/ pc \in {"unconnected", "panicked"}

(* docs/video.adoc:11: the recorder is attached to the browser.  Cancel takes *)
(* a browser away only after its recorder, unless the engine refused, and     *)
(* after its log has been copied.                                             *)
BrowserLast ==
  [][(pc = "cancelling" /\ \E op \in {"stop", "remove"} : Calls(op, "browser")) =>
       /\ ~Alive("video") \/ "video" \in spared
       /\ want.log => logged # "none"]_svars

(* StartWithCancel and Cancel return, a driver that cannot be interrupted set *)
(* aside.                                                                     *)
CallsReturn ==
  /\ pc = "begin" ~> \/ pc \in {"up", "failed", "unconnected", "panicked"}
                     \/ "process" \in spared
  /\ pc = "cancelling" ~> pc = "cancelled" \/ "process" \in spared

(* The goroutine of wait() does not ask for ever when wait() has returned: it *)
(* ends or, if an answer came too late, is stuck at line 120.                 *)
ProberStops ==
  pc \in {"up", "failed", "cancelled"} ~>
    prober \in {"none", "ended", "sending"} \/ spared # {}

==============================================================================
