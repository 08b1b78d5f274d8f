------------------------------ MODULE Catalogue ------------------------------
(* The browsers and the log options that sessions start with: the two files   *)
(* that an administrator edits, the goroutine that loads them again on every  *)
(* SIGHUP (main.go, config/config.go), and the requests that look a browser   *)
(* up and take the log options a moment later (service/service.go).           *)
(*                                                                            *)
(* The options of a load are one map that its sessions share, and the test's  *)
(* name is written into it as their tag (service/docker.go); the labels, which *)
(* are treated in the same way, are left out.  If there is no such map nobody *)
(* writes to it, as if a tag were configured.                                 *)
EXTENDS Naturals, Sequences

CONSTANTS Request,
          Tested,           \* those with caps.TestName
          MaxEdits          \* bound: how often the files are edited

ASSUME TestedAssumption == Tested \subseteq Request
ASSUME EditsAssumption  == MaxEdits \in Nat
ASSUME NameAssumption   == Request \cap {"none", "configured"} = {}

VARIABLES
  disk,     \* the files: the edit they are of, whether they parse, a tag
  signal,   \* history: what became of a SIGHUP that was sent since the last edit
  stage,    \* the goroutine: waiting, browsers or logs (to be read) or swap
  read,     \* what it has read
  loads,    \* the contents of every load: the edits and the tag of the map
  conf,     \* the loads that config.Browsers and ContainerLogs are of
  phase,    \* where each request is
  found,    \* the load of its browser
  taken,    \* the load of its log options
  tag,      \* the tag of its container
  changed,  \* history: the configuration has changed since the browser was found
  users,    \* history: the requests that have taken the options of each load
  dead      \* the program has died of concurrent map accesses

request == <<phase, found, taken, tag, changed>>
vars == <<disk, signal, stage, read, loads, conf, request, users, dead>>

Edit    == 0..MaxEdits
File    == [edit : Edit, ok : BOOLEAN, tag : {"none", "configured"}]
Empty   == [edit |-> 0, tag |-> "none"]
Phase   == {"idle", "found", "taken", "writing", "creating", "started"}
Tag     == {"none", "configured"} \cup Request

Latest == IF disk.browsers.edit > disk.logs.edit THEN disk.browsers.edit ELSE disk.logs.edit

Load(b, l) == [browsers |-> b.edit, logs |-> l.edit, tag |-> l.tag]

(* The program starts only if both files load. *)
Init == /\ disk \in [browsers : File, logs : File]
        /\ \A f \in {"browsers", "logs"} : disk[f].ok /\ disk[f].edit = 0
        /\ disk.browsers.tag = "none"
        /\ signal = "none" /\ stage = "waiting"
        /\ read = [browsers |-> Empty, logs |-> Empty]
        /\ loads = <<Load(disk.browsers, disk.logs)>>
        /\ conf = [browsers |-> 1, logs |-> 1]
        /\ phase = [r \in Request |-> "idle"]
        /\ found = [r \in Request |-> 1] /\ taken = [r \in Request |-> 1]
        /\ tag = [r \in Request |-> "none"]
        /\ changed = [r \in Request |-> FALSE]
        /\ users = <<{}>>
        /\ dead = FALSE

------------------------------------------------------------------------------
(* An edit leaves a file that parses or not. *)
EditFile(f) ==
  /\ Latest < MaxEdits
  /\ \E ok \in BOOLEAN, t \in {"none", "configured"} :
       /\ f = "browsers" => t = "none"
       /\ disk' = [disk EXCEPT ![f] = [edit |-> Latest + 1, ok |-> ok, tag |-> t]]
  /\ signal' = "none"
  /\ UNCHANGED <<stage, read, loads, conf, request, users, dead>>

Current == /\ loads[conf.browsers].browsers = disk.browsers.edit
           /\ loads[conf.logs].logs = disk.logs.edit

Parse   == disk.browsers.ok /\ disk.logs.ok

(* A signal that would load what is loaded is left out. *)
TakeSignal == /\ ~dead /\ stage = "waiting" /\ ~Current
              /\ signal' = "taken" /\ stage' = "browsers"
              /\ UNCHANGED <<disk, read, loads, conf, request, users, dead>>

(* A signal that comes while Load runs finds nobody at the channel, which has *)
(* no buffer, and is dropped (signal.Notify).                                 *)
DropSignal == /\ ~dead /\ stage # "waiting"
              /\ signal = "none" /\ signal' = "dropped"
              /\ UNCHANGED <<disk, stage, read, loads, conf, request, users, dead>>

Reads(f) == /\ ~dead /\ stage = f
            /\ read' = [read EXCEPT ![f] = [edit |-> disk[f].edit, tag |-> disk[f].tag]]
            /\ UNCHANGED <<disk, signal, loads, conf, request, users, dead>>

Abandons(f, s) == /\ ~dead /\ stage = f /\ ~disk[f].ok
                  /\ stage' = s
                  /\ read' = [browsers |-> Empty, logs |-> Empty]
                  /\ UNCHANGED <<disk, signal, loads, conf, request, users, dead>>

ReadBrowsers == Reads("browsers") /\ disk.browsers.ok /\ stage' = "logs"
ReadLogs     == Reads("logs") /\ disk.logs.ok /\ stage' = "swap"

(* Wrong variant: the goroutine ends. *)
FailForGood == \E f \in {"browsers", "logs"} : Abandons(f, "ended")

(* A file that does not parse leaves the configuration as it is. *)
Fail == \E f \in {"browsers", "logs"} : Abandons(f, "waiting")

(* The requests that are between their two looks at the configuration. *)
Change == changed' = [r \in Request |-> IF phase[r] = "found" THEN TRUE ELSE changed[r]]

Swaps(load, c, s) == /\ ~dead /\ stage = "swap"
                     /\ stage' = s
                     /\ loads' = load /\ conf' = c
                     /\ UNCHANGED <<disk, signal, phase, found, taken, tag, dead>>

New == Len(loads) + 1
Loaded == Load(read.browsers, read.logs)

(* Wrong variant: each of the two is replaced under the lock. *)
SwapOneByOne ==
  IF conf.browsers = conf.logs
    THEN /\ Swaps(Append(loads, Loaded), [conf EXCEPT !.browsers = New], "swap")
         /\ Change /\ users' = Append(users, {}) /\ UNCHANGED read
    ELSE /\ Swaps(loads, [conf EXCEPT !.logs = conf.browsers], "waiting")
         /\ read' = [browsers |-> Empty, logs |-> Empty]
         /\ Change /\ UNCHANGED users

(* Wrong variant: the file is decoded into the map that is there. *)
SwapInto ==
  /\ LET old == loads[conf.logs].tag
     IN Swaps(Append(loads, IF Loaded.tag = "none" THEN [Loaded EXCEPT !.tag = old] ELSE Loaded),
              [browsers |-> New, logs |-> New], "waiting")
  /\ read' = [browsers |-> Empty, logs |-> Empty]
  /\ Change /\ users' = Append(users, {})

(* Lines 115-118: both at once, with the time of the reload. *)
Swap == /\ Swaps(Append(loads, Loaded), [browsers |-> New, logs |-> New], "waiting")
        /\ read' = [browsers |-> Empty, logs |-> Empty]
        /\ Change /\ users' = Append(users, {})

------------------------------------------------------------------------------
Goes(r, from, to) == /\ ~dead /\ phase[r] = from
                     /\ phase' = [phase EXCEPT ![r] = to]
                     /\ UNCHANGED <<disk, signal, stage, read, conf, dead>>

(* Under the lock.  Which of the versions with the prefix it is does not      *)
(* matter here, and a request that finds none is over.                        *)
Find(r) == /\ Goes(r, "idle", "found")
           /\ found' = [found EXCEPT ![r] = conf.browsers]
           /\ UNCHANGED <<loads, taken, tag, changed, users>>

(* Line 92: without the lock. *)
TakeOptions(r) == /\ Goes(r, "found", "taken")
                  /\ taken' = [taken EXCEPT ![r] = conf.logs]
                  /\ users' = [users EXCEPT ![conf.logs] = @ \cup {r}]
                  /\ UNCHANGED <<loads, found, tag, changed>>

(* Wrong variant: whether there is a tag is not looked at. *)
LookAtNameOnly(r) ==
  /\ Goes(r, "taken", IF r \in Tested THEN "writing" ELSE "creating")
  /\ UNCHANGED <<loads, found, taken, tag, changed, users>>

(* Lines 334-335: is there a tag? *)
LookForTag(r) ==
  /\ Goes(r, "taken", IF r \in Tested /\ loads[taken[r]].tag = "none" THEN "writing" ELSE "creating")
  /\ UNCHANGED <<loads, found, taken, tag, changed, users>>

(* Line 336. *)
WriteTag(r) == /\ Goes(r, "writing", "creating")
               /\ loads' = [loads EXCEPT ![taken[r]].tag = r]
               /\ UNCHANGED <<found, taken, tag, changed, users>>

(* ContainerCreate sends the map as it is by then. *)
CreateContainer(r) == /\ Goes(r, "creating", "started")
                      /\ tag' = [tag EXCEPT ![r] = loads[taken[r]].tag]
                      /\ UNCHANGED <<loads, found, taken, changed, users>>

(* The session is over, and the client asks for another. *)
Again(r) == /\ Goes(r, "started", "idle")
            /\ found' = [found EXCEPT ![r] = 1] /\ taken' = [taken EXCEPT ![r] = 1]
            /\ tag' = [tag EXCEPT ![r] = "none"]
            /\ changed' = [changed EXCEPT ![r] = FALSE]
            /\ UNCHANGED <<loads, users>>

(* A map that is written while another goroutine reads or writes it: the      *)
(* runtime may notice, and ends the program.                                  *)
Collide(r, s) == /\ ~dead /\ r # s /\ taken[r] = taken[s]
                 /\ phase[r] = "writing" /\ phase[s] \in {"taken", "writing", "creating"}
                 /\ dead' = TRUE
                 /\ UNCHANGED <<disk, signal, stage, read, loads, conf, request, users>>

Reload == ReadBrowsers \/ ReadLogs \/ Fail \/ Swap

Start(r) == \/ Find(r) \/ TakeOptions(r) \/ LookForTag(r) \/ WriteTag(r)
            \/ CreateContainer(r) \/ Again(r)

Next == \/ \E f \in {"browsers", "logs"} : EditFile(f)
        \/ TakeSignal \/ DropSignal \/ Reload
        \/ \E r \in Request : Start(r)
        \/ \E r, s \in Request : Collide(r, s)

Spec == Init /\ [][Next]_vars

(* The goroutine goes on.  Nobody has to send a signal. *)
FairSpec == Spec /\ WF_vars(Reload)

------------------------------------------------------------------------------
CatalogueTypeOK ==
  /\ disk \in [browsers : File, logs : File]
  /\ signal \in {"none", "taken", "dropped"}
  /\ stage \in {"waiting", "browsers", "logs", "swap"}
  /\ read \in [browsers : [edit : Edit, tag : {"none", "configured"}],
               logs : [edit : Edit, tag : {"none", "configured"}]]
  /\ loads \in Seq([browsers : Edit, logs : Edit, tag : Tag])
  /\ conf \in [browsers : 1..Len(loads), logs : 1..Len(loads)]
  /\ phase \in [Request -> Phase]
  /\ found \in [Request -> 1..Len(loads)] /\ taken \in [Request -> 1..Len(loads)]
  /\ tag \in [Request -> Tag]
  /\ changed \in [Request -> BOOLEAN]
  /\ users \in Seq(SUBSET Request) /\ Len(users) = Len(loads)
  /\ dead \in BOOLEAN

(* A session has the log options of the load that its browser is of, or of a  *)
(* later one, and only if the configuration has changed in between.           *)
LaterOptions == \A r \in Request : phase[r] \notin {"idle", "found"} =>
  /\ found[r] <= taken[r]
  /\ found[r] # taken[r] => changed[r]

(* What a test has written into the options is gone with the next load: a     *)
(* container's tag is the configured one or the name of a test, perhaps not   *)
(* its own, that has taken the same options.  That of a test is never empty.  *)
OwnTags ==
  /\ \A n \in 1..Len(loads) : loads[n].tag \in {"none", "configured"} \cup users[n]
  /\ \A r \in Request : phase[r] = "started" =>
       /\ tag[r] \in {"none", "configured"} \cup users[taken[r]]
       /\ r \in Tested => tag[r] # "none"

(* The program dies only of tests that share options without a configured     *)
(* tag.  (The labels have the same treatment and need to be configured, too.) *)
DiesOnlyUnconfigured ==
  [][\A r, s \in Request : Collide(r, s) => r \in Tested /\ loads[taken[r]].tag # "configured"]_vars

(* Whatever failed before, a signal that is taken loads the files, if they    *)
(* parse and are left alone meanwhile, and the goroutine comes back for the   *)
(* next one.                                                                  *)
ReloadTakesEffect ==
  /\ signal = "taken" ~> Current \/ signal # "taken" \/ ~Parse \/ dead
  /\ stage # "waiting" ~> stage = "waiting" \/ dead
===============================================================================
