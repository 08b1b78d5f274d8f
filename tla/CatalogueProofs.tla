--------------------------- MODULE CatalogueProofs ----------------------------
(* What module Catalogue guarantees for any number of requests and edits: the *)
(* options of a session are never older than its browser, a tag never         *)
(* outlives the load whose sessions wrote it, and a configured one is safe.   *)
EXTENDS Catalogue, TLAPS, SequenceTheorems

Content == [browsers : Edit, logs : Edit, tag : Tag]

(* The browsers and the log options are always of the latest load. *)
OneLoad == conf.browsers = Len(loads) /\ conf.logs = Len(loads)

(* A browser that has been found is of the latest load or a reload is noted. *)
FoundLatest == \A r \in Request : phase[r] = "found" /\ ~changed[r] => found[r] = Len(loads)

(* Whoever has taken options is one of their users. *)
UsersNoted == \A r \in Request :
  phase[r] \in {"taken", "writing", "creating", "started"} => r \in users[taken[r]]

(* The options of a test that creates its container have a tag. *)
TestsTagged == \A r \in Tested : phase[r] = "creating" => loads[taken[r]].tag # "none"

MapTags == \A n \in 1..Len(loads) : loads[n].tag \in {"none", "configured"} \cup users[n]

StartedTags == \A r \in Request : phase[r] = "started" =>
  /\ tag[r] \in {"none", "configured"} \cup users[taken[r]]
  /\ r \in Tested => tag[r] # "none"

IInv == /\ CatalogueTypeOK /\ OneLoad /\ FoundLatest /\ LaterOptions
        /\ UsersNoted /\ TestsTagged /\ MapTags /\ StartedTags

------------------------------------------------------------------------------
(* A sequence of contents and one of sets, read as functions. *)
LEMMA LoadsAndUsers ==
  ASSUME CatalogueTypeOK
  PROVE  /\ Len(loads) \in Nat
         /\ DOMAIN loads = 1..Len(loads) /\ DOMAIN users = 1..Len(loads)
         /\ \A n \in 1..Len(loads) : loads[n] \in Content /\ users[n] \subseteq Request
         /\ 1..Len(loads) \subseteq Nat
<1>1. loads \in Seq(Content) /\ users \in Seq(SUBSET Request) /\ Len(users) = Len(loads)
  BY DEF CatalogueTypeOK, Content
<1> QED
  BY <1>1, LenProperties, ElementOfSeq

(* Steps that change neither what is loaded nor any request. *)
LEMMA QuietStep ==
  ASSUME IInv, CatalogueTypeOK', UNCHANGED <<loads, conf, request, users>>
  PROVE  IInv'
BY DEF IInv, OneLoad, FoundLatest, LaterOptions, UsersNoted, TestsTagged, MapTags,
       StartedTags, request

(* A new load makes room for itself and is nobody's yet. *)
LEMMA NewLoad ==
  ASSUME CatalogueTypeOK, NEW e \in Content,
         loads' = Append(loads, e), users' = Append(users, {})
  PROVE  /\ loads' \in Seq(Content) /\ users' \in Seq(SUBSET Request)
         /\ Len(loads') = Len(loads) + 1 /\ Len(users') = Len(loads')
         /\ \A n \in 1..Len(loads) : loads'[n] = loads[n] /\ users'[n] = users[n]
         /\ loads'[Len(loads) + 1] = e
<1>1. loads \in Seq(Content) /\ users \in Seq(SUBSET Request) /\ Len(users) = Len(loads)
  BY DEF CatalogueTypeOK, Content
<1>2. {} \in SUBSET Request
  OBVIOUS
<1>3. /\ Append(loads, e) \in Seq(Content) /\ Len(Append(loads, e)) = Len(loads) + 1
      /\ \A n \in 1..Len(loads) : Append(loads, e)[n] = loads[n]
      /\ Append(loads, e)[Len(loads) + 1] = e
  BY <1>1, AppendProperties
<1>4. /\ Append(users, {}) \in Seq(SUBSET Request) /\ Len(Append(users, {})) = Len(users) + 1
      /\ \A n \in 1..Len(users) : Append(users, {})[n] = users[n]
  BY <1>1, <1>2, AppendProperties
<1> QED
  BY <1>1, <1>3, <1>4

------------------------------------------------------------------------------
(* The program starts with one load, which nobody has used. *)
LEMMA InitIInv == Init => IInv
<1> SUFFICES ASSUME Init
             PROVE  IInv
  OBVIOUS
<1> DEFINE e == Load(disk.browsers, disk.logs)
<1>1. e \in Content /\ e.tag \in {"none", "configured"}
  BY EditsAssumption DEF Init, Load, Content, File, Tag, Edit
<1>2. loads = <<e>> /\ users = <<{}>>
  BY DEF Init
<1> HIDE DEF e
<1>3. /\ loads \in Seq(Content) /\ users \in Seq(SUBSET Request)
      /\ Len(loads) = 1 /\ Len(users) = 1 /\ loads[1] = e /\ users[1] = {}
  BY <1>1, <1>2
<1>4. /\ conf = [browsers |-> 1, logs |-> 1] /\ phase = [r \in Request |-> "idle"]
      /\ found = [r \in Request |-> 1] /\ taken = [r \in Request |-> 1]
      /\ tag = [r \in Request |-> "none"] /\ changed = [r \in Request |-> FALSE]
  BY DEF Init
<1>5. /\ read = [browsers |-> Empty, logs |-> Empty]
      /\ Empty \in [edit : Edit, tag : {"none", "configured"}]
  BY EditsAssumption DEF Init, Empty, Edit
<1>6. /\ disk \in [browsers : File, logs : File]
      /\ signal = "none" /\ stage = "waiting" /\ dead = FALSE
  BY DEF Init
<1>7. 1 \in 1..Len(loads)
  BY <1>3
<1>8. CatalogueTypeOK
  BY <1>3, <1>4, <1>5, <1>6, <1>7 DEF CatalogueTypeOK, Content, Tag, Phase
<1>9. OneLoad /\ FoundLatest /\ LaterOptions /\ UsersNoted /\ TestsTagged /\ StartedTags
  BY <1>3, <1>4, TestedAssumption DEF OneLoad, FoundLatest, LaterOptions, UsersNoted,
     TestsTagged, StartedTags
<1>10. MapTags
  BY <1>1, <1>3 DEF MapTags
<1> QED
  BY <1>8, <1>9, <1>10 DEF IInv

(* Editing a file, reading it and giving up on it change the state of the     *)
(* files and of the goroutine only, and so does the death of the program.     *)
LEMMA QuietTypes ==
  ASSUME CatalogueTypeOK,
         \/ \E f \in {"browsers", "logs"} : EditFile(f)
         \/ TakeSignal \/ DropSignal \/ ReadBrowsers \/ ReadLogs \/ Fail
         \/ \E r, s \in Request : Collide(r, s)
  PROVE  CatalogueTypeOK' /\ UNCHANGED <<loads, conf, request, users>>
<1>1. Latest \in Edit
  BY DEF CatalogueTypeOK, Latest, File
<1>2. CASE \E f \in {"browsers", "logs"} : EditFile(f)
  <2>1. PICK f \in {"browsers", "logs"} : EditFile(f)
    BY <1>2
  <2>2. Latest + 1 \in Edit
    BY <1>1, <2>1, EditsAssumption DEF EditFile, Edit
  <2>3. PICK new \in File : disk' = [disk EXCEPT ![f] = new]
    BY <2>1, <2>2 DEF EditFile, File
  <2>4. disk' \in [browsers : File, logs : File]
    BY <2>3 DEF CatalogueTypeOK
  <2>5. signal' = "none" /\ UNCHANGED <<stage, read, loads, conf, request, users, dead>>
    BY <2>1 DEF EditFile
  <2> QED
    BY <2>4, <2>5 DEF CatalogueTypeOK, request
<1>3. CASE TakeSignal \/ DropSignal
  BY <1>3 DEF TakeSignal, DropSignal, CatalogueTypeOK, request
<1>4. CASE ReadBrowsers
  BY <1>4 DEF ReadBrowsers, Reads, CatalogueTypeOK, File, request
<1>5. CASE ReadLogs
  BY <1>5 DEF ReadLogs, Reads, CatalogueTypeOK, File, request
<1>6. CASE Fail
  <2>1. Empty \in [edit : Edit, tag : {"none", "configured"}]
    BY EditsAssumption DEF Empty, Edit
  <2> QED
    BY <1>6, <2>1 DEF Fail, Abandons, CatalogueTypeOK, request
<1>7. CASE \E r, s \in Request : Collide(r, s)
  BY <1>7 DEF Collide, CatalogueTypeOK, request
<1> QED
  BY <1>2, <1>3, <1>4, <1>5, <1>6, <1>7

(* A reload: requests between their two looks take note, the others keep what *)
(* they have.                                                                 *)
LEMMA SwapStep ==
  ASSUME IInv, Swap
  PROVE  IInv'
<1> DEFINE n == Len(loads)
<1>0. CatalogueTypeOK
  BY DEF IInv
<1>1. Loaded \in Content /\ Loaded.tag \in {"none", "configured"}
  BY <1>0 DEF CatalogueTypeOK, Loaded, Load, Content, Tag
<1>2. loads' = Append(loads, Loaded) /\ users' = Append(users, {})
  BY DEF Swap, Swaps
<1>3. /\ loads' \in Seq(Content) /\ users' \in Seq(SUBSET Request)
      /\ Len(loads') = n + 1 /\ Len(users') = n + 1
      /\ \A i \in 1..n : loads'[i] = loads[i] /\ users'[i] = users[i]
      /\ loads'[n + 1] = Loaded
  BY <1>0, <1>1, <1>2, NewLoad, Zenon
<1>4. n \in Nat /\ users'[n + 1] \subseteq Request /\ conf' = [browsers |-> n + 1, logs |-> n + 1]
  <2>1. n \in Nat /\ n + 1 \in 1..n + 1
    BY <1>0, LoadsAndUsers
  <2>2. users'[n + 1] \in SUBSET Request
    BY <1>3, <2>1, ElementOfSeq
  <2> QED
    BY <2>1, <2>2 DEF Swap, Swaps, New
<1>5. /\ found \in [Request -> 1..n] /\ taken \in [Request -> 1..n]
      /\ UNCHANGED <<disk, signal, phase, found, taken, tag, dead>>
      /\ changed' = [r \in Request |-> IF phase[r] = "found" THEN TRUE ELSE changed[r]]
      /\ changed \in [Request -> BOOLEAN]
      /\ stage' = "waiting" /\ read' = [browsers |-> Empty, logs |-> Empty]
  BY <1>0 DEF CatalogueTypeOK, Swap, Swaps, Change
<1> HIDE DEF n
<1>6. CatalogueTypeOK'
  <2>1. Empty \in [edit : Edit, tag : {"none", "configured"}]
    BY EditsAssumption DEF Empty, Edit
  <2>2. 1..n \subseteq 1..n + 1 /\ n + 1 \in 1..n + 1
    BY <1>4
  <2>3. changed' \in [Request -> BOOLEAN]
    BY <1>5
  <2> QED
    BY <1>0, <1>3, <1>4, <1>5, <2>1, <2>2, <2>3 DEF CatalogueTypeOK, Content
<1>7. OneLoad'
  BY <1>3, <1>4 DEF OneLoad
<1>8. FoundLatest' /\ LaterOptions'
  BY <1>5 DEF FoundLatest, LaterOptions, IInv
<1>9. UsersNoted' /\ TestsTagged' /\ StartedTags'
  BY <1>3, <1>5, TestedAssumption DEF UsersNoted, TestsTagged, StartedTags, IInv
<1>10. MapTags'
  <2>1. ASSUME NEW i \in 1..n + 1
        PROVE  loads'[i].tag \in {"none", "configured"} \cup users'[i]
    <3>1. CASE i \in 1..n
      BY <1>3, <3>1 DEF MapTags, IInv, n
    <3>2. CASE i = n + 1
      BY <1>1, <1>3, <3>2
    <3> QED
      BY <1>4, <2>1, <3>1, <3>2
  <2> QED
    BY <1>3, <2>1 DEF MapTags
<1> QED
  BY <1>6, <1>7, <1>8, <1>9, <1>10 DEF IInv

------------------------------------------------------------------------------
(* The browser that is found is of the latest load. *)
LEMMA FindStep ==
  ASSUME IInv, NEW r \in Request, Find(r)
  PROVE  IInv'
<1>0. /\ CatalogueTypeOK /\ Len(loads) \in Nat /\ conf.browsers \in 1..Len(loads)
      /\ conf.browsers = Len(loads)
  BY LoadsAndUsers DEF IInv, OneLoad, CatalogueTypeOK
<1>1. /\ UNCHANGED <<disk, signal, stage, read, conf, dead, loads, taken, tag, changed, users>>
      /\ phase' = [phase EXCEPT ![r] = "found"]
      /\ found' = [found EXCEPT ![r] = conf.browsers]
  BY DEF Find, Goes
<1>2. phase' \in [Request -> Phase] /\ found' \in [Request -> 1..Len(loads)]
  BY <1>0, <1>1 DEF CatalogueTypeOK, Phase
<1>3. CatalogueTypeOK'
  BY <1>0, <1>1, <1>2 DEF CatalogueTypeOK
<1>4. OneLoad' /\ FoundLatest' /\ LaterOptions'
  BY <1>0, <1>1 DEF CatalogueTypeOK, IInv, OneLoad, FoundLatest, LaterOptions
<1>5. UsersNoted' /\ TestsTagged' /\ MapTags' /\ StartedTags'
  BY <1>0, <1>1, TestedAssumption DEF CatalogueTypeOK, IInv, UsersNoted, TestsTagged, MapTags, StartedTags
<1> QED
  BY <1>3, <1>4, <1>5 DEF IInv

(* The options that are taken are of the latest load, and r is now a user. *)
LEMMA TakeOptionsStep ==
  ASSUME IInv, NEW r \in Request, TakeOptions(r)
  PROVE  IInv'
<1> DEFINE n == Len(loads)
<1>0. /\ CatalogueTypeOK /\ n \in Nat /\ n \in 1..n /\ conf.logs = n
      /\ \A i \in 1..n : users[i] \subseteq Request
      /\ users \in Seq(SUBSET Request) /\ Len(users) = n
  BY LoadsAndUsers DEF IInv, OneLoad, CatalogueTypeOK
<1>1. /\ UNCHANGED <<disk, signal, stage, read, conf, dead, loads, found, tag, changed>>
      /\ phase[r] = "found" /\ phase' = [phase EXCEPT ![r] = "taken"]
      /\ taken' = [taken EXCEPT ![r] = n]
      /\ users' = [users EXCEPT ![n] = users[n] \cup {r}]
  BY <1>0 DEF TakeOptions, Goes
<1>2. users[n] \cup {r} \in SUBSET Request
  BY <1>0
<1>3. /\ users' \in Seq(SUBSET Request) /\ Len(users') = n
      /\ \A i \in 1..n : users'[i] = IF i = n THEN users[n] \cup {r} ELSE users[i]
  BY <1>0, <1>1, <1>2, ExceptSeq
<1>4. phase' \in [Request -> Phase] /\ taken' \in [Request -> 1..n]
  BY <1>0, <1>1 DEF CatalogueTypeOK, Phase
<1>5. CatalogueTypeOK'
  BY <1>0, <1>1, <1>3, <1>4 DEF CatalogueTypeOK
<1>6. \A i \in 1..n : users[i] \subseteq users'[i]
  BY <1>3
<1>7. found \in [Request -> 1..n] /\ taken \in [Request -> 1..n] /\ phase \in [Request -> Phase]
  BY <1>0 DEF CatalogueTypeOK
<1> HIDE DEF n
<1>8. OneLoad' /\ FoundLatest' /\ LaterOptions'
  <2>1. found[r] <= n /\ (found[r] # n => changed[r])
    BY <1>0, <1>1, <1>7 DEF IInv, FoundLatest, n
  <2> QED
    BY <1>0, <1>1, <1>7, <2>1 DEF IInv, OneLoad, FoundLatest, LaterOptions
<1>9. UsersNoted' /\ TestsTagged' /\ StartedTags'
  <2>1. r \in users'[n]
    BY <1>0, <1>3
  <2> QED
    BY <1>0, <1>1, <1>6, <1>7, <2>1, TestedAssumption DEF IInv, UsersNoted, TestsTagged, StartedTags
<1>10. MapTags'
  BY <1>1, <1>6 DEF IInv, MapTags, n
<1> QED
  BY <1>5, <1>8, <1>9, <1>10 DEF IInv

(* A test that finds a tag need not write one. *)
LEMMA LookForTagStep ==
  ASSUME IInv, NEW r \in Request, LookForTag(r)
  PROVE  IInv'
<1>0. CatalogueTypeOK
  BY DEF IInv
<1>1. /\ UNCHANGED <<disk, signal, stage, read, conf, dead, loads, found, taken, tag, changed, users>>
      /\ phase[r] = "taken"
      /\ phase' = [phase EXCEPT ![r] = IF r \in Tested /\ loads[taken[r]].tag = "none"
                                         THEN "writing" ELSE "creating"]
  BY DEF LookForTag, Goes
<1>2. CatalogueTypeOK'
  BY <1>0, <1>1 DEF CatalogueTypeOK, Phase
<1>3. OneLoad' /\ FoundLatest' /\ LaterOptions'
  BY <1>0, <1>1 DEF CatalogueTypeOK, IInv, OneLoad, FoundLatest, LaterOptions
<1>4. UsersNoted' /\ TestsTagged' /\ MapTags' /\ StartedTags'
  BY <1>0, <1>1, TestedAssumption DEF CatalogueTypeOK, IInv, UsersNoted, TestsTagged, MapTags, StartedTags
<1> QED
  BY <1>2, <1>3, <1>4 DEF IInv

(* Who writes a tag is a user of the options and no empty one. *)
LEMMA WriteTagStep ==
  ASSUME IInv, NEW r \in Request, WriteTag(r)
  PROVE  IInv'
<1> DEFINE n == Len(loads)
           t == taken[r]
<1>0. /\ CatalogueTypeOK /\ n \in Nat /\ t \in 1..n /\ loads \in Seq(Content)
      /\ \A i \in 1..n : loads[i] \in Content
      /\ taken \in [Request -> 1..n] /\ phase \in [Request -> Phase]
  BY LoadsAndUsers DEF IInv, CatalogueTypeOK, Content
<1>1. /\ UNCHANGED <<disk, signal, stage, read, conf, dead, found, taken, tag, changed, users>>
      /\ phase[r] = "writing" /\ phase' = [phase EXCEPT ![r] = "creating"]
      /\ loads' = [loads EXCEPT ![t] = [loads[t] EXCEPT !.tag = r]]
  BY DEF WriteTag, Goes
<1>2. /\ [loads[t] EXCEPT !.tag = r] \in Content
      /\ [loads[t] EXCEPT !.tag = r].tag = r
  BY <1>0 DEF Content, Tag
<1>3. /\ loads' \in Seq(Content) /\ Len(loads') = n
      /\ \A i \in 1..n : loads'[i] = IF i = t THEN [loads[t] EXCEPT !.tag = r] ELSE loads[i]
  BY <1>0, <1>1, <1>2, ExceptSeq
<1>4. \A i \in 1..n : loads'[i].tag = IF i = t THEN r ELSE loads[i].tag
  BY <1>2, <1>3
<1>5. CatalogueTypeOK'
  BY <1>0, <1>1, <1>3 DEF CatalogueTypeOK, Content, Phase
<1>6. r \in users[t] /\ r # "none"
  BY <1>1, NameAssumption DEF IInv, UsersNoted
<1> HIDE DEF n, t
<1>7. OneLoad' /\ FoundLatest' /\ LaterOptions'
  BY <1>0, <1>1, <1>3 DEF IInv, OneLoad, FoundLatest, LaterOptions, n
<1>8. UsersNoted' /\ StartedTags'
  BY <1>0, <1>1, TestedAssumption DEF IInv, UsersNoted, StartedTags
<1>9. TestsTagged'
  <2>1. ASSUME NEW q \in Tested, phase'[q] = "creating"
        PROVE  loads'[taken[q]].tag # "none"
    <3>1. q \in Request /\ taken[q] \in 1..n
      BY <1>0, TestedAssumption
    <3>2. CASE taken[q] = t
      BY <1>4, <1>6, <3>1, <3>2
    <3>3. CASE taken[q] # t
      BY <1>0, <1>1, <1>4, <2>1, <3>1, <3>3 DEF IInv, TestsTagged, t
    <3> QED
      BY <3>2, <3>3
  <2> QED
    BY <1>1, <2>1 DEF TestsTagged
<1>10. MapTags'
  BY <1>1, <1>3, <1>4, <1>6 DEF IInv, MapTags, n
<1> QED
  BY <1>5, <1>7, <1>8, <1>9, <1>10 DEF IInv

(* The container gets the tag of its options. *)
LEMMA CreateContainerStep ==
  ASSUME IInv, NEW r \in Request, CreateContainer(r)
  PROVE  IInv'
<1>0. /\ CatalogueTypeOK /\ taken[r] \in 1..Len(loads) /\ loads[taken[r]] \in Content
  BY LoadsAndUsers DEF IInv, CatalogueTypeOK
<1>1. /\ UNCHANGED <<disk, signal, stage, read, conf, dead, loads, found, taken, changed, users>>
      /\ phase[r] = "creating" /\ phase' = [phase EXCEPT ![r] = "started"]
      /\ tag' = [tag EXCEPT ![r] = loads[taken[r]].tag]
  BY DEF CreateContainer, Goes
<1>2. loads[taken[r]].tag \in Tag
  BY <1>0 DEF Content
<1>3. CatalogueTypeOK'
  BY <1>0, <1>1, <1>2 DEF CatalogueTypeOK, Phase
<1>4. OneLoad' /\ FoundLatest' /\ LaterOptions'
  BY <1>0, <1>1 DEF CatalogueTypeOK, IInv, OneLoad, FoundLatest, LaterOptions
<1>5. UsersNoted' /\ TestsTagged' /\ MapTags'
  BY <1>0, <1>1, TestedAssumption DEF CatalogueTypeOK, IInv, UsersNoted, TestsTagged, MapTags
<1>6. StartedTags'
  <2>1. /\ loads[taken[r]].tag \in {"none", "configured"} \cup users[taken[r]]
        /\ r \in Tested => loads[taken[r]].tag # "none"
    BY <1>0, <1>1 DEF IInv, MapTags, TestsTagged
  <2> QED
    BY <1>0, <1>1, <2>1 DEF CatalogueTypeOK, IInv, StartedTags
<1> QED
  BY <1>3, <1>4, <1>5, <1>6 DEF IInv

(* A new request has not looked at anything. *)
LEMMA AgainStep ==
  ASSUME IInv, NEW r \in Request, Again(r)
  PROVE  IInv'
<1>0. /\ CatalogueTypeOK /\ Len(loads) \in Nat /\ conf.browsers \in 1..Len(loads)
  BY LoadsAndUsers DEF IInv, CatalogueTypeOK
<1>1. /\ UNCHANGED <<disk, signal, stage, read, conf, dead, loads, users>>
      /\ phase' = [phase EXCEPT ![r] = "idle"]
      /\ found' = [found EXCEPT ![r] = 1] /\ taken' = [taken EXCEPT ![r] = 1]
      /\ tag' = [tag EXCEPT ![r] = "none"] /\ changed' = [changed EXCEPT ![r] = FALSE]
  BY DEF Again, Goes
<1>2. 1 \in 1..Len(loads)
  BY <1>0
<1>3. CatalogueTypeOK'
  BY <1>0, <1>1, <1>2 DEF CatalogueTypeOK, Phase, Tag
<1>4. OneLoad' /\ FoundLatest' /\ LaterOptions'
  BY <1>0, <1>1 DEF CatalogueTypeOK, IInv, OneLoad, FoundLatest, LaterOptions
<1>5. UsersNoted' /\ TestsTagged' /\ MapTags' /\ StartedTags'
  BY <1>0, <1>1, TestedAssumption DEF CatalogueTypeOK, IInv, UsersNoted, TestsTagged, MapTags, StartedTags
<1> QED
  BY <1>3, <1>4, <1>5 DEF IInv

------------------------------------------------------------------------------
LEMMA Inductive == IInv /\ [Next]_vars => IInv'
<1> SUFFICES ASSUME IInv, [Next]_vars
             PROVE  IInv'
  OBVIOUS
<1>1. CASE \/ \E f \in {"browsers", "logs"} : EditFile(f)
           \/ TakeSignal \/ DropSignal \/ ReadBrowsers \/ ReadLogs \/ Fail
           \/ \E r, s \in Request : Collide(r, s)
  <2>1. CatalogueTypeOK' /\ UNCHANGED <<loads, conf, request, users>>
    BY <1>1, QuietTypes DEF IInv
  <2> QED
    BY <2>1, QuietStep
<1>2. CASE Swap
  BY <1>2, SwapStep
<1>3. ASSUME NEW r \in Request, Start(r)
      PROVE  IInv'
  BY <1>3, FindStep, TakeOptionsStep, LookForTagStep, WriteTagStep, CreateContainerStep,
     AgainStep DEF Start
<1>4. CASE UNCHANGED vars
  <2>1. UNCHANGED <<loads, conf, request, users>> /\ CatalogueTypeOK'
    BY <1>4 DEF vars, request, IInv, CatalogueTypeOK
  <2> QED
    BY <2>1, QuietStep
<1> QED
  BY <1>1, <1>2, <1>3, <1>4 DEF Next, Reload

LEMMA Invariance == Spec => []IInv
<1> QED
  BY InitIInv, Inductive, PTL DEF Spec

(* The state is made of values of the right kinds. *)
THEOREM TypeCorrect == Spec => []CatalogueTypeOK
<1>1. IInv => CatalogueTypeOK
  BY DEF IInv
<1> QED
  BY <1>1, Invariance, PTL

(* Whatever is reloaded between the two looks that a request takes at the     *)
(* configuration, its options are of the load of its browser or of a later    *)
(* one, the latter only if there was a reload in between.                     *)
THEOREM OptionsAreLater == Spec => []LaterOptions
<1>1. IInv => LaterOptions
  BY DEF IInv
<1> QED
  BY <1>1, Invariance, PTL

(* A tag never outlives the load whose sessions wrote it, however many        *)
(* sessions race to write it, and the container of a test has one.            *)
THEOREM TagsAreOwn == Spec => []OwnTags
<1>1. IInv => OwnTags
  BY DEF IInv, MapTags, StartedTags, OwnTags
<1> QED
  BY <1>1, Invariance, PTL

------------------------------------------------------------------------------
(* Who is about to write a tag has a name to write and found no tag; since    *)
(* then other tests may have written theirs.                                  *)
Writers == \A r \in Request : phase[r] = "writing" =>
  r \in Tested /\ loads[taken[r]].tag # "configured"

(* Nobody else writes, and a test's name is not the configured tag.           *)
LEMMA WritersStep == IInv /\ Writers /\ [Next]_vars => Writers'
<1> SUFFICES ASSUME IInv, Writers, [Next]_vars
             PROVE  Writers'
  OBVIOUS
<1>0. /\ CatalogueTypeOK /\ Len(loads) \in Nat /\ loads \in Seq(Content)
      /\ taken \in [Request -> 1..Len(loads)] /\ phase \in [Request -> Phase]
      /\ \A n \in 1..Len(loads) : loads[n] \in Content
  BY LoadsAndUsers DEF IInv, CatalogueTypeOK, Content
<1>1. ASSUME UNCHANGED <<loads, phase, taken>>
      PROVE  Writers'
  BY <1>1 DEF Writers
<1>2. CASE Swap
  <2>1. Loaded \in Content /\ loads' = Append(loads, Loaded) /\ users' = Append(users, {})
    BY <1>0, <1>2 DEF CatalogueTypeOK, Loaded, Load, Content, Tag, Swap, Swaps
  <2>2. \A n \in 1..Len(loads) : loads'[n] = loads[n]
    BY <1>0, <2>1, NewLoad, Zenon
  <2>3. UNCHANGED <<phase, taken>>
    BY <1>2 DEF Swap, Swaps
  <2> QED
    BY <1>0, <2>2, <2>3 DEF Writers
<1>3. ASSUME NEW r \in Request, Find(r) \/ TakeOptions(r) \/ CreateContainer(r) \/ Again(r)
      PROVE  Writers'
  <2>1. /\ loads' = loads /\ phase'[r] # "writing"
        /\ \A q \in Request \ {r} : phase'[q] = phase[q] /\ taken'[q] = taken[q]
    BY <1>0, <1>3 DEF Find, TakeOptions, CreateContainer, Again, Goes
  <2> QED
    BY <2>1 DEF Writers
<1>4. ASSUME NEW r \in Request, LookForTag(r)
      PROVE  Writers'
  <2>1. /\ UNCHANGED <<loads, taken>> /\ \A q \in Request \ {r} : phase'[q] = phase[q]
        /\ phase'[r] = "writing" => r \in Tested /\ loads[taken[r]].tag = "none"
    BY <1>0, <1>4 DEF LookForTag, Goes
  <2> QED
    BY <2>1 DEF Writers
<1>5. ASSUME NEW r \in Request, WriteTag(r)
      PROVE  Writers'
  <2>1. /\ taken' = taken /\ phase'[r] = "creating"
        /\ \A q \in Request \ {r} : phase'[q] = phase[q]
        /\ loads' = [loads EXCEPT ![taken[r]] = [loads[taken[r]] EXCEPT !.tag = r]]
    BY <1>0, <1>5 DEF WriteTag, Goes
  <2>2. \A n \in 1..Len(loads) : loads'[n].tag = IF n = taken[r] THEN r ELSE loads[n].tag
    <3>1. [loads[taken[r]] EXCEPT !.tag = r] \in Content /\ taken[r] \in 1..Len(loads)
      BY <1>0 DEF Content, Tag
    <3>2. \A n \in 1..Len(loads) :
            loads'[n] = IF n = taken[r] THEN [loads[taken[r]] EXCEPT !.tag = r] ELSE loads[n]
      BY <1>0, <2>1, <3>1, ExceptSeq
    <3>3. [loads[taken[r]] EXCEPT !.tag = r].tag = r
      BY <1>0, <3>1 DEF Content
    <3> QED
      BY <3>2, <3>3
  <2>3. r # "configured"
    BY NameAssumption
  <2> QED
    BY <1>0, <2>1, <2>2, <2>3 DEF Writers
<1>6. CASE \/ \E f \in {"browsers", "logs"} : EditFile(f)
           \/ TakeSignal \/ DropSignal \/ ReadBrowsers \/ ReadLogs \/ Fail
           \/ \E r, s \in Request : Collide(r, s)
  BY <1>0, <1>1, <1>6, QuietTypes DEF request
<1> QED
  BY <1>1, <1>2, <1>3, <1>4, <1>5, <1>6 DEF Next, Reload, Start, vars, request

(* A configured tag keeps the sessions of a load from writing into the map    *)
(* that they share.                                                           *)
THEOREM ConfiguredTagIsSafe == Spec => DiesOnlyUnconfigured
<1>1. Init => Writers
  BY DEF Init, Writers
<1>2. Writers /\ [Next]_vars =>
        [\A r, s \in Request :
           Collide(r, s) => r \in Tested /\ loads[taken[r]].tag # "configured"]_vars
  BY DEF Writers, Collide
<1> QED
  BY <1>1, <1>2, WritersStep, Invariance, PTL DEF Spec, DiesOnlyUnconfigured

------------------------------------------------------------------------------
(* Since a signal was taken nobody has edited the files, so what has been     *)
(* read of them is what is there.                                             *)
Loading == signal = "taken" /\ Parse =>
  \/ stage = "waiting" /\ Current
  \/ stage = "browsers"
  \/ stage = "logs" /\ read.browsers.edit = disk.browsers.edit
  \/ /\ stage = "swap"
     /\ read.browsers.edit = disk.browsers.edit /\ read.logs.edit = disk.logs.edit

TakenLoads == signal = "taken" /\ stage = "waiting" /\ Parse => Current

(* Writing a tag does not change what the loads are of. *)
LEMMA SameEdits ==
  ASSUME IInv, NEW r \in Request, Start(r)
  PROVE  /\ UNCHANGED <<disk, signal, stage, read>>
         /\ Current => Current'
<1>1. UNCHANGED <<disk, signal, stage, read, conf>>
  BY DEF Start, Find, TakeOptions, LookForTag, WriteTag, CreateContainer, Again, Goes
<1>2. /\ loads \in Seq(Content) /\ taken[r] \in 1..Len(loads)
      /\ \A n \in 1..Len(loads) : loads[n] \in Content
      /\ conf.browsers \in 1..Len(loads) /\ conf.logs \in 1..Len(loads)
  BY LoadsAndUsers DEF IInv, CatalogueTypeOK, Content
<1>3. CASE WriteTag(r)
  <2>1. loads' = [loads EXCEPT ![taken[r]] = [loads[taken[r]] EXCEPT !.tag = r]]
    BY <1>3 DEF WriteTag
  <2>2. /\ [loads[taken[r]] EXCEPT !.tag = r] \in Content
        /\ [loads[taken[r]] EXCEPT !.tag = r].browsers = loads[taken[r]].browsers
        /\ [loads[taken[r]] EXCEPT !.tag = r].logs = loads[taken[r]].logs
    BY <1>2 DEF Content, Tag
  <2>3. \A n \in 1..Len(loads) :
          loads'[n] = IF n = taken[r] THEN [loads[taken[r]] EXCEPT !.tag = r] ELSE loads[n]
    BY <1>2, <2>1, <2>2, ExceptSeq
  <2>4. \A n \in 1..Len(loads) :
          loads'[n].browsers = loads[n].browsers /\ loads'[n].logs = loads[n].logs
    BY <2>2, <2>3
  <2> QED
    BY <1>1, <1>2, <2>4 DEF Current
<1>4. CASE ~WriteTag(r)
  BY <1>1, <1>4 DEF Start, Find, TakeOptions, LookForTag, CreateContainer, Again, Current
<1> QED
  BY <1>1, <1>3, <1>4

LEMMA LoadingStep == IInv /\ Loading /\ [Next]_vars => Loading'
<1> SUFFICES ASSUME IInv, Loading, [Next]_vars
             PROVE  Loading'
  OBVIOUS
<1>0. CatalogueTypeOK
  BY DEF IInv
<1>1. CASE \/ \E f \in {"browsers", "logs"} : EditFile(f)
           \/ TakeSignal \/ DropSignal
  BY <1>1 DEF EditFile, TakeSignal, DropSignal, Loading
<1>2. CASE ReadBrowsers \/ ReadLogs
  <2>1. /\ UNCHANGED <<disk, signal>> /\ (Parse' <=> Parse)
        /\ ReadBrowsers => /\ stage = "browsers" /\ stage' = "logs"
                           /\ read'.browsers.edit = disk.browsers.edit
        /\ ReadLogs => /\ stage = "logs" /\ stage' = "swap"
                       /\ read'.logs.edit = disk.logs.edit
                       /\ read'.browsers = read.browsers
    BY <1>0, <1>2 DEF CatalogueTypeOK, ReadBrowsers, ReadLogs, Reads, Parse
  <2> QED
    BY <1>2, <2>1 DEF Loading
<1>3. CASE Fail
  BY <1>3 DEF Fail, Abandons, Loading, Parse
<1>4. CASE Swap
  <2>1. /\ UNCHANGED <<disk, signal>> /\ stage = "swap" /\ stage' = "waiting"
        /\ conf' = [browsers |-> Len(loads) + 1, logs |-> Len(loads) + 1]
        /\ loads' = Append(loads, Loaded) /\ users' = Append(users, {})
    BY <1>4 DEF Swap, Swaps, New
  <2>2. Loaded \in Content
    BY <1>0 DEF CatalogueTypeOK, Loaded, Load, Content, Tag
  <2>3. loads'[Len(loads) + 1] = Loaded
    BY <1>0, <2>1, <2>2, NewLoad, Zenon
  <2>4. loads'[conf'.browsers] = Loaded /\ loads'[conf'.logs] = Loaded
    BY <2>1, <2>3
  <2>5. Loaded.browsers = read.browsers.edit /\ Loaded.logs = read.logs.edit
    BY DEF Loaded, Load
  <2> QED
    BY <2>1, <2>4, <2>5 DEF Loading, Parse, Current
<1>5. ASSUME NEW r \in Request, Start(r)
      PROVE  Loading'
  BY <1>5, SameEdits DEF Loading, Parse
<1>6. CASE UNCHANGED vars \/ \E r, s \in Request : Collide(r, s)
  BY <1>6 DEF Collide, vars, Loading, Parse, Current
<1> QED
  BY <1>1, <1>2, <1>3, <1>4, <1>5, <1>6 DEF Next, Reload

(* When the goroutine is back at the channel after a signal that it has       *)
(* taken, the files are loaded as they are, if both parse: whatever failed    *)
(* before and whatever the sessions do.  A dropped signal promises nothing.   *)
THEOREM TakenSignalsLoad == Spec => []TakenLoads
<1>1. Init => Loading
  BY DEF Init, Loading
<1>2. Loading => TakenLoads
  BY DEF Loading, TakenLoads
<1> QED
  BY <1>1, <1>2, LoadingStep, Invariance, PTL DEF Spec
===============================================================================
