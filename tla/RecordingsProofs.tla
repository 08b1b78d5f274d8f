--------------------------- MODULE RecordingsProofs ---------------------------
(* What module Recordings guarantees for any number of sessions, of calls of  *)
(* Cancel and of deletes: a directory has one file of a name, and nothing     *)
(* that has been recorded gets lost.                                          *)
EXTENDS Recordings, TLAPS

(* A recording has its temporary name or its final one. *)
FilesNamed == \A f \in dir : f.name \in {Temporary(f.of), Final(f.of, f.kind)}

(* What is being sent has the final name of the session that it is sent for.  *)
SendsNamed == \A j \in Job : upload[j].step = "send" =>
  Final(upload[j].of, j[2]) = Final(About[j[1]], j[2])

(* An object's key is the final name of the recording in it. *)
ObjectsNamed == \A o \in bucket : o.name = Final(o.of, o.kind)

(* Only what has been sent is removed. *)
RemovalsSent == \A j \in Job : upload[j].step = "remove" =>
  \E o \in bucket : o.kind = j[2] /\ o.name = Final(About[j[1]], j[2])

(* The names of sessions are their own or chosen. *)
NamesChosen == \A s \in Session : name[s] \in {Own(s)} \cup Chosen

IInv == /\ RecordingsTypeOK /\ NamesChosen /\ FilesNamed
        /\ SendsNamed /\ ObjectsNamed /\ RemovalsSent
        /\ Kept

(* What an incomplete file may be put down to: a recorder that does not stop, *)
(* a copy that broke off, or a second call of Cancel.                         *)
Excused(k, s) == \/ k = "video" /\ s \in stuck
                 \/ k = "log" /\ s \in partial
                 \/ k # "video" /\ Twice(s)

(* Only what has been asked for is made. *)
LogsAsked  == \A c \in Call : at[c] \in {"logs", "copying"} => "log" \in want[About[c]]
FilesAsked == \A f \in dir : f.kind # "metadata" => f.kind \in want[f.of]

(* The recorder writes videos; whoever writes a log copies it, and whoever    *)
(* writes the metadata is at it.                                              *)
WritersAtWork == \A f \in dir : \A c \in f.writers :
  IF f.kind = "video" THEN c = "recorder" ELSE
    c \in Call /\ About[c] = f.of /\ at[c] = IF f.kind = "log" THEN "copying" ELSE "writing"

(* A recorder writes until a call of Cancel stops it. *)
RecordersRun == \A f \in dir : f.kind = "video" /\ f.writers # {} =>
  f.of \in stuck \/ \A c \in Call : About[c] = f.of => at[c] \in {"idle", "recorder"}

(* A file that is cut is a log whose copy broke off, or metadata.             *)
CutsKnown == \A f \in dir : f.cut => f.kind # "video" /\ (f.kind = "log" => f.of \in partial)

(* A video or a log that has its final name is complete, and so is what is    *)
(* being sent.                                                                *)
FilesWhole == \A f \in dir : f.kind # "metadata" /\ ~Whole(f) /\ f.name # Temporary(f.of) =>
  Excused(f.kind, f.of)
SendsWhole == \A j \in Job : upload[j].step = "send" /\ ~upload[j].whole => Excused(j[2], upload[j].of)

(* Metadata is announced when it has been written, by a call that then is     *)
(* done; unless another call is at it, it is complete from there on.          *)
Announced == \A c \in Call : upload[<<c, "metadata">>].step # "none" => at[c] = "done"
MetadataWhole == \A f \in dir : f.kind = "metadata" /\ f.name = Own(f.of) /\ ~Twice(f.of) =>
  \A c \in Call : About[c] = f.of => /\ f.cut => at[c] # "writing"
                                     /\ ~Whole(f) => upload[<<c, "metadata">>].step = "none"

WInv == /\ LogsAsked /\ FilesAsked /\ WritersAtWork /\ RecordersRun /\ CutsKnown
        /\ FilesWhole /\ SendsWhole /\ Announced /\ MetadataWhole /\ UploadedWhole

(* A video has its temporary name until a call of Cancel gets past its        *)
(* renaming, and a log as long as a call may still rename it; unless the      *)
(* renaming has failed.                                                       *)
VideosRenamed == \A f \in dir : f.kind = "video" /\ f.name = Temporary(f.of) /\ f.of \in made =>
  \/ <<f.of, "video">> \in unnamed
  \/ \A c \in Call : About[c] = f.of => at[c] \notin {"log", "metadata", "writing", "done"}
LogsRenamed == \A f \in dir : f.kind = "log" /\ f.name = Temporary(f.of) /\ f.of \in made =>
  \/ <<f.of, "log">> \in unnamed
  \/ \E c \in Call : About[c] = f.of /\ at[c] \in {"copying", "video", "log"}

RInv == VideosRenamed /\ LogsRenamed

------------------------------------------------------------------------------
(* Temporary names, own names and chosen ones differ, and the first two tell  *)
(* the session.                                                               *)
LEMMA NamesDiffer ==
  ASSUME NEW s \in Session, NEW t \in Session
  PROVE  /\ Temporary(s) = Temporary(t) <=> s = t
         /\ Own(s) = Own(t) <=> s = t
         /\ Temporary(s) # Own(t)
         /\ Temporary(s) \notin Chosen /\ Own(s) \notin Chosen
BY ChosenAssumption DEF Temporary, Own

(* A final name is nobody's temporary name, and two sessions that have the    *)
(* same one share it.                                                         *)
LEMMA FinalNames ==
  ASSUME name \in [Session -> Name], NamesChosen, NEW s \in Session, NEW t \in Session, NEW k \in Kind
  PROVE  /\ Final(s, k) \in Name
         /\ Final(s, k) # Temporary(t)
         /\ Final(s, k) = Final(t, k) /\ s # t => Shares(s) /\ Shares(t)
<1>1. Own(s) \in Name
  BY DEF Name
<1>2. name[s] \in {Own(s)} \cup Chosen /\ name[t] \in {Own(t)} \cup Chosen /\ name[s] \in Name
  BY DEF NamesChosen
<1>3. /\ Own(s) # Temporary(t) /\ (Own(s) = Own(t) <=> s = t)
      /\ Temporary(t) \notin Chosen
  BY NamesDiffer
<1> QED
  BY <1>1, <1>2, <1>3 DEF Final, Shares

(* The next place of a call is a place. *)
LEMMA Places ==
  ASSUME NEW s
  PROVE  {AfterLog(s), AfterVideo(s), Stopped(s), AfterRecorder(s)} \subseteq Place
BY DEF AfterLog, AfterVideo, Stopped, AfterRecorder, Place

LEMMA MovesType ==
  ASSUME at \in [Call -> Place], NEW c \in Call, NEW from, NEW to \in Place, Moves(c, from, to)
  PROVE  at' \in [Call -> Place]
BY DEF Moves

------------------------------------------------------------------------------
(* Sessions record under their temporary names first. *)
LEMMA InitIInv == Init => IInv
<1> SUFFICES ASSUME Init
             PROVE  IInv
  OBVIOUS
<1> DEFINE new(v) == [kind |-> "video", name |-> Temporary(v[1]), of |-> v[1],
                      writers |-> {"recorder"}, cut |-> FALSE]
<1>1. saved \subseteq Session \X {"video"}
  BY DEF Init
<1>2. \A v \in saved : v[1] \in Session /\ v = <<v[1], "video">>
  BY <1>1
<1>3. \A s \in Session : Temporary(s) \in Name
  BY DEF Name
<1>4. dir = {new(v) : v \in saved}
  BY DEF Init
<1>5. \A f \in dir : /\ f.kind = "video" /\ f.name = Temporary(f.of)
                     /\ f \in File /\ <<f.of, "video">> \in saved
                     /\ f = new(<<f.of, "video">>)
  <2>1. \A v \in saved : new(v) \in File
    BY <1>2, <1>3 DEF File, Kind, Writer
  <2>2. \A v \in saved : /\ new(v).kind = "video" /\ new(v).of = v[1]
                          /\ new(v).name = Temporary(v[1])
    OBVIOUS
  <2>3. ASSUME NEW f \in dir
        PROVE  \E v \in saved : f = new(v)
    BY <1>4
  <2> HIDE DEF new
  <2> QED
    BY <1>2, <2>1, <2>2, <2>3
<1>6. \A f, g \in dir : f.kind = g.kind /\ f.name = g.name => f = g
  <2>1. SUFFICES ASSUME NEW f \in dir, NEW g \in dir, f.name = g.name
                 PROVE  f = g
    OBVIOUS
  <2>2. f.of \in Session /\ g.of \in Session
    BY <1>5 DEF File
  <2>3. Temporary(f.of) = Temporary(g.of)
    BY <1>5, <2>1
  <2>4. f.of = g.of
    BY <2>2, <2>3, NamesDiffer
  <2> QED
    BY <1>5, <2>4
<1>7. Idle \in Step
  BY DEF Step
<1>8. RecordingsTypeOK
  <2>1. saved \subseteq Session \X Kind /\ dir \subseteq File
    BY <1>1, <1>5 DEF Kind
  <2>2. upload \in [Job -> Step]
    BY <1>7 DEF Init
  <2>3. want \in [Session -> SUBSET Kind]
    BY WishesAssumption DEF Init
  <2> QED
    BY <1>6, <2>1, <2>2, <2>3 DEF Init, RecordingsTypeOK, Place
<1>9. NamesChosen /\ FilesNamed /\ ObjectsNamed
  BY <1>5 DEF Init, NamesChosen, FilesNamed, ObjectsNamed
<1>10. SendsNamed /\ RemovalsSent
  <2>1. \A j \in Job : upload[j].step = "none"
    BY DEF Init, Idle
  <2> QED
    BY <2>1 DEF SendsNamed, RemovalsSent
<1>11. Kept
  <2>1. ASSUME NEW s \in Session, NEW k \in Kind, <<s, k>> \in saved
        PROVE  InDir(s, k)
    <3>1. k = "video" /\ new(<<s, k>>) \in dir
      <4>1. k = "video"
        BY <1>1, <2>1
      <4> HIDE DEF new
      <4> QED
        BY <1>4, <2>1, <4>1
    <3>2. new(<<s, k>>).of = s /\ new(<<s, k>>).kind = "video"
      OBVIOUS
    <3> QED
      BY <3>1, <3>2 DEF InDir
  <2> QED
    BY <2>1 DEF Kept
<1> QED
  BY <1>8, <1>9, <1>10, <1>11 DEF IInv

(* Steps that only move a call. *)
LEMMA QuietStep ==
  ASSUME IInv, at' \in [Call -> Place], UNCHANGED <<fixed, dir, upload, bucket, history>>
  PROVE  IInv'
<1>1. UNCHANGED <<want, name, made, dir, upload, bucket, saved, deleted, stuck, partial, unnamed>>
  BY DEF fixed, history
<1>2. RecordingsTypeOK'
  BY <1>1 DEF IInv, RecordingsTypeOK
<1>3. NamesChosen' /\ FilesNamed' /\ SendsNamed' /\ ObjectsNamed' /\ RemovalsSent'
  BY <1>1 DEF IInv, NamesChosen, FilesNamed, SendsNamed, ObjectsNamed, RemovalsSent, Final
<1>4. Kept'
  BY <1>1 DEF IInv, Kept, InDir, InBucket, Shares
<1> QED
  BY <1>2, <1>3, <1>4 DEF IInv

(* Steps that leave the bucket and what an upload is about alone, and in the  *)
(* directory keep what is of a session without a namesake.                    *)
LEMMA DirStep ==
  ASSUME IInv, RecordingsTypeOK', FilesNamed',
         UNCHANGED <<fixed, bucket>>,
         \A j \in Job : upload'[j].step = "send" =>
           upload[j].step = "send" /\ upload'[j].of = upload[j].of,
         \A j \in Job : upload'[j].step = "remove" => upload[j].step = "remove",
         deleted \subseteq deleted',
         \A s \in Session, k \in Kind : InDir(s, k) =>
           InDir(s, k)' \/ InBucket(s, k) \/ <<s, k>> \in deleted' \/ Shares(s),
         \A s \in Session, k \in Kind : <<s, k>> \in saved' =>
           <<s, k>> \in saved \/ InDir(s, k)'
  PROVE  IInv'
<1>1. UNCHANGED <<want, name, made, bucket>>
  BY DEF fixed
<1>2. NamesChosen' /\ SendsNamed' /\ ObjectsNamed' /\ RemovalsSent'
  BY <1>1 DEF IInv, NamesChosen, SendsNamed, ObjectsNamed, RemovalsSent, Final
<1>3. Kept'
  BY <1>1 DEF IInv, Kept, InBucket, Shares
<1> QED
  BY <1>2, <1>3 DEF IInv

------------------------------------------------------------------------------
(* Whose the files of a name are. *)
LEMMA TemporaryFiles ==
  ASSUME IInv, NEW s \in Session, NEW k \in Kind, NEW f \in Named(k, Temporary(s))
  PROVE  f \in dir /\ f \in File /\ f.kind = k /\ f.of = s
<1>1. f \in dir /\ f \in File /\ f.kind = k /\ f.name = Temporary(s) /\ f.of \in Session
  BY DEF IInv, RecordingsTypeOK, Named, File
<1>2. f.name \in {Temporary(f.of), Final(f.of, k)}
  BY <1>1 DEF IInv, FilesNamed
<1>3. Final(f.of, k) # Temporary(s)
  BY <1>1, FinalNames DEF IInv, RecordingsTypeOK
<1>4. Temporary(f.of) = Temporary(s) <=> f.of = s
  BY <1>1, NamesDiffer
<1> QED
  BY <1>1, <1>2, <1>3, <1>4

LEMMA FinalFiles ==
  ASSUME IInv, NEW s \in Session, NEW k \in Kind, NEW f \in Named(k, Final(s, k))
  PROVE  /\ f \in dir /\ f \in File /\ f.kind = k /\ f.of \in Session
         /\ Final(f.of, k) = Final(s, k)
         /\ f.of = s \/ Shares(f.of)
<1>1. f \in dir /\ f \in File /\ f.kind = k /\ f.name = Final(s, k) /\ f.of \in Session
  BY DEF IInv, RecordingsTypeOK, Named, File
<1>2. f.name \in {Temporary(f.of), Final(f.of, k)}
  BY <1>1 DEF IInv, FilesNamed
<1>3. /\ Final(s, k) # Temporary(f.of)
      /\ Final(s, k) = Final(f.of, k) /\ s # f.of => Shares(s) /\ Shares(f.of)
  BY <1>1, FinalNames DEF IInv, RecordingsTypeOK
<1> QED
  BY <1>1, <1>2, <1>3

(* Steps that only change who writes a file, or cut it. *)
LEMMA WritersStep ==
  ASSUME IInv, at' \in [Call -> Place], stuck' \subseteq Session, partial' \subseteq Session,
         UNCHANGED <<fixed, bucket, saved, deleted, unnamed>>,
         upload' \in [Job -> Step],
         \A j \in Job : upload'[j].step \in {"send", "remove"} => upload'[j] = upload[j],
         NEW w \in [dir -> File], dir' = {w[f] : f \in dir},
         \A f \in dir : w[f].kind = f.kind /\ w[f].name = f.name /\ w[f].of = f.of
  PROVE  IInv'
<1>1. UNCHANGED <<want, name, made>>
  BY DEF fixed
<1>2. \A f, g \in dir' : f.kind = g.kind /\ f.name = g.name => f = g
  BY DEF IInv, RecordingsTypeOK
<1>3. RecordingsTypeOK'
  BY <1>1, <1>2 DEF IInv, RecordingsTypeOK
<1>4. FilesNamed'
  BY <1>1 DEF IInv, FilesNamed, Final
<1>5. \A s \in Session, k \in Kind : InDir(s, k) => InDir(s, k)'
  BY DEF InDir
<1> QED
  BY <1>3, <1>4, <1>5, DirStep

LEMMA StopRecorderStep ==
  ASSUME IInv, NEW c \in Call, StopRecorder(c)
  PROVE  IInv'
<1> DEFINE s == About[c]
           w == [f \in dir |-> IF f.of = s /\ f.kind = "video" THEN [f EXCEPT !.writers = {}] ELSE f]
<1>1. s \in Session
  BY CallAssumption
<1>2. at' \in [Call -> Place]
  BY <1>1, Places, MovesType DEF StopRecorder, IInv, RecordingsTypeOK
<1>3. UNCHANGED <<fixed, upload, bucket, saved, deleted, partial, unnamed>>
  BY DEF StopRecorder
<1>4. CASE /\ dir' = {IF f.of = s /\ f.kind = "video" THEN [f EXCEPT !.writers = {}] ELSE f : f \in dir}
           /\ UNCHANGED stuck
  <2>1. /\ stuck' \subseteq Session /\ partial' \subseteq Session /\ dir \subseteq File
        /\ upload' \in [Job -> Step]
    BY <1>3, <1>4 DEF IInv, RecordingsTypeOK
  <2>2. /\ w \in [dir -> File]
        /\ \A f \in dir : w[f].kind = f.kind /\ w[f].name = f.name /\ w[f].of = f.of
    BY <2>1 DEF File
  <2>3. dir' = {w[f] : f \in dir}
    BY <1>4
  <2> HIDE DEF w
  <2> QED
    BY <1>2, <1>3, <2>1, <2>2, <2>3, WritersStep
<1>5. CASE stuck' = stuck \cup {s} /\ UNCHANGED dir
  <2>1. UNCHANGED <<want, name, made>>
    BY <1>3 DEF fixed
  <2>2. RecordingsTypeOK' /\ FilesNamed'
    BY <1>1, <1>2, <1>3, <1>5, <2>1 DEF IInv, RecordingsTypeOK, FilesNamed, Final
  <2>3. \A t \in Session, k \in Kind : InDir(t, k) => InDir(t, k)'
    BY <1>5 DEF InDir
  <2> QED
    BY <1>3, <2>2, <2>3, DirStep
<1> QED
  BY <1>4, <1>5 DEF StopRecorder

(* Who has written a file closes it. *)
LEMMA CloseStep ==
  ASSUME IInv, NEW c \in Call, NEW cut \in BOOLEAN, Close(c, cut),
         at' \in [Call -> Place], partial' \subseteq Session,
         UNCHANGED <<fixed, bucket, saved, deleted, stuck, unnamed>>,
         upload' \in [Job -> Step],
         \A j \in Job : upload'[j].step \in {"send", "remove"} => upload'[j] = upload[j]
  PROVE  IInv'
<1> DEFINE w == [f \in dir |-> IF c \in f.writers
                                 THEN [f EXCEPT !.writers = f.writers \ {c}, !.cut = f.cut \/ cut]
                                 ELSE f]
<1>1. dir \subseteq File /\ stuck' \subseteq Session
  BY DEF IInv, RecordingsTypeOK
<1>2. /\ w \in [dir -> File]
      /\ \A f \in dir : w[f].kind = f.kind /\ w[f].name = f.name /\ w[f].of = f.of
  <2>1. ASSUME NEW f \in dir, c \in f.writers
        PROVE  LET g == [f EXCEPT !.writers = f.writers \ {c}, !.cut = f.cut \/ cut]
               IN  g \in File /\ g.kind = f.kind /\ g.name = f.name /\ g.of = f.of
    <3>1. f \in File /\ (f.cut \/ cut) \in BOOLEAN /\ f.writers \ {c} \in SUBSET Writer
      BY <1>1 DEF File
    <3> DEFINE cuts == f.cut \/ cut
    <3> HIDE DEF cuts
    <3>2. [f EXCEPT !.writers = f.writers \ {c}, !.cut = cuts] \in File
      BY <3>1 DEF File, cuts
    <3> QED
      BY <3>1, <3>2 DEF File, cuts
  <2> QED
    BY <1>1, <2>1
<1>3. dir' = {w[f] : f \in dir}
  BY DEF Close
<1> HIDE DEF w
<1> QED
  BY <1>1, <1>2, <1>3, WritersStep

LEMMA CloseLogStep ==
  ASSUME IInv, NEW c \in Call, CloseLog(c)
  PROVE  IInv'
<1>1. About[c] \in Session
  BY CallAssumption
<1>2. at' \in [Call -> Place]
  BY <1>1, Places, MovesType DEF CloseLog, IInv, RecordingsTypeOK
<1>3. UNCHANGED <<fixed, upload, bucket, saved, deleted, stuck, unnamed>>
  BY DEF CloseLog
<1>4. upload' \in [Job -> Step]
  BY <1>3 DEF IInv, RecordingsTypeOK
<1>5. CASE Close(c, FALSE) /\ UNCHANGED partial
  <2>1. partial' \subseteq Session
    BY <1>5 DEF IInv, RecordingsTypeOK
  <2> QED
    BY <1>2, <1>3, <1>4, <1>5, <2>1, CloseStep
<1>6. CASE Close(c, TRUE) /\ partial' = partial \cup {About[c]}
  <2>1. partial' \subseteq Session
    BY <1>1, <1>6 DEF IInv, RecordingsTypeOK
  <2> QED
    BY <1>2, <1>3, <1>4, <1>6, <2>1, CloseStep
<1> QED
  BY <1>5, <1>6 DEF CloseLog

LEMMA CloseMetadataStep ==
  ASSUME IInv, NEW c \in Call, CloseMetadata(c)
  PROVE  IInv'
<1> DEFINE j == <<c, "metadata">>
<1>1. j \in Job
  BY DEF Job, Kind
<1>2. at' \in [Call -> Place]
  <2>1. Moves(c, "writing", "done") /\ "done" \in Place
    BY DEF CloseMetadata, Place
  <2> QED
    BY <2>1, MovesType DEF IInv, RecordingsTypeOK
<1>3. /\ UNCHANGED <<fixed, bucket, saved, deleted, stuck, partial, unnamed>>
      /\ partial' \subseteq Session
  BY DEF CloseMetadata, history, IInv, RecordingsTypeOK
<1>4. upload' = [upload EXCEPT ![j] = Open] \/ upload' = upload
  BY DEF CloseMetadata
<1>5. /\ upload' \in [Job -> Step]
      /\ \A i \in Job : upload'[i].step \in {"send", "remove"} => upload'[i] = upload[i]
  BY <1>1, <1>4 DEF IInv, RecordingsTypeOK, Step, Open
<1>6. \E cut \in BOOLEAN : Close(c, cut)
  BY DEF CloseMetadata
<1> QED
  BY <1>2, <1>3, <1>5, <1>6, CloseStep

(* A file that is created takes the place of what has its name. *)
LEMMA CreateStep ==
  ASSUME IInv, NEW c \in Call, NEW k \in {"log", "metadata"}, NEW n, Create(c, k, n),
         n = IF k = "log" THEN Temporary(About[c]) ELSE Own(About[c]),
         at' \in [Call -> Place],
         UNCHANGED <<fixed, bucket, deleted, stuck, partial, unnamed>>,
         upload' \in [Job -> Step],
         \A j \in Job : upload'[j].step = "send" =>
           upload[j].step = "send" /\ upload'[j].of = upload[j].of,
         \A j \in Job : upload'[j].step = "remove" => upload[j].step = "remove"
  PROVE  IInv'
<1> DEFINE s   == About[c]
           old == Named(k, n)
           new == [kind |-> k, name |-> n, of |-> s, cut |-> FALSE,
                   writers |-> {c} \cup UNION {f.writers : f \in old}]
<1>1. s \in Session /\ k \in Kind
  BY CallAssumption DEF Kind
<1>2. /\ UNCHANGED <<want, name, made>>
      /\ saved' = saved \cup {<<s, k>>}
      /\ dir' = (dir \ old) \cup {new}
  BY DEF Create, fixed
<1>3. \A f \in old : f \in dir /\ f \in File /\ f.kind = k /\ f.of = s
  <2>1. CASE k = "log"
    BY <1>1, <2>1, TemporaryFiles
  <2>2. CASE k = "metadata"
    BY <1>1, <2>2, FinalFiles, NamesDiffer DEF Final
  <2> QED
    BY <2>1, <2>2
<1>4. new \in File
  <2>1. UNION {f.writers : f \in old} \subseteq Writer
    BY <1>3 DEF File
  <2>2. n \in Name
    BY <1>1 DEF Name
  <2> QED
    BY <1>1, <2>1, <2>2 DEF File, Writer
<1>5. /\ new.kind = k /\ new.name = n /\ new.of = s
      /\ n \in {Temporary(s), Final(s, k)}
  BY DEF Final
<1>6. \A f \in dir : f \in old <=> f.kind = k /\ f.name = n
  BY DEF Named
<1> HIDE DEF s, old, new
<1>7. RecordingsTypeOK'
  <2>1. \A f, g \in dir' : f.kind = g.kind /\ f.name = g.name => f = g
    BY <1>2, <1>5, <1>6 DEF IInv, RecordingsTypeOK
  <2>2. dir' \subseteq File /\ saved' \subseteq Session \X Kind
    BY <1>1, <1>2, <1>4 DEF IInv, RecordingsTypeOK
  <2> QED
    BY <1>2, <2>1, <2>2 DEF IInv, RecordingsTypeOK
<1>8. FilesNamed'
  BY <1>2, <1>5 DEF IInv, FilesNamed, Final
<1>9. \A t \in Session, i \in Kind : InDir(t, i) => InDir(t, i)'
  BY <1>2, <1>3, <1>5 DEF InDir
<1>10. \A t \in Session, i \in Kind : <<t, i>> \in saved' => <<t, i>> \in saved \/ InDir(t, i)'
  BY <1>2, <1>5 DEF InDir
<1> QED
  BY <1>7, <1>8, <1>9, <1>10, DirStep

LEMMA OpenLogStep ==
  ASSUME IInv, NEW c \in Call, OpenLog(c)
  PROVE  IInv'
<1>1. at' \in [Call -> Place]
  <2>1. Moves(c, "logs", "copying") /\ "copying" \in Place
    BY DEF OpenLog, Place
  <2> QED
    BY <2>1, MovesType DEF IInv, RecordingsTypeOK
<1>2. /\ UNCHANGED <<fixed, upload, bucket, deleted, stuck, partial, unnamed>>
      /\ Create(c, "log", Temporary(About[c])) /\ upload' \in [Job -> Step]
  BY DEF OpenLog, IInv, RecordingsTypeOK
<1> QED
  BY <1>1, <1>2, CreateStep

(* The truncation is seen by whoever is sending the file. *)
LEMMA OpenMetadataStep ==
  ASSUME IInv, NEW c \in Call, OpenMetadata(c)
  PROVE  IInv'
<1> DEFINE s == About[c]
           send(j) == j[2] = "metadata" /\ upload[j].step = "send" /\ upload[j].of = s
<1>1. "writing" \in Place /\ "done" \in Place
  BY DEF Place
<1>2. UNCHANGED <<fixed, bucket, deleted, stuck, partial, unnamed>>
  BY DEF OpenMetadata
<1>3. CASE Moves(c, "metadata", "done") /\ UNCHANGED <<dir, saved, upload>>
  BY <1>1, <1>2, <1>3, MovesType, QuietStep DEF history, IInv, RecordingsTypeOK
<1>4. CASE /\ Moves(c, "metadata", "writing")
           /\ Create(c, "metadata", Own(s))
           /\ upload' = [j \in Job |-> IF send(j) THEN [upload[j] EXCEPT !.whole = FALSE]
                                                  ELSE upload[j]]
  <2>1. at' \in [Call -> Place]
    BY <1>1, <1>4, MovesType DEF IInv, RecordingsTypeOK
  <2>2. \A j \in Job : upload[j] \in Step
    BY DEF IInv, RecordingsTypeOK
  <2>3. \A j \in Job : send(j) => upload[j] \in Busy
    BY <2>2 DEF Step, Idle, Open
  <2>4. \A j \in Job : /\ upload'[j] \in Step /\ upload'[j].step = upload[j].step
                       /\ upload[j].step = "send" => upload'[j].of = upload[j].of
    BY <1>4, <2>2, <2>3 DEF Step, Busy
  <2>5. upload' = [j \in Job |-> upload'[j]]
    BY <1>4
  <2>6. upload' \in [Job -> Step]
    BY <2>4, <2>5
  <2> QED
    BY <1>2, <1>4, <2>1, <2>4, <2>6, CreateStep
<1> QED
  BY <1>3, <1>4 DEF OpenMetadata

(* A file that is renamed takes the place of one that has its final name, and *)
(* its upload begins.                                                         *)
LEMMA RenameStep ==
  ASSUME IInv, NEW c \in Call, NEW k \in {"video", "log"}, NEW next \in Place, Rename(c, k, next)
  PROVE  IInv'
<1> DEFINE s   == About[c]
           old == Named(k, Temporary(s))
           new == Final(s, k)
           w   == [f \in old |-> [f EXCEPT !.name = new]]
<1>1. s \in Session /\ k \in Kind /\ <<c, k>> \in Job
  BY CallAssumption DEF Kind, Job
<1>2. /\ at' \in [Call -> Place]
      /\ UNCHANGED <<fixed, bucket, saved, deleted, stuck, partial>>
  BY MovesType DEF Rename, IInv, RecordingsTypeOK
<1>3. CASE /\ unnamed' = IF old # {} THEN unnamed \cup {<<s, k>>} ELSE unnamed
           /\ UNCHANGED <<dir, upload>>
  <2>1. unnamed' \subseteq Session \X Kind
    BY <1>1, <1>3 DEF IInv, RecordingsTypeOK
  <2>2. RecordingsTypeOK' /\ FilesNamed'
    BY <1>2, <1>3, <2>1 DEF IInv, RecordingsTypeOK, FilesNamed, Final, fixed
  <2>3. \A t \in Session, i \in Kind : InDir(t, i) => InDir(t, i)'
    BY <1>3 DEF InDir
  <2> QED
    BY <1>2, <1>3, <2>2, <2>3, DirStep
<1>4. CASE /\ dir' = (dir \ (old \cup Named(k, new))) \cup {[f EXCEPT !.name = new] : f \in old}
           /\ upload' = [upload EXCEPT ![<<c, k>>] = Open]
           /\ old # {} /\ UNCHANGED unnamed
  <2>1. UNCHANGED <<want, name, made, bucket, saved, deleted, stuck, partial, unnamed>>
    BY <1>2, <1>4 DEF fixed
  <2>2. \A f \in old : f \in dir /\ f \in File /\ f.kind = k /\ f.of = s
    BY <1>1, TemporaryFiles
  <2>3. new \in Name
    BY <1>1, FinalNames DEF IInv, RecordingsTypeOK
  <2>4. /\ w \in [old -> File]
        /\ \A f \in old : w[f].kind = k /\ w[f].name = new /\ w[f].of = s
    BY <2>2, <2>3 DEF File
  <2>5. dir' = (dir \ (old \cup Named(k, new))) \cup {w[f] : f \in old}
    BY <1>4
  <2>6. /\ \A f \in dir : f \in Named(k, new) <=> f.kind = k /\ f.name = new
        /\ \A f \in dir : f \in old <=> f.kind = k /\ f.name = Temporary(s)
    BY DEF Named
  <2>7. \A f \in Named(k, new) : f.of \in Session /\ f.kind = k /\ (f.of = s \/ Shares(f.of))
    BY <1>1, FinalFiles
  <2>8. new = Final(s, k)
    OBVIOUS
  <2> HIDE DEF s, new, old, w
  <2>9. \A f, g \in dir' : f.kind = g.kind /\ f.name = g.name => f = g
    <3>1. \A f, g \in old : f = g
      BY <2>2, <2>6 DEF IInv, RecordingsTypeOK
    <3>2. \A f, g \in dir : f.kind = g.kind /\ f.name = g.name => f = g
      BY DEF IInv, RecordingsTypeOK
    <3> QED
      BY <2>4, <2>5, <2>6, <3>1, <3>2
  <2>10. upload' \in [Job -> Step]
    BY <1>1, <1>4 DEF IInv, RecordingsTypeOK, Step
  <2>11. dir' \subseteq File
    BY <2>4, <2>5 DEF IInv, RecordingsTypeOK
  <2>12. RecordingsTypeOK'
    BY <1>2, <2>1, <2>9, <2>10, <2>11 DEF IInv, RecordingsTypeOK
  <2>13. FilesNamed'
    BY <2>1, <2>4, <2>5, <2>8 DEF IInv, FilesNamed, Final
  <2>14. \A j \in Job : upload'[j].step \in {"send", "remove"} => upload'[j] = upload[j]
    BY <1>1, <1>4 DEF IInv, RecordingsTypeOK, Step, Open
  <2>15. SendsNamed' /\ RemovalsSent' /\ ObjectsNamed' /\ NamesChosen'
    BY <2>1, <2>14 DEF IInv, SendsNamed, RemovalsSent, ObjectsNamed, NamesChosen, Final
  <2>16. Kept'
    <3>1. ASSUME NEW t \in Session, NEW i \in Kind, InDir(t, i)
          PROVE  InDir(t, i)' \/ Shares(t)
      <4>1. PICK f \in dir : f.of = t /\ f.kind = i
        BY <3>1 DEF InDir
      <4>2. CASE f \in old
        BY <2>2, <2>4, <2>5, <4>1, <4>2 DEF InDir
      <4>3. CASE f \in Named(k, new) /\ t = s
        <5>1. PICK g \in old : TRUE
          BY <1>4
        <5> QED
          BY <2>4, <2>5, <2>7, <4>1, <4>3, <5>1 DEF InDir
      <4>4. CASE f \in Named(k, new) /\ t # s
        BY <2>7, <4>1, <4>4
      <4>5. CASE f \notin old \cup Named(k, new)
        BY <2>5, <4>1, <4>5 DEF InDir
      <4> QED
        BY <4>2, <4>3, <4>4, <4>5
    <3> QED
      BY <2>1, <3>1 DEF IInv, Kept, InBucket, Shares
  <2> QED
    BY <2>12, <2>13, <2>15, <2>16 DEF IInv
<1> QED
  BY <1>3, <1>4 DEF Rename

------------------------------------------------------------------------------
(* Where an upload goes; the directory stays as it is. *)
LEMMA UploadStep ==
  ASSUME IInv, NEW j \in Job, NEW step \in Step,
         upload' = [upload EXCEPT ![j] = step],
         UNCHANGED <<fixed, at, dir, history>>,
         bucket' \subseteq Object, ObjectsNamed',
         step.step = "send" => Final(step.of, j[2]) = Final(About[j[1]], j[2]),
         step.step = "remove" => \E o \in bucket' : o.kind = j[2] /\ o.name = Final(About[j[1]], j[2]),
         \A o \in bucket : \E b \in bucket' : b.kind = o.kind /\ b.name = o.name,
         \A t \in Session, k \in Kind : InBucket(t, k) => InBucket(t, k)' \/ Shares(t)
  PROVE  IInv'
<1>1. UNCHANGED <<want, name, made, at, dir, saved, deleted, stuck, partial, unnamed>>
  BY DEF fixed, history
<1>2. \A i \in Job : upload'[i] = IF i = j THEN step ELSE upload[i]
  BY DEF IInv, RecordingsTypeOK
<1>3. upload' \in [Job -> Step]
  BY DEF IInv, RecordingsTypeOK
<1>4. RecordingsTypeOK'
  BY <1>1, <1>3 DEF IInv, RecordingsTypeOK
<1>5. FilesNamed' /\ NamesChosen'
  BY <1>1 DEF IInv, FilesNamed, NamesChosen, Final
<1>6. SendsNamed'
  BY <1>1, <1>2 DEF IInv, SendsNamed, Final
<1>7. RemovalsSent'
  <2>1. ASSUME NEW i \in Job, upload'[i].step = "remove"
        PROVE  \E o \in bucket' : o.kind = i[2] /\ o.name = Final(About[i[1]], i[2])
    BY <1>2, <2>1 DEF IInv, RemovalsSent
  <2> QED
    BY <1>1, <2>1 DEF RemovalsSent, Final
<1>8. Kept'
  BY <1>1 DEF IInv, Kept, InDir, Shares
<1> QED
  BY <1>4, <1>5, <1>6, <1>7, <1>8 DEF IInv

LEMMA JobType ==
  ASSUME NEW j \in Job
  PROVE  j[1] \in Call /\ j[2] \in Kind /\ About[j[1]] \in Session
BY CallAssumption DEF Job

LEMMA OpenFileStep ==
  ASSUME IInv, NEW j \in Job, OpenFile(j)
  PROVE  IInv'
<1>1. j[1] \in Call /\ j[2] \in Kind /\ About[j[1]] \in Session
  BY JobType
<1>2. UNCHANGED <<fixed, at, dir, bucket, history>> /\ UNCHANGED <<name, bucket>>
  BY DEF OpenFile, fixed
<1>3. /\ bucket' \subseteq Object /\ ObjectsNamed'
      /\ \A o \in bucket : \E b \in bucket' : b.kind = o.kind /\ b.name = o.name
      /\ \A t \in Session, k \in Kind : InBucket(t, k) => InBucket(t, k)'
  BY <1>2 DEF IInv, RecordingsTypeOK, ObjectsNamed, InBucket, Final
<1>4. CASE Upload(j, "open", Idle)
  <2>1. upload' = [upload EXCEPT ![j] = Idle] /\ Idle.step = "none" /\ Idle \in Step
    BY <1>4 DEF Upload, Idle, Step
  <2> QED
    BY <1>2, <1>3, <2>1, UploadStep
<1>5. ASSUME NEW f \in Target(j),
             Upload(j, "open", [step |-> "send", of |-> f.of, whole |-> Whole(f)])
      PROVE  IInv'
  <2> DEFINE step == [step |-> "send", of |-> f.of, whole |-> Whole(f)]
  <2>1. f.of \in Session /\ Final(f.of, j[2]) = Final(About[j[1]], j[2])
    BY <1>1, FinalFiles DEF Target
  <2>2. step \in Step /\ step.step = "send" /\ step.of = f.of
    BY <2>1 DEF Step, Busy, Whole
  <2>3. upload' = [upload EXCEPT ![j] = step]
    BY <1>5 DEF Upload
  <2> HIDE DEF step
  <2> QED
    BY <1>2, <1>3, <2>1, <2>2, <2>3, UploadStep
<1> QED
  BY <1>4, <1>5 DEF OpenFile

(* An object replaces that of the same key, which is of a namesake. *)
LEMMA SendStep ==
  ASSUME IInv, NEW j \in Job, Send(j)
  PROVE  IInv'
<1> DEFINE key == Final(About[j[1]], j[2])
           new == [kind |-> j[2], name |-> key, of |-> upload[j].of, whole |-> upload[j].whole]
           step == IF Keep THEN Idle ELSE [step |-> "remove"]
<1>1. j[1] \in Call /\ j[2] \in Kind /\ About[j[1]] \in Session
  BY JobType
<1>2. UNCHANGED <<fixed, at, dir, history>> /\ UNCHANGED name
  BY DEF Send, fixed
<1>3. CASE Upload(j, "send", Idle) /\ UNCHANGED bucket
  <2>1. upload' = [upload EXCEPT ![j] = Idle] /\ Idle.step = "none" /\ Idle \in Step
    BY <1>3 DEF Upload, Idle, Step
  <2>2. /\ bucket' \subseteq Object /\ ObjectsNamed'
        /\ \A o \in bucket : \E b \in bucket' : b.kind = o.kind /\ b.name = o.name
        /\ \A t \in Session, k \in Kind : InBucket(t, k) => InBucket(t, k)'
    BY <1>2, <1>3 DEF IInv, RecordingsTypeOK, ObjectsNamed, InBucket, Final
  <2> QED
    BY <1>2, <2>1, <2>2, UploadStep
<1>4. CASE /\ Upload(j, "send", step)
           /\ bucket' = {o \in bucket : o.kind # j[2] \/ o.name # key} \cup {new}
  <2>1. /\ upload[j].step = "send" /\ upload' = [upload EXCEPT ![j] = step]
        /\ step \in {Idle, [step |-> "remove"]}
    BY <1>4 DEF Upload
  <2>2. upload[j] \in Busy
    BY <2>1 DEF IInv, RecordingsTypeOK, Step, Idle, Open
  <2>3. upload[j].of \in Session /\ Final(upload[j].of, j[2]) = key
    BY <2>1, <2>2 DEF Busy, IInv, SendsNamed
  <2>4. key \in Name
    BY <1>1, FinalNames DEF IInv, RecordingsTypeOK
  <2>5. /\ new \in Object /\ new.kind = j[2] /\ new.name = key /\ new.of = upload[j].of
        /\ new.name = Final(new.of, new.kind)
    BY <1>1, <2>2, <2>3, <2>4 DEF Object, Busy
  <2>6. step.step # "send"
    BY <2>1 DEF Idle
  <2> HIDE DEF new, step
  <2>7. bucket' \subseteq Object
    BY <1>4, <2>5 DEF IInv, RecordingsTypeOK
  <2>8. ObjectsNamed'
    BY <1>2, <1>4, <2>5 DEF IInv, ObjectsNamed, Final
  <2>9. \A o \in bucket : \E b \in bucket' : b.kind = o.kind /\ b.name = o.name
    BY <1>4, <2>5
  <2>10. \E o \in bucket' : o.kind = j[2] /\ o.name = key
    BY <1>4, <2>5
  <2>11. ASSUME NEW t \in Session, NEW k \in Kind, InBucket(t, k)
         PROVE  InBucket(t, k)' \/ Shares(t)
    <3>1. PICK o \in bucket : o.of = t /\ o.kind = k
      BY <2>11 DEF InBucket
    <3>2. CASE o \in bucket'
      BY <3>1, <3>2 DEF InBucket
    <3>3. CASE o \notin bucket'
      <4>1. k = j[2] /\ o.name = key
        BY <1>4, <3>1, <3>3
      <4>2. Final(t, k) = Final(upload[j].of, k)
        BY <2>3, <3>1, <4>1 DEF IInv, ObjectsNamed
      <4>3. upload[j].of = t \/ Shares(t)
        BY <2>3, <4>2, FinalNames DEF IInv, RecordingsTypeOK
      <4>4. upload[j].of = t => InBucket(t, k)'
        BY <1>4, <2>5, <4>1 DEF InBucket
      <4> QED
        BY <4>3, <4>4
    <3> QED
      BY <3>2, <3>3
  <2> HIDE DEF key
  <2>12. /\ step \in Step
         /\ \E o \in bucket' : o.kind = j[2] /\ o.name = Final(About[j[1]], j[2])
    BY <2>1, <2>10 DEF key, Step
  <2> QED
    BY <1>2, <2>1, <2>6, <2>7, <2>8, <2>9, <2>11, <2>12, UploadStep
<1> QED
  BY <1>3, <1>4 DEF Send

(* What is removed from the directory is in the bucket. *)
LEMMA RemoveUploadedStep ==
  ASSUME IInv, NEW j \in Job, RemoveUploaded(j)
  PROVE  IInv'
<1> DEFINE s == About[j[1]]
           k == j[2]
<1>1. j[1] \in Call /\ k \in Kind /\ s \in Session
  BY JobType
<1>2. /\ UNCHANGED <<fixed, at, bucket, history>>
      /\ UNCHANGED <<want, name, made, at, bucket, saved, deleted, stuck, partial, unnamed>>
      /\ dir' = dir \ Named(k, Final(s, k))
      /\ upload[j].step = "remove" /\ upload' = [upload EXCEPT ![j] = Idle]
  BY DEF RemoveUploaded, Upload, Target, fixed, history
<1>3. \A i \in Job : upload'[i] = IF i = j THEN Idle ELSE upload[i]
  BY <1>2 DEF IInv, RecordingsTypeOK
<1>4. RecordingsTypeOK'
  <2>1. upload' \in [Job -> Step]
    BY <1>2 DEF IInv, RecordingsTypeOK, Step
  <2>2. dir' \subseteq dir
    BY <1>2
  <2> QED
    BY <1>2, <2>1, <2>2 DEF IInv, RecordingsTypeOK
<1>5. FilesNamed' /\ NamesChosen' /\ ObjectsNamed'
  BY <1>2 DEF IInv, FilesNamed, NamesChosen, ObjectsNamed, Final
<1>6. SendsNamed' /\ RemovalsSent'
  BY <1>2, <1>3 DEF IInv, SendsNamed, RemovalsSent, Final, Idle
<1>7. ASSUME NEW t \in Session, NEW i \in Kind, InDir(t, i), ~InDir(t, i)', ~Shares(t)
      PROVE  InBucket(t, i)
  <2>1. PICK f \in dir : f.of = t /\ f.kind = i
    BY <1>7 DEF InDir
  <2>2. f \in Named(k, Final(s, k))
    BY <1>2, <1>7, <2>1 DEF InDir
  <2>3. i = k /\ t = s
    BY <1>1, <1>7, <2>1, <2>2, FinalFiles
  <2>4. PICK o \in bucket : o.kind = k /\ o.name = Final(s, k)
    BY <1>2 DEF IInv, RemovalsSent
  <2>5. o.of \in Session /\ o.name = Final(o.of, k)
    BY <2>4 DEF IInv, RecordingsTypeOK, Object, ObjectsNamed
  <2>6. o.of = s
    BY <1>1, <1>7, <2>3, <2>4, <2>5, FinalNames DEF IInv, RecordingsTypeOK
  <2> QED
    BY <2>3, <2>4, <2>6 DEF InBucket
<1>8. Kept'
  BY <1>2, <1>7 DEF IInv, Kept, InBucket, Shares
<1> QED
  BY <1>4, <1>5, <1>6, <1>8 DEF IInv

(* What a client deletes is noted. *)
LEMMA DeleteStep ==
  ASSUME IInv, NEW f \in dir, Delete(f)
  PROVE  IInv'
<1>1. /\ UNCHANGED <<fixed, at, upload, bucket, saved, stuck, partial, unnamed>>
      /\ UNCHANGED <<want, name, made>>
      /\ dir' = dir \ {f} /\ deleted' = deleted \cup {<<f.of, f.kind>>}
  BY DEF Delete, fixed
<1>2. f \in File
  BY DEF IInv, RecordingsTypeOK
<1>3. RecordingsTypeOK'
  <2>1. deleted' \subseteq Session \X Kind
    BY <1>1, <1>2 DEF IInv, RecordingsTypeOK, File
  <2>2. dir' \subseteq dir
    BY <1>1
  <2> QED
    BY <1>1, <2>1, <2>2 DEF IInv, RecordingsTypeOK
<1>4. FilesNamed'
  BY <1>1 DEF IInv, FilesNamed, Final
<1>5. \A s \in Session, k \in Kind : InDir(s, k) => InDir(s, k)' \/ <<s, k>> \in deleted'
  BY <1>1 DEF InDir
<1> QED
  BY <1>1, <1>3, <1>4, <1>5, DirStep

------------------------------------------------------------------------------
LEMMA CancelStep ==
  ASSUME IInv, NEW c \in Call, Begin(c) \/ Cancel(c)
  PROVE  IInv'
<1>1. About[c] \in Session
  BY CallAssumption
<1>2. {AfterLog(About[c]), AfterVideo(About[c]), Stopped(About[c]), AfterRecorder(About[c])} \subseteq Place
  BY Places
<1>3. CASE Begin(c)
  <2>1. at' \in [Call -> Place]
    BY <1>2, <1>3, MovesType DEF Begin, IInv, RecordingsTypeOK, Place
  <2> QED
    BY <1>3, <2>1, QuietStep DEF Begin
<1>4. CASE NoLog(c)
  <2>1. at' \in [Call -> Place]
    BY <1>2, <1>4, MovesType DEF NoLog, IInv, RecordingsTypeOK
  <2> QED
    BY <1>4, <2>1, QuietStep DEF NoLog
<1>5. CASE RenameVideo(c)
  BY <1>2, <1>5, RenameStep DEF RenameVideo
<1>6. CASE RenameLog(c)
  BY <1>2, <1>6, RenameStep DEF RenameLog
<1> QED
  BY <1>3, <1>4, <1>5, <1>6, StopRecorderStep, OpenLogStep, CloseLogStep,
     OpenMetadataStep, CloseMetadataStep DEF Cancel

LEMMA Inductive == IInv /\ [Next]_vars => IInv'
<1> SUFFICES ASSUME IInv, [Next]_vars
             PROVE  IInv'
  OBVIOUS
<1>1. CASE UNCHANGED vars
  <2>1. UNCHANGED <<fixed, dir, upload, bucket, history>> /\ at' \in [Call -> Place]
    BY <1>1 DEF vars, IInv, RecordingsTypeOK
  <2> QED
    BY <2>1, QuietStep
<1>2. ASSUME NEW j \in Job, Handle(j)
      PROVE  IInv'
  BY <1>2, OpenFileStep, SendStep, RemoveUploadedStep DEF Handle
<1> QED
  BY <1>1, <1>2, CancelStep, DeleteStep DEF Next

LEMMA Invariance == Spec => []IInv
<1> QED
  BY InitIInv, Inductive, PTL DEF Spec

------------------------------------------------------------------------------
(* A call of Cancel only goes forward. *)
LEMMA CallMoves ==
  ASSUME IInv, NEW c \in Call, NEW from, NEW to, Moves(c, from, to)
  PROVE  /\ at[c] = from /\ at'[c] = to
         /\ \A d \in Call \ {c} : at'[d] = at[d]
BY DEF Moves, IInv, RecordingsTypeOK

LEMMA NeverIdleAgain ==
  ASSUME IInv, [Next]_vars
  PROVE  \A c \in Call : at[c] # "idle" => at'[c] # "idle"
<1> USE DEF AfterLog, AfterVideo, Stopped, AfterRecorder
<1>1. ASSUME NEW c \in Call, Begin(c)
      PROVE  \A d \in Call : at[d] # "idle" => at'[d] # "idle"
  BY <1>1, CallMoves DEF Begin
<1>2. ASSUME NEW c \in Call, Cancel(c)
      PROVE  \A d \in Call : at[d] # "idle" => at'[d] # "idle"
  <2>1. CASE StopRecorder(c) \/ OpenLog(c) \/ NoLog(c) \/ CloseLog(c)
    BY <2>1, CallMoves DEF StopRecorder, OpenLog, NoLog, CloseLog
  <2>2. CASE RenameVideo(c) \/ RenameLog(c) \/ OpenMetadata(c) \/ CloseMetadata(c)
    BY <2>2, CallMoves DEF RenameVideo, RenameLog, Rename, OpenMetadata, CloseMetadata
  <2> QED
    BY <1>2, <2>1, <2>2 DEF Cancel
<1>3. ASSUME UNCHANGED at
      PROVE  \A d \in Call : at[d] # "idle" => at'[d] # "idle"
  BY <1>3
<1> QED
  BY <1>1, <1>2, <1>3 DEF Next, vars, Handle, OpenFile, Send, RemoveUploaded, Delete

LEMMA HistoryStays ==
  ASSUME [Next]_vars
  PROVE  /\ stuck \subseteq stuck' /\ partial \subseteq partial' /\ unnamed \subseteq unnamed'
         /\ UNCHANGED <<want, name, made>>
<1> DEFINE Stays == /\ stuck \subseteq stuck' /\ partial \subseteq partial' /\ unnamed \subseteq unnamed'
                    /\ UNCHANGED <<want, name, made>>
<1> USE DEF fixed, history
<1>1. ASSUME NEW c \in Call, Begin(c) \/ Cancel(c)
      PROVE  Stays
  BY <1>1 DEF Begin, Cancel, StopRecorder, OpenLog, NoLog, CloseLog, RenameVideo, RenameLog,
              Rename, OpenMetadata, CloseMetadata
<1>2. ASSUME NEW j \in Job, Handle(j)
      PROVE  Stays
  BY <1>2 DEF Handle, OpenFile, Send, RemoveUploaded
<1> QED
  BY <1>1, <1>2 DEF Next, vars, Delete

(* What has excused a file once does so for good. *)
LEMMA ExcusedStays ==
  ASSUME IInv, [Next]_vars, NEW k, NEW s, Excused(k, s)
  PROVE  Excused(k, s)'
BY NeverIdleAgain, HistoryStays DEF Excused, Twice

LEMMA TwiceStays ==
  ASSUME IInv, [Next]_vars, NEW s, Twice(s)
  PROVE  Twice(s)'
BY NeverIdleAgain DEF Twice

(* What has been uploaded is excused as before. *)
LEMMA BucketExcused ==
  ASSUME IInv, [Next]_vars, UploadedWhole, UNCHANGED bucket
  PROVE  UploadedWhole'
BY HistoryStays, TwiceStays DEF UploadedWhole

------------------------------------------------------------------------------
(* At the start only recorders write. *)
LEMMA InitWhole == Init => WInv /\ RInv
<1> SUFFICES ASSUME Init
             PROVE  WInv /\ RInv
  OBVIOUS
<1> DEFINE new(v) == [kind |-> "video", name |-> Temporary(v[1]), of |-> v[1],
                      writers |-> {"recorder"}, cut |-> FALSE]
<1>1. \A c \in Call : at[c] = "idle"
  BY DEF Init
<1>2. dir = {new(v) : v \in saved} /\ saved = {<<s, "video">> : s \in {x \in Session : "video" \in want[x]}}
  BY DEF Init
<1>3. \A f \in dir : f.kind = "video" /\ f.name = Temporary(f.of) /\ "video" \in want[f.of]
                   /\ f.writers = {"recorder"} /\ f.cut = FALSE
  <2>1. ASSUME NEW v \in saved
        PROVE  /\ new(v).kind = "video" /\ new(v).name = Temporary(new(v).of)
               /\ "video" \in want[new(v).of]
               /\ new(v).writers = {"recorder"} /\ new(v).cut = FALSE
    BY <1>2
  <2> QED
    BY <1>2, <2>1
<1>4. \A j \in Job : upload[j].step = "none"
  BY DEF Init, Idle
<1> HIDE DEF new
<1>5. WInv
  <2>1. \A c \in Call : upload[<<c, "metadata">>].step = "none"
    BY <1>4 DEF Job, Kind
  <2> QED
    BY <1>1, <1>3, <1>4, <2>1
       DEF Init, WInv, LogsAsked, FilesAsked, WritersAtWork, RecordersRun, CutsKnown, FilesWhole,
           SendsWhole, Announced, MetadataWhole, UploadedWhole
<1>6. RInv
  BY <1>1, <1>3 DEF RInv, VideosRenamed, LogsRenamed
<1> QED
  BY <1>5, <1>6

(* Steps after which each file was there before, with the same name and       *)
(* perhaps fewer writers, and the uploads and the bucket are as they were,    *)
(* while a call goes on.                                                      *)
LEMMA FilesStay ==
  ASSUME IInv, WInv, RInv, [Next]_vars, NEW c \in Call, NEW from, NEW to, Moves(c, from, to),
         UNCHANGED <<upload, bucket>>,
         \A g \in dir' : \E f \in dir :
           /\ g.kind = f.kind /\ g.name = f.name /\ g.of = f.of /\ g.writers \subseteq f.writers
           /\ f.kind = "log" /\ from = "copying" => c \notin g.writers
           /\ g.cut => f.cut \/ (f.kind = "log" /\ f.of \in partial')
           /\ f.kind = "video" /\ f.of = About[c] /\ from \in {"idle", "recorder"} =>
                g.writers = {} \/ f.of \in stuck' \/ to = "recorder",
         to # "writing",
         to \in {"logs", "copying"} => "log" \in want[About[c]],
         "video" \in want[About[c]] /\ About[c] \in made => to \notin {"log", "metadata", "done"},
         from \in {"idle", "recorder", "logs", "copying"},
         from = "copying" /\ "log" \in want[About[c]] /\ About[c] \in made => to \in {"video", "log"}
  PROVE  WInv' /\ RInv'
<1> DEFINE s == About[c]
<1>1. at[c] = from /\ at'[c] = to /\ \A d \in Call \ {c} : at'[d] = at[d]
  BY CallMoves
<1>2. /\ stuck \subseteq stuck' /\ partial \subseteq partial' /\ unnamed \subseteq unnamed'
      /\ UNCHANGED <<want, name, made>>
  BY HistoryStays
<1>3. LogsAsked'
  BY <1>1, <1>2 DEF WInv, LogsAsked
<1>4. FilesAsked'
  BY <1>2 DEF WInv, FilesAsked
<1>5. WritersAtWork'
  BY <1>1 DEF WInv, WritersAtWork
<1>6. RecordersRun'
  BY <1>1, <1>2 DEF WInv, RecordersRun
<1>7. CutsKnown'
  BY <1>2 DEF WInv, CutsKnown
<1>8. FilesWhole'
  <2>1. ASSUME NEW g \in dir', g.kind # "metadata", ~Whole(g), g.name # Temporary(g.of)
        PROVE  Excused(g.kind, g.of)'
    <3>1. PICK f \in dir : /\ g.kind = f.kind /\ g.name = f.name /\ g.of = f.of
                           /\ g.writers \subseteq f.writers
                           /\ g.cut => f.cut \/ (f.kind = "log" /\ f.of \in partial')
      OBVIOUS
    <3>2. CASE ~Whole(f)
      BY <2>1, <3>1, <3>2, ExcusedStays DEF WInv, FilesWhole
    <3>3. CASE Whole(f)
      BY <2>1, <3>1, <3>3 DEF Whole, Excused
    <3> QED
      BY <3>2, <3>3
  <2> QED
    BY <2>1 DEF FilesWhole, Whole
<1>9. SendsWhole' /\ UploadedWhole'
  BY ExcusedStays, BucketExcused DEF WInv, SendsWhole
<1>12. Announced'
  BY <1>1 DEF WInv, Announced
<1>13. MetadataWhole'
  <2>1. ASSUME NEW g \in dir', g.kind = "metadata", g.name = Own(g.of), ~Twice(g.of)',
               NEW d \in Call, About[d] = g.of
        PROVE  (g.cut => at'[d] # "writing") /\ (~Whole(g) => upload'[<<d, "metadata">>].step = "none")
    <3>1. PICK f \in dir : /\ g.kind = f.kind /\ g.name = f.name /\ g.of = f.of
                           /\ g.writers \subseteq f.writers
                           /\ g.cut => f.cut \/ f.kind = "log"
      OBVIOUS
    <3>2. ~Twice(f.of)
      BY <2>1, <3>1, TwiceStays
    <3>3. /\ f.cut => at[d] # "writing"
          /\ ~Whole(f) => upload[<<d, "metadata">>].step = "none"
      <4>1. f.kind = "metadata" /\ f.name = Own(f.of) /\ About[d] = f.of
        BY <2>1, <3>1
      <4>2. MetadataWhole
        BY DEF WInv
      <4> QED
        BY <3>2, <4>1, <4>2 DEF MetadataWhole
    <3>4. (g.cut => f.cut) /\ (~Whole(g) => ~Whole(f))
      BY <2>1, <3>1 DEF Whole
    <3>5. at'[d] = "writing" => at[d] = "writing"
      BY <1>1
    <3> QED
      BY <3>3, <3>4, <3>5
  <2> QED
    BY <2>1 DEF MetadataWhole, Whole
<1>10. VideosRenamed'
  BY <1>1, <1>2 DEF WInv, FilesAsked, RInv, VideosRenamed
<1>11. LogsRenamed'
  BY <1>1, <1>2 DEF WInv, FilesAsked, RInv, LogsRenamed
<1> QED
  BY <1>3, <1>4, <1>5, <1>6, <1>7, <1>8, <1>9, <1>10, <1>11, <1>12, <1>13 DEF WInv, RInv

(* Where a call goes when it has stopped the recorder or copied the log. *)
LEMMA NextPlaces ==
  ASSUME NEW s
  PROVE  /\ Stopped(s) \notin {"logs", "copying", "recorder", "idle", "writing"}
         /\ AfterRecorder(s) \notin {"copying", "recorder", "idle", "writing"}
         /\ AfterRecorder(s) = "logs" => "log" \in want[s]
         /\ "video" \in want[s] /\ s \in made => Stopped(s) = "video" /\ AfterRecorder(s) \in {"logs", "video"}
         /\ "log" \in want[s] /\ s \in made => Stopped(s) \in {"video", "log"}
BY DEF AfterLog, AfterVideo, Stopped, AfterRecorder

LEMMA BeginWhole ==
  ASSUME IInv, WInv, RInv, [Next]_vars, NEW c \in Call, Begin(c)
  PROVE  WInv' /\ RInv'
<1> DEFINE to == IF "video" \in want[About[c]] THEN "recorder" ELSE AfterRecorder(About[c])
<1>1. Moves(c, "idle", to) /\ UNCHANGED <<dir, upload, bucket>>
  BY DEF Begin
<1>2. \A f \in dir : f.kind = "video" /\ f.of = About[c] => to = "recorder"
  BY DEF WInv, FilesAsked
<1>3. /\ to \in {"logs", "copying"} => "log" \in want[About[c]]
      /\ "video" \in want[About[c]] => to \notin {"log", "metadata", "done"}
      /\ to # "writing"
  BY NextPlaces
<1> HIDE DEF to
<1> QED
  BY <1>1, <1>2, <1>3, FilesStay

LEMMA StopRecorderWhole ==
  ASSUME IInv, WInv, RInv, [Next]_vars, NEW c \in Call, StopRecorder(c)
  PROVE  WInv' /\ RInv'
<1> DEFINE s  == About[c]
           to == AfterRecorder(s)
<1>1. Moves(c, "recorder", to) /\ UNCHANGED <<upload, bucket>>
  BY DEF StopRecorder
<1>2. \A g \in dir' : \E f \in dir :
        /\ g.kind = f.kind /\ g.name = f.name /\ g.of = f.of /\ g.writers \subseteq f.writers
        /\ g.cut = f.cut
        /\ f.kind = "video" /\ f.of = s => g.writers = {} \/ f.of \in stuck'
  <2>1. CASE dir' = {IF f.of = s /\ f.kind = "video" THEN [f EXCEPT !.writers = {}] ELSE f : f \in dir}
    <3>1. ASSUME NEW f \in dir
          PROVE  LET g == IF f.of = s /\ f.kind = "video" THEN [f EXCEPT !.writers = {}] ELSE f
                 IN /\ g.kind = f.kind /\ g.name = f.name /\ g.of = f.of /\ g.writers \subseteq f.writers
                    /\ g.cut = f.cut
                    /\ f.kind = "video" /\ f.of = s => g.writers = {}
      <4>1. f \in File
        BY DEF IInv, RecordingsTypeOK
      <4> QED
        BY <4>1 DEF File
    <3> QED
      BY <2>1, <3>1
  <2>2. CASE stuck' = stuck \cup {s} /\ UNCHANGED dir
    BY <2>2
  <2> QED
    BY <2>1, <2>2 DEF StopRecorder
<1>3. /\ to \in {"logs", "copying"} => "log" \in want[s]
      /\ "video" \in want[s] /\ s \in made => to \notin {"log", "metadata", "done"}
      /\ to # "writing"
  BY NextPlaces
<1>4. /\ Moves(c, "recorder", to)
      /\ \A g \in dir' : \E f \in dir :
           /\ g.kind = f.kind /\ g.name = f.name /\ g.of = f.of /\ g.writers \subseteq f.writers
           /\ g.cut = f.cut
           /\ f.kind = "video" /\ f.of = About[c] => g.writers = {} \/ f.of \in stuck'
      /\ to \in {"logs", "copying"} => "log" \in want[About[c]]
      /\ "video" \in want[About[c]] /\ About[c] \in made => to \notin {"log", "metadata", "done"}
      /\ to # "writing"
  BY <1>1, <1>2, <1>3 DEF s
<1> HIDE DEF to, s
<1>5. \A g \in dir' : \E f \in dir :
        /\ g.kind = f.kind /\ g.name = f.name /\ g.of = f.of /\ g.writers \subseteq f.writers
        /\ f.kind = "log" /\ "recorder" = "copying" => c \notin g.writers
        /\ g.cut => f.cut \/ (f.kind = "log" /\ f.of \in partial')
        /\ f.kind = "video" /\ f.of = About[c] /\ "recorder" \in {"idle", "recorder"} =>
             g.writers = {} \/ f.of \in stuck' \/ to = "recorder"
  BY <1>4
<1> QED
  BY <1>1, <1>4, <1>5, FilesStay

LEMMA NoLogWhole ==
  ASSUME IInv, WInv, RInv, [Next]_vars, NEW c \in Call, NoLog(c)
  PROVE  WInv' /\ RInv'
<1>1. Moves(c, "logs", Stopped(About[c])) /\ UNCHANGED <<dir, upload, bucket>>
  BY DEF NoLog
<1> QED
  BY <1>1, NextPlaces, FilesStay

(* A call closes the file that it writes, and no other. *)
LEMMA Closed ==
  ASSUME IInv, WInv, NEW c \in Call, NEW cut \in BOOLEAN, Close(c, cut), NEW g \in dir'
  PROVE  \E f \in dir :
           /\ g.kind = f.kind /\ g.name = f.name /\ g.of = f.of /\ g.writers = f.writers \ {c}
           /\ IF c \in f.writers
                THEN /\ g.cut = (f.cut \/ cut) /\ About[c] = f.of
                     /\ \/ f.kind = "log" /\ at[c] = "copying"
                        \/ f.kind = "metadata" /\ at[c] = "writing"
                ELSE g = f
<1>1. PICK f \in dir : g = IF c \in f.writers
                             THEN [f EXCEPT !.writers = @ \ {c}, !.cut = @ \/ cut] ELSE f
  BY DEF Close
<1>2. f \in File
  BY DEF IInv, RecordingsTypeOK
<1>3. /\ g.kind = f.kind /\ g.name = f.name /\ g.of = f.of /\ g.writers = f.writers \ {c}
      /\ c \in f.writers => g.cut = (f.cut \/ cut)
      /\ c \notin f.writers => g = f
  BY <1>1, <1>2 DEF File
<1>4. c \in f.writers => /\ About[c] = f.of
                         /\ \/ f.kind = "log" /\ at[c] = "copying"
                            \/ f.kind = "metadata" /\ at[c] = "writing"
  BY <1>2, CallAssumption DEF WInv, WritersAtWork, File, Kind
<1> QED
  BY <1>3, <1>4

LEMMA CloseLogWhole ==
  ASSUME IInv, WInv, RInv, [Next]_vars, NEW c \in Call, CloseLog(c)
  PROVE  WInv' /\ RInv'
<1>1. Moves(c, "copying", Stopped(About[c])) /\ UNCHANGED <<upload, bucket>>
  BY DEF CloseLog
<1>2. PICK cut \in BOOLEAN : Close(c, cut) /\ (cut => About[c] \in partial')
  BY DEF CloseLog
<1>3. at[c] = "copying"
  BY <1>1, CallMoves
<1>4. \A g \in dir' : \E f \in dir :
        /\ g.kind = f.kind /\ g.name = f.name /\ g.of = f.of /\ g.writers \subseteq f.writers
        /\ g.cut => f.cut \/ (f.kind = "log" /\ f.of \in partial')
        /\ c \notin g.writers
  BY <1>2, <1>3, Closed
<1> QED
  BY <1>1, <1>4, NextPlaces, FilesStay

(* Where the calls are that write a file. *)
Making(k) == IF k = "log" THEN "copying" ELSE "writing"

(* A file that is truncated keeps its writers. *)
LEMMA Created ==
  ASSUME IInv, WInv, NEW c \in Call, NEW k, NEW n, Create(c, k, n),
         \/ k = "log" /\ n = Temporary(About[c])
         \/ k = "metadata" /\ n = Own(About[c])
  PROVE  \A g \in dir' :
           \/ g \in dir /\ ~(g.kind = k /\ g.name = n)
           \/ /\ g.kind = k /\ g.name = n /\ g.of = About[c] /\ ~g.cut
              /\ \A d \in g.writers : d = c \/
                   (d \in Call /\ About[d] = About[c] /\ at[d] = Making(k))
<1> DEFINE s   == About[c]
           old == Named(k, n)
           new == [kind |-> k, name |-> n, of |-> s, cut |-> FALSE,
                   writers |-> {c} \cup UNION {f.writers : f \in old}]
<1>1. s \in Session /\ k \in Kind
  BY CallAssumption DEF Kind
<1>2. dir' = (dir \ old) \cup {new}
  BY DEF Create
<1>3. \A f \in old : f \in dir /\ f.kind = k /\ f.of = s
  <2>1. CASE k = "log"
    BY <1>1, <2>1, TemporaryFiles
  <2>2. CASE k = "metadata"
    BY <1>1, <2>2, FinalFiles, NamesDiffer DEF Final
  <2> QED
    BY <2>1, <2>2
<1>4. \A f \in old : \A d \in f.writers :
        d \in Call /\ About[d] = s /\ at[d] = Making(k)
  BY <1>3 DEF WInv, WritersAtWork, Making
<1>5. /\ new.kind = k /\ new.name = n /\ new.of = s /\ ~new.cut
      /\ \A d \in new.writers : d = c \/ \E f \in old : d \in f.writers
  OBVIOUS
<1>6. \A f \in dir \ old : ~(f.kind = k /\ f.name = n)
  BY DEF Named
<1> HIDE DEF old, new
<1> QED
  BY <1>2, <1>4, <1>5, <1>6

LEMMA OpenLogWhole ==
  ASSUME IInv, WInv, RInv, [Next]_vars, NEW c \in Call, OpenLog(c)
  PROVE  WInv' /\ RInv'
<1> DEFINE s == About[c]
<1>1. s \in Session
  BY CallAssumption
<1>2. /\ Create(c, "log", Temporary(s)) /\ Moves(c, "logs", "copying")
      /\ UNCHANGED <<upload, bucket, stuck, partial, unnamed, want, name, made>>
  BY DEF OpenLog, fixed
<1>3. at[c] = "logs" /\ at'[c] = "copying" /\ \A d \in Call \ {c} : at'[d] = at[d]
  BY <1>2, CallMoves
<1>4. \A g \in dir' :
        \/ g \in dir
        \/ /\ g.kind = "log" /\ g.name = Temporary(s) /\ g.of = s /\ ~g.cut
           /\ \A d \in g.writers : d \in Call /\ About[d] = s /\ at'[d] = "copying"
  <2>1. Create(c, "log", Temporary(s))
    BY <1>2
  <2>2. \A g \in dir' :
          \/ g \in dir /\ ~(g.kind = "log" /\ g.name = Temporary(s))
          \/ /\ g.kind = "log" /\ g.name = Temporary(s) /\ g.of = s /\ ~g.cut
             /\ \A d \in g.writers : d = c \/
                  (d \in Call /\ About[d] = About[c] /\ at[d] = Making("log"))
    BY <2>1, Created
  <2> QED
    BY <1>3, <2>2 DEF Making
<1>5. s = About[c] /\ "log" \in want[s]
  BY <1>3 DEF WInv, LogsAsked
<1> HIDE DEF s
<1>6. LogsAsked' /\ FilesAsked'
  BY <1>2, <1>3, <1>4, <1>5 DEF WInv, LogsAsked, FilesAsked
<1>7. WritersAtWork'
  BY <1>3, <1>4 DEF WInv, WritersAtWork
<1>8. RecordersRun' /\ CutsKnown'
  BY <1>2, <1>3, <1>4 DEF WInv, RecordersRun, CutsKnown
<1>9. FilesWhole'
  BY <1>2, <1>4, ExcusedStays DEF WInv, FilesWhole, Whole
<1>10. SendsWhole' /\ UploadedWhole' /\ Announced'
  BY <1>2, <1>3, ExcusedStays, BucketExcused DEF WInv, SendsWhole, Announced
<1>11. MetadataWhole'
  BY <1>2, <1>3, <1>4, TwiceStays DEF WInv, MetadataWhole, Whole
<1>12. VideosRenamed'
  BY <1>2, <1>3, <1>4 DEF RInv, VideosRenamed
<1>13. LogsRenamed'
  BY <1>2, <1>3, <1>4, <1>5 DEF RInv, LogsRenamed
<1> QED
  BY <1>6, <1>7, <1>8, <1>9, <1>10, <1>11, <1>12, <1>13 DEF WInv, RInv

(* A file that is renamed is complete, or excused; one that is not has failed *)
(* to be.                                                                     *)
LEMMA RenameWhole ==
  ASSUME IInv, WInv, RInv, [Next]_vars, NEW c \in Call, NEW k \in {"video", "log"},
         NEW next \in {"log", "metadata", "done"}, Rename(c, k, next),
         k = "video" /\ "log" \in want[About[c]] => next = "log",
         k = "log" => next # "log"
  PROVE  WInv' /\ RInv'
<1> DEFINE s   == About[c]
           old == Named(k, Temporary(s))
           new == Final(s, k)
           w   == [f \in old |-> [f EXCEPT !.name = new]]
<1>1. s \in Session /\ k \in Kind
  BY CallAssumption DEF Kind
<1>2. /\ Moves(c, k, next) /\ UNCHANGED <<bucket, stuck, partial, want, name, made>>
      /\ unnamed \subseteq unnamed'
  BY DEF Rename, fixed
<1>3. at[c] = k /\ at'[c] = next /\ \A d \in Call \ {c} : at'[d] = at[d]
  BY <1>2, CallMoves
<1>4. \A f \in old : f \in dir /\ f \in File /\ f.kind = k /\ f.of = s /\ f.name = Temporary(s)
  BY <1>1, TemporaryFiles DEF Named
<1>5. \A f \in old : /\ w[f].kind = k /\ w[f].name = new /\ w[f].of = s
                     /\ w[f].writers = f.writers /\ w[f].cut = f.cut
  BY <1>4 DEF File
<1>6. \A g \in dir' : \/ g \in dir \ old
                      \/ \E f \in old : g = w[f]
                      \/ g \in old /\ <<s, k>> \in unnamed'
  BY DEF Rename
<1>7. /\ \A f \in dir \ old : f.kind = k => f.name # Temporary(s)
      /\ new # Temporary(s)
      /\ s = About[c]
  BY <1>1, FinalNames DEF Named, IInv, RecordingsTypeOK
<1>8. /\ \A j \in Job : upload'[j].step = "send" => upload'[j] = upload[j]
      /\ \A d \in Call : upload'[<<d, "metadata">>] = upload[<<d, "metadata">>]
  <2>1. upload' = upload \/ upload' = [upload EXCEPT ![<<c, k>>] = Open]
    BY DEF Rename
  <2>2. upload \in [Job -> Step] /\ <<c, k>> \in Job /\ \A d \in Call : <<d, "metadata">> \in Job
    BY <1>1 DEF IInv, RecordingsTypeOK, Job, Kind
  <2> QED
    BY <2>1, <2>2 DEF Open
<1> HIDE DEF s, new, old, w
<1>9. LogsAsked'
  BY <1>2, <1>3 DEF WInv, LogsAsked
<1>10. FilesAsked'
  BY <1>2, <1>4, <1>5, <1>6 DEF WInv, FilesAsked
<1>11. WritersAtWork'
  BY <1>3, <1>4, <1>5, <1>6 DEF WInv, WritersAtWork
<1>12. RecordersRun' /\ CutsKnown'
  BY <1>2, <1>3, <1>4, <1>5, <1>6 DEF WInv, RecordersRun, CutsKnown
<1>13. \A f \in old : ~Whole(f) => Excused(k, s)
  <2>1. CASE k = "video"
    BY <1>3, <1>4, <1>7, <2>1 DEF WInv, RecordersRun, CutsKnown, Excused, Whole
  <2>2. CASE k = "log"
    BY <1>3, <1>4, <1>7, <2>2 DEF WInv, WritersAtWork, CutsKnown, Excused, Twice, Whole
  <2> QED
    BY <2>1, <2>2
<1>14. FilesWhole'
  <2>1. \A f \in old : Whole(w[f]) <=> Whole(f)
    BY <1>5 DEF Whole
  <2>2. ASSUME NEW g \in dir', g.kind # "metadata", ~Whole(g), g.name # Temporary(g.of)
        PROVE  Excused(g.kind, g.of)'
    BY <1>4, <1>5, <1>6, <1>13, <2>1, <2>2, ExcusedStays DEF WInv, FilesWhole
  <2> QED
    BY <2>2 DEF FilesWhole, Whole
<1>15. SendsWhole' /\ UploadedWhole' /\ Announced'
  BY <1>2, <1>3, <1>8, ExcusedStays, BucketExcused DEF WInv, SendsWhole, Announced
<1>16. MetadataWhole'
  <2>1. \A g \in dir' : g.kind = "metadata" => g \in dir
    BY <1>4, <1>5, <1>6
  <2> QED
    BY <1>2, <1>3, <1>8, <2>1, TwiceStays DEF WInv, MetadataWhole, Whole
<1>17. VideosRenamed'
  BY <1>2, <1>3, <1>4, <1>5, <1>6, <1>7 DEF RInv, VideosRenamed
<1>18. LogsRenamed'
  <2>1. ASSUME NEW g \in dir', g.kind = "log", g.name = Temporary(g.of), g.of \in made,
               <<g.of, "log">> \notin unnamed'
        PROVE  \E d \in Call : About[d] = g.of /\ at'[d] \in {"copying", "video", "log"}
    <3>1. g \in dir \ old
      BY <1>4, <1>5, <1>6, <1>7, <2>1
    <3>2. PICK d \in Call : About[d] = g.of /\ at[d] \in {"copying", "video", "log"}
      BY <1>2, <2>1, <3>1 DEF RInv, LogsRenamed
    <3>3. d = c => k = "video" /\ "log" \in want[About[c]]
      BY <1>3, <1>7, <2>1, <3>1, <3>2 DEF WInv, FilesAsked
    <3> QED
      BY <1>3, <3>2, <3>3
  <2> QED
    BY <1>2, <2>1 DEF LogsRenamed
<1> QED
  BY <1>9, <1>10, <1>11, <1>12, <1>14, <1>15, <1>16, <1>17, <1>18 DEF WInv, RInv

(* Who sends the metadata that is truncated has been announced by another     *)
(* call.                                                                      *)
LEMMA OpenMetadataWhole ==
  ASSUME IInv, WInv, RInv, [Next]_vars, NEW c \in Call, OpenMetadata(c)
  PROVE  WInv' /\ RInv'
<1> DEFINE s == About[c]
           send(j) == j[2] = "metadata" /\ upload[j].step = "send" /\ upload[j].of = s
<1>1. s \in Session
  BY CallAssumption
<1>2. PICK to \in {"writing", "done"} : Moves(c, "metadata", to)
  BY DEF OpenMetadata
<1>3. /\ at[c] = "metadata" /\ at'[c] = to /\ \A d \in Call \ {c} : at'[d] = at[d]
      /\ UNCHANGED <<bucket, stuck, partial, unnamed, want, name, made>>
  BY <1>2, CallMoves DEF OpenMetadata, fixed
<1>4. \A g \in dir' :
        \/ g \in dir /\ (to = "writing" => ~(g.kind = "metadata" /\ g.name = Own(s)))
        \/ /\ g.kind = "metadata" /\ g.name = Own(s) /\ g.of = s /\ ~g.cut
           /\ to = "writing"
           /\ \A d \in g.writers : d \in Call /\ About[d] = s /\ at'[d] = "writing"
  <2>1. CASE to = "done"
    BY <1>2, <1>3, <2>1 DEF OpenMetadata, Moves
  <2>2. CASE to = "writing"
    <3>1. Create(c, "metadata", Own(s))
      BY <1>2, <1>3, <2>2 DEF OpenMetadata, Moves, IInv, RecordingsTypeOK
    <3>2. \A g \in dir' :
            \/ g \in dir /\ ~(g.kind = "metadata" /\ g.name = Own(s))
            \/ /\ g.kind = "metadata" /\ g.name = Own(s) /\ g.of = s /\ ~g.cut
               /\ \A d \in g.writers : d = c \/ (d \in Call /\ About[d] = s /\ at[d] = "writing")
      BY <3>1, Created DEF Making
    <3> QED
      BY <1>3, <2>2, <3>2
  <2> QED
    BY <2>1, <2>2
<1>5. ASSUME NEW j \in Job
      PROVE  /\ upload'[j].step = upload[j].step
             /\ upload[j].step = "send" => upload'[j].of = upload[j].of
             /\ upload[j].step = "send" /\ ~send(j) => upload'[j] = upload[j]
  <2>1. upload[j] \in Step /\ (upload[j].step = "send" => upload[j] \in Busy)
    BY DEF IInv, RecordingsTypeOK, Step, Idle, Open
  <2>2. upload'[j] = upload[j] \/ (send(j) /\ upload'[j] = [upload[j] EXCEPT !.whole = FALSE])
    BY DEF OpenMetadata
  <2> QED
    BY <2>1, <2>2 DEF Busy
<1>6. \A d \in Call : upload'[<<d, "metadata">>].step = upload[<<d, "metadata">>].step
  BY <1>5 DEF Job, Kind
<1>7. \A d \in Call : upload[<<d, "metadata">>].step # "none" /\ About[d] = s => Twice(s)'
  BY <1>3 DEF WInv, Announced, Twice
<1>8. ASSUME NEW j \in Job, send(j)
      PROVE  Excused(j[2], s)'
  <2>1. j[1] \in Call /\ j = <<j[1], "metadata">> /\ About[j[1]] \in Session
    BY <1>8, CallAssumption DEF Job
  <2>2. Own(s) = Own(About[j[1]])
    BY <1>8 DEF IInv, SendsNamed, Final
  <2>3. About[j[1]] = s
    BY <1>1, <2>1, <2>2, NamesDiffer
  <2> QED
    BY <1>7, <1>8, <2>1, <2>3 DEF Excused
<1>9. LogsAsked' /\ FilesAsked'
  BY <1>3, <1>4 DEF WInv, LogsAsked, FilesAsked
<1>10. WritersAtWork'
  BY <1>3, <1>4 DEF WInv, WritersAtWork
<1>11. RecordersRun' /\ CutsKnown'
  BY <1>3, <1>4 DEF WInv, RecordersRun, CutsKnown
<1>12. FilesWhole'
  BY <1>4, ExcusedStays DEF WInv, FilesWhole, Whole
<1>13. SendsWhole'
  <2>1. ASSUME NEW j \in Job, (upload[j].step = "send" /\ ~upload[j].whole)'
        PROVE  Excused(j[2], upload[j].of)'
    <3>1. CASE send(j)
      BY <1>5, <1>8, <2>1, <3>1
    <3>2. CASE ~send(j)
      BY <1>5, <2>1, <3>2, ExcusedStays DEF WInv, SendsWhole
    <3> QED
      BY <3>1, <3>2
  <2> QED
    BY <2>1 DEF SendsWhole
<1>14. UploadedWhole'
  BY <1>3, BucketExcused DEF WInv
<1>15. Announced'
  BY <1>3, <1>6 DEF WInv, Announced
<1>16. MetadataWhole'
  <2>1. ASSUME NEW g \in dir', g.kind = "metadata", g.name = Own(g.of), ~Twice(g.of)',
               NEW d \in Call, About[d] = g.of
        PROVE  (g.cut => at'[d] # "writing") /\ (~Whole(g) => upload'[<<d, "metadata">>].step = "none")
    <3>1. CASE g \in dir /\ (to = "writing" => g.name # Own(s))
      <4>1. d = c => to = "done"
        BY <2>1, <3>1
      <4> QED
        BY <1>3, <1>6, <2>1, <3>1, <4>1, TwiceStays DEF WInv, MetadataWhole
    <3>2. CASE g.of = s /\ ~g.cut
      BY <1>6, <1>7, <2>1, <3>2
    <3> QED
      BY <1>4, <2>1, <3>1, <3>2
  <2> QED
    BY <2>1 DEF MetadataWhole, Whole
<1>17. VideosRenamed'
  BY <1>3, <1>4 DEF RInv, VideosRenamed
<1>18. LogsRenamed'
  BY <1>3, <1>4 DEF RInv, LogsRenamed
<1> QED
  BY <1>9, <1>10, <1>11, <1>12, <1>13, <1>14, <1>15, <1>16, <1>17, <1>18 DEF WInv, RInv

(* Metadata that is announced by the only call is complete. *)
LEMMA CloseMetadataWhole ==
  ASSUME IInv, WInv, RInv, [Next]_vars, NEW c \in Call, CloseMetadata(c)
  PROVE  WInv' /\ RInv'
<1> DEFINE s == About[c]
<1>1. s \in Session
  BY CallAssumption
<1>2. /\ Moves(c, "writing", "done")
      /\ UNCHANGED <<bucket, stuck, partial, unnamed, want, name, made>>
  BY DEF CloseMetadata, fixed, history
<1>3. at[c] = "writing" /\ at'[c] = "done" /\ \A d \in Call \ {c} : at'[d] = at[d]
  BY <1>2, CallMoves
<1>4. PICK cut \in BOOLEAN :
        /\ Close(c, cut)
        /\ \/ /\ upload' = [upload EXCEPT ![<<c, "metadata">>] = Open]
              /\ cut => \E d \in Call \ {c} : About[d] = s /\ at[d] = "writing"
           \/ UNCHANGED upload
  BY DEF CloseMetadata
<1>5. \A g \in dir' : \E f \in dir :
        /\ g.kind = f.kind /\ g.name = f.name /\ g.of = f.of /\ g.writers = f.writers \ {c}
        /\ IF c \in f.writers
             THEN g.cut = (f.cut \/ cut) /\ About[c] = f.of /\ f.kind = "metadata"
             ELSE g = f
  BY <1>3, <1>4, Closed
<1>6. /\ \A j \in Job : upload'[j].step = "send" => upload'[j] = upload[j]
      /\ \A d \in Call \ {c} : upload'[<<d, "metadata">>] = upload[<<d, "metadata">>]
  <2>1. upload \in [Job -> Step] /\ \A d \in Call : <<d, "metadata">> \in Job
    BY DEF IInv, RecordingsTypeOK, Job, Kind
  <2> QED
    BY <1>4, <2>1 DEF Open
<1>7. LogsAsked' /\ FilesAsked'
  BY <1>2, <1>3, <1>5 DEF WInv, LogsAsked, FilesAsked
<1>8. WritersAtWork'
  BY <1>3, <1>5 DEF WInv, WritersAtWork
<1>9. RecordersRun'
  BY <1>2, <1>3, <1>5 DEF WInv, RecordersRun
<1>10. CutsKnown'
  BY <1>2, <1>5 DEF WInv, CutsKnown
<1>11. FilesWhole'
  BY <1>5, ExcusedStays DEF WInv, FilesWhole, Whole
<1>12. SendsWhole' /\ UploadedWhole'
  BY <1>2, <1>6, ExcusedStays, BucketExcused DEF WInv, SendsWhole
<1>13. Announced'
  BY <1>3, <1>6 DEF WInv, Announced
<1>14. MetadataWhole'
  <2>1. ASSUME NEW g \in dir', g.kind = "metadata", g.name = Own(g.of), ~Twice(g.of)',
               NEW d \in Call, About[d] = g.of
        PROVE  (g.cut => at'[d] # "writing") /\ (~Whole(g) => upload'[<<d, "metadata">>].step = "none")
    <3>1. PICK f \in dir :
            /\ g.kind = f.kind /\ g.name = f.name /\ g.of = f.of /\ g.writers = f.writers \ {c}
            /\ IF c \in f.writers
                 THEN g.cut = (f.cut \/ cut) /\ About[c] = f.of /\ f.kind = "metadata"
                 ELSE g = f
      BY <1>5
    <3>2. /\ ~Twice(f.of) /\ f.kind = "metadata" /\ f.name = Own(f.of)
          /\ f.cut => at[d] # "writing"
          /\ ~Whole(f) => upload[<<d, "metadata">>].step = "none"
      BY <2>1, <3>1, TwiceStays DEF WInv, MetadataWhole
    <3>3. CASE g.of # s
      BY <1>3, <1>6, <2>1, <3>1, <3>2, <3>3
    <3>4. CASE g.of = s
      <4>1. \A e \in Call \ {c} : About[e] = s => at[e] = "idle" /\ at'[e] = "idle"
        BY <1>3, <2>1, <3>4 DEF Twice
      <4>2. at'[d] # "writing"
        BY <1>3, <2>1, <3>4, <4>1
      <4>3. CASE d # c
        BY <1>6, <2>1, <3>4, <4>1, <4>2, <4>3 DEF WInv, Announced
      <4>4. CASE d = c /\ UNCHANGED upload
        BY <1>3, <4>2, <4>4 DEF WInv, Announced
      <4>5. CASE d = c /\ (cut => \E e \in Call \ {c} : About[e] = s /\ at[e] = "writing")
        <5>1. ~cut /\ ~f.cut
          BY <1>3, <3>2, <4>1, <4>5
        <5>2. ~g.cut
          BY <3>1, <5>1
        <5>3. g.writers = {}
          BY <3>1, <3>2, <3>4, <4>1 DEF WInv, WritersAtWork
        <5> QED
          BY <4>2, <5>2, <5>3 DEF Whole
      <4> QED
        BY <1>4, <4>3, <4>4, <4>5
    <3> QED
      BY <3>3, <3>4
  <2> QED
    BY <2>1 DEF MetadataWhole, Whole
<1>15. VideosRenamed' /\ LogsRenamed'
  BY <1>2, <1>3, <1>5 DEF RInv, VideosRenamed, LogsRenamed
<1> QED
  BY <1>7, <1>8, <1>9, <1>10, <1>11, <1>12, <1>13, <1>14, <1>15 DEF WInv, RInv

(* Uploads and clients make no files. *)
LEMMA UploadWhole ==
  ASSUME IInv, WInv, RInv, [Next]_vars, UNCHANGED at, dir' \subseteq dir, SendsWhole', UploadedWhole',
         \A j \in Job : upload'[j].step # "none" => upload[j].step # "none"
  PROVE  WInv' /\ RInv'
<1>1. /\ stuck \subseteq stuck' /\ partial \subseteq partial' /\ unnamed \subseteq unnamed'
      /\ UNCHANGED <<want, name, made>>
  BY HistoryStays
<1>2. LogsAsked' /\ FilesAsked' /\ WritersAtWork' /\ RecordersRun' /\ CutsKnown'
  BY <1>1 DEF WInv, LogsAsked, FilesAsked, WritersAtWork, RecordersRun, CutsKnown
<1>3. FilesWhole'
  BY ExcusedStays DEF WInv, FilesWhole, Whole
<1>4. VideosRenamed' /\ LogsRenamed'
  BY <1>1 DEF RInv, VideosRenamed, LogsRenamed
<1>5. \A c \in Call : <<c, "metadata">> \in Job
  BY DEF Job, Kind
<1>6. Announced' /\ MetadataWhole'
  BY <1>5, TwiceStays DEF WInv, Announced, MetadataWhole, Whole
<1> QED
  BY <1>2, <1>3, <1>4, <1>6 DEF WInv, RInv

LEMMA HandleWhole ==
  ASSUME IInv, WInv, RInv, [Next]_vars, NEW j \in Job, Handle(j)
  PROVE  WInv' /\ RInv'
<1>1. j[1] \in Call /\ j[2] \in Kind /\ About[j[1]] \in Session
  BY JobType
<1>2. UNCHANGED at /\ dir' \subseteq dir
  BY DEF Handle, OpenFile, Send, RemoveUploaded
<1>3. ASSUME UNCHANGED bucket
      PROVE  UploadedWhole'
  BY <1>3, BucketExcused DEF WInv
<1>4. CASE OpenFile(j)
  <2>1. \A i \in Job \ {j} : upload'[i] = upload[i]
    BY <1>4 DEF OpenFile, Upload, IInv, RecordingsTypeOK
  <2>2. upload'[j].step = "send" /\ ~upload'[j].whole => Excused(j[2], upload'[j].of)
    <3>1. CASE Upload(j, "open", Idle)
      BY <3>1 DEF Upload, Idle, IInv, RecordingsTypeOK
    <3>2. ASSUME NEW f \in Target(j),
                 Upload(j, "open", [step |-> "send", of |-> f.of, whole |-> Whole(f)])
          PROVE  ~Whole(f) => Excused(j[2], f.of)
      <4>1. f \in dir /\ f.kind = j[2] /\ f.name = Final(About[j[1]], j[2]) /\ f.of \in Session
        BY <1>1, FinalFiles DEF Target, Named
      <4>2. f.name # Temporary(f.of)
        BY <1>1, <4>1, FinalNames DEF IInv, RecordingsTypeOK
      <4>3. CASE j[2] = "metadata"
        <5>1. f.name = Own(f.of) /\ About[j[1]] = f.of
          BY <1>1, <4>1, <4>3, FinalFiles, NamesDiffer DEF Target, Final
        <5>2. j = <<j[1], "metadata">> /\ upload[j].step = "open"
          BY <3>2, <4>3 DEF Job, Upload
        <5> QED
          BY <1>1, <4>1, <4>3, <5>1, <5>2 DEF WInv, MetadataWhole, Excused
      <4>4. CASE j[2] # "metadata"
        BY <4>1, <4>2, <4>4 DEF WInv, FilesWhole
      <4> QED
        BY <4>3, <4>4
    <3>3. ASSUME NEW f \in Target(j),
                 Upload(j, "open", [step |-> "send", of |-> f.of, whole |-> Whole(f)])
          PROVE  upload'[j].of = f.of /\ upload'[j].whole = Whole(f)
      BY <3>3 DEF Upload, IInv, RecordingsTypeOK
    <3> QED
      BY <1>4, <3>1, <3>2, <3>3 DEF OpenFile
  <2>3. SendsWhole'
    BY <2>1, <2>2, ExcusedStays DEF WInv, SendsWhole
  <2> QED
    BY <1>2, <1>3, <1>4, <2>1, <2>3, UploadWhole DEF OpenFile, Upload
<1>5. CASE Send(j)
  <2>1. /\ upload[j].step = "send"
        /\ upload'[j].step # "send" /\ \A i \in Job \ {j} : upload'[i] = upload[i]
    BY <1>5 DEF Send, Upload, Idle, IInv, RecordingsTypeOK
  <2>2. SendsWhole'
    BY <2>1, ExcusedStays DEF WInv, SendsWhole
  <2>3. \A o \in bucket' :
        o \in bucket \/ (o.kind = j[2] /\ o.of = upload[j].of /\ o.whole = upload[j].whole)
    BY <1>5 DEF Send
  <2>4. ~upload[j].whole => Excused(j[2], upload[j].of)
    BY <2>1 DEF WInv, SendsWhole
  <2>5. UploadedWhole'
    BY <2>3, <2>4, ExcusedStays, TwiceStays, HistoryStays DEF WInv, UploadedWhole, Excused
  <2> QED
    BY <1>2, <2>1, <2>2, <2>5, UploadWhole
<1>6. CASE RemoveUploaded(j)
  <2>1. upload'[j].step # "send" /\ \A i \in Job \ {j} : upload'[i] = upload[i]
    BY <1>6 DEF RemoveUploaded, Upload, Idle, IInv, RecordingsTypeOK
  <2>2. SendsWhole'
    BY <2>1, ExcusedStays DEF WInv, SendsWhole
  <2> QED
    BY <1>2, <1>3, <1>6, <2>1, <2>2, UploadWhole DEF RemoveUploaded, Upload
<1> QED
  BY <1>4, <1>5, <1>6 DEF Handle

LEMMA WholeInductive == IInv /\ WInv /\ RInv /\ [Next]_vars => WInv' /\ RInv'
<1> SUFFICES ASSUME IInv, WInv, RInv, [Next]_vars
             PROVE  WInv' /\ RInv'
  OBVIOUS
<1>1. ASSUME UNCHANGED <<at, upload, bucket>>, dir' \subseteq dir
      PROVE  WInv' /\ RInv'
  <2>1. SendsWhole' /\ UploadedWhole'
    BY <1>1, ExcusedStays, BucketExcused DEF WInv, SendsWhole
  <2> QED
    BY <1>1, <2>1, UploadWhole
<1>2. CASE UNCHANGED vars
  BY <1>1, <1>2 DEF vars
<1>3. ASSUME NEW f \in dir, Delete(f)
      PROVE  WInv' /\ RInv'
  BY <1>1, <1>3 DEF Delete
<1>4. ASSUME NEW c \in Call, RenameVideo(c) \/ RenameLog(c)
      PROVE  WInv' /\ RInv'
  BY <1>4, RenameWhole DEF RenameVideo, RenameLog, AfterVideo, AfterLog
<1>5. ASSUME NEW c \in Call, Cancel(c)
      PROVE  WInv' /\ RInv'
  BY <1>4, <1>5, StopRecorderWhole, OpenLogWhole, NoLogWhole, CloseLogWhole,
     OpenMetadataWhole, CloseMetadataWhole DEF Cancel
<1> QED
  BY <1>2, <1>3, <1>5, BeginWhole, HandleWhole DEF Next

LEMMA WholeInvariance == Spec => [](IInv /\ WInv /\ RInv)
<1>1. Init => IInv /\ WInv /\ RInv
  BY InitIInv, InitWhole
<1>2. (IInv /\ WInv /\ RInv) /\ [Next]_vars => (IInv /\ WInv /\ RInv)'
  BY Inductive, WholeInductive
<1> QED
  BY <1>1, <1>2, PTL DEF Spec

(* The state is made of values of the right kinds, and however sessions       *)
(* choose their names a directory has one file of a name.                     *)
THEOREM TypeCorrect == Spec => []RecordingsTypeOK
<1>1. IInv => RecordingsTypeOK
  BY DEF IInv
<1> QED
  BY <1>1, Invariance, PTL

(* Nothing that has been recorded gets lost on its way to the bucket, for any *)
(* number of sessions, of calls of Cancel and of uploads that fail.           *)
THEOREM RecordingsAreKept == Spec => []Kept
<1>1. IInv => Kept
  BY DEF IInv
<1> QED
  BY <1>1, Invariance, PTL

(* What is uploaded is complete, however the calls of Cancel, the uploads and *)
(* the deletes follow each other; the exceptions are the video of a recorder  *)
(* that would not stop, a log whose copy broke off, and the log and the       *)
(* metadata of a session that is cancelled twice.                             *)
THEOREM UploadsAreWhole == Spec => []UploadedWhole
<1>1. WInv => UploadedWhole
  BY DEF WInv
<1> QED
  BY <1>1, WholeInvariance, PTL

(* When the calls of Cancel about a session are over, each of its files has   *)
(* its final name, unless it is in the bucket or has been deleted; one that   *)
(* os.Rename failed for is there, too, under its temporary name.              *)
THEOREM FilesGetTheirNames == Spec => []FinallyNamed
<1>1. IInv /\ WInv /\ RInv => FinallyNamed
  <2>1. ASSUME IInv, WInv, RInv, NEW s \in made, NEW k \in {"video", "log"},
               \A c \in Call : About[c] = s => at[c] \in {"idle", "done"},
               NEW c \in Call, About[c] = s, at[c] = "done",
               NEW f \in dir, f.of = s, f.kind = k
        PROVE  \/ f \in Named(k, Final(s, k))
               \/ <<s, k>> \in unnamed /\ f \in Named(k, Temporary(s))
    <3>1. f.name = Temporary(s) => <<s, k>> \in unnamed
      BY <2>1 DEF RInv, VideosRenamed, LogsRenamed
    <3>2. f.name = Final(s, k) \/ f.name = Temporary(s)
      BY <2>1, <3>1 DEF IInv, FilesNamed
    <3> QED
      BY <2>1, <3>1, <3>2 DEF Named
  <2>2. ASSUME IInv, WInv, RInv, NEW s \in made, NEW k \in {"video", "log"}, <<s, k>> \in saved
        PROVE  InDir(s, k) \/ InBucket(s, k) \/ <<s, k>> \in deleted \/ Shares(s)
    BY <2>2 DEF IInv, RecordingsTypeOK, Kept, Kind
  <2> QED
    BY <2>1, <2>2 DEF FinallyNamed, InDir
<1> QED
  BY <1>1, WholeInvariance, PTL
===============================================================================
