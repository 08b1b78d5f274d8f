------------------------------ MODULE Recordings ------------------------------
(* The files of sessions that end.  A call of a session's Cancel stops the    *)
(* recorder and copies the log (service/docker.go), gives the files their     *)
(* final names and announces them (selenoid.go), and goroutines of their own  *)
(* write the metadata (metadata.go) and upload what was announced (upload).   *)
(* Clients choose names for files and delete files.                           *)
(*                                                                            *)
(* Cancel may be called twice, by two DELETEs of a session (module Hub).      *)
EXTENDS Naturals, FiniteSets

CONSTANTS Session, Call,    \* calls of Cancel
          About,            \* the session that each of them is about
          Chosen,           \* values of videoName and logName
          Wishes,           \* sets of kinds that a session may ask for
          Keep,             \* -s3-keep-files
          MaxDeletes        \* bound: DELETEs of files

Kind == {"video", "log", "metadata"}

ASSUME CallAssumption   == About \in [Call -> Session] /\ "recorder" \notin Call
ASSUME WishesAssumption == Wishes \subseteq SUBSET Kind
ASSUME KeepAssumption   == Keep \in BOOLEAN

(* getTemporaryFileName: 16 random bytes, taken to be unique.  Names of       *)
(* different kinds never meet: they differ in directory or extension.         *)
Temporary(s) == <<"temporary", s>>
Own(s)       == <<"own", s>>
Name == {Temporary(s) : s \in Session} \cup {Own(s) : s \in Session} \cup Chosen

ASSUME ChosenAssumption == \A s \in Session : {Temporary(s), Own(s)} \cap Chosen = {}

VARIABLES
  want,     \* the kinds of each session
  name,     \* its finalVideoName or finalLogName
  made,     \* sessions that create() succeeded for
  at,       \* where each call of Cancel is
  dir,      \* the files of the two directories
  upload,   \* the upload that each call's event of each kind has led to
  bucket,   \* the objects of the S3 bucket
  saved,    \* history: what has been recorded
  deleted,  \* history: what clients have deleted
  stuck,    \* history: recorders that the engine would not stop
  partial,  \* history: sessions with a log that was not copied to its end
  unnamed   \* history: files that are there and could not be renamed

fixed == <<want, name, made>>
history == <<saved, deleted, stuck, partial, unnamed>>
vars == <<fixed, at, dir, upload, bucket, history>>

(* A file is somebody's recording and may be open for writing, or cut: what   *)
(* should be in it has not all been written.                                  *)
Writer == Call \cup {"recorder"}
File   == [kind : Kind, name : Name, of : Session, writers : SUBSET Writer, cut : BOOLEAN]
Object == [kind : Kind, name : Name, of : Session, whole : BOOLEAN]
Place  == {"idle", "recorder", "logs", "copying", "video", "log", "metadata", "writing",
           "done"}
Job    == Call \X Kind
Idle   == [step |-> "none"]
Open   == [step |-> "open"]
Busy   == [step : {"send"}, of : Session, whole : BOOLEAN]
Step   == {Idle, Open, [step |-> "remove"]} \cup Busy

Named(k, n) == {f \in dir : f.kind = k /\ f.name = n}
Final(s, k) == IF k = "metadata" THEN Own(s) ELSE name[s]
Whole(f)    == f.writers = {} /\ ~f.cut

(* The recorder writes its file from the start of the session on. *)
Init == /\ want \in [Session -> Wishes]
        /\ name \in [Session -> Name]
        /\ \A s \in Session : name[s] \in {Own(s)} \cup Chosen
        /\ made \in SUBSET Session
        /\ at = [c \in Call |-> "idle"]
        /\ saved = {<<s, "video">> : s \in {x \in Session : "video" \in want[x]}}
        /\ dir = {[kind |-> "video", name |-> Temporary(v[1]), of |-> v[1],
                   writers |-> {"recorder"}, cut |-> FALSE] : v \in saved}
        /\ upload = [j \in Job |-> Idle]
        /\ bucket = {}
        /\ deleted = {} /\ stuck = {} /\ partial = {} /\ unnamed = {}

------------------------------------------------------------------------------
Moves(c, from, to) == at[c] = from /\ at' = [at EXCEPT ![c] = to]

(* Files that a session has not asked for are passed over. *)
AfterLog(s)   == IF "metadata" \in want[s] THEN "metadata" ELSE "done"
AfterVideo(s) == IF "log" \in want[s] THEN "log" ELSE AfterLog(s)

(* The browser has been stopped; that is all for a create() that fails.       *)
Stopped(s) == IF s \notin made THEN "done" ELSE
              IF "video" \in want[s] THEN "video" ELSE AfterVideo(s)

AfterRecorder(s) == IF "log" \in want[s] THEN "logs" ELSE Stopped(s)

(* create() that fails calls the plain cancel, once; a session's Cancel may   *)
(* be called while it is at work.                                             *)
Begin(c) == LET s == About[c] IN
  /\ s \in made \/ \A x \in Call : About[x] = s => at[x] = "idle"
  /\ Moves(c, "idle", IF "video" \in want[s] THEN "recorder" ELSE AfterRecorder(s))
  /\ UNCHANGED <<fixed, dir, upload, bucket, history>>

(* docker.go, 246-249: module Services has what may come of it. *)
StopRecorder(c) == LET s == About[c] IN
  /\ Moves(c, "recorder", AfterRecorder(s))
  /\ \/ /\ dir' = {IF f.of = s /\ f.kind = "video" THEN [f EXCEPT !.writers = {}] ELSE f : f \in dir}
        /\ UNCHANGED stuck
     \/ stuck' = stuck \cup {s} /\ UNCHANGED dir
  /\ UNCHANGED <<fixed, upload, bucket, saved, deleted, partial, unnamed>>

(* os.Create and os.WriteFile truncate a file that is there, under the hands  *)
(* of those who have it open.                                                 *)
Create(c, k, n) ==
  LET s   == About[c]
      old == Named(k, n)
  IN /\ dir' = (dir \ old) \cup
               {[kind |-> k, name |-> n, of |-> s, cut |-> FALSE,
                 writers |-> {c} \cup UNION {f.writers : f \in old}]}
     /\ saved' = saved \cup {<<s, k>>}

(* c has written; what it leaves cut stays so until the file is truncated. *)
Close(c, cut) == dir' = {IF c \in f.writers
                           THEN [f EXCEPT !.writers = @ \ {c}, !.cut = @ \/ cut]
                           ELSE f : f \in dir}

(* Wrong variant: the copy goes on by itself. *)
OpenLogInPassing(c) ==
  /\ Moves(c, "logs", Stopped(About[c]))
  /\ Create(c, "log", Temporary(About[c]))
  /\ UNCHANGED <<fixed, upload, bucket, deleted, stuck, partial, unnamed>>

(* Lines 251-268. *)
OpenLog(c) ==
  /\ Moves(c, "logs", "copying")
  /\ Create(c, "log", Temporary(About[c]))
  /\ UNCHANGED <<fixed, upload, bucket, deleted, stuck, partial, unnamed>>

(* Lines 257-265: the engine has no logs for us, or there is no file.  The    *)
(* removal of the browser, which is deferred, may fail, and so the logs may   *)
(* or may not be there for a second call.                                     *)
NoLog(c) == /\ Moves(c, "logs", Stopped(About[c]))
            /\ UNCHANGED <<fixed, dir, upload, bucket, history>>

(* Lines 269-272: a copy that breaks off is noted in the program's own log,   *)
(* and all goes on as if it had not.                                          *)
CloseLog(c) ==
  /\ Moves(c, "copying", Stopped(About[c]))
  /\ \/ Close(c, FALSE) /\ UNCHANGED partial
     \/ Close(c, TRUE) /\ partial' = partial \cup {About[c]}
  /\ UNCHANGED <<fixed, upload, bucket, saved, deleted, stuck, unnamed>>

(* os.Rename replaces a file of that name, whosesoever.  Only a file that has *)
(* been renamed is announced: there may be none, or the client has chosen a   *)
(* name in a directory that does not exist, or the disk fails.                *)
Rename(c, k, next) ==
  LET s   == About[c]
      old == Named(k, Temporary(s))
      new == Final(s, k)
  IN /\ Moves(c, k, next)
     /\ \/ /\ old # {}
           /\ dir' = (dir \ (old \cup Named(k, new))) \cup {[f EXCEPT !.name = new] : f \in old}
           /\ upload' = [upload EXCEPT ![<<c, k>>] = Open]
           /\ UNCHANGED unnamed
        \/ /\ unnamed' = IF old # {} THEN unnamed \cup {<<s, k>>} ELSE unnamed
           /\ UNCHANGED <<dir, upload>>
     /\ UNCHANGED <<fixed, bucket, saved, deleted, stuck, partial>>

(* Wrong variant: a file that has the final name is neither replaced nor      *)
(* renamed away.                                                              *)
RenameVideoBeside(c) ==
  LET s   == About[c]
      old == Named("video", Temporary(s))
  IN /\ Moves(c, "video", AfterVideo(s))
     /\ IF old # {}
          THEN /\ dir' = (dir \ old) \cup {[f EXCEPT !.name = name[s]] : f \in old}
               /\ upload' = [upload EXCEPT ![<<c, "video">>] = Open]
          ELSE UNCHANGED <<dir, upload>>
     /\ UNCHANGED <<fixed, bucket, history>>

(* selenoid.go, 339-357. *)
RenameVideo(c) == Rename(c, "video", AfterVideo(About[c]))

(* Wrong variant: only a log that has been asked for by its name is renamed.  *)
RenameChosenLog(c) == IF name[About[c]] \in Chosen
  THEN Rename(c, "log", AfterLog(About[c]))
  ELSE Moves(c, "log", AfterLog(About[c])) /\ UNCHANGED <<fixed, dir, upload, bucket, history>>

(* 358-379. *)
RenameLog(c) == Rename(c, "log", AfterLog(About[c]))

(* metadata.go, a goroutine of its own: line 42 opens the file, or cannot,    *)
(* and then writes it.                                                        *)
OpenMetadata(c) == LET s == About[c] IN
  /\ \/ /\ Moves(c, "metadata", "writing")
        /\ Create(c, "metadata", Own(s))
        /\ upload' = [j \in Job |->
             IF j[2] = "metadata" /\ upload[j].step = "send" /\ upload[j].of = s
               THEN [upload[j] EXCEPT !.whole = FALSE]
               ELSE upload[j]]
     \/ /\ Moves(c, "metadata", "done")
        /\ UNCHANGED <<dir, saved, upload>>
  /\ UNCHANGED <<fixed, bucket, deleted, stuck, partial, unnamed>>

(* Lines 42-54: only a write that succeeds is announced.  If another call     *)
(* writes too, the longer of the two texts may stick out behind the other.    *)
CloseMetadata(c) ==
  /\ Moves(c, "writing", "done")
  /\ \/ /\ \E cut \in BOOLEAN :
             /\ cut => \E d \in Call \ {c} : About[d] = About[c] /\ at[d] = "writing"
             /\ Close(c, cut)
        /\ upload' = [upload EXCEPT ![<<c, "metadata">>] = Open]
     \/ Close(c, TRUE) /\ UNCHANGED upload
  /\ UNCHANGED <<fixed, bucket, history>>

------------------------------------------------------------------------------
(* s3.go, a goroutine for each announced file: the file is found by its name. *)
Target(j) == Named(j[2], Final(About[j[1]], j[2]))

Upload(j, from, to) == upload[j].step = from /\ upload' = [upload EXCEPT ![j] = to]

(* Lines 118-132: the file may be excluded, or not be there. *)
OpenFile(j) ==
  /\ \/ \E f \in Target(j) :
          Upload(j, "open", [step |-> "send", of |-> f.of, whole |-> Whole(f)])
     \/ Upload(j, "open", Idle)
  /\ UNCHANGED <<fixed, at, dir, bucket, history>>

(* Wrong variant: the file is removed even if it could not be sent. *)
SendOrLose(j) ==
  /\ Upload(j, "send", [step |-> "remove"])
  /\ UNCHANGED bucket
  /\ UNCHANGED <<fixed, at, dir, history>>

(* Lines 134-159: if it fails, the file stays.  The object's key is the name  *)
(* of the file (-s3-key-pattern).                                             *)
Send(j) ==
  /\ \/ /\ Upload(j, "send", IF Keep THEN Idle ELSE [step |-> "remove"])
        /\ LET key == Final(About[j[1]], j[2])
           IN bucket' = {o \in bucket : o.kind # j[2] \/ o.name # key} \cup
                        {[kind |-> j[2], name |-> key,
                          of |-> upload[j].of, whole |-> upload[j].whole]}
     \/ Upload(j, "send", Idle) /\ UNCHANGED bucket
  /\ UNCHANGED <<fixed, at, dir, history>>

(* Lines 160-165. *)
RemoveUploaded(j) ==
  /\ Upload(j, "remove", Idle)
  /\ dir' = dir \ Target(j)
  /\ UNCHANGED <<fixed, at, bucket, history>>

------------------------------------------------------------------------------
(* main.go, 344-359: a client deletes a file that it sees in the listing; of  *)
(* the directory of logs only logs.                                           *)
Delete(f) == /\ f \in dir /\ f.kind # "metadata"
             /\ Cardinality(deleted) < MaxDeletes
             /\ dir' = dir \ {f}
             /\ deleted' = deleted \cup {<<f.of, f.kind>>}
             /\ UNCHANGED <<fixed, at, upload, bucket, saved, stuck, partial, unnamed>>

Cancel(c) == \/ StopRecorder(c) \/ OpenLog(c) \/ NoLog(c) \/ CloseLog(c)
             \/ RenameVideo(c) \/ RenameLog(c) \/ OpenMetadata(c) \/ CloseMetadata(c)

Handle(j) == OpenFile(j) \/ Send(j) \/ RemoveUploaded(j)

Next == \/ \E c \in Call : Begin(c) \/ Cancel(c)
        \/ \E j \in Job : Handle(j)
        \/ \E f \in dir : Delete(f)

Spec == Init /\ [][Next]_vars

------------------------------------------------------------------------------
(* The state is made of values of the right kinds, and a directory has one    *)
(* file of a name.                                                            *)
RecordingsTypeOK ==
  /\ want \in [Session -> SUBSET Kind] /\ name \in [Session -> Name]
  /\ made \subseteq Session
  /\ at \in [Call -> Place]
  /\ dir \subseteq File
  /\ \A f, g \in dir : f.kind = g.kind /\ f.name = g.name => f = g
  /\ upload \in [Job -> Step]
  /\ bucket \subseteq Object
  /\ saved \subseteq Session \X Kind /\ deleted \subseteq Session \X Kind
  /\ stuck \subseteq Session /\ partial \subseteq Session
  /\ unnamed \subseteq Session \X Kind

(* Another session has chosen the same name. *)
Shares(s) == \E t \in Session \ {s} : name[t] = name[s]

InDir(s, k)    == \E f \in dir : f.of = s /\ f.kind = k
InBucket(s, k) == \E o \in bucket : o.of = s /\ o.kind = k

(* No recording disappears on its way from the temporary name to the bucket,  *)
(* whatever fails and however often Cancel is called: unless a client has     *)
(* deleted it or another session has the same name.  The file that is left    *)
(* may be cut: a second call may truncate what the first has written.         *)
Kept == \A s \in Session, k \in Kind : <<s, k>> \in saved =>
  \/ InDir(s, k) \/ InBucket(s, k)
  \/ <<s, k>> \in deleted
  \/ Shares(s)

(* Two calls of Cancel are or have been at work for the session. *)
Twice(s) == \E c, d \in Call :
  c # d /\ About[c] = s /\ About[d] = s /\ at[c] # "idle" /\ at[d] # "idle"

(* What is uploaded is complete; the exceptions are the video of a recorder   *)
(* that would not stop, a log whose copy broke off (docker.go:270), and the   *)
(* log and the metadata of a session whose Cancel is called twice.            *)
UploadedWhole == \A o \in bucket : ~o.whole =>
  \/ o.kind = "video" /\ o.of \in stuck
  \/ o.kind = "log" /\ o.of \in partial
  \/ o.kind # "video" /\ Twice(o.of)

(* docs/video.adoc:72, docs/logs.adoc:38: when a session is closed, even by   *)
(* two DELETEs at once, each of its files is found under its final name,      *)
(* unless it has been uploaded.  One that os.Rename fails for (selenoid.go,   *)
(* 346 and 367) is found under its temporary name for good.                   *)
FinallyNamed == \A s \in made, k \in {"video", "log"} :
  /\ <<s, k>> \in saved
  /\ \A c \in Call : About[c] = s => at[c] \in {"idle", "done"}
  /\ \E c \in Call : About[c] = s /\ at[c] = "done"
  => \/ \E f \in Named(k, Final(s, k)) : f.of = s
     \/ <<s, k>> \in unnamed /\ \E f \in Named(k, Temporary(s)) : f.of = s
     \/ InBucket(s, k)
     \/ <<s, k>> \in deleted \/ Shares(s)
===============================================================================
