# Selenoid in TLA+

Selenoid receives WebDriver requests, starts a browser in a container (or a
driver process) for each new session and proxies everything else to it. This
directory holds TLA+ models of the program, TLC configurations that check them
on small instances and proofs, checked by TLAPS, for instances of any size.
Line numbers are those of the Go sources, without `src/`.

## The system

| Component | State | Operations |
|---|---|---|
| Admission queue, `protect/queue.go` | the channels `limit`, `queued`, `pending`, `used`, and the runtime's line of goroutines blocked on `limit` | `Protect`, `Drop`, `Create`, `Release` |
| Session map, `session/session.go` | map of sessions under an `RWMutex` | `Get`, `Ensure`, `Put`, `Remove`, `Each`, `Len` |
| Session life cycle, `selenoid.go` | a session's lock, cancel function, browser; the loop of `create` | `create`, `proxy` (its DELETE branch) |
| Session idle timer, `selenoid.go` | `sess.TimeoutCh` and a goroutine per channel | `onTimeout`, `sess.Delete`, `proxy`, `reverseProxy` and its ticker, `wsdriverRoute` |
| Services, `service/*.go` | containers, driver processes | `Find`, `StartWithCancel`, `Cancel`, `wait` |
| Configuration, `config/config.go` | browsers and log configuration under an `RWMutex` | `Load` (start, SIGHUP), `Find`, `State` |
| Recorded files, `event`, `upload`, `metadata.go` | files on disk, listeners | `FileCreated`, `SessionStopped`, `OnFileCreated`, `Upload` |
| WsDriver, `wsdriver/*.go` | one connection: two buffers, the parsed request | `HandleConnection`, `ParseRequestV1`, `MakeRequest`, `WriteResponse` |
| Server, `main.go` | routes, signals | `handler`, `main` (graceful shutdown), `onSIGHUP` |

How they interact. A `POST /session` goes through `Protect`, which lets at most
`-limit` requests past, and then through `create`. `create` asks the
configuration for a browser, starts it, requests a session of it (in a loop),
starts the idle timer, enters the session in the map and tells the queue
(`Create`); on each failure it tells the queue (`Drop`) and cancels the browser.
Every later request looks the session up in the map and puts its timer back. A
DELETE, of a client or of the timer's goroutine through the program's own port,
removes the session, gives its slot back (`Release`) and has the browser
stopped by a goroutine of its own. On SIGTERM `main` waits for the handlers and
cancels what is left in the map.

What is hard. Handlers, tickers, timers and pushers are goroutines that share
channels and maps, and only `proxy` takes the session's lock. State is looked
up before the lock is taken. The counting channels are received from without a
timeout. Every error path must undo what was done so far. The properties aim at
these points; `PROJECT.json` lists them as hazards, each at its line.

## Modules

| Module | Models | Uses |
|---|---|---|
| `Admission` | what the queue promises: a line, and places inside | |
| `Queue` | `protect/queue.go`, one action per channel operation | refines `Admission` |
| `Hub` | `create` and DELETE composed with the queue | extends `Queue` |
| `Shutdown` | `main` after SIGTERM, composed with `Hub` | extends `Hub` |
| `SessionTimer` | `TimeoutCh` and everybody who uses it, with time | |
| `Services` | `StartWithCancel`, `wait` and `Cancel` for a container or a driver | |
| `Recordings` | the files of a session, from cancel to the bucket | |
| `Catalogue` | reloads and the requests that use what they load | |
| `Answers` | what a WsDriver connection promises | |
| `WsDriver` | the loop of `HandleConnection` and its two buffers | refines `Answers` |
| `QueueProofs`, `HubProofs`, `ShutdownProofs` | theorems about `Queue`, and about `Hub` inside `Shutdown` | each extends the one before |
| `SessionTimerProofs`, `ServicesProofs`, `RecordingsProofs`, `CatalogueProofs`, `WsDriverProofs` | theorems about the module of that name | |
| `QueueMC`, `ShutdownMC`, `SessionTimerMC`, `RecordingsMC`, `CatalogueMC`, `WsDriverMC` | the instances TLC checks; `Services` needs none | |

### Queue

The channels carry empty structs, so each is a number; `sendq` is the line of
goroutines blocked at `limit <- struct{}{}`, which the Go runtime keeps in
order of arrival: a receive from a full channel hands the room to the first of
them (`RecvLimit`). `pc[r]` is where the handler of request `r` is; `pusher[r]`
is the goroutine of lines 54-56, which may run late. `Drop`, `Create` and
`Release` are enabled where the protected code may call them. A request comes
again when it is over (`Again`).

Correctness: `SlotsAccounted` and `GaugesAccounted` say that each channel holds
exactly the elements of those who ought to have one. With `queued` this is more
than a count per request, for a request takes any element, not its own.
`LineAccounted` says that nobody waits beside a free slot; `NeverStarves` that
the receives without a timeout find an element; `NoOvertaking`, that slots are
handed out first come first served; `Promise`, that all of this implements
`Admission`; `QueuedTokenComes`, that nobody who is let in or leaves stops at
`queued`. `WaitingEnds` does not say that whoever waits gets in, for a handler
may lose its slot (a panic leaves without `Drop`) or never return, and a session
may stay open. It says that a request waits for good only if *all* the slots
are taken for good: as long as one comes back again and again, everybody's turn
comes.

### SessionTimer

One session. `ch` is `sess.TimeoutCh`, `timer[c]` the state of a channel and of
its goroutine, `left[c]` the time until it fires. Each statement that reads or
writes the channel is an action: `Select` (the select with `default`), `Close`
(or `Panic`, if it has been closed since), `Arm` (`onTimeout` and the
assignment). Commands and DELETEs hold `lock` meanwhile; streams (connections
served by `reverseProxy`), their tickers and messages (`wsdriverRoute`) do not.
A channel nobody refers to is used again; a use begins only when the channels
suffice (`Spare`), which bounds how many uses overlap.

`TimePasses` is one unit of time, possible only when nothing else has to happen
(`Urgent`): timeouts are minutes and goroutines are scheduled in microseconds.
`Timeout` is `2 * Period`, the period of the ticker.

`raced` remembers that two uses were between `select` and the assignment at
once. Until then the session has one timer (`OneTimer`), its channel is closed
once (`ClosedOnce`), and it is deleted neither early
(`SerialTimesOutOnlyWhenIdle`) nor during a connection
(`ConnectionKeepsSession`). Without that condition two of these fail, see below.
`NeverUntimed` and `IdleSessionEnds` need no condition, nor does `EndsInTime`:
when a session has been idle for its whole timeout, its own timer is due or
somebody is at work on it who cannot wait, so that an overlap may only shorten a
session's life.

### Hub

`at[r]` is where `create` is for request `r`; the queue's own `pc[r]` tells how
far the queue is. Deleters are clients and, for each session, the goroutine of
its timer; `dpc[d]` goes through the lookup, the lock with all that happens
under it up to `Release`, its two receives, and the cancel after the DELETE has
been forwarded. `Release` takes an element of `limit` and of `used`, whosesoever
they are. `attempt`, `base` and `joined` are the loop of `create`: its counter,
whether `u.Path` adds anything, and how often it was put before the path.

`disorder` remembers that a DELETE met a `create` that had not finished or
another DELETE of the session before the lock. Until then `create` and the
DELETEs use the queue as it expects: every step of Hub is a step of `Queue` or
leaves it alone (`CallsInOrder`), so that all that is shown of `Queue` holds
here. `BrowsersAccounted` holds with `disorder`, too: a browser that is up has
somebody who will stop it, or is in the map, or `create` has abandoned it
(`Abandoned`). There are two ways to do that. A start may fail and leave its
container running (`service/docker.go:182`; place `left`, the slot is given
back), and `create` may panic (`service/docker.go:455` in the start,
`selenoid.go:455` in `processBody`; place `panicked`), which net/http recovers
from: neither `Drop` nor `cancel` is called, and slot and browser are lost.
`BrowserEnds` says that all the others are stopped, with the exceptions it
names: `Abandoned`, `disorder`, and a signal, after which `CleanExit` (below)
takes its place.

### Shutdown

`main` from the signal to its end, with all of `Hub` going on meanwhile. `stage`
is where `main` is. In `closing` no new connection comes, so that of `Hub` only
`Works` is left, and the DELETE that a timer sends finds no listener
(`FireInVain`); the code does not send it again. `Drain` is `server.Shutdown`
when all handlers have returned, `Expire` when the graceful period is over
first, which ends the program by `log.Fatalf` before line 444. `CancelSession`
is `Each`, one session after the other. Goroutines that no handler waits for,
the cancel after a DELETE, end with the program wherever they are.

`CleanExit` says what an orderly end leaves: the browsers that `create` has
abandoned and those of DELETEs whose goroutine has not got there, nothing else.
`main` visits only browsers that are up (the first part of `CleanExit`), and no
DELETE stops one that `main` has stopped (`StoppedOnce`).
`OnlyTheLineBlocks`: if `server.Shutdown` never returns, a request stands in the
line of the queue, where its turn cannot come since nobody can delete a session
any more. That is why the graceful period is always used up then, and the
sessions are never cancelled.

### Services

One browser of one session. `kind` is the `Starter` that `Find` chose and `want`
the capabilities and flags on which a branch depends. `pc` is where the calling
goroutine is; `thing` is the state of the browser's container, the recorder's
container and the driver process. An error path and `Cancel` are lists of calls
that follow each other whatever comes of them, so they are the list `todo`,
taken from its head: `Kill`, `Await`, `CopyLogs`, `Stop`, `Remove`, `Signal`,
`Reap`. `prober` and `done` are the goroutine of `wait` and its channel.

The container engine is external. A call fails without effect or, where an
error does not exclude it, with its effect: a `ContainerStart` that fails leaves
the container as it was, running or gone. A create that fails creates nothing.
A browser may end by itself at any time (`Exit`), and the engine then removes
its container, which `AutoRemove` asks for. `spared` remembers what the engine
or the system refused to end; nothing in the code tries a second time.

`NothingLost`: whatever runs is in the hands of the start, of the session or of
a call still to come, or was spared. Two ways out are named exceptions: the
return at `service/docker.go:182`, which leaves the started container to nobody
(`unconnected`), and the panic of
`getHostPort` (`panicked`), which the HTTP server recovers from. `BrowserLast`:
the recorder and the log come before the browser. `CallsReturn`: start and
cancel end, although `stopProc` waits without a timeout; a driver that cannot be
interrupted is its exception. `ProberStops`: after `wait` has returned its
goroutine goes away, or is stuck where it sends on a channel nobody receives
from (`service/service.go:120`), but does not ask for ever.

### Recordings

The files of sessions that end. `dir` is the two directories, a set of files
that know whose recording they are and who writes to them; `bucket` is S3.
`at[c]` is where the call `c` of a session's `Cancel` is: stop the recorder,
open the log, copy it, rename the video, rename the log, open the metadata and
write it. A rename replaces what has the name, or fails with the file still
there (`unnamed` remembers it); `os.Create` and `os.WriteFile` truncate what is
there, also while it is being uploaded. A copy that breaks off leaves a file
that is `cut`, which goes the way of the others (`partial` remembers it); a
metadata file that could not be written is not announced. Each announced file gets an uploader of its own (`upload`), which opens, sends and
removes the file *by its name*, in three steps between which everything else may
happen. Clients choose names (`Chosen`) and delete files.

Two DELETEs of a session may both call `Cancel` (`hub_sessions` shows how), so a
session may have several calls. `Kept`: whatever fails and overlaps, a recording
is in a directory or in the bucket, unless a client has deleted it or another
session has the same name, whose file then replaces it. It is about there being
a file: one that a second call has truncated, and copied less into, counts as
kept. What is in the file is the subject of `UploadedWhole`: an object is the
whole recording, but for three named cases: a video whose recorder would not
stop, a log whose copy broke off (`service/docker.go:270`), and the log and
metadata of a session that `Cancel` is called twice for. `FinallyNamed`: after
the last call each file is found under its final name; one that `os.Rename`
failed for (`selenoid.go:346`, `367`), under its temporary name.

### Catalogue

`disk` is the two configuration files, which may be edited and fail to parse;
`stage` and `read` are the goroutine of SIGHUP, which reads one file, then the
other, then puts both in place. Its channel has no buffer: a signal is taken
while the goroutine waits for one (`TakeSignal`) and dropped while it loads
(`DropSignal`). `signal` remembers what became of those since the last edit: one
was taken, or all were dropped. `loads` lists
the contents of all loads, and `conf` says which of them is current. A request
finds its browser (`Find`) and takes the log options in another step, without
the lock; then `getLogConfig` looks for a tag in the map of the options, which
all sessions of a load share, and writes the test's name into it. `Collide` is
what the Go runtime does about a map that is written while another goroutine
uses it.

`LaterOptions`: the options are of the browser's load or of a later one.
`OwnTags`: what a test has written reaches no further than the sessions of the
same load. `DiesOnlyUnconfigured`: only tests without a configured tag collide.
`ReloadTakesEffect`: whatever failed before, a signal that is taken loads the
files, if they parse and nobody edits them meanwhile, and the goroutine comes
back for the next one. Of a signal that is dropped it promises nothing, since
the code does not: when a reload has read one file, that file is edited and the
signal for it comes before the reload is over, the old content stays loaded until
somebody sends another signal (`EditFile` and `DropSignal` while the goroutine
is at the second file), although docs/reloading-configuration.adoc:3 only tells
the reader to send one.

### WsDriver

One connection. `pc` follows `HandleConnection` and the functions it calls;
`reqMsg` is the parsed command. A frame is a record of the features that decide
its fate. What is in `wsBuffer` and `httpBuffer` is a `Content`: something of
the n-th command, alone and complete (`intact`) or not. `Fill` and `MakeRequest`
reset a buffer before they write to it, and the wrong variants show what
happens without.

net/http sends a request's body from a goroutine of its own, which `uploads`
holds until it has read the body to its end. `Do` may return before that, when
the hub answers early or an error occurs; `early` remembers it. From then on
the goroutine and the loop share a buffer. A body in `httpBuffer` is read
through the buffer's own offset, so that the goroutine takes away what the loop
has put there since (`Steal`).

`AnswersAreOwn`: the n-th answer is made of the n-th command's response or
error. `RequestsIntact`: a body is still in its buffer when it has been read.
Both hold that way until a response is early. `Promise`: the connection
implements `Answers`, whose clients get one answer for each command, in order,
until the connection closes. The history variables `asked` and `answers` are
the refinement mapping.

## Runs

| Run | Expect | Instance | Distinct states |
|---|---|---|---|
| `queue` | pass | 3 requests, `Limit` 1 | 4,723 |
| `session_timer` | pass | a command, a DELETE, a stream with its ticker, a message sender, 3 channels, `Period` 1 | 34,202 |
| `hub` | pass | 2 requests, 1 client, `Limit` 1, `RetryCount` 2, a signal | 99,200 |
| `services` | pass | `Networks` 2, every `want`, both kinds | 2,703 |
| `recordings` | pass | 2 sessions, 3 calls of `Cancel` (2 of one session), 1 name to choose, 1 deletion | 454,738 |
| `catalogue` | pass | 2 requests, again and again, 2 edits | 470,415 |
| `wsdriver` | pass | 2 RequestIDs, 2 commands, all 3 compressions | 14,978 |
| `timer_overlap`, `ticker_leak` | violation | as `session_timer` | |
| `hub_sessions`, `hub_retry_path` | violation | as `hub` | |
| `wsdriver_cut` | violation | as `wsdriver` | |

Bounds. Three requests and one slot give a line of two, in which the order
matters, a slot that is handed over and a client that leaves from the middle;
`Limit` 2 with four requests (111,238 states) shows nothing new. A timer needs
two uses that overlap and a third party that closes or fires; three channels
allow two overlapping uses besides an armed timer, and four (455,952 states)
give the same answers. In Hub, one client and the timer are two DELETEs of one
session, and the second request is the one whose slot is taken, which waits in
line, or which is still being created when the signal comes. Two attempts are
the least for which the loop goes round after a timeout. Without liveness, two
clients (713,542 states) pass as well.
Services has no bound but `Networks`; with two, the first network may be
connected and the second fail. In Recordings two calls of one session meet each
other and those of a session that has chosen the same name; each session asks
for one kind of file, since kinds never share a name, and one deletion takes
away any file at any moment. In Catalogue one edit may break a file and the
second repair it, and two requests are one that writes a tag and another that
finds it. In WsDriver the buffers carry something from one command to the next,
for which two commands are enough; three (260,954 states) pass as well. The two
RequestIDs let an answer bear a wrong one.

Deadlock is checked in `queue` and `session_timer`. In `hub` it is not: the
program ends, and after a double release everybody may wait for an element that
is gone, which is the code's own deadlock and the subject of `hub_sessions`. Nor
is it in `services`, `recordings`, `catalogue` and `wsdriver`, which end: a
browser is cancelled, files are uploaded, the program may have died of a map, a
connection is closed.

What the violations show is in `PROJECT.json` under `findings`. In short:
overlapping uses of a session leave a timer behind that deletes it while it is
used; an aborted connection leaves its ticker running; two DELETEs of one
session release two slots; the second attempt of a session request goes to a
wrong path when a path is configured; an answer of a WsDriver connection may be
cut when the hub answers before it has read the body. Where the code leaves
something behind, the property names the exception instead: a signal that comes
during a reload and is dropped (`ReloadTakesEffect`), a container that cannot be
connected to a network and the panic of `getHostPort` (`NothingLost`), these two
and the panic of `processBody` (`BrowsersAccounted`, `BrowserEnds`,
`CleanExit`), the goroutine that shutdown does not wait for (`CleanExit`), a log
whose copy broke off (`UploadedWhole`) and a file that could not be renamed
(`FinallyNamed`).

Each property of a passing run has a mutant: a wrong variant of an action,
defined next to it, with which TLC finds the property violated.

## Fairness

`Queue`: goroutines that can run do. Those that receive from `queued` are given
strong fairness, because the runtime keeps blocked receivers in a line, too, so
that an element that comes again and again reaches each of them. `Drop`,
`Create` and `Release` go on once they have begun, but nobody has to call them:
only the attempts of a handler have a deadline, and it may panic. Nobody has to
send a request or to leave. `SessionTimer`: time passes and what has begun goes on; no
connection has to end and nobody has to use the session. `Shutdown`: handlers,
DELETEs, timers and `main` go on while the program runs; clients need not
delete, nobody has to send a signal, and the graceful period may be as long as
one likes. That handlers go on is an assumption about others, too: clients send
the bodies they have announced, the container engine answers, and browsers
answer the DELETEs that are forwarded to them, for which the code has no
timeout; `BrowserEnds` and `OnlyTheLineBlocks` depend on it. A handler that has
panicked does not go on. `Catalogue`: the goroutine of SIGHUP goes on; nobody
has to send a signal, and requests need not come. `Recordings` states no fairness, since nothing in the code makes
up for an upload that failed.
`Services`: the engine answers each call, `wait`'s timer fires, a request to a
server that is gone fails, and a driver that has been sent an interrupt exits.
Nobody has to cancel a browser, and none has to come up. `WsDriver`: a command
that was accepted gets on, since `httpClient` has a timeout of three minutes
and a client that does not read closes sooner or later; it need not send.

## Proofs

The theorems of the modules `...Proofs` hold for every value of the constants
that the `ASSUME`s admit. They state all the invariants and action properties
that the passing runs check, the refinement of `Admission`, by the queue and,
until `disorder`, by the whole hub, and that of `Answers` without its fairness.
For several liveness properties, which are beyond the prover, they state the
safety core as well: what must be there for the property to hold under fairness.
The type invariants of `SessionTimer`, `Services` and `Catalogue` are proved and
not in the runs.

The assumptions are that `Limit`, `Networks`, `MaxCommands` and `MaxEdits` are
natural numbers and `RetryCount` is at least one, that the requests are finite
in number, that `Disabled` and `Keep` are Booleans, that the processes of the
timer are different from each other, clients from requests, and requests from
the two words for a tag, that the timer's period is at least one, that there is
a RequestID, that each call of `Cancel` is about a session and is not the
recorder, and that temporary names and session ids are nobody's chosen names.

*Queue.* The inductive invariant `IInv` is the conjunction of the properties
themselves with `PushersAccounted`: a request that got past line 49 has a
pusher. The counts need each other. That `DropPending` finds an element is a
fact about `pending` alone, but that a slot handed over by `RecvLimit` belongs
to a request not yet counted is `LineAccounted`, and that nobody is counted
twice in `queued` needs to know who has a pusher. Each count is kept by two
lemmas, `OneMore` and `OneLess`, about the size of a set that gains or loses an
element. `NeverStarves` then follows, since a request in `Holders` makes its
size positive. For the refinement, each action of `Queue` is a step of
`Admission` or leaves `sendq` and `Holders` alone; `RecvLimit` is `Leave`.
`TokenComes` counts requests against pushers: whoever receives from `queued`
finds an element or one is on its way. `LineMovesUp` is about each place of the
line: nobody gets before one who waits, and each slot given back moves him up.

*Hub and Shutdown.* Two invariants. `HubInv` holds whatever the order of the
steps is: what `create` has in hand at each of its places (`Handlers`), that a
DELETE past the map has taken its session out (`Deletes`), the bound of the loop
(`LoopBounded`), and of the queue only `LineAccounted`, which survives a slot
released twice. `BrowsersAccounted` is part of it. `OrderInv` holds until
`disorder`: then the DELETEs have different sessions (`OwnTargets`), which are
where the queue has them (`Places`), so that each call of `Drop`, `Create` or
`Release` is the step of `Queue` it should be (`CallsStep`), and the queue's own
invariant carries over. That is `CallsInOrder`; `SessionsHoldSlots` is read off
`HubInv` and `OrderInv` together. For `Shutdown`, `Drained` stays true once it
is (`DrainedStep`): with no new connections and no timer that is answered, no
handler begins again. So whatever `main` visits is not touched by anybody else,
which with `Visits` gives `CleanExit`, and with `Once` that no browser is
stopped twice. What holds until `disorder` is stated for the composed program,
shutdown included: the counts (`QueueStaysTrue`), the limit
(`SessionsStayWithinLimit`, the very property that `hub_sessions` refutes
without the condition) and the refinement (`HubImplementsAdmission`).
`LocksOwned` holds always: the lock of a session has at most one owner. With
`SessionsTimed` it gives `NoSessionForgotten`, that a session in the map has an
armed timer or a DELETE coming that finds the lock free, and `NobodyBlocks`,
that only the line of the queue holds anybody up.

*SessionTimer.* Before any overlap one process at a time is in `select`, `close`
or `arm` (`OneUser`), and the channel is open or closed as this process found or
left it (`ChannelAsLeft`). So the only armed timer is the channel's
(`OneTimer`), and it counts down from the last use: `left[c] + idle = Timeout`
(`TimerSinceUse`). A timer that fires therefore has seen `idle = Timeout`. The
ticker of an open connection is due within its period of the last use
(`TickerInTime`), so that `idle` never reaches `Timeout` meanwhile.
`NeverUntimed` needs no such condition: by `Attended`, who closed a session's
channel is about to replace it or to remove the session, and the goroutine of a
channel that has fired, or whoever found it open since, is on the way to do so.
With `CurrentTimer`, that the session's own channel counts down from the last
use even when there are other timers, it gives `EndsInTime`.

*Services.* That nothing is lost hangs on the list `todo`: a call that leaves it
has ended its object, was refused, or is followed by another for the same
object. `Paired` says so of the calls whose outcome the code ignores (`stop`,
`signal`). All calls are shown to be of one kind (`CallMade`: the head of the
list gives way to further calls for the recorder), and one argument about a list
whose elements shift then serves them all. `Orderly` strengthens `BrowserLast`:
at any place of the list, what ends the browser has what ends the recorder and
what copies the log before it. `ThingsInPlace` says what can run at all at each
place. `CleanWhenOver` adds that a start that has failed, or a cancel that is
over, has left nothing but what was refused. `Work` measures a list of calls: it
is at most seven when an error path or `Cancel` begins, because a call that
others follow can only be the first, and each call lessens it (`ErrorPathsEnd`).

*Recordings.* A file has its session's temporary name or its final one
(`FilesNamed`), and what an uploader has opened and what is in the bucket has
the final name of the session it is sent for. So when a file is replaced or
removed by its name, what takes its place, or has been sent, is of the same
session or of one that shares its name; and an uploader removes only after it
has sent (`RemovalsSent`). Temporary names, final names and chosen ones differ
(`NamesDiffer`), so that no rename hits a file still being recorded.
`UploadedWhole` asks who may still write to a file and who has left it cut
(`WInv`): a recorder writes only before a call of `Cancel` has stopped it, a
log's or metadata's writer only while its own call is at it, and only a copy
that broke off or a writer of metadata cuts a file. So a video or a log with its
final name is complete or one of the three cases is to blame (`Excused`), and
the same is carried on to what is being sent. Metadata has its final name from
the start; it is complete once it has been announced, unless there is a second
call (`MetadataWhole`). `FinallyNamed` asks who may still rename a file
(`RInv`): unless its renaming has failed, a video has its temporary name until
some call gets past the renaming of videos, a log as long as a call is before
its own.

*Catalogue.* Both parts of the configuration are always of the last load
(`OneLoad`), because a reload replaces them at once; so a request that takes its
options later takes them of its browser's load, unless there was another since.
`TestsTagged` says that a test has a tag by the time its container is created,
its own or one found there. Who is about to write a tag is a test that found
none configured (`Writers`), and a collision needs a writer. Since a signal was
taken nobody has edited the files, so if they parse, what the goroutine has read
at each of its places is what is there (`Loading`).

*WsDriver.* `BuffersAreOwn` says for each place which buffer holds what is
needed next, `UploadsInTime` that, until a response is early, bodies are being
sent only while `Do` waits and out of a buffer that holds them: it excludes
`Steal`, and `RequestsIntact` follows. `InStep` relates the answers to the
commands, from which the refinement follows: `Send` is `Answer`.

Only model-checked are the liveness properties, since the prover does not reach
fairness and `ENABLED`:

| Property | Its safety core, proved |
|---|---|
| `WaitingEnds` | `NoIdleSlot`, `NobodyGetsBefore` |
| `QueuedTokenComes` | `TokensAreDue` |
| `BrowserEnds` | `BrowsersAreAccountedFor`, `NoSessionForgotten`, `NobodyBlocks` |
| `IdleSessionEnds` | `SessionsStayTimed`, `SessionsEndInTime` |
| `CallsReturn` | `ErrorPathsEnd` |
| `ProberStops` | `ProberSeesTheEnd` |
| `ReloadTakesEffect` | `TakenSignalsLoad` |
| the fairness of `Answers` | none |

## Not modelled

Request routing, the front matter (`/status`, `/ping`, listings, logs, the VNC
tunnel, JSON errors) and start-up have no state of their own: each is one
decision on a request, a read of what other modules keep, or runs before there
is anything to interleave with. The models have what the handlers behind the
routes do.

Of the modelled parts: bodies and headers, except where a decision hangs on
them; the parsing and merging of capabilities, which is one refusal in `Hub`;
the 2^31-1 elements that three of the queue's channels can hold. `Hub` and
`SessionTimer` take the program's request to itself, the timer's DELETE, as
answered while it listens. `Services` leaves out the settings of a container
(image, mounts, environment, memory), the port a driver is given, which another
process may take before the driver listens, the listener that stays open if the
driver's log file cannot be created (`service/driver.go:59`), and the address a
URL is made of.
`Recordings` leaves out the keys and compression of S3 and the metadata's
content. `Catalogue` leaves out which version with the requested prefix `Find`
takes, the labels among the log options, which are treated as the tag is, and
`State`, which only reads. `WsDriver` leaves out how the fields of a frame are
packed into bits.

## Plan

The components that keep state are modelled and what the runs check of their
safety is proved. What is left: the version that `Find` chooses, as an operator
over a set of versions with a reference definition, if the configuration is
extended.
