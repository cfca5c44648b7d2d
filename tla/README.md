# Pier-O-Bois: TLA+ specifications

Pier-O-Bois times a running race. Runners carry RFID tags; a Zebra FX7500
reader sees them pass; the studio (`src/src`) turns each read into a lap,
shows the laps, saves them and publishes them on a web site (`src/php`). It is
built on manolab-studio: a script engine with devices and plug-ins
(`src/src/manolab`), over a utility library (`src/src/icl`).

This directory holds TLA+ modules for the parts of the program that carry its
state, the TLC configurations that check small instances, and TLAPS proofs for
all instances. Sources are named below without their `src/src/` prefix.

## The system

| Component | State | Operations | Hard behaviour | What makes it correct |
|---|---|---|---|---|
| `TableWindow` | `mTable` (tag -> laps), `mStartTime`, `mWindow` under `mMutex`; `mCategories`, `mDossards`, `mToursMax` without it; `export.json` | `ParseAction` (pool threads), `Draw`, `Autosave`, `SendToServer` (GUI thread), import in the constructor | several pool threads, unlocked maps, crash inside the autosave, lost requests | no double detection, no lap too many, a stable start, saved and published results that are a past state of the table |
| `CourseWindow` | its own copy of the course | `GetCourse`, `Draw` | a second course while reads come in | what it writes into the shared table is the course |
| `ProcessEngine` | event queue, current script, tests, running and quit flags, shared tables, drivers | `LoadScript`, `Start`, `Pause`, `Stop`, `Quit`; `Run`, `TestLoop`, `DoLoadScript`, `InitializeScriptContext` on the engine thread | two consumers of one queue, unlocked reads, failures half-way | a Stop stops, a Quit quits, the tests do not change under the loop |
| `PluginController` | loaded plug-ins, a thread pool | `LinkDevice`, `Callback` | callbacks on the plug-ins' threads | every callback becomes one job |
| `zebrafx7500` plug-in | connection, inventory thread | `InventoryLoop`, `SendToManolab` | reads of unreadable tags, of aliases | one report per read |
| `Pool.h`, `ThreadQueue.h` | queue, condition variable, threads | `enqueue_work`, `Push`, `WaitAndPop`, destructor | lost wake-ups, the null job, late jobs | each job at most once, all promised jobs before the destructor returns |
| `MainWindow`, `TaskListWindow` | the windows, the list of tests | frame loop, buttons, dispatch of the engine's events | events on foreign threads, order of destruction | closing the window ends the threads |
| `manolab/devices`, `manolab/jsext` | one object per driver or function | `Take`, `Release`, calls from scripts | limited drivers, `Delay1s` against Stop | a driver has one user |
| `icl/protocol`, `icl/network` | `mCurrentChunk`, `mCurrentChunkSize`, the socket | `HttpClient::Get`, `TcpClient` | replies in pieces, timeouts, errors, sockets nobody closes | the body wherever the pieces end, and Get returns |
| `icl/util` (`EventLoop`, `Semaphore`, `Log`...) | flags, counters, listeners | `Start`, `Stop`, `Notify`, `Wait`, `AddEntry` | stop before start, timeout against notify (neither used by the studio), a listener that is never removed | no lost stop or token |
| `php` | the results table | send the course, receive results | drop, create and insert, not atomic, by several processes | the last complete results |

How they interact. The reader's thread calls `PluginController::Callback`,
which puts a job into the pool; a pool thread calls `ProcessEngine::SendEvent`,
which calls `MainWindow::EngineEvents`, which calls `TableWindow::ParseAction`.
The GUI thread draws `TableWindow`, then `CourseWindow`, in every frame;
`CourseWindow` hands the course to `TableWindow` through the engine's shared
table. `TaskListWindow`'s buttons push events into the engine's queue, which
the engine thread reads in two places. `CourseWindow` fetches the course with
`HttpClient::Get`; `TableWindow` posts the results, which a PHP script writes
into a database. Each line of the log goes to the engine, which sends it to the
console window. Closing the window takes all these objects away, one by one,
from the threads that use them. Vendored code (imgui, mbedtls, duktape,
sqlite, the RFID library...) is outside.

## The modules

| Module | Models | Lines of the code |
|---|---|---|
| `LapBook` | what the lap table promises to a race (abstract) | `TableWindow.*` |
| `RaceTable` | the reader's reports, the pool's threads in `ParseAction`, the GUI thread in `TableWindow::Draw` and `CourseWindow::Draw`, autosave, server, crash and restart | `TableWindow.*`, `CourseWindow.cpp`, `SetTableEntry`, `StringToFile` |
| `WorkPool` | what the pool promises (abstract) | `Pool.h` |
| `ThreadPool` | the pool over `ThreadQueue`, each critical section a step | `Pool.h`, `ThreadQueue.h` |
| `Shutdown` | `ThreadPool` inside the studio: the main, engine, reader and pool threads and the order of destruction | `MainWindow.*`, `ProcessEngine.*`, `PluginController.*`, `SharedLibrary.cpp`, the plug-in |
| `ProcessEngine` | the GUI thread's calls, `Run`, `TestLoop`, `DoLoadScript`, `Delay1s` | `ProcessEngine.cpp`, `TaskListWindow.cpp`, `Delay1s.cpp` |
| `DeviceBinding` | drivers and plug-ins bound to a script's devices | `InitializeScriptContext`, `CreateDevice`, `LinkDevice` |
| `HttpReply` | `HttpClient::Get` on replies that arrive in pieces | `HttpClient.cpp`, `HttpProtocol.cpp`, `TcpSocket.cpp` |
| `Publication` | requests, and the server's script on them | `TableWindow.cpp`, `reception_resultats.php` |
| `MC*` | small instances for TLC | |
| `*_proofs` | theorems about these modules, and their proofs; `RaceBook_proofs` extends `RaceTable_proofs`, `Shutdown_proofs` extends `ThreadPool_proofs` | |

What composes what: `RaceTable` implements `LapBook`, `ThreadPool` implements
`WorkPool`, `Shutdown` extends `ThreadPool`, whose variables only `ThreadPool`'s
own actions change. `RaceTable`'s `queue` is the pool's queue seen
from outside; `Publication`'s `laps` is `RaceTable`'s table, of which only the
number of laps is kept.

### RaceTable

Variables have the names of the members. A `std::map` is a total function:
`mTable[t] = <<>>`, `mDossards[k] = NoCat`, `mCategories[c] = "none"` mean that
the key is absent. `queue` is the queue of the plug-in controller's pool, as
first in, first out (what `ThreadPool` says of it), and `wk[w]` is where pool
thread `w` is in `ParseAction`: three lookups without the mutex
(`LookDossard`, `LookTours`, `LookCategory`, `LookBox`, each a step), then
everything between `lock` and `unlock` (`Apply`). The GUI thread goes round
`pc`: the copy under the mutex, the autosave in two steps (the file is
truncated, then written), the request, the blocking window, the categories, the
refill of the maps in two steps, the boxes, then the course window. While it
refills a map (`Refilling`), a lookup may also miss an entry that is there.
That is the mildest outcome of the data race, and `NoUnlockedAccess` shows that
the race is reached; the other outcomes of a data race on a `std::map` (a crash,
a corrupt map) are not modelled, so the other runs say what holds when the race
does no more than that.

A time is a natural number of model units. A read carries any stamp
(`CurrentTimeStamp64`): the clock is the system's, which may be set or step
back, so that a later read may have an earlier time. `Encode` and `Decode` are
the subtraction and addition of the start that `Entry::ToString` and
`Entry::FromString` make (a millisecond is exact in the six decimals printed).
A file that was not written to its end (`Torn`) does not parse and is ignored
by the constructor. `KeyMod` stands for 2^32, the width of the dossard keys.
`Restart` is a crash or a closed window, at any step.

`RefinesLapBook` maps the table to a book of passages. Its `Record` writes one
passage, further from the last than a window, and sets the start on the first;
nothing else writes. `Save` may lose the copy half-way and `Recover` falls back
to it. The mapping publishes what the server was last sent, and hides a lost
copy behind `Nothing`. `Passages` gives the book the numbers of passages that
the courses allow a tag; a tag that is no runner's has none.

### ThreadPool and WorkPool

A thread that waits on the condition variable is in `waiting`; `Notify` is
`notify_one`; `SpuriousWakeUp` is what the standard allows. `owner` is the
thread in the destructor. `accepted`, `promised` and `ran` are history
variables shared with `WorkPool`, whose steps the pool's map to: `EnqueueWork`
to `Accept`, `Run` to `Execute`, `Destroy` to `BeginClose`, `Join` to `Close`,
everything else to a stutter.

### Shutdown

`main` is what the main thread has done: `"quitting"` in the Quit of
`~MainWindow`, `"windows"` when the members above `mEngine` are gone,
`"members"` when those of `ProcessEngine` below `mPlugins` are, then the pool's
destructor (`ThreadPool`'s `owner`), then `"unloading"`: the plug-in's only
object is a static of its library, so `~Zebra7500`, which stops the reader's
thread, runs in `dlclose`. `ProcessEngine` registers itself as a listener of
the log and never leaves, so a line of the log is an event like any other
(`Emit`). `Use` records which thread has used which destroyed object and lets
the program go on or crash. `texts` are the jobs with which `Callback(0, ...)`
logs a text of `CheckCapabilities`: the job holds a pointer into a local string
(`TextGone`). The jobs and the rest of the pool are `ThreadPool`'s actions.
`paused` says that `TestLoop` waits in a pause or will find a Pause in its
queue; `EndPause` is the event that ends it. When that is the Stop of `Quit()`,
`TestLoop` may take the Quit too (`quitTaken`), and `Run` never ends: `engine`
stays `"waiting"` and the main thread waits for it for ever. The rest of the
engine's queue is `ProcessEngine`'s.

### ProcessEngine

`todo` is what is left of a call of the GUI thread: the pushes of `Quit` (a
Stop, a Quit) and the join are separate steps. `pc` is where the engine thread
is: `"wait"` in `Run`, `"test"`, `"step"`, `"poll"`, `"paused"` and `"ended"` in
`TestLoop`, the others in a start or a load. `ev` is `TestLoop`'s local
variable, which `TryPop` leaves alone when the queue is empty. A step may wait
in `Delay1s` (`"delay"`, one delay per step): `Execute` resets `mStop`, then
looks at it once per second, and `Stop()` is two steps, the event and the flag.
`missed` remembers that `TestLoop` took a Load. A script's
function, a parser or a device may fail at any call. `DoLoadScript` calls
`Initialize`, which also resets `mRunning`, so that a load is not "running"
after its first step.

### DeviceBinding

`function[i]` is the object registered in the script under the i-th device's
name. A driver may pass or fail its initialisation and self-test; a plug-in may
accept or refuse its parameters. Only the successful end of a run calls
`CloseScriptContext` (`GiveUp` is every other end).

### HttpReply

The wire is a sequence of bytes, of which a line of the header counts as one;
`Data` are the bytes a body may be made of. A reply is a framing, the chunks of
its body, of any number and length, and for each the text the server sends as
its size (`sizes`). `WellFormed` replies have hexadecimal digits there, as many
as the server likes, that are the length; the others may have any bytes. `Recv`
takes any number of bytes up to `RecvSize`. A packet is one step, a turn of the
loop over the chunks another. `RecvError` is the -1 of `recv` that
`SimpleRecvWithTimeout` turns into `true` and no data; it may come again and
again. Before the first byte Get takes it for an empty reply and reports
success. `ParseChunkSize` reads a line and its number as `std::getline` and
`operator>>` into an `int32_t` do: blanks, a sign and `0x` may come first, a
number that does not fit becomes the nearest that does, a text without digits
is 0, and an empty one leaves the size as it was. A negative size is compared as
an unsigned one and waits for ever more data. `badCuts` names the places where a
piece has ended and the decoder does not expect it: in the header, in a body
announced by its length (only the first piece is read), in a size line of which
more than three bytes came, between the data of a chunk and their line end.

### Publication

`SendToServer` is the request of `Draw`, from the timer or the button; it may
fail before anything is sent, which nobody notices. `RowsOf` is `ToJson`: the
rows in the order of the map's keys, the k-th row being the runner of rank k
among those that passed. The server runs one `php` record per process: DROP,
CREATE IF NOT EXISTS, one INSERT per runner, each of them a step that may fail
while the script goes on; a process may die at any (`Die`), a request may be cut,
overtaken or never accepted. History: `alone` (the process that had the table to
itself, without a failed DROP or CREATE), `owner` (the one that dropped it
last), `failed` (the rows whose INSERT failed). The descriptors that neither
`~TcpClient` nor `~TcpSocket` closes are not counted: what their end does, a
request that cannot be sent and a file that cannot be opened, may happen at any
time here and in `RaceTable`.

## The runs

Passing runs:

| Run | Instance | Properties |
|---|---|---|
| `race_pool` | 2 fair pool threads, a runner and a tag that aliases it, 2 categories, a course of two runners and two shorter ones, fetched in any order, 2 reads | `TypeOK`, `RunnersRefreshed`, `PassageRecorded` |
| `race_restart` | 2 pool threads, a runner and a tag that aliases it, a course of one lap, 2 windows, 1 restart, 3 reads with any stamps 0..2 | `LapLimit`, `StartIsAPassage`, `FileIsBehindTable`, `CloudIsBehindTable`, `LapsSpaced`, `RefinesLapBook` |
| `engine` | 2 scripts, 5 clicks, every button, delays of up to 2 seconds, a fair engine thread | `TypeOK`, `RunningWhileTesting`, `LoadedWhole`, `ScriptMatchesTests`, `TestsStable`, `NoStepAfterStop`, `DelayCutByStop`, `StopEnds`, `QuitReturns` |
| `binding` | 3 drivers of 2 types, 2 plug-ins, up to 3 devices | `TypeOK`, `OneNamePerDriver`, `TakenByThisContext`, `ConnectedUpToPlugin` |
| `http` | chunked replies with size lines of 1 to 5 digits in both cases, nine malformed ones, and a plain reply, pieces of 1 to 24 bytes | `TypeOK`, `OnlyTheBody`, `GoodCutsDecode`, `NothingDropped`, `GetReturns` |
| `publication` | 2 runners of up to 2 laps, 2 server processes, 3 requests, 1 restart | `TypeOK`, `LastDropKeepsItsRows`, `LoneRequestRepairs` |
| `shutdown` | 2 pool threads, 3 jobs, any number of scripts and pauses, the window closed at any time | `TypeOK`, `LifeTypeOK`, `NoLostWakeUp`, `OnlyTheseOutlive`, `NoThreadLeft`, `RefinesWorkPool`, `JobsRun`, `ShutdownEnds` |

What they show:

- However the pool interleaves reads and whatever their stamps, each lap that is
  added is later than the runner's last by more than the blocking window in force
  at that moment, nobody gets more laps than a course gave them, laps are only
  appended and the start does not move.
- An allowed read reaches the table, also for a tag 2^32 greater than a dossard,
  which is counted as a runner of its own with that dossard's laps.
- After longer courses, a runner whom no old line names has the category and the
  laps of the course.
- What the server received is the beginning of the results until a restart, and
  a complete `export.json` restores the beginning of the laps at any time.
- The start is the first passage of some runner. It need not be the earliest
  passage: the pool starts a thread per processor, which do not keep the order of
  the reads, and the stamps are wall-clock time.
- Seen from outside, the table is a book in which passages are written one at a
  time and a crash falls back to the saved copy.
- The pool loses neither wake-ups nor jobs; the one null job ends every thread.
- Closing the window ends every thread, the reader's included, unless the engine
  is paused then or a Pause is in its queue; and the code of the plug-in does not
  go before its thread. Three kinds of use of a destroyed object are possible and
  no other: see below.
- A Stop ends a run, even one that repeats a step for ever, and closing the
  window returns, unless a pause is involved.
- A wait in a script is cut short only by a Stop that is ending the run, and the
  functions of a script are evaluated with its own tests unless a Load is on its
  way or was thrown away.
- Cut anywhere but at the places `badCuts` names, a reply with well-formed size
  lines is decoded to its body, byte by byte; a connection that fails behind the
  first byte is never taken for the end of a reply; Get returns unless the socket
  reports errors for ever.
- The process that dropped the results table last keeps the rows it inserts, in
  their order. A request that has the table to itself, and no statement of which
  fails, leaves exactly its rows, whatever was there before: the next one repairs
  what overlapping, failing or dying ones left.
- Two names of a script never drive one device, and drivers left taken by a
  failed context do not count against the next.

Runs that end in a violation, each of a sentence of the repository:

| Run | What the code does |
|---|---|
| `race_stale_categories` | `TableWindow.cpp:215` compares the numbers of categories and not the categories: another course with as many is not noticed |
| `race_stale_dossards` | `SetTableEntry` never removes lines: after a shorter course, old lines are read last and win |
| `race_unlocked` | `ParseAction` reads maps that `Draw` is refilling |
| `http_cut` | `HttpClient.cpp:166` goes on reading with the size of the chunk it has just taken: the line end and the next size line become data |
| `binding_all` | the `break` at `ProcessEngine.cpp:193` ends the loop at the first device bound to a plug-in |

Other behaviour met while modelling, for which the repository promises nothing:

- Pause, then close the window: the Stop that `Quit` sends is taken as the end
  of the pause, `TestLoop` takes the Quit itself, `Run` waits for ever and the
  join never returns. `engine` therefore does not check deadlock, and
  `QuitReturns` and `ShutdownEnds` are about states without a pause.
- A Stop taken as the end of a pause lets the next step run: `NoStepAfterStop`
  excepts the end of a pause.
- A Load clicked during a run is taken by `TestLoop` and lost, but
  `mCurrentScript` has already changed: the next Start evaluates one file with
  the other file's tests (`ScriptMatchesTests` states when).
- A Stop between the start of a step and `Delay1s::Execute`'s reset does not cut
  that delay; the run still ends after it.
- `~ProcessEngine` quits a second time, and the line this logs is appended to
  the console window, which is already destroyed. Jobs still in the pool use the
  windows and the callback after their destruction, the reader's thread uses the
  pool after its. `OnlyTheseOutlive` lists these cases.
- A job that logs a text of the plug-in may run when the text is gone.
- A piece of a reply that ends in the header, or an error before the first byte,
  is taken for an empty reply and reported as a success.
- While `recv` goes on returning -1, Get goes round its loop in a chunked reply
  without an end, and the GUI thread with it.
- A request that connects leaves its descriptor open, about one every ten
  seconds (by reading the code: no module counts them).
- Requests that overlap leave duplicate rows or too few, and one that overtakes
  another takes results back, until the next request.
- `LookBox` may insert a category that was just removed; the numbers then differ
  and the next frame unticks every box.
- After a torn autosave the program starts empty, and saves and publishes that:
  this is why `CloudIsBehindTable` holds only until a restart.

### Bounds, and why they are enough

`MaxTime`, `MaxReads`, `MaxRestarts`, `MaxClicks`, `MaxDelay`, `MaxLaps`
(`Publication`'s), `MaxRequests` and `MaxEvents` bound the counters. In
`race_restart` the three reads of one runner fill a course of one lap plus one
that must be refused, or go to two tags of one dossard; with stamps of 0 to 2
every order of them is there, backwards too, and two windows make a lap allowed
under one and not under the other. Two pool threads are enough for every order of
two reads, one before a restart and one after it included. Saves and reloads
after a second restart are the theorems' business. `race_pool` is about the
courses: two runners, then either of them alone, in the other category, so that
a line is left over or overwritten; a passage counts there whatever its time.
Five clicks are a load, a start and three more (pause, stop, load or start) in
any order, before the window is closed; a delay of two seconds can be cut or
not. Three devices over two drivers of a type exhaust them. Replies of one to
three chunks have size lines below, at and above the three bytes the code takes
for enough, and any cuts in between. Two processes allow two to overlap,
one to die under the other, and a third request to come to the one that is free;
two laps tell the rows of different requests apart. In `shutdown` three jobs
allow both texts of the log and a read; two threads allow one to wait while the
other runs or is notified, and the theorems about `ThreadPool` hold for any
number. The theorems remove the bounds for the properties they state.

`CHECK_DEADLOCK FALSE` is used only where the program really hangs (above).
Elsewhere an explicit `Terminated` step stands for the normal end. In
`RaceTable` the GUI thread never stops, and in `Publication` neither does the
studio.

### Fairness

- `RaceTable!FairSpec`: each pool thread takes a step when it can, the
  scheduler's promise; its critical section is the only place where it waits and
  nobody keeps the mutex. Nothing is asked of the reader, the operator or the
  GUI thread.
- `Shutdown!FairLifeSpec`: the pool's and the reader's threads are scheduled,
  once the window is closed the Stop ends the script or the pause (`StopEnds` of
  `ProcessEngine`), and the main thread goes on with the destructors it has
  begun. A script that has lost its Quit need not end. Nobody has to close the
  window, to start a script or to report a tag.
- `ProcessEngine!FairSpec`: the engine thread, with script functions that
  return, and the calls the GUI thread has begun. No click is ever assumed.
- `HttpReply!FairSpec`: Get goes on; a reception returns after five seconds at
  the latest, with data, without, or with an error. The server is not assumed to
  answer, and errors are not assumed to end: `GetReturns` excepts them.

## The proofs

Each theorem holds for every value of the constants that satisfies the module's
assumptions: any tags, courses, scripts, drivers, threads, jobs, processes or
replies, and any value of the bounds. TLC has checked every inductive invariant
below as an invariant of the component's run before it was proved. Most of the
properties are not inductive; the tables say which invariant carries them, the
text why it is needed.

### RaceTable

`RaceTable_proofs` and, for what concerns the server and `LapBook`,
`RaceBook_proofs`.

| Theorem | States | By |
|---|---|---|
| `TypeCorrect` | `[]TypeOK` | inductive as it stands; one lemma per group of actions, and lemmas on `Encode`, `Decode`, `SetTableEntry` |
| `Spacing` | `LapsSpaced` | `TableInv`, for the steps that restart |
| `StartTime`, `Autosave` | `[]StartIsAPassage`, `[]FileIsBehindTable` | `TableInv` |
| `Limit` | `[]LapLimit` | `LimitInv` |
| `Published` | `[]CloudIsBehindTable` | `DiskInv`, `CloudInv` |
| `TableIsABook` | `RefinesLapBook` | `DiskInv`; each step is a step of `LapBook` or a stutter |
| `Refreshed` | `RunnersRefreshed` | `CourseInv` |

A restart makes the table a copy of the file, and the file is written from the
GUI thread's copy, so `TableInv` says of the copy and of the file what must hold
of the table after a restart: each is, runner by runner, the beginning of the
table (`Image`). `LapLimit` reaches back to the course: `LimitInv` says that
every line of the shared table, every entry of `mDossards` and `mToursMax` and
the local variables of every worker come from a course (`Known`). What is sent
and restored is relative to the start, so `DiskInv` dates the copy and the file:
with laps in it, a copy has the table's start (`Dated`); and while the autosave
writes, the file is empty. `CourseInv` says that the shared table begins with the
lines of the course, one for each of its runners and no two for one; what
`SetTableEntry` leaves behind a shorter course comes after them, and
`RunnersRefreshed` excepts the runners it names, which is the case
`race_stale_dossards` shows.

### ThreadPool and Shutdown

| Theorem | States | By |
|---|---|---|
| `PoolTypeCorrect` | `[]TypeOK` | inductive |
| `WakeUps` | `[]NoLostWakeUp` | `WakeInv`, with `TypeOK` |
| `PoolKeepsPromise` | `RefinesWorkPool` | `JobInv` |
| `StudioKeepsPromise` | `LifeSpec => RefinesWorkPool /\ []NoLostWakeUp` | `LifeIsPool`: each step of the studio is one of the pool or leaves its variables alone |
| `LifeTypeCorrect`, `Outliving` | `[]LifeTypeOK`, `[]OnlyTheseOutlive` | `LifeInv`, `PauseInv` for the pause |
| `NoThreads` | `[]NoThreadLeft` | `LifeInv`, and `JobInv` for the pool's threads |
| `JobsRunByTheEnd` | when the studio has ended, the jobs promised by its pool have run | `LifeInv`, `JobInv` |

`JobInv` follows a job from the queue to a thread: an accepted job is queued,
held by one thread or done, never two of these, and while the destructor runs
the promised jobs are in front of the null job. `LifeInv` is the order of
destruction: nothing goes before the engine's thread was joined, the reader gets
the order to stop only when the pool is gone, the library is closed last
(`Joined`, `StopOrder`); and a job comes from the reader or from the texts that
connecting it logs (`Sources`), which is why so few uses of destroyed objects
are possible.

### ProcessEngine

| Theorem | States | By |
|---|---|---|
| `EngineTypeCorrect` | `[]TypeOK` | `LoopInv` |
| `RunningFlag`, `WholeScripts`, `OneScript` | `[]RunningWhileTesting`, `[]LoadedWhole`, `[]ScriptMatchesTests` | `TestsInv` |
| `StableTests` | `TestsStable` | the actions alone: whatever changes the tests is outside `Testing` |
| `StopsAtOnce` | `NoStepAfterStop` | `LoopInv` |
| `CutByStop` | `DelayCutByStop` | `StopInv` |

The type is not inductive alone: a Load reads the script that the click has
chosen, and that there is one follows from the event (`Chosen`); a step of
`TestLoop` stays within the tests because its locals are reset when it is left
(`Locals`). A Stop is two steps of the GUI thread, the event and the flag of the
delay. `StopInv` says what lies between them: the event is the last of the
queue, or it was taken and the run it found ends without another event; so that
a flag that is set belongs to a run that is being stopped.

### DeviceBinding

| Theorem | States | By |
|---|---|---|
| `BindingTypeCorrect` | `[]TypeOK` | inductive |
| `OneName`, `Taking`, `Connecting` | `[]OneNamePerDriver`, `[]TakenByThisContext`, `[]ConnectedUpToPlugin` | `BindInv` |

`BindInv` adds what the loop has done when it is at a device: those before it
have their drivers and are connected, those behind it have none (`Progress`),
and every taken driver is the work of one before it (`Ledger`). `Connecting`
stops at the first plug-in: a device behind it may still be connected, by an
earlier context.

### Publication

| Theorem | States | By |
|---|---|---|
| `PublicationTypeCorrect` | `[]TypeOK` | `TableInv` |
| `RowsOfTable` | what `RowsOf` makes of a table: one row per runner that passed, in order | ranks are a bijection onto 1..n |
| `LastDrop`, `LoneRequest` | `[]LastDropKeepsItsRows`, `[]LoneRequestRepairs` | `TableInv` (also `TableKeepsPromise`) |

A process that has dropped the table last is still at work on it, or done, and
has no row in it while the table is missing (`Dropped`); a process that has the
table to itself has put exactly its rows there so far, if no INSERT was refused,
while every other one waits (`Alone`).

### HttpReply

| Theorem | States | By |
|---|---|---|
| `HttpTypeCorrect` | `[]TypeOK` | inductive |
| `NothingIsDropped`, `OnlyBodyBytes`, `WholeBodies` | `[]NothingDropped`, `[]OnlyTheBody`, `[]GoodCutsDecode` | `DecodeInv` |

As long as no piece has ended at an unlucky place, `DecodeInv` says that Get has
received nothing (`NothingYet`), or waits in a chunked reply at the start of the
j-th size line or of the data behind it (`Reading`), or is done (`Finished`).
`NothingDropped` alone is not inductive: the next turn of the loop relies on the
last cut not being an unlucky one, and a reception that brings nothing on the
reply not being complete while Get waits for more, which bounds what can wait.

The proof needs what the recursive operators compute. Induction here is about
sets: a set that holds 0 and the successor of each of its numbers is `Nat`
(`AllNumbers`, from the well-foundedness of `<`). With it, `FlattenSeq` is what
concatenating one sequence after the other gives (`FlattenStep`,
`FlattenPrefix`), every chunk is where `LineStart` and `DataStart` say
(`LineShape`, `LastLineShape`), and a well-formed size line with a byte behind it is
read as the length it stands for, however many digits it has (`DigitsRead`,
`SizeLineRead`). `HexValue` is a recursive
function for the same reason: tlapm cannot expand a fold of the community
modules.

### Only model-checked

- Liveness: `PassageRecorded`, `StopEnds`, `QuitReturns`, `GetReturns`,
  `JobsRun`, `ShutdownEnds`. They rest on `ENABLED`, which tlapm does not expand.
- The five sentences that the code does not keep, whose counterexamples TLC
  finds.

## Not modelled

- Vendored code: imgui and its widgets, duktape, sqlite, mbedtls, miniz, tz, the
  CAN, HID and RFID libraries, CImg and others are nearly all of the lines under
  `src/src`; they have projects of their own. The program's own code that keeps
  state is a few thousand lines.
- Instrument drivers, Modbus and serial lines: a request and the parsing of its
  answer on the engine's thread, with no state between two calls.
- TCP servers, the HTTP file server, `EventLoop`, `Semaphore`, `TinyMac`, the
  database and zip wrappers, TLS and UDP: nothing in the studio uses them.
- Drawing, wording, settings, the JSON and hash code: conversions and pure I/O.
- The loader lock of Windows, under which the plug-in's destructor joins.
- `AutoTest`, `enqueue_task` and the timed `WaitAndPop` have no caller.

`PROJECT.json` gives a reason for each component.

## Plan

Done, in this order: `RaceTable`, its proofs, `WorkPool`, `ThreadPool`, its
proofs, `ProcessEngine`, `DeviceBinding`, `LapBook`, `HttpReply`, `Publication`,
`Delay1s` in `ProcessEngine`, `Shutdown`.

Proved, in this order: `RaceTable`'s types, spacing, start, limit and autosave;
`ThreadPool`; `DeviceBinding`; `ProcessEngine`; `Shutdown`; `Publication`;
`LapBook`'s refinement and the server's copy; `HttpReply`.

Every safety and action property of the passing runs is now a theorem, without
a hypothesis beyond the modules' assumptions. Next:

1. The safety halves of the liveness properties, as `JobsRunByTheEnd` is of
   `JobsRun`: each turn of Get's loop takes bytes or ends it (`GetReturns`); a
   read taken by a worker that nobody forbids is written by `Apply`
   (`PassageRecorded`).
2. After `Quit`, when there was no pause, the quit event is in the queue or Run
   has taken it: what `QuitReturns` needs of the queue.
