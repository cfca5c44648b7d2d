------------------------------ MODULE Shutdown ------------------------------
(***************************************************************************)
(* The end of the studio: four kinds of threads and the order in which the *)
(* main thread takes the objects they use away from them.                  *)
(*                                                                         *)
(*   main thread    ~MainWindow quits the engine, then destroys the        *)
(*                  windows and, last, mEngine, which quits once more and  *)
(*                  logs it; then go mEventCallback, PluginController's    *)
(*                  mPool and mLibs                                        *)
(*   engine thread  runs scripts, whose events go to the windows; a script *)
(*                  that names the RFID reader connects it and has the     *)
(*                  pool log what it found                                 *)
(*   reader thread  InventoryLoop; ended by ~Zebra7500, which runs when    *)
(*                  mLibs closes the plug-in's library                     *)
(*   pool threads   ThreadPool; each job is a SendEvent that reaches       *)
(*                  TableWindow::ParseAction through mEventCallback, or a  *)
(*                  line of the log, which reaches ConsoleWindow that way  *)
(*                                                                         *)
(* ProcessEngine listens to the log and never stops listening. Nobody      *)
(* waits for the reader before the pool and the windows are gone.          *)
(* Using a destroyed object either does no harm or ends the program.       *)
(***************************************************************************)
EXTENDS ThreadPool, SequencesExt

CONSTANT MaxEvents  \* bound: events of the reader's library

ASSUME ShutdownAssumption == MaxEvents \in Nat

VARIABLES
  main,     \* what the main thread has done so far, or "crashed"
  engine,   \* engine thread: "waiting", "running" a script, "checking" the
            \* reader's capabilities or "exited"
  reader,   \* reader thread: "none", "order", "read", "last" turn, "ended"
  orders,   \* the plug-in's mLoopQueue
  texts,    \* the jobs that log a text of CheckCapabilities, in their order
  events,   \* events pushed so far (bound)
  paused,   \* will TestLoop find a Pause, or has it, and no event to end it?
  quitTaken,\* has TestLoop taken the Quit?
  touched   \* history: who has used which destroyed object

pauseVars == <<paused, quitTaken>>
lifeVars == <<main, engine, reader, orders, texts, events, pauseVars, touched>>
allVars == <<vars, lifeVars>>

LifeInit ==
  /\ Init
  /\ main = "open" /\ engine = "waiting" /\ reader = "none"
  /\ orders = <<>> /\ texts = <<>> /\ events = 0
  /\ paused = FALSE /\ quitTaken = FALSE
  /\ touched = {}

WindowsGone  == main \in {"windows", "members", "unloading", "ended"}
CallbackGone == main \in {"members", "unloading", "ended"}

\* The jobs hold a pointer into CheckCapabilities's local string, which is
\* assigned again for the second text and destroyed when the function returns.
TextGone(j) ==
  /\ Contains(texts, j)
  /\ engine # "checking" \/ j # Last(texts)

Dead == {o \in {"windows", "callback", "pool"} :
          \/ o = "windows" /\ WindowsGone
          \/ o = "callback" /\ CallbackGone
          \/ o = "pool" /\ owner = "gone"}

\* "who" uses some destroyed objects, none as a rule: if any, the program goes
\* on to "then" or crashes.
Use(who, dead, then) ==
  /\ touched' = touched \cup ({who} \X dead)
  /\ main' \in IF dead = {} THEN {then} ELSE {then, "crashed"}

\* An event, or a line of the log, on its way to a window.
Emit(who, then) == Use(who, Dead \cap {"callback", "windows"}, then)

-----------------------------------------------------------------------------
(* The engine thread. What the operator clicked before closing the window    *)
(* precedes the Stop and the Quit in the engine's queue; the main thread only *)
(* waits for the engine meanwhile, so the engine is let do all of it before.  *)

\* A script begins and ends with an event for the windows.
BeginScript ==
  /\ engine = "waiting" /\ main = "open"
  /\ engine' = "running"
  /\ Emit("engine", main)
  /\ UNCHANGED <<reader, orders, texts, events, pauseVars, vars>>

\* LinkDevice, SetParameters, Zebra7500::Initialize: the reader is connected
\* and the pool is to log one or two texts. A second time it does nothing.
CheckCapabilities(j) ==
  /\ engine \in {"running", "checking"} /\ reader = "none"
  /\ Len(texts) < 2
  /\ engine' = "checking"
  /\ texts' = Append(texts, j)
  /\ EnqueueWork(j)
  /\ UNCHANGED <<main, reader, orders, events, pauseVars, touched>>

\* Without memory for the tags the thread ends at once.
LinkReader ==
  /\ engine = "checking"
  /\ engine' = "running"
  /\ reader' \in {"order", "ended"}
  /\ UNCHANGED <<main, orders, texts, events, pauseVars, touched, vars>>

\* The operator clicks Pause while the script runs.
Pause ==
  /\ engine = "running" /\ main = "open"
  /\ ~paused /\ paused' = TRUE
  /\ UNCHANGED <<main, engine, reader, orders, texts, events, quitTaken, touched,
                 vars>>

\* Any event ends a pause: another click, or the Stop of Quit(), and then the
\* next steps may take the Quit behind it too.
EndPause ==
  /\ engine = "running" /\ paused
  /\ paused' = FALSE
  /\ quitTaken' \in IF main = "open" THEN {FALSE} ELSE BOOLEAN
  /\ UNCHANGED <<main, engine, reader, orders, texts, events, touched, vars>>

\* The script's last step, or the Stop, or a Quit that TestLoop has taken.
EndScript ==
  /\ engine = "running" /\ ~paused
  /\ engine' = "waiting"
  /\ Emit("engine", main)
  /\ UNCHANGED <<reader, orders, texts, events, pauseVars, vars>>

\* Run ends at a Quit, and waits for ever for the one that TestLoop has taken.
TakeQuit ==
  /\ engine = "waiting" /\ main # "open"
  /\ ~quitTaken
  /\ engine' = "exited"
  /\ UNCHANGED <<main, reader, orders, texts, events, pauseVars, touched, vars>>

Engine == \/ BeginScript \/ LinkReader \/ Pause \/ EndPause \/ EndScript
          \/ TakeQuit
          \/ \E j \in Jobs : CheckCapabilities(j)

-----------------------------------------------------------------------------
(* The reader thread.                                                      *)

VendorEvent ==
  /\ reader \notin {"none", "ended"} /\ events < MaxEvents
  /\ events' = events + 1
  /\ orders' = Append(orders, "event")
  /\ UNCHANGED <<main, engine, reader, texts, pauseVars, touched, vars>>

\* One order per turn; the turn goes on after the order to stop.
TakeOrder ==
  /\ reader = "order"
  /\ IF orders = <<>>
     THEN reader' = "read" /\ UNCHANGED orders
     ELSE /\ reader' = IF Head(orders) = "stop" THEN "last" ELSE "read"
          /\ orders' = Tail(orders)
  /\ UNCHANGED <<main, engine, texts, events, pauseVars, touched, vars>>

EndTurn == reader' = IF reader = "last" THEN "ended" ELSE "order"

NoTag ==
  /\ reader \in {"read", "last"}
  /\ EndTurn
  /\ UNCHANGED <<main, engine, orders, texts, events, pauseVars, touched, vars>>

\* SendToManolab, PluginController::Callback, enqueue_work.
SendToManolab(j) ==
  /\ reader \in {"read", "last"}
  /\ EndTurn
  /\ Use("reader", Dead \cap {"pool"}, main)
  /\ IF owner = "gone" THEN j \notin accepted /\ UNCHANGED vars ELSE EnqueueWork(j)
  /\ UNCHANGED <<engine, orders, texts, events, pauseVars>>

Reader == TakeOrder \/ NoTag \/ \E j \in Jobs : SendToManolab(j)

-----------------------------------------------------------------------------
(* The pool threads.                                                       *)

RunJob(t) ==
  /\ Run(t)
  /\ LET text == IF TextGone(workItem[t]) THEN {"text"} ELSE {}
     IN  Use("job", text \cup (Dead \cap {"callback", "windows"}), main)
  /\ UNCHANGED <<engine, reader, orders, texts, events, pauseVars>>

PoolThread(t) ==
  \/ RunJob(t)
  \/ (Wait(t) \/ Pop(t) \/ Exit(t)) /\ UNCHANGED lifeVars

WakeUp(t) == SpuriousWakeUp(t) /\ UNCHANGED lifeVars

-----------------------------------------------------------------------------
(* The main thread.                                                        *)

mainFrame == <<engine, reader, orders, texts, events, pauseVars, touched>>

\* ~MainWindow begins: Quit() pushes its events.
Close ==
  /\ main = "open"
  /\ main' = "quitting"
  /\ UNCHANGED <<mainFrame, vars>>

\* Mutant: the engine is left to its own destructor.
DestroyWindows_NoQuit ==
  /\ main = "quitting"
  /\ main' = "windows"
  /\ UNCHANGED <<mainFrame, vars>>

\* Quit() has joined the engine thread; the members follow.
DestroyWindows ==
  /\ main = "quitting" /\ engine = "exited"
  /\ main' = "windows"
  /\ UNCHANGED <<mainFrame, vars>>

\* ~ProcessEngine quits again, "Script stopped by user button" goes to the
\* console, and what is declared after mPlugins is destroyed.
DestroyMembers ==
  /\ main = "windows" /\ engine = "exited"
  /\ Emit("main", "members")
  /\ UNCHANGED <<engine, reader, orders, texts, events, pauseVars, vars>>

\* Mutant: mPool declared in another object, destroyed with the windows.
DestroyPool_Early == WindowsGone /\ Destroy /\ UNCHANGED lifeVars

DestroyPool == main = "members" /\ Destroy /\ UNCHANGED lifeVars

JoinPool == Join /\ UNCHANGED lifeVars

\* dlclose, ~Zebra7500, Stop: the order 42, if a reader was connected.
Unload ==
  /\ main = "members" /\ owner = "gone"
  /\ main' = IF reader = "none" THEN "ended" ELSE "unloading"
  /\ orders' = IF reader = "none" THEN orders ELSE Append(orders, "stop")
  /\ UNCHANGED <<engine, reader, texts, events, pauseVars, touched, vars>>

\* Mutant: Stop does not join the reader thread.
JoinReader_Detached ==
  /\ main = "unloading"
  /\ main' = "ended"
  /\ UNCHANGED <<mainFrame, vars>>

JoinReader ==
  /\ main = "unloading" /\ reader = "ended"
  /\ main' = "ended"
  /\ UNCHANGED <<mainFrame, vars>>

Main == DestroyWindows \/ DestroyMembers \/ DestroyPool \/ JoinPool
          \/ Unload \/ JoinReader

-----------------------------------------------------------------------------
Alive == main \notin {"ended", "crashed"}

LifeNext ==
  \/ Alive /\ (Engine \/ Reader \/ VendorEvent \/ Close \/ Main)
  \/ \E t \in Threads : Alive /\ (PoolThread(t) \/ WakeUp(t))
  \/ ~Alive /\ UNCHANGED allVars

LifeSpec == LifeInit /\ [][LifeNext]_allVars

\* The threads are scheduled, the Stop ends a script or a pause, and the main
\* thread goes on with its destructors. Nobody has to close the window or to run
\* a script, and a script that has lost its Quit need not end: it may repeat a
\* step for ever.
FairLifeSpec ==
  /\ LifeSpec
  /\ WF_allVars(Alive /\ Main)
  /\ WF_allVars(Alive /\ Reader)
  /\ WF_allVars(Alive /\ LinkReader)
  /\ WF_allVars(Alive /\ main # "open" /\ ~quitTaken
                  /\ (EndPause \/ EndScript \/ TakeQuit))
  /\ \A t \in Threads : WF_allVars(Alive /\ PoolThread(t))

-----------------------------------------------------------------------------
\* Types of the threads and the objects they share; the pool ends after the
\* engine's callback and before the order to stop the reader.
LifeTypeOK ==
  /\ main \in {"open", "quitting", "windows", "members", "unloading", "ended",
               "crashed"}
  /\ engine \in {"waiting", "running", "checking", "exited"}
  /\ reader \in {"none", "order", "read", "last", "ended"}
  /\ orders \in Seq({"event", "stop"}) /\ events \in 0 .. MaxEvents
  /\ owner # "using" => CallbackGone \/ main = "crashed"
  /\ reader = "last" => owner = "gone"
  /\ texts \in Seq(accepted) /\ Len(texts) <= 2
  /\ paused \in BOOLEAN /\ quitTaken \in BOOLEAN
  /\ paused => engine \in {"running", "checking"}
  /\ touched \subseteq {"engine", "reader", "job", "main"}
                         \X {"windows", "callback", "pool", "text"}

\* Who may use what is destroyed: the line that ~ProcessEngine logs, the jobs,
\* and the reader, when one was connected. The engine thread never does, a job
\* never finds its pool gone, and a text is lost to its own job only.
OnlyTheseOutlive ==
  /\ touched \subseteq {<<"main", "windows">>, <<"job", "windows">>,
                        <<"job", "callback">>, <<"job", "text">>,
                        <<"reader", "pool">>}
  /\ reader = "none" /\ texts = <<>> => touched \subseteq {<<"main", "windows">>}

\* When main returns no thread runs: not the engine's, not a pool thread, and
\* not the reader's, whose code the library took away with it.
NoThreadLeft ==
  main = "ended" =>
    /\ engine = "exited" /\ reader \in {"none", "ended"}
    /\ \A t \in Threads : pc[t] = "exit"

\* A job handed over before the pool's destructor is run, whatever the order
\* of destruction, unless the program crashes first.
JobsRun == \A j \in Jobs : (j \in promised) ~> (j \in ran \/ main = "crashed")

\* Closing the window ends the studio: the Quit, the null job and the order to
\* stop each end the threads they are for, even those still at work. This is so
\* unless the engine is paused then, or a Pause is in its queue: the Stop that
\* precedes the Quit only ends the pause, TestLoop may take the Quit, and the
\* window never closes (ProcessEngine.cpp:825, 870).
ShutdownEnds == (main = "quitting" /\ ~paused /\ ~quitTaken) ~> ~Alive
=============================================================================
