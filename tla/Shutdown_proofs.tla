-------------------------- MODULE Shutdown_proofs --------------------------
(***************************************************************************)
(* The pool keeps its promises inside the studio, because every step of    *)
(* the studio is a step of ThreadPool or leaves its variables alone; and   *)
(* the order of the destructors decides who still uses what, for any       *)
(* number of threads, jobs and events of the reader.                       *)
(***************************************************************************)
EXTENDS Shutdown, ThreadPool_proofs

\* A step of the studio is a step of the pool, or none.
LEMMA StepIsPoolStep == [LifeNext]_allVars => [Next]_vars
<1> SUFFICES ASSUME LifeNext, ~UNCHANGED vars PROVE Next
  BY DEF allVars
<1> USE DEF mainFrame, lifeVars
<1>1. CASE Engine
  BY <1>1 DEF Engine, BeginScript, CheckCapabilities, LinkReader, Pause, EndPause,
              EndScript, TakeQuit, Next
<1>2. CASE Reader
  BY <1>2 DEF Reader, TakeOrder, NoTag, SendToManolab, Next
<1>3. CASE VendorEvent \/ Close
  BY <1>3 DEF VendorEvent, Close
<1>4. CASE Main
  BY <1>4 DEF Main, DestroyWindows, DestroyMembers, DestroyPool, JoinPool, Unload,
              JoinReader, Next
<1>5. ASSUME NEW t \in Threads, PoolThread(t) \/ WakeUp(t) PROVE Next
  BY <1>5 DEF PoolThread, RunJob, WakeUp, Next, Thread
<1>6. CASE UNCHANGED allVars
  BY <1>6 DEF allVars
<1>7. QED  BY ONLY LifeNext, <1>1, <1>2, <1>3, <1>4, <1>5, <1>6 DEF LifeNext

\* The studio's behaviours are behaviours of the pool.
LEMMA LifeIsPool == LifeSpec => Spec
<1>1. LifeInit => Init
  BY DEF LifeInit
<1>2. QED  BY <1>1, StepIsPoolStep, PTL DEF LifeSpec, Spec

\* The pool keeps its promise inside the studio, whatever is destroyed around
\* it: no job runs twice or in a destroyed pool, and none handed over before
\* the destructor is dropped; and no wake-up is lost.
THEOREM StudioKeepsPromise == LifeSpec => RefinesWorkPool /\ []NoLostWakeUp
<1>1. QED  BY LifeIsPool, PoolKeepsPromise, WakeUps

-----------------------------------------------------------------------------
(* The invariants.                                                         *)

\* Quit() has joined the engine thread before anything is destroyed; the pool
\* is destroyed before the plug-in's library is closed, which joins the reader.
Joined ==
  /\ WindowsGone => engine = "exited"
  /\ main \in {"unloading", "ended"} => owner = "gone"
  /\ main = "ended" => reader \in {"none", "ended"}
  /\ owner # "using" => CallbackGone \/ main = "crashed"

\* The order to stop is given when the pool is gone, and only by its destructor.
StopOrder ==
  /\ \A i \in 1 .. Len(orders) : orders[i] = "stop" => owner = "gone"
  /\ reader = "last" => owner = "gone"

\* Jobs come from the reader or from the texts that connecting it logs.
Sources == accepted # {} => reader # "none" \/ texts # <<>>

\* What the variables of the studio hold.
Life ==
  /\ main \in {"open", "quitting", "windows", "members", "unloading", "ended",
               "crashed"}
  /\ engine \in {"waiting", "running", "checking", "exited"}
  /\ reader \in {"none", "order", "read", "last", "ended"}
  /\ orders \in Seq({"event", "stop"}) /\ events \in 0 .. MaxEvents
  /\ texts \in Seq(accepted) /\ Len(texts) <= 2

LifeInv == Life /\ Joined /\ StopOrder /\ Sources /\ OnlyTheseOutlive

\* Only a script is paused.
PauseInv ==
  /\ paused \in BOOLEAN /\ quitTaken \in BOOLEAN
  /\ paused => engine \in {"running", "checking"}

\* What EnqueueWork does to the jobs.
LEMMA EnqueueShape ==
  ASSUME NEW j \in Jobs, EnqueueWork(j)
  PROVE  owner' = owner /\ owner # "gone" /\ accepted' = accepted \cup {j}
BY DEF EnqueueWork

\* The sequence of the texts of a larger set of jobs.
LEMMA TextsGrow ==
  ASSUME NEW S, NEW T, S \subseteq T, NEW s \in Seq(S)
  PROVE  s \in Seq(T)
OBVIOUS

\* Who uses what.
LEMMA UseShape ==
  ASSUME NEW who, NEW dead, NEW then, Use(who, dead, then)
  PROVE  /\ touched' = touched \cup ({who} \X dead)
         /\ main' = then \/ main' = "crashed"
         /\ dead = {} => main' = then /\ touched' = touched
BY DEF Use

\* The objects that exist while the engine thread does.
LEMMA NothingDead ==
  ASSUME ~WindowsGone
  PROVE  Dead \cap {"callback", "windows"} = {}
BY DEF Dead, WindowsGone, CallbackGone

\* A step of the engine thread touches nothing that is destroyed.
LEMMA EngineStep ==
  ASSUME LifeInv, Engine
  PROVE  LifeInv'
<1> USE DEF LifeInv, Life, Joined, StopOrder, Sources
<1>1. CASE BeginScript \/ EndScript
  <2>1. ~WindowsGone
    BY <1>1 DEF BeginScript, EndScript, WindowsGone
  <2>2. main' = main /\ touched' = touched /\ engine' \in {"running", "waiting"}
    BY <1>1, <2>1, NothingDead DEF BeginScript, EndScript, Emit, Use
  <2>3. UNCHANGED <<reader, orders, texts, events, owner, accepted>>
    BY <1>1 DEF BeginScript, EndScript, vars
  <2>4. QED  BY <2>1, <2>2, <2>3 DEF OnlyTheseOutlive, WindowsGone, CallbackGone
<1>2. ASSUME NEW j \in Jobs, CheckCapabilities(j) PROVE LifeInv'
  <2>1. /\ engine' = "checking" /\ engine # "exited" /\ texts' = Append(texts, j)
        /\ UNCHANGED <<main, reader, orders, events, touched, owner>>
        /\ accepted' = accepted \cup {j} /\ Len(texts) < 2
    BY <1>2, EnqueueShape DEF CheckCapabilities
  <2>2. texts' \in Seq(accepted') /\ Len(texts') <= 2 /\ texts' # <<>>
    <3>1. texts \in Seq(accepted')
      BY <2>1, TextsGrow
    <3>2. QED  BY <2>1, <3>1
  <2>3. QED  BY <2>1, <2>2 DEF OnlyTheseOutlive, WindowsGone, CallbackGone
<1>3. CASE LinkReader
  BY <1>3 DEF LinkReader, pauseVars, vars, OnlyTheseOutlive, WindowsGone, CallbackGone
<1>4. CASE TakeQuit
  BY <1>4 DEF TakeQuit, pauseVars, vars, OnlyTheseOutlive, WindowsGone, CallbackGone
<1>5. CASE Pause \/ EndPause
  BY <1>5 DEF Pause, EndPause, vars, OnlyTheseOutlive, WindowsGone, CallbackGone
<1>6. QED  BY ONLY Engine, <1>1, <1>2, <1>3, <1>4, <1>5 DEF Engine

\* A step of the reader thread may use the destroyed pool, nothing else.
LEMMA ReaderStep ==
  ASSUME LifeInv, main # "ended", Reader
  PROVE  LifeInv'
<1> USE DEF LifeInv, Life, Joined, StopOrder, Sources
<1>1. CASE TakeOrder
  <2>1. /\ UNCHANGED <<main, engine, texts, events, touched, owner, accepted>>
        /\ reader' \in {"read", "last"}
    BY <1>1 DEF TakeOrder, vars
  <2>2. /\ orders' \in Seq({"event", "stop"})
        /\ \A i \in 1 .. Len(orders') : orders'[i] = "stop" => owner = "gone"
        /\ reader' = "last" => owner = "gone"
    <3>1. CASE orders = <<>>
      BY <1>1, <3>1 DEF TakeOrder
    <3>2. CASE orders # <<>>
      <4>1. /\ orders' = Tail(orders)
            /\ reader' = IF Head(orders) = "stop" THEN "last" ELSE "read"
        BY <1>1, <3>2 DEF TakeOrder
      <4>2. /\ Len(orders) \in Nat /\ Len(orders) >= 1 /\ Head(orders) = orders[1]
            /\ Len(Tail(orders)) = Len(orders) - 1
            /\ \A i \in 1 .. Len(orders) - 1 : Tail(orders)[i] = orders[i + 1]
            /\ Tail(orders) \in Seq({"event", "stop"})
        BY <3>2
      <4>3. \A i \in 1 .. Len(orders) - 1 : i + 1 \in 1 .. Len(orders)
        BY <4>2
      <4>4. QED  BY <4>1, <4>2, <4>3
    <3>3. QED  BY <3>1, <3>2
  <2>3. QED
    BY <1>1, <2>1, <2>2 DEF TakeOrder, OnlyTheseOutlive, WindowsGone, CallbackGone
<1>2. CASE NoTag
  BY <1>2 DEF NoTag, EndTurn, vars, OnlyTheseOutlive, WindowsGone, CallbackGone
<1>3. ASSUME NEW j \in Jobs, SendToManolab(j) PROVE LifeInv'
  <2>1. /\ reader # "none" /\ reader' \in {"order", "ended"}
        /\ UNCHANGED <<engine, orders, texts, events>>
    BY <1>3 DEF SendToManolab, EndTurn
  <2>2. /\ main' = main \/ main' = "crashed"
        /\ touched' \subseteq touched \cup {<<"reader", "pool">>}
    BY <1>3 DEF SendToManolab, Use
  <2>3. owner' = owner /\ accepted \subseteq accepted'
    BY <1>3, EnqueueShape DEF SendToManolab, vars
  <2>4. texts' \in Seq(accepted')
    BY <2>1, <2>3, TextsGrow
  <2>5. QED
    BY <2>1, <2>2, <2>3, <2>4 DEF OnlyTheseOutlive, WindowsGone, CallbackGone
<1>4. QED  BY ONLY Reader, <1>1, <1>2, <1>3 DEF Reader

\* A step of a pool thread: a job that runs comes from the reader, or from one
\* that was connected, and may find the windows or its text gone.
LEMMA PoolStep ==
  ASSUME TypeOK, JobInv, LifeInv, NEW t \in Threads, PoolThread(t) \/ WakeUp(t)
  PROVE  LifeInv'
<1> USE DEF LifeInv, Life, Joined, StopOrder, Sources
<1>1. CASE RunJob(t)
  <2>1. UNCHANGED <<engine, reader, orders, texts, events, owner, accepted>>
    BY <1>1 DEF RunJob, Run
  <2>2. accepted # {}
    <3>1. workItem[t] \in Jobs /\ Holds(t, workItem[t])
      BY <1>1 DEF RunJob, Run, TypeOK, Items, Holds
    <3>2. QED  BY <3>1 DEF JobInv, Held
  <2>3. /\ main' = main \/ main' = "crashed"
        /\ touched' \subseteq touched \cup ({"job"} \X {"text", "callback", "windows"})
    <3>1. PICK dead \in SUBSET {"text", "callback", "windows"} : Use("job", dead, main)
      BY <1>1 DEF RunJob
    <3>2. QED  BY <3>1 DEF Use
  <2>4. QED  BY <2>1, <2>2, <2>3 DEF OnlyTheseOutlive, WindowsGone, CallbackGone
<1>2. CASE (Wait(t) \/ Pop(t) \/ Exit(t) \/ SpuriousWakeUp(t)) /\ UNCHANGED lifeVars
  <2>1. UNCHANGED <<main, engine, reader, orders, texts, events, touched, owner, accepted>>
    BY <1>2 DEF Wait, Pop, Exit, SpuriousWakeUp, lifeVars, historyVars
  <2>2. QED  BY <2>1 DEF OnlyTheseOutlive, WindowsGone, CallbackGone
<1>3. QED  BY <1>1, <1>2 DEF PoolThread, WakeUp

\* A step of the main thread: the windows are used once they are gone by the
\* line ~ProcessEngine logs, and nothing else that is gone is used.
LEMMA MainStep ==
  ASSUME LifeInv, Main
  PROVE  LifeInv'
<1> USE DEF LifeInv, Life, Joined, StopOrder, Sources, WindowsGone, CallbackGone
<1>1. CASE DestroyWindows
  BY <1>1 DEF DestroyWindows, mainFrame, vars, OnlyTheseOutlive
<1>2. CASE DestroyMembers
  <2>1. /\ main = "windows" /\ engine = "exited"
        /\ UNCHANGED <<engine, reader, orders, texts, events, owner, accepted>>
    BY <1>2 DEF DestroyMembers, vars
  <2>2. /\ main' \in {"members", "crashed"}
        /\ touched' \subseteq touched \cup {<<"main", "windows">>}
    BY <1>2, <2>1 DEF DestroyMembers, Emit, Use, Dead
  <2>3. QED  BY <2>1, <2>2 DEF OnlyTheseOutlive
<1>3. CASE DestroyPool \/ JoinPool
  <2>1. /\ UNCHANGED <<main, engine, reader, orders, texts, events, touched, accepted>>
        /\ owner = "using" => main = "members"
        /\ owner' # "using" /\ owner # "gone"
    BY <1>3 DEF DestroyPool, JoinPool, Destroy, Join, lifeVars, historyVars
  <2>2. QED  BY <2>1 DEF OnlyTheseOutlive
<1>4. CASE Unload
  <2>1. /\ main = "members" /\ owner = "gone"
        /\ UNCHANGED <<engine, reader, texts, events, touched, owner, accepted>>
        /\ main' = IF reader = "none" THEN "ended" ELSE "unloading"
        /\ orders' = IF reader = "none" THEN orders ELSE Append(orders, "stop")
    BY <1>4 DEF Unload, vars
  <2>2. orders' \in Seq({"event", "stop"})
    BY <2>1
  <2>3. QED  BY <2>1, <2>2 DEF OnlyTheseOutlive
<1>5. CASE JoinReader
  BY <1>5 DEF JoinReader, mainFrame, vars, OnlyTheseOutlive
<1>6. QED  BY ONLY Main, <1>1, <1>2, <1>3, <1>4, <1>5 DEF Main

\* An event of the reader's library, and the beginning of the end.
LEMMA EventStep ==
  ASSUME LifeInv, VendorEvent \/ Close
  PROVE  LifeInv'
<1> USE DEF LifeInv, Life, Joined, StopOrder, Sources, WindowsGone, CallbackGone
<1>1. CASE VendorEvent
  <2>1. /\ events < MaxEvents /\ events' = events + 1
        /\ orders' = Append(orders, "event")
        /\ UNCHANGED <<main, engine, reader, texts, touched, owner, accepted>>
    BY <1>1 DEF VendorEvent, vars
  <2>2. events' \in 0 .. MaxEvents
    BY <2>1, ShutdownAssumption
  <2>3. /\ orders' \in Seq({"event", "stop"})
        /\ \A i \in 1 .. Len(orders') : orders'[i] = "stop" => owner = "gone"
    <3>1. /\ orders' \in Seq({"event", "stop"}) /\ Len(orders) \in Nat
          /\ Len(orders') = Len(orders) + 1 /\ orders'[Len(orders) + 1] = "event"
          /\ \A i \in 1 .. Len(orders) : orders'[i] = orders[i]
      BY <2>1
    <3>2. QED  BY <3>1
  <2>4. QED  BY <2>1, <2>2, <2>3 DEF OnlyTheseOutlive
<1>2. CASE Close
  BY <1>2 DEF Close, mainFrame, vars, OnlyTheseOutlive
<1>3. QED  BY <1>1, <1>2

\* Every step of the studio keeps the invariant.
LEMMA LifeStep == TypeOK /\ JobInv /\ LifeInv /\ [LifeNext]_allVars => LifeInv'
<1> SUFFICES ASSUME TypeOK, JobInv, LifeInv, [LifeNext]_allVars PROVE LifeInv'
  OBVIOUS
<1>1. ASSUME Alive, Engine \/ Reader \/ VendorEvent \/ Close \/ Main PROVE LifeInv'
  BY <1>1, EngineStep, ReaderStep, EventStep, MainStep DEF Alive
<1>2. ASSUME NEW t \in Threads, PoolThread(t) \/ WakeUp(t) PROVE LifeInv'
  BY <1>2, PoolStep
<1>3. ASSUME UNCHANGED allVars PROVE LifeInv'
  <2>1. UNCHANGED <<main, engine, reader, orders, texts, events, touched, owner, accepted>>
    BY <1>3 DEF allVars, lifeVars, vars
  <2>2. QED
    BY <2>1 DEF LifeInv, Life, Joined, StopOrder, Sources, WindowsGone, CallbackGone,
                OnlyTheseOutlive
<1>4. QED  BY ONLY [LifeNext]_allVars, <1>1, <1>2, <1>3 DEF LifeNext

\* The studio at work: nothing is destroyed, no reader is connected.
LEMMA LifeInitially == LifeInit => LifeInv
<1> SUFFICES ASSUME LifeInit PROVE LifeInv
  OBVIOUS
<1> USE DEF LifeInit, Init
<1>1. Life
  <2>1. orders = <<>> /\ texts = <<>> /\ events = 0
    OBVIOUS
  <2>2. orders \in Seq({"event", "stop"}) /\ texts \in Seq(accepted) /\ Len(texts) <= 2
    BY <2>1
  <2>3. events \in 0 .. MaxEvents
    BY <2>1, ShutdownAssumption
  <2>4. QED  BY <2>2, <2>3 DEF Life
<1>2. Joined /\ StopOrder /\ Sources /\ OnlyTheseOutlive
  BY DEF Joined, StopOrder, Sources, OnlyTheseOutlive, WindowsGone
<1>3. QED  BY <1>1, <1>2 DEF LifeInv

\* Only the engine thread begins and ends a script or a pause.
LEMMA PauseStep == PauseInv /\ [LifeNext]_allVars => PauseInv'
<1> SUFFICES ASSUME PauseInv, [LifeNext]_allVars PROVE PauseInv'
  OBVIOUS
<1> USE DEF PauseInv, pauseVars
<1>1. CASE Engine
  <2>1. CASE BeginScript \/ LinkReader \/ Pause \/ EndPause
    BY <2>1 DEF BeginScript, LinkReader, Pause, EndPause
  <2>2. CASE EndScript \/ TakeQuit
    BY <2>2 DEF EndScript, TakeQuit
  <2>3. ASSUME NEW j \in Jobs, CheckCapabilities(j) PROVE PauseInv'
    BY <2>3 DEF CheckCapabilities
  <2>4. QED  BY ONLY <1>1, <2>1, <2>2, <2>3 DEF Engine
<1>2. ASSUME UNCHANGED <<engine, pauseVars>> PROVE PauseInv'
  BY <1>2
<1>3. CASE Reader \/ VendorEvent \/ Close
  BY <1>2, <1>3 DEF Reader, TakeOrder, NoTag, SendToManolab, VendorEvent, Close,
                    mainFrame
<1>4. CASE Main
  <2>1. UNCHANGED <<engine, pauseVars>>
    BY <1>4 DEF Main, DestroyWindows, DestroyMembers, DestroyPool, JoinPool, Unload,
                JoinReader, mainFrame, lifeVars
  <2>2. QED  BY <1>2, <2>1
<1>5. ASSUME NEW t \in Threads, PoolThread(t) \/ WakeUp(t) PROVE PauseInv'
  BY <1>2, <1>5 DEF PoolThread, RunJob, WakeUp, lifeVars
<1>6. ASSUME UNCHANGED allVars PROVE PauseInv'
  BY <1>2, <1>6 DEF allVars, lifeVars
<1>7. QED
  BY ONLY [LifeNext]_allVars, <1>1, <1>3, <1>4, <1>5, <1>6 DEF LifeNext

-----------------------------------------------------------------------------
(* The theorems.                                                           *)

\* The invariants of the pool and of the studio hold in every state.
LEMMA LifeInductive == LifeSpec => [](TypeOK /\ JobInv /\ LifeInv /\ PauseInv)
<1>1. LifeInit => Init /\ PauseInv
  BY DEF LifeInit, PauseInv
<1>2. QED
  BY <1>1, TypeInitially, TypeStep, JobInitially, JobStep, StepIsPoolStep,
     LifeInitially, LifeStep, PauseStep, PTL DEF LifeSpec

\* The variables keep their types, and the pool ends after the engine's
\* callback and before the order to stop the reader.
THEOREM LifeTypeCorrect == LifeSpec => []LifeTypeOK
<1>1. LifeInv /\ PauseInv => LifeTypeOK
  BY DEF LifeInv, Life, Joined, StopOrder, OnlyTheseOutlive, PauseInv, LifeTypeOK
<1>2. QED  BY <1>1, LifeInductive, PTL

\* Of all that is destroyed, only the line ~ProcessEngine logs, the jobs and
\* the reader still use anything: the engine thread never does.
THEOREM Outliving == LifeSpec => []OnlyTheseOutlive
<1>1. LifeInv => OnlyTheseOutlive
  BY DEF LifeInv
<1>2. QED  BY <1>1, LifeInductive, PTL

\* When main returns, no thread of the engine, the pool or the plug-in runs.
THEOREM NoThreads == LifeSpec => []NoThreadLeft
<1>1. JobInv /\ LifeInv => NoThreadLeft
  BY DEF JobInv, Gone, LifeInv, Joined, WindowsGone, NoThreadLeft
<1>2. QED  BY <1>1, LifeInductive, PTL

\* When main returns, every job handed over before the pool's destructor has
\* run: the safety half of JobsRun.
THEOREM JobsRunByTheEnd == LifeSpec => [](main = "ended" => promised \subseteq ran)
<1>1. JobInv /\ LifeInv => (main = "ended" => promised \subseteq ran)
  <2> SUFFICES ASSUME JobInv, LifeInv, main = "ended", NEW j \in promised \ ran
               PROVE  FALSE
    OBVIOUS
  <2>1. \A t \in Threads : pc[t] = "exit"
    BY DEF JobInv, Gone, LifeInv, Joined
  <2>2. (\A t \in Threads : Leaving(t)) /\ \A t \in Threads : ~Holds(t, j)
    BY <2>1 DEF Leaving, Holds
  <2>3. QED  BY <2>2, PoolAssumption DEF JobInv, Kept, InFront
<1>2. QED  BY <1>1, LifeInductive, PTL
=============================================================================
