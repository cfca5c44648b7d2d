--------------------------- MODULE ProcessEngine ---------------------------
(***************************************************************************)
(* The script engine of the studio. The GUI thread pushes events into      *)
(* mQueue when the operator clicks; one engine thread executes Run, which  *)
(* takes them one after the other and, for a Start, executes TestLoop,     *)
(* which takes events from the same queue between two steps of a test.     *)
(* Closing the window calls Quit: a Stop, a Quit, then a join.             *)
(* A step may call the delay function of Delay1s, which Stop cuts short:   *)
(* one delay per step here, none in onStartup and onError.                 *)
(*                                                                         *)
(* AutoTest and gEventAutoTest have no caller in the studio.               *)
(***************************************************************************)
EXTENDS Naturals, Sequences, SequencesExt

CONSTANTS
  Scripts,   \* the files of the workspace's scripts directory
  TestsOf,   \* script -> the tests its setup() returns
  Buttons,   \* the buttons of TaskListWindow the operator uses
  MaxDelay,  \* bound of a run: seconds a step waits
  MaxClicks  \* bound of a run: clicks of the operator

Step == {"once", "loop"}
Test == [enable : BOOLEAN, steps : Seq(Step)]

ASSUME EngineAssumption ==
  /\ Scripts # {}
  /\ TestsOf \in [Scripts -> Seq(Test)]
  /\ Buttons \subseteq {"load", "start", "pause", "stop"}
  /\ MaxDelay \in Nat /\ MaxClicks \in Nat

VARIABLES
  mQueue,          \* events pushed and not yet taken
  mCurrentScript, mTests, mRunning, mQuit,
  pc,              \* where the engine thread is
  ev, test, step, stopOnError,   \* TestLoop's locals
  mStop,           \* of Delay1s
  seconds,         \* Execute's local in Delay1s
  gui,             \* "open", "closing" in Quit, "closed" once joined
  todo,            \* what is left to do of the GUI thread's last call
  clicks,
  missed           \* history: has TestLoop thrown away the last Load?

loopVars   == <<ev, test, step, stopOnError, seconds>>
guiVars    == <<gui, todo, clicks, mStop, missed>>
vars == <<mQueue, mCurrentScript, mTests, mRunning, mQuit, pc, ev, test, step,
          stopOnError, mStop, seconds, gui, todo, clicks, missed>>

IsLoaded == mTests # <<>>
Paused   == pc = "paused"
Testing  == pc \in {"test", "step", "delay", "poll", "paused", "ended"}

Init ==
  /\ mQueue = <<>>
  /\ mCurrentScript = "" /\ mTests = <<>>
  /\ mRunning = FALSE /\ mQuit = FALSE
  /\ pc = "wait"
  /\ ev = "none" /\ test = 1 /\ step = 1 /\ stopOnError = FALSE
  /\ mStop = FALSE /\ seconds = 0
  /\ gui = "open" /\ todo = <<>> /\ clicks = 0 /\ missed = FALSE

-----------------------------------------------------------------------------
(* The GUI thread. A call's pushes are separate steps.                     *)

engineVars == <<mTests, mRunning, mQuit, pc, loopVars, mStop, missed>>

Click(calls) ==
  /\ gui = "open" /\ todo = <<>> /\ clicks < MaxClicks
  /\ clicks' = clicks + 1
  /\ todo' = calls
  /\ UNCHANGED <<mQueue, gui, engineVars>>

LoadScript_Now(script) ==
  /\ gui = "open" /\ todo = <<>> /\ clicks < MaxClicks
  /\ clicks' = clicks + 1
  /\ mCurrentScript' = script
  /\ mTests' = TestsOf[script]
  /\ UNCHANGED <<mQueue, gui, todo, mRunning, mQuit, pc, loopVars, mStop,
                 missed>>

LoadScript(script) ==
  /\ "load" \in Buttons
  /\ mCurrentScript' = script
  /\ Click(<<"load">>)

\* Stop() pushes its event, then stops a delay.
StopCalls == <<"stop", "stopDelay">>

\* Play, Pause and Stop do nothing unless IsLoaded, read without a lock.
Press(button) ==
  /\ button \in Buttons \ {"load"}
  /\ IsLoaded
  /\ Click(IF button = "stop" THEN StopCalls ELSE <<button>>)
  /\ UNCHANGED mCurrentScript

QuitCalls_NoStop == <<"quit", "join">>

\* Quit() calls Stop() first.
QuitCalls == StopCalls \o <<"quit", "join">>

CloseWindow ==
  /\ gui = "open" /\ todo = <<>>
  /\ gui' = "closing"
  /\ todo' = QuitCalls
  /\ UNCHANGED <<mQueue, mCurrentScript, clicks, engineVars>>

Enqueue(event) == mQueue' = Append(mQueue, event)

PushEvent ==
  /\ todo # <<>> /\ Head(todo) \notin {"join", "stopDelay"}
  /\ Enqueue(Head(todo))
  /\ todo' = Tail(todo)
  /\ UNCHANGED <<mCurrentScript, gui, clicks, engineVars>>

StopDelay ==
  /\ todo # <<>> /\ Head(todo) = "stopDelay"
  /\ mStop' = TRUE
  /\ todo' = Tail(todo)
  /\ UNCHANGED <<mQueue, mCurrentScript, mTests, mRunning, mQuit, pc, loopVars,
                 gui, clicks, missed>>

Join ==
  /\ todo = <<"join">>
  /\ pc = "exited"
  /\ gui' = "closed" /\ todo' = <<>>
  /\ UNCHANGED <<mQueue, mCurrentScript, clicks, engineVars>>

-----------------------------------------------------------------------------
(* Run, on the engine thread.                                              *)

WaitAndPop(event) ==
  /\ mQueue # <<>> /\ Head(mQueue) = event
  /\ mQueue' = Tail(mQueue)

\* Mutant: a script that is loaded is not loaded again.
RunIgnore_Reload ==
  /\ pc = "wait"
  /\ \E event \in {"start", "pause", "stop", "load"} :
       /\ WaitAndPop(event)
       /\ event = "start" => ~IsLoaded
       /\ event = "load" => IsLoaded
  /\ UNCHANGED <<mCurrentScript, mTests, mRunning, mQuit, pc, loopVars, guiVars>>

RunIgnore ==
  /\ pc = "wait"
  /\ \E event \in {"start", "pause", "stop"} :
       /\ WaitAndPop(event)
       /\ event = "start" => ~IsLoaded
  /\ UNCHANGED <<mCurrentScript, mTests, mRunning, mQuit, pc, loopVars, guiVars>>

RunStart ==
  /\ pc = "wait" /\ WaitAndPop("start") /\ IsLoaded
  /\ mRunning' = TRUE
  /\ pc' = "start"
  /\ UNCHANGED <<mCurrentScript, mTests, mQuit, loopVars, guiVars>>

\* InitializeScriptContext may miss a device, EvaluateFile may fail.
StartScript ==
  /\ pc = "start"
  /\ pc' \in {"test", "finish"}
  /\ UNCHANGED <<mQueue, mCurrentScript, mTests, mRunning, mQuit, loopVars, guiVars>>

RunLoad ==
  /\ pc = "wait" /\ WaitAndPop("load")
  /\ mRunning' = TRUE /\ missed' = FALSE
  /\ pc' = "load"
  /\ UNCHANGED <<mCurrentScript, mTests, mQuit, loopVars,
                 gui, todo, clicks, mStop>>

\* DoLoadScript: Initialize() forgets the tests, and that a load is running.
ClearScript ==
  /\ pc = "load"
  /\ mRunning' = FALSE /\ mQuit' = FALSE
  /\ mTests' = <<>>
  /\ pc' = "parse"
  /\ UNCHANGED <<mQueue, mCurrentScript, loopVars, guiVars>>

\* ParseTests: all the tests, or those before a malformed one.
ParseTests ==
  /\ pc = "parse"
  /\ LET tests == TestsOf[mCurrentScript] IN
       \/ /\ mTests' = tests
          /\ pc' = IF tests = <<>> THEN "cleanup" ELSE "config"
       \/ \E n \in 1 .. Len(tests) :
            /\ mTests' = SubSeq(tests, 1, n - 1)
            /\ pc' = "cleanup"
  /\ UNCHANGED <<mQueue, mCurrentScript, mRunning, mQuit, loopVars, guiVars>>

\* ParseConfig, then the onStartup function of a script that is loaded.
ParseConfig ==
  /\ pc = "config"
  /\ pc' \in {"finish", "cleanup"}
  /\ UNCHANGED <<mQueue, mCurrentScript, mTests, mRunning, mQuit, loopVars, guiVars>>

Cleanup_Nothing == UNCHANGED mTests
Cleanup == mTests' = <<>>

LoadFailed ==
  /\ pc = "cleanup"
  /\ Cleanup
  /\ mRunning' = FALSE /\ mQuit' = FALSE
  /\ pc' = "finish"
  /\ UNCHANGED <<mQueue, mCurrentScript, loopVars, guiVars>>

Finish_StillRunning == UNCHANGED mRunning
Finish == mRunning' = FALSE

RunFinish ==
  /\ pc = "finish"
  /\ Finish
  /\ pc' = "wait"
  /\ UNCHANGED <<mQueue, mCurrentScript, mTests, mQuit, loopVars, guiVars>>

RunQuit ==
  /\ pc = "wait" /\ WaitAndPop("quit")
  /\ mQuit' = TRUE
  /\ pc' = "exited"
  /\ UNCHANGED <<mCurrentScript, mTests, mRunning, loopVars, guiVars>>

-----------------------------------------------------------------------------
(* TestLoop.                                                               *)

loopFrame == <<mCurrentScript, mTests, mRunning, mQuit, seconds, guiVars>>

\* The next enabled test; a test without steps is over at once.
BeginTest ==
  /\ pc = "test" /\ test <= Len(mTests)
  /\ IF mTests[test].enable
     THEN /\ pc' = IF mTests[test].steps = <<>> THEN "ended" ELSE "step"
          /\ step' = 1
          /\ UNCHANGED test
     ELSE /\ test' = test + 1
          /\ UNCHANGED <<pc, step>>
  /\ UNCHANGED <<mQueue, ev, stopOnError, loopFrame>>

\* The script's function, and its onError function when it fails.
RunStep ==
  /\ pc = "step"
  /\ stopOnError' \in {stopOnError, TRUE}
  /\ pc' = "poll"
  /\ UNCHANGED <<mQueue, ev, test, step, loopFrame>>

delayFrame ==
  <<mQueue, mCurrentScript, mTests, mRunning, mQuit, ev, test, step,
    gui, todo, clicks, missed>>

\* Mutant: a Stop of an earlier run is not forgotten.
Execute_NoReset ==
  /\ pc = "step"
  /\ seconds' \in 1 .. MaxDelay
  /\ pc' = "delay"
  /\ UNCHANGED <<stopOnError, mStop, delayFrame>>

\* The step calls delay: at least one second.
Execute ==
  /\ pc = "step"
  /\ seconds' \in 1 .. MaxDelay
  /\ mStop' = FALSE
  /\ pc' = "delay"
  /\ UNCHANGED <<stopOnError, delayFrame>>

\* One turn of Execute's loop; after the last one, the end of the step.
Sleep ==
  /\ pc = "delay"
  /\ mStop' = FALSE
  /\ seconds' = IF mStop THEN 0 ELSE seconds - 1
  /\ IF seconds' > 0
     THEN UNCHANGED <<pc, stopOnError>>
     ELSE pc' = "poll" /\ stopOnError' \in {stopOnError, TRUE}
  /\ UNCHANGED delayFrame

NextStep_OneMore ==
  LET steps == mTests[test].steps
      last  == step > Len(steps)
  IN  /\ step' = IF steps[step] = "loop" \/ last THEN step ELSE step + 1
      /\ pc' = IF steps[step] = "loop" \/ ~last THEN "step" ELSE "ended"

\* A step in mode "loop" is executed again.
NextStep ==
  LET steps == mTests[test].steps
      last  == step = Len(steps)
  IN  /\ step' = IF steps[step] = "loop" \/ last THEN step ELSE step + 1
      /\ pc' = IF steps[step] = "loop" \/ ~last THEN "step" ELSE "ended"

MustStop_LoopsOn(event) ==
  (event = "stop" \/ stopOnError) /\ mTests[test].steps[step] # "loop"

MustStop(event) == event = "stop" \/ stopOnError

Missed(event) == missed' = (missed \/ event = "load")

pollFrame ==
  <<mCurrentScript, mTests, mRunning, mQuit, seconds, gui, todo, clicks, mStop>>

\* TryPop leaves ev alone when the queue is empty.
Poll ==
  /\ pc = "poll"
  /\ IF mQueue = <<>> THEN UNCHANGED <<ev, mQueue>>
     ELSE ev' = Head(mQueue) /\ mQueue' = Tail(mQueue)
  /\ \/ /\ ev' = "pause"
        /\ pc' = "paused"
        /\ UNCHANGED step
     \/ /\ ev' # "pause" /\ MustStop(ev')
        /\ pc' = "ended"
        /\ UNCHANGED step
     \/ /\ ev' # "pause" /\ ~MustStop(ev')
        /\ NextStep
  /\ Missed(ev')
  /\ UNCHANGED <<test, stopOnError, pollFrame>>

\* Any event ends the pause; a Stop does not end the step.
Resume ==
  /\ Paused /\ mQueue # <<>>
  /\ ev' = Head(mQueue) /\ mQueue' = Tail(mQueue)
  /\ NextStep
  /\ Missed(ev')
  /\ UNCHANGED <<test, stopOnError, pollFrame>>

\* Is the loop over the tests left after this one?
LeavesLoop_OnErrorOnly == stopOnError
LeavesLoop == ev \in {"stop", "quit"} \/ stopOnError

EndTest ==
  /\ pc = "ended" /\ ~LeavesLoop
  /\ test' = test + 1
  /\ pc' = "test"
  /\ UNCHANGED <<mQueue, ev, step, stopOnError, loopFrame>>

\* The end of TestLoop, and CloseScriptContext.
LeaveLoop ==
  /\ \/ pc = "test" /\ test > Len(mTests)
     \/ pc = "ended" /\ LeavesLoop
  /\ ev' = "none" /\ test' = 1 /\ step' = 1 /\ stopOnError' = FALSE
  /\ pc' = "finish"
  /\ UNCHANGED <<mQueue, loopFrame>>

-----------------------------------------------------------------------------
Gui ==
  \/ \E script \in Scripts : LoadScript(script)
  \/ \E button \in Buttons : Press(button)
  \/ CloseWindow
  \/ PushEvent \/ StopDelay
  \/ Join

Engine ==
  \/ RunIgnore \/ RunStart \/ StartScript \/ RunLoad \/ ClearScript
  \/ ParseTests \/ ParseConfig \/ LoadFailed \/ RunFinish \/ RunQuit
  \/ BeginTest \/ RunStep \/ Execute \/ Sleep \/ Poll \/ Resume \/ EndTest \/ LeaveLoop

Terminated == gui = "closed" /\ UNCHANGED vars

Next == Gui \/ Engine \/ Terminated

Spec == Init /\ [][Next]_vars

\* The engine thread is scheduled and the script's functions return; a call
\* the GUI thread has begun is ended. Nobody has to click.
FairSpec == Spec /\ WF_vars(Engine) /\ WF_vars(PushEvent \/ StopDelay \/ Join)

-----------------------------------------------------------------------------
(* Properties.                                                             *)

\* The variables keep their types, and TestLoop's iterators point into the
\* tests that are loaded.
TypeOK ==
  /\ mQueue \in Seq({"load", "start", "pause", "stop", "quit"})
  /\ mCurrentScript \in Scripts \cup {""}
  /\ mTests \in Seq(Test)
  /\ mRunning \in BOOLEAN /\ mQuit \in BOOLEAN
  /\ pc \in {"wait", "start", "load", "parse", "config", "cleanup", "finish",
             "exited", "test", "step", "delay", "poll", "paused", "ended"}
  /\ ev \in {"none", "load", "start", "pause", "stop", "quit"}
  /\ test \in 1 .. Len(mTests) + 1
  /\ pc \in {"step", "delay", "poll", "paused"} =>
       /\ test \in DOMAIN mTests
       /\ step \in DOMAIN mTests[test].steps
  /\ stopOnError \in BOOLEAN
  /\ gui \in {"open", "closing", "closed"}
  /\ mStop \in BOOLEAN
  /\ seconds \in IF pc = "delay" THEN 1 .. MaxDelay ELSE {0}
  /\ todo \in Seq({"load", "start", "pause", "stop", "stopDelay", "quit", "join"})
  /\ clicks \in 0 .. MaxClicks /\ missed \in BOOLEAN

\* TestLoop iterates over mTests without a lock and without a copy: whatever
\* the operator clicks, nobody changes it before the loop is left.
TestsStable == [][ Testing => mTests' = mTests ]_vars

\* IsRunning() is true while a script's steps are executed, and false again
\* when the engine waits for the next event, whichever way the script ended.
RunningWhileTesting ==
  /\ Testing => mRunning
  /\ pc \in {"wait", "exited"} => ~mRunning

\* A script that could not be loaded to its end leaves no tests behind: what
\* can be started is everything some script declared.
LoadedWhole ==
  pc \in {"wait", "start", "exited"} \/ Testing =>
    ~IsLoaded \/ \E script \in Scripts : mTests = TestsOf[script]

\* mCurrentScript, which the GUI thread changes at once and without a lock, is
\* the script whose tests are loaded, so that the functions EvaluateFile finds
\* are those the tests name, unless a Load is on its way or was thrown away by
\* TestLoop: then the next Start runs the steps of one script with the
\* functions of another.
ScriptMatchesTests ==
  (pc \in {"wait", "start"} \/ Testing) /\ IsLoaded =>
    \/ mTests = TestsOf[mCurrentScript]
    \/ "load" \in ToSet(mQueue \o todo) \/ missed

\* Once TestLoop has taken a Stop, or a step has failed, no other step of the
\* run begins, in this test or in the next ones, except at the end of a pause.
NoStepAfterStop ==
  [][ pc # "step" /\ pc' = "step" /\ (ev' = "stop" \/ stopOnError') =>
        Paused ]_vars

NoPause == "pause" \notin ToSet(mQueue) /\ ~Paused /\ ev # "pause"

\* A delay is cut short only in a run that is being stopped: the Stop that did
\* it is still in the queue, or was spent ending a pause. Neither the Stop of
\* an earlier run nor one whose two halves come late shortens a wait.
DelayCutByStop ==
  [][ pc = "delay" /\ seconds > 1 /\ seconds' = 0 =>
        "stop" \in ToSet(mQueue) \/ ev = "stop" ]_vars

\* A Stop that is not preceded by a pause ends the run, even one that repeats
\* a step for ever.
StopEnds == (Testing /\ NoPause /\ "stop" \in ToSet(mQueue)) ~> ~Testing

\* Closing the window ends the engine thread, so that the join returns,
\* unless at that time the engine is paused or a Pause is in its queue: the
\* Stop that Quit sends first then ends the pause, and TestLoop takes the Quit.
QuitReturns ==
  (gui = "closing" /\ todo = QuitCalls /\ NoPause) ~> gui = "closed"
=============================================================================
