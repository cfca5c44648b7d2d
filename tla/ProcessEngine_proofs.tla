------------------------ MODULE ProcessEngine_proofs ------------------------
(***************************************************************************)
(* The safety properties of ProcessEngine, for any scripts, tests, buttons *)
(* and bounds. Three invariants follow one another: where TestLoop is and  *)
(* what its locals then are; which tests are loaded, and whether they are  *)
(* those of mCurrentScript; and where the two halves of a Stop are, the    *)
(* event and the flag that cuts a delay short.                             *)
(***************************************************************************)
EXTENDS ProcessEngine, TLAPS

Events == {"load", "start", "pause", "stop", "quit"}
Calls  == {"load", "start", "pause", "stop", "stopDelay", "quit", "join"}

\* What is in a queue, after a push and after a pop.
LEMMA QueueShape ==
  ASSUME NEW S, NEW s \in Seq(S), NEW x \in S
  PROVE  /\ Append(s, x) \in Seq(S) /\ Append(s, x) # <<>>
         /\ ToSet(Append(s, x)) = ToSet(s) \cup {x}
         /\ s # <<>> => /\ Head(s) \in S /\ Tail(s) \in Seq(S)
                        /\ Len(s) \in Nat /\ Len(s) >= 1 /\ Head(s) = s[1]
                        /\ Len(Tail(s)) = Len(s) - 1
                        /\ \A i \in 1 .. Len(s) - 1 : Tail(s)[i] = s[i + 1]
                        /\ ToSet(s) = {Head(s)} \cup ToSet(Tail(s))
<1> USE DEF ToSet
<1>1. /\ Append(s, x) \in Seq(S) /\ Append(s, x) # <<>>
      /\ Len(Append(s, x)) = Len(s) + 1 /\ Append(s, x)[Len(s) + 1] = x
      /\ \A i \in 1 .. Len(s) : Append(s, x)[i] = s[i]
      /\ DOMAIN Append(s, x) = 1 .. Len(s) + 1
      /\ DOMAIN s = 1 .. Len(s) /\ Len(s) \in Nat
  OBVIOUS
<1>2. ToSet(Append(s, x)) = ToSet(s) \cup {x}
  <2>1. ASSUME NEW y \in ToSet(Append(s, x)) PROVE y \in ToSet(s) \cup {x}
    BY <1>1
  <2>2. ASSUME NEW y \in ToSet(s) \cup {x} PROVE y \in ToSet(Append(s, x))
    BY <1>1
  <2>3. QED  BY <2>1, <2>2
<1>3. ASSUME s # <<>>
      PROVE  /\ Head(s) \in S /\ Tail(s) \in Seq(S)
             /\ Len(s) >= 1 /\ Head(s) = s[1]
             /\ Len(Tail(s)) = Len(s) - 1 /\ DOMAIN Tail(s) = 1 .. Len(s) - 1
             /\ \A i \in 1 .. Len(s) - 1 : Tail(s)[i] = s[i + 1]
  BY <1>3
<1>4. ASSUME s # <<>> PROVE ToSet(s) = {Head(s)} \cup ToSet(Tail(s))
  <2>1. ASSUME NEW y \in ToSet(s) PROVE y \in {Head(s)} \cup ToSet(Tail(s))
    <3>1. PICK i \in 1 .. Len(s) : y = s[i]
      BY <1>1
    <3>2. CASE i = 1
      BY <1>3, <1>4, <3>1, <3>2
    <3>3. CASE i # 1
      <4>1. i - 1 \in 1 .. Len(s) - 1 /\ (i - 1) + 1 = i
        BY <1>1, <3>3
      <4>2. QED  BY <1>3, <1>4, <3>1, <4>1
    <3>4. QED  BY <3>2, <3>3
  <2>2. ASSUME NEW y \in {Head(s)} \cup ToSet(Tail(s)) PROVE y \in ToSet(s)
    BY <1>1, <1>3, <1>4
  <2>3. QED  BY <2>1, <2>2
<1>5. QED  BY <1>1, <1>2, <1>3, <1>4

\* What is in two queues, one behind the other.
LEMMA ConcatShape ==
  ASSUME NEW S, NEW s \in Seq(S), NEW t \in Seq(S)
  PROVE  ToSet(s \o t) = ToSet(s) \cup ToSet(t)
<1> USE DEF ToSet
<1>1. /\ DOMAIN (s \o t) = 1 .. Len(s) + Len(t)
      /\ DOMAIN s = 1 .. Len(s) /\ DOMAIN t = 1 .. Len(t)
      /\ Len(s) \in Nat /\ Len(t) \in Nat
      /\ \A i \in 1 .. Len(s) : (s \o t)[i] = s[i]
      /\ \A i \in Len(s) + 1 .. Len(s) + Len(t) : (s \o t)[i] = t[i - Len(s)]
  OBVIOUS
<1>2. ASSUME NEW y \in ToSet(s \o t) PROVE y \in ToSet(s) \cup ToSet(t)
  <2>1. PICK i \in 1 .. Len(s) + Len(t) : y = (s \o t)[i]
    BY <1>1
  <2>2. CASE i <= Len(s)
    BY <1>1, <2>1, <2>2
  <2>3. CASE i > Len(s)
    <3>1. i - Len(s) \in 1 .. Len(t) /\ i \in Len(s) + 1 .. Len(s) + Len(t)
      BY <1>1, <2>3
    <3>2. QED  BY <1>1, <2>1, <3>1
  <2>4. QED  BY <1>1, <2>2, <2>3
<1>3. ASSUME NEW y \in ToSet(t) PROVE y \in ToSet(s \o t)
  <2>1. PICK i \in 1 .. Len(t) : y = t[i]
    BY <1>1
  <2>2. /\ Len(s) + i \in Len(s) + 1 .. Len(s) + Len(t)
        /\ (Len(s) + i) - Len(s) = i /\ Len(s) + i \in DOMAIN (s \o t)
    BY <1>1
  <2>3. QED  BY <1>1, <2>1, <2>2
<1>4. ASSUME NEW y \in ToSet(s) PROVE y \in ToSet(s \o t)
  BY <1>1
<1>5. QED  BY <1>2, <1>3, <1>4

-----------------------------------------------------------------------------
(* The invariants.                                                         *)

\* Outside TestLoop its locals are as they are when it is entered; at the head
\* of the loop over the tests nothing has asked to leave it.
Locals ==
  /\ ~Testing => ev = "none" /\ test = 1 /\ stopOnError = FALSE
  /\ pc = "test" => ~LeavesLoop
  /\ pc = "ended" => test \in DOMAIN mTests

\* A load that is on its way or begun has set mCurrentScript.
Chosen ==
  mCurrentScript \in Scripts \/
    /\ "load" \notin ToSet(mQueue) \cup ToSet(todo)
    /\ pc \notin {"load", "parse"}

\* IsRunning(), from the event on and to the end of the script.
Running ==
  /\ pc \in {"start", "load"} \/ Testing => mRunning
  /\ pc \in {"wait", "exited"} => ~mRunning

\* But for the moment before the clean-up, the tests are those of one script.
Whole ==
  pc # "cleanup" => ~IsLoaded \/ \E script \in Scripts : mTests = TestsOf[script]

\* Once parsed, they are mCurrentScript's, or a load is to come or was missed.
Matching ==
  pc \notin {"load", "parse", "cleanup"} /\ IsLoaded =>
    \/ mTests = TestsOf[mCurrentScript]
    \/ "load" \in ToSet(mQueue) \cup ToSet(todo) \/ missed

\* A call pushes the event of a Stop just before it stops the delay.
StopFirst ==
  \A i \in 1 .. Len(todo) : todo[i] = "stopDelay" => i = 1 \/ todo[i - 1] = "stop"

\* Between the two halves of a Stop the event is the last one of the queue; or
\* it was taken, and the run it found ends without another event.
HalfStopped ==
  todo # <<>> /\ Head(todo) = "stopDelay" =>
    \/ mQueue # <<>> /\ mQueue[Len(mQueue)] = "stop"
    \/ /\ mQueue = <<>>
       /\ \/ pc \in {"wait", "finish", "exited"}
          \/ ev = "stop" /\ pc \in {"step", "delay", "poll", "ended"}

\* A delay that is to be cut short belongs to a run that is being stopped.
CutShort == pc = "delay" /\ mStop => "stop" \in ToSet(mQueue) \/ ev = "stop"

LoopInv == Locals /\ Chosen
TestsInv == Running /\ Whole /\ Matching
StopInv == StopFirst /\ HalfStopped /\ CutShort

-----------------------------------------------------------------------------
(* Types.                                                                  *)

\* What the GUI thread writes, what only the engine thread writes, and where the
\* engine is.
Calling ==
  /\ mQueue \in Seq(Events) /\ todo \in Seq(Calls)
  /\ mCurrentScript \in Scripts \cup {""}
  /\ mStop \in BOOLEAN
  /\ gui \in {"open", "closing", "closed"}
  /\ clicks \in 0 .. MaxClicks

Data ==
  /\ mTests \in Seq(Test)
  /\ mRunning \in BOOLEAN /\ mQuit \in BOOLEAN
  /\ stopOnError \in BOOLEAN /\ missed \in BOOLEAN
  /\ ev \in Events \cup {"none"}

Control ==
  /\ pc \in {"wait", "start", "load", "parse", "config", "cleanup", "finish",
             "exited", "test", "step", "delay", "poll", "paused", "ended"}
  /\ test \in 1 .. Len(mTests) + 1
  /\ pc \in {"step", "delay", "poll", "paused"} =>
       /\ test \in DOMAIN mTests
       /\ step \in DOMAIN mTests[test].steps
  /\ seconds \in IF pc = "delay" THEN 1 .. MaxDelay ELSE {0}

\* TypeOK has these three parts.
LEMMA TypeParts == /\ TypeOK <=> Calling /\ Data /\ Control
                   /\ TypeOK' <=> Calling' /\ Data' /\ Control'
<1>1. TypeOK => Calling /\ Data
  BY DEF TypeOK, Calling, Data, Events, Calls
<1>2. TypeOK => Control
  BY DEF TypeOK, Control
<1>3. Calling /\ Data /\ Control => TypeOK
  BY DEF TypeOK, Calling, Data, Control, Events, Calls
<1>4. TypeOK' => Calling' /\ Data'
  BY DEF TypeOK, Calling, Data, Events, Calls
<1>5. TypeOK' => Control'
  BY DEF TypeOK, Control
<1>6. Calling' /\ Data' /\ Control' => TypeOK'
  BY DEF TypeOK, Calling, Data, Control, Events, Calls
<1>7. QED  BY <1>1, <1>2, <1>3, <1>4, <1>5, <1>6

\* The next event of the queue, the next half of a call, and what is left.
LEMMA QueueFacts ==
  ASSUME Calling
  PROVE  /\ mQueue # <<>> => /\ Head(mQueue) \in Events
                             /\ Tail(mQueue) \in Seq(Events)
                             /\ ToSet(mQueue) = {Head(mQueue)} \cup ToSet(Tail(mQueue))
         /\ todo # <<>> => /\ Head(todo) \in Calls
                           /\ Tail(todo) \in Seq(Calls)
                           /\ ToSet(todo) = {Head(todo)} \cup ToSet(Tail(todo))
<1>1. mQueue \in Seq(Events) /\ todo \in Seq(Calls)
  BY DEF Calling
<1>2. "stop" \in Events /\ "stop" \in Calls
  BY DEF Events, Calls
<1>3. QED  BY <1>1, <1>2, QueueShape

\* What PushEvent does to the queue.
LEMMA PushFacts ==
  ASSUME Calling, PushEvent
  PROVE  /\ Head(todo) \in Events /\ todo # <<>>
         /\ mQueue' \in Seq(Events) /\ mQueue' # <<>>
         /\ todo' = Tail(todo) /\ todo' \in Seq(Calls)
         /\ ToSet(mQueue') = ToSet(mQueue) \cup {Head(todo)}
         /\ mQueue'[Len(mQueue')] = Head(todo)
<1>1. /\ todo # <<>> /\ Head(todo) \in Events
      /\ mQueue' = Append(mQueue, Head(todo)) /\ todo' = Tail(todo)
  BY QueueFacts DEF PushEvent, Enqueue, Events, Calls
<1>2. mQueue \in Seq(Events) /\ Tail(todo) \in Seq(Calls)
  BY <1>1, QueueFacts DEF Calling
<1>3. /\ Len(Append(mQueue, Head(todo))) = Len(mQueue) + 1
      /\ Append(mQueue, Head(todo))[Len(mQueue) + 1] = Head(todo)
  BY <1>1, <1>2
<1>4. QED  BY <1>1, <1>2, <1>3, QueueShape

\* What a click gives the GUI thread to do.
LEMMA CallShape ==
  /\ <<"load">> \in Seq(Calls) /\ StopCalls \in Seq(Calls) /\ QuitCalls \in Seq(Calls)
  /\ \A button \in Buttons \ {"load"} :
       (IF button = "stop" THEN StopCalls ELSE <<button>>) \in Seq(Calls)
<1>1. <<"load">> \in Seq(Calls) /\ StopCalls \in Seq(Calls) /\ QuitCalls \in Seq(Calls)
  BY DEF StopCalls, QuitCalls, Calls
<1>2. ASSUME NEW button \in Buttons \ {"load"}
      PROVE  (IF button = "stop" THEN StopCalls ELSE <<button>>) \in Seq(Calls)
  <2>1. button \in Calls /\ <<button>> \in Seq(Calls)
    BY EngineAssumption DEF Calls
  <2>2. QED  BY <1>1, <2>1
<1>3. QED  BY <1>1, <1>2

\* The GUI thread leaves TestLoop and the tests alone.
LEMMA GuiFrame ==
  ASSUME Gui
  PROVE  UNCHANGED <<mTests, mRunning, mQuit, pc, ev, test, step, stopOnError,
                     seconds, missed>>
BY DEF Gui, LoadScript, Press, CloseWindow, PushEvent, StopDelay, Join, Click,
       engineVars, loopVars

\* The engine thread leaves the GUI thread's calls and its choice of a script
\* alone; it takes events from the queue and adds none.
LEMMA EngineShape ==
  ASSUME Engine
  PROVE  /\ UNCHANGED <<mCurrentScript, gui, todo, clicks>>
         /\ mQueue' = mQueue \/ (mQueue # <<>> /\ mQueue' = Tail(mQueue))
         /\ mStop' \in {mStop, FALSE}
         /\ pc' \in {"load", "parse"} =>
              pc = "load" \/ (mQueue # <<>> /\ Head(mQueue) = "load")
<1>1. UNCHANGED <<mCurrentScript, gui, todo, clicks>>
  BY DEF Engine, RunIgnore, RunStart, StartScript, RunLoad, ClearScript, ParseTests,
         ParseConfig, LoadFailed, RunFinish, RunQuit, BeginTest, RunStep, Execute,
         Sleep, Poll, Resume, EndTest, LeaveLoop, guiVars, loopFrame, delayFrame,
         pollFrame
<1>2. mQueue' = mQueue \/ (mQueue # <<>> /\ mQueue' = Tail(mQueue))
  BY DEF Engine, RunIgnore, RunStart, StartScript, RunLoad, ClearScript, ParseTests,
         ParseConfig, LoadFailed, RunFinish, RunQuit, BeginTest, RunStep, Execute,
         Sleep, Poll, Resume, EndTest, LeaveLoop, delayFrame, WaitAndPop
<1>3. mStop' \in {mStop, FALSE}
  BY DEF Engine, RunIgnore, RunStart, StartScript, RunLoad, ClearScript, ParseTests,
         ParseConfig, LoadFailed, RunFinish, RunQuit, BeginTest, RunStep, Execute,
         Sleep, Poll, Resume, EndTest, LeaveLoop, guiVars, loopFrame, pollFrame
<1>4. pc' \in {"load", "parse"} =>
        pc = "load" \/ (mQueue # <<>> /\ Head(mQueue) = "load")
  BY DEF Engine, RunIgnore, RunStart, StartScript, RunLoad, ClearScript, ParseTests,
         ParseConfig, LoadFailed, RunFinish, RunQuit, BeginTest, RunStep, Execute,
         Sleep, Poll, Resume, EndTest, LeaveLoop, NextStep, WaitAndPop
<1>5. QED  BY <1>1, <1>2, <1>3, <1>4

\* A step of the GUI thread keeps the types.
LEMMA TypeGui == ASSUME TypeOK, Gui PROVE TypeOK'
<1> USE DEF Calling
<1>0. Calling /\ Data /\ Control
  BY TypeParts
<1>1. Data' /\ Control'
  BY <1>0, GuiFrame DEF Data, Control
<1>2. ASSUME NEW calls \in Seq(Calls), Click(calls), mCurrentScript' \in Scripts \cup {""}
      PROVE  Calling'
  <2>1. clicks' \in 0 .. MaxClicks
    <3>1. MaxClicks \in Nat
      BY EngineAssumption
    <3>2. clicks \in 0 .. MaxClicks /\ clicks < MaxClicks /\ clicks' = clicks + 1
      BY <1>0, <1>2 DEF Click
    <3>3. QED  BY <3>1, <3>2
  <2>2. QED  BY <1>0, <1>2, <2>1 DEF Click, engineVars
<1>3. ASSUME NEW script \in Scripts, LoadScript(script) PROVE Calling'
  BY <1>2, <1>3, CallShape DEF LoadScript
<1>4. ASSUME NEW button \in Buttons, Press(button) PROVE Calling'
  BY <1>0, <1>2, <1>4, CallShape DEF Press
<1>5. ASSUME CloseWindow PROVE Calling'
  BY <1>0, <1>5, CallShape DEF CloseWindow, engineVars
<1>6. ASSUME PushEvent PROVE Calling'
  BY <1>0, <1>6, PushFacts DEF PushEvent, engineVars
<1>7. ASSUME StopDelay PROVE Calling'
  BY <1>0, <1>7, QueueFacts DEF StopDelay
<1>8. ASSUME Join PROVE Calling'
  <2>1. todo' \in Seq(Calls) /\ gui' = "closed"
    BY <1>8 DEF Join
  <2>2. QED  BY <1>0, <1>8, <2>1 DEF Join, engineVars
<1>9. Calling'
  BY ONLY Gui, <1>3, <1>4, <1>5, <1>6, <1>7, <1>8 DEF Gui
<1>10. QED  BY <1>1, <1>9, TypeParts

\* What Run's own steps keep.
LEMMA TypeRun ==
  ASSUME Calling, Data, Control, Locals, Chosen,
         \/ RunIgnore \/ RunStart \/ StartScript \/ RunLoad \/ ClearScript
         \/ ParseTests \/ ParseConfig \/ LoadFailed \/ RunFinish \/ RunQuit
  PROVE  Data' /\ Control' /\ Locals'
<1> USE DEF guiVars, loopVars, Testing
<1>1. CASE RunIgnore
  <2>1. UNCHANGED <<mTests, mRunning, mQuit, pc, ev, test, step, stopOnError, seconds, missed>>
    BY <1>1 DEF RunIgnore
  <2>2. QED  BY <2>1 DEF Data, Control, Locals, LeavesLoop
<1>2. ASSUME \/ RunStart \/ StartScript \/ RunLoad \/ ParseConfig \/ RunFinish \/ RunQuit
      PROVE  Data' /\ Control' /\ Locals'
  <2>1. /\ UNCHANGED <<mTests, ev, test, step, stopOnError, seconds>>
        /\ mRunning' \in BOOLEAN /\ mQuit' \in BOOLEAN /\ missed' \in BOOLEAN
        /\ ~Testing
        /\ pc' \in {"wait", "start", "load", "cleanup", "finish", "exited", "test"}
    BY <1>2 DEF RunStart, StartScript, RunLoad, ParseConfig, RunFinish, RunQuit,
                Finish, Data
  <2>2. Data' /\ Control'
    BY <2>1 DEF Data, Control
  <2>3. Locals'
    BY <2>1 DEF Locals, LeavesLoop
  <2>4. QED  BY <2>2, <2>3
<1>3. ASSUME ClearScript \/ ParseTests \/ LoadFailed
      PROVE  Data' /\ Control' /\ Locals'
  <2>1. /\ UNCHANGED <<ev, test, step, stopOnError, seconds, missed>>
        /\ mRunning' \in BOOLEAN /\ mQuit' \in BOOLEAN
        /\ pc \in {"load", "parse", "cleanup"}
        /\ pc' \in {"parse", "cleanup", "config", "finish"}
    BY <1>3 DEF ClearScript, ParseTests, LoadFailed, Data
  <2>2. mTests' \in Seq(Test)
    <3>1. CASE ClearScript \/ LoadFailed
      <4>1. mTests' = <<>>
        BY <3>1 DEF ClearScript, LoadFailed, Cleanup
      <4>2. QED  BY <4>1
    <3>2. ASSUME ParseTests PROVE mTests' \in Seq(Test)
      <4> DEFINE tests == TestsOf[mCurrentScript]
      <4>1. tests \in Seq(Test)
        BY <3>2, EngineAssumption DEF Chosen, ParseTests
      <4>2. mTests' = tests \/ \E n \in 1 .. Len(tests) : mTests' = SubSeq(tests, 1, n - 1)
        BY <3>2 DEF ParseTests
      <4> HIDE DEF tests
      <4>3. QED  BY <4>1, <4>2
    <3>3. QED  BY <1>3, <3>1, <3>2
  <2>3. Data'
    BY <2>1, <2>2 DEF Data
  <2>4. ev = "none" /\ test = 1 /\ stopOnError = FALSE /\ Len(mTests') \in Nat
    BY <2>1, <2>2 DEF Locals
  <2>5. Control' /\ Locals'
    BY <2>1, <2>4 DEF Control, Locals
  <2>6. QED  BY <2>3, <2>5
<1>4. QED  BY <1>1, <1>2, <1>3

\* NextStep stays in the test, or is at its end.
LEMMA NextStepShape ==
  ASSUME mTests \in Seq(Test), test \in DOMAIN mTests,
         step \in DOMAIN mTests[test].steps, NextStep
  PROVE  pc' \in {"step", "ended"} /\ step' \in DOMAIN mTests[test].steps
<1> DEFINE steps == mTests[test].steps
<1>1. mTests[test] \in Test
  OBVIOUS
<1>2. steps \in Seq(Step)
  BY <1>1 DEF Test
<1>3. /\ step' = IF steps[step] = "loop" \/ step = Len(steps) THEN step ELSE step + 1
      /\ pc' \in {"step", "ended"}
  BY DEF NextStep
<1> HIDE DEF steps
<1>4. step \in DOMAIN steps /\ DOMAIN steps = 1 .. Len(steps) /\ Len(steps) \in Nat
  BY <1>2 DEF steps
<1>5. step' \in DOMAIN steps
  BY <1>3, <1>4
<1>6. QED  BY <1>3, <1>5 DEF steps

\* What TestLoop keeps: its iterators stay inside the tests.
LEMMA TypeLoop ==
  ASSUME Calling, Data, Control, Locals,
         \/ BeginTest \/ RunStep \/ Execute \/ Sleep
         \/ Poll \/ Resume \/ EndTest \/ LeaveLoop
  PROVE  Data' /\ Control' /\ Locals'
<1> USE DEF Testing, Paused
<1>0. mTests \in Seq(Test) /\ Len(mTests) \in Nat /\ DOMAIN mTests = 1 .. Len(mTests)
  BY DEF Data
<1>1. UNCHANGED <<mTests, mRunning, mQuit>>
  BY DEF BeginTest, RunStep, Execute, Sleep, Poll, Resume, EndTest, LeaveLoop,
         loopFrame, delayFrame, pollFrame
<1>2. stopOnError' \in BOOLEAN /\ missed' \in BOOLEAN /\ ev' \in Events \cup {"none"}
  <2>1. mQueue # <<>> => Head(mQueue) \in Events
    BY QueueFacts
  <2>2. QED
    BY <2>1 DEF Data, BeginTest, RunStep, Execute, Sleep, Poll, Resume, EndTest, LeaveLoop,
         loopFrame, delayFrame, pollFrame, guiVars, Missed
<1>3. Data'
  BY <1>1, <1>2 DEF Data
<1>4. CASE BeginTest
  <2>1. /\ pc = "test" /\ test \in DOMAIN mTests
        /\ UNCHANGED <<ev, stopOnError, seconds>>
    BY <1>0, <1>4 DEF BeginTest, Control, loopFrame
  <2>2. CASE mTests[test].enable
    <3>1. mTests[test].steps \in Seq(Step)
      <4>1. mTests[test] \in Test
        BY <1>0, <2>1
      <4>2. QED  BY <4>1 DEF Test
    <3>2. /\ pc' = IF mTests[test].steps = <<>> THEN "ended" ELSE "step"
          /\ step' = 1 /\ test' = test
      BY <1>4, <2>2 DEF BeginTest
    <3>3. pc' = "step" => step' \in DOMAIN mTests[test].steps
      BY <3>1, <3>2
    <3>4. Control' /\ Locals'
      BY <1>1, <2>1, <3>2, <3>3 DEF Control, Locals
    <3>5. QED  BY <1>3, <3>4
  <2>3. CASE ~mTests[test].enable
    <3>1. test' = test + 1 /\ pc' = "test"
      BY <1>4, <2>1, <2>3 DEF BeginTest
    <3>2. Control' /\ Locals'
      BY <1>0, <1>1, <2>1, <3>1 DEF Control, Locals, LeavesLoop
    <3>3. QED  BY <1>3, <3>2
  <2>4. QED  BY <2>2, <2>3
<1>5. CASE RunStep \/ Execute \/ Sleep
  <2>1. /\ pc \in {"step", "delay"} /\ pc' \in {"delay", "poll"}
        /\ UNCHANGED <<test, step, ev>>
    BY <1>5 DEF RunStep, Execute, Sleep, loopFrame, delayFrame
  <2>2. seconds' \in IF pc' = "delay" THEN 1 .. MaxDelay ELSE {0}
    <3>1. CASE RunStep
      BY <3>1 DEF RunStep, loopFrame, Control
    <3>2. CASE Execute
      BY <3>2 DEF Execute
    <3>3. ASSUME Sleep PROVE seconds' \in IF pc' = "delay" THEN 1 .. MaxDelay ELSE {0}
      <4>1. seconds \in 1 .. MaxDelay /\ MaxDelay \in Nat
        BY <3>3, EngineAssumption DEF Sleep, Control
      <4>2. /\ seconds' = IF mStop THEN 0 ELSE seconds - 1
            /\ IF seconds' > 0 THEN pc' = "delay" ELSE pc' = "poll"
        BY <3>3 DEF Sleep
      <4>3. QED  BY <4>1, <4>2
    <3>4. QED  BY <1>5, <3>1, <3>2, <3>3
  <2>3. Control' /\ Locals'
    BY <1>1, <2>1, <2>2 DEF Control, Locals
  <2>4. QED  BY <1>3, <2>3
<1>6. CASE Poll \/ Resume
  <2>1. /\ pc \in {"poll", "paused"}
        /\ test \in DOMAIN mTests /\ step \in DOMAIN mTests[test].steps
        /\ UNCHANGED <<test, seconds>> /\ seconds = 0
    BY <1>6 DEF Poll, Resume, Control, pollFrame
  <2>2. /\ pc' \in {"paused", "ended", "step"}
        /\ step' \in DOMAIN mTests[test].steps
    <3>1. NextStep => pc' \in {"step", "ended"} /\ step' \in DOMAIN mTests[test].steps
      BY <1>0, <2>1, NextStepShape
    <3>2. QED  BY <1>6, <2>1, <3>1 DEF Poll, Resume
  <2>3. Control' /\ Locals'
    BY <1>0, <1>1, <2>1, <2>2 DEF Control, Locals
  <2>4. QED  BY <1>3, <2>3
<1>7. CASE EndTest
  <2>1. /\ test \in DOMAIN mTests /\ test' = test + 1
        /\ pc' = "test" /\ UNCHANGED <<ev, stopOnError, seconds>>
        /\ seconds = 0 /\ ~LeavesLoop
    BY <1>7 DEF EndTest, Locals, Control, loopFrame
  <2>2. Control' /\ Locals'
    BY <1>0, <1>1, <2>1 DEF Control, Locals, LeavesLoop
  <2>3. QED  BY <1>3, <2>2
<1>8. CASE LeaveLoop
  <2>1. /\ ev' = "none" /\ test' = 1 /\ stopOnError' = FALSE
        /\ pc' = "finish" /\ seconds' = 0
    BY <1>8 DEF LeaveLoop, Control, loopFrame
  <2>2. Control' /\ Locals'
    BY <1>0, <1>1, <2>1 DEF Control, Locals
  <2>3. QED  BY <1>3, <2>2
<1>9. QED  BY <1>4, <1>5, <1>6, <1>7, <1>8

\* A load the operator asks for chooses the script; no other step of the GUI
\* thread adds or loses a load that is on its way.
LEMMA LoadShape ==
  ASSUME Calling, Gui
  PROVE  \/ mCurrentScript' \in Scripts /\ "load" \in ToSet(todo')
         \/ /\ mCurrentScript' = mCurrentScript
            /\ "load" \in ToSet(mQueue') \cup ToSet(todo')
                 <=> "load" \in ToSet(mQueue) \cup ToSet(todo)
<1> DEFINE Pending == ToSet(mQueue) \cup ToSet(todo)
           Same == mCurrentScript' = mCurrentScript /\ ("load" \in Pending' <=> "load" \in Pending)
<1>0. ToSet(<<>>) = {}
  <2>1. DOMAIN <<>> = {}
    OBVIOUS
  <2>2. QED  BY <2>1 DEF ToSet
<1>1. ASSUME NEW script \in Scripts, LoadScript(script)
      PROVE  mCurrentScript' \in Scripts /\ "load" \in ToSet(todo')
  <2>1. todo' = <<"load">> /\ mCurrentScript' = script
    BY <1>1 DEF LoadScript, Click
  <2>2. QED  BY <2>1 DEF ToSet
<1>2. ASSUME NEW button \in Buttons, Press(button) PROVE Same
  <2>1. /\ mCurrentScript' = mCurrentScript /\ mQueue' = mQueue /\ todo = <<>>
        /\ todo' = IF button = "stop" THEN StopCalls ELSE <<button>>
        /\ button # "load"
    BY <1>2 DEF Press, Click
  <2>2. "load" \notin ToSet(StopCalls) /\ "load" \notin ToSet(<<button>>)
    BY <2>1 DEF ToSet, StopCalls
  <2>3. "load" \notin ToSet(todo')
    BY <2>1, <2>2
  <2>4. QED  BY <1>0, <2>1, <2>3
<1>3. ASSUME CloseWindow PROVE Same
  <2>1. /\ mCurrentScript' = mCurrentScript /\ mQueue' = mQueue /\ todo = <<>>
        /\ todo' = StopCalls \o <<"quit", "join">>
    BY <1>3 DEF CloseWindow, QuitCalls
  <2>2. "load" \notin ToSet(todo')
    <3>1. StopCalls \in Seq(Calls) /\ <<"quit", "join">> \in Seq(Calls)
      BY DEF StopCalls, Calls
    <3>2. "load" \notin ToSet(StopCalls) /\ "load" \notin ToSet(<<"quit", "join">>)
      BY DEF ToSet, StopCalls
    <3>3. ToSet(StopCalls \o <<"quit", "join">>)
            = ToSet(StopCalls) \cup ToSet(<<"quit", "join">>)
      BY <3>1, ConcatShape
    <3>4. QED  BY <2>1, <3>2, <3>3
  <2>3. QED  BY <1>0, <2>1, <2>2
<1>4. ASSUME PushEvent PROVE Same
  BY <1>4, PushFacts, QueueFacts DEF PushEvent
<1>5. ASSUME StopDelay PROVE Same
  BY <1>5, QueueFacts DEF StopDelay
<1>6. ASSUME Join PROVE Same
  <2>1. /\ mCurrentScript' = mCurrentScript /\ mQueue' = mQueue
        /\ todo = <<"join">> /\ todo' = <<>>
    BY <1>6 DEF Join
  <2>2. "load" \notin ToSet(todo)
    BY <2>1 DEF ToSet
  <2>3. QED  BY <1>0, <2>1, <2>2
<1>7. QED  BY ONLY Gui, <1>1, <1>2, <1>3, <1>4, <1>5, <1>6 DEF Gui

\* Every step keeps the types and what they need to be kept.
LEMMA LoopStep == TypeOK /\ LoopInv /\ [Next]_vars => TypeOK' /\ LoopInv'
<1> SUFFICES ASSUME TypeOK, LoopInv, [Next]_vars PROVE TypeOK' /\ LoopInv'
  OBVIOUS
<1>0. Calling /\ Data /\ Control /\ Locals /\ Chosen
  BY TypeParts DEF LoopInv
<1>1. ASSUME Gui PROVE TypeOK' /\ LoopInv'
  <2>1. Locals'
    BY <1>0, <1>1, GuiFrame DEF Locals, Testing, LeavesLoop
  <2>2. Chosen'
    BY <1>0, <1>1, GuiFrame, LoadShape DEF Chosen
  <2>3. QED  BY <1>1, <2>1, <2>2, TypeGui DEF LoopInv
<1>2. ASSUME Engine PROVE TypeOK' /\ LoopInv'
  <2>1. Data' /\ Control' /\ Locals'
    BY <1>0, <1>2, TypeRun, TypeLoop DEF Engine
  <2>2. Calling'
    BY <1>0, <1>2, EngineShape, QueueFacts DEF Calling
  <2>3. Chosen'
    BY <1>0, <1>2, EngineShape, QueueFacts DEF Chosen
  <2>4. QED  BY <2>1, <2>2, <2>3, TypeParts DEF LoopInv
<1>3. ASSUME UNCHANGED vars PROVE TypeOK' /\ LoopInv'
  <2>1. Locals' /\ Chosen'
    BY <1>0, <1>3 DEF vars, Locals, Chosen, Testing, LeavesLoop
  <2>2. Calling' /\ Data'
    BY <1>0, <1>3 DEF vars, Calling, Data
  <2>3. Control'
    BY <1>0, <1>3 DEF vars, Control
  <2>4. QED  BY <2>1, <2>2, <2>3, TypeParts DEF LoopInv
<1>4. QED  BY ONLY [Next]_vars, <1>1, <1>2, <1>3 DEF Next, Terminated

\* The engine's initial state.
LEMMA LoopInitially == Init => TypeOK /\ LoopInv
<1> SUFFICES ASSUME Init PROVE TypeOK /\ LoopInv
  OBVIOUS
<1>1. ToSet(<<>>) = {}
  <2>1. DOMAIN <<>> = {}
    OBVIOUS
  <2>2. QED  BY <2>1 DEF ToSet
<1>2. Calling /\ Data
  <2>1. 0 \in 0 .. MaxClicks
    BY EngineAssumption
  <2>2. Calling
    <3>1. mQueue = <<>> /\ todo = <<>>
      BY DEF Init
    <3>2. mQueue \in Seq(Events) /\ todo \in Seq(Calls)
      BY <3>1
    <3>3. mCurrentScript = "" /\ mStop = FALSE /\ gui = "open" /\ clicks = 0
      BY DEF Init
    <3>4. QED  BY <2>1, <3>2, <3>3 DEF Calling
  <2>3. Data
    <3>1. /\ mTests = <<>> /\ mRunning = FALSE /\ mQuit = FALSE
          /\ stopOnError = FALSE /\ missed = FALSE /\ ev = "none"
      BY DEF Init
    <3>2. mTests \in Seq(Test)
      BY <3>1
    <3>3. QED  BY <3>1, <3>2 DEF Data
  <2>4. QED  BY <2>2, <2>3
<1>3. Control
  <2>1. /\ pc = "wait" /\ test = 1 /\ seconds = 0 /\ mTests = <<>>
    BY DEF Init
  <2>2. 1 \in 1 .. Len(<<>>) + 1
    OBVIOUS
  <2>3. QED  BY <2>1, <2>2 DEF Control
<1>4. Locals /\ Chosen
  BY <1>1 DEF Init, Locals, Chosen, Testing
<1>5. QED  BY <1>2, <1>3, <1>4, TypeParts DEF LoopInv

\* The variables keep their types, and TestLoop's iterators point into the
\* tests that are loaded.
THEOREM EngineTypeCorrect == Spec => []TypeOK
<1>1. QED  BY LoopInitially, LoopStep, PTL DEF Spec

-----------------------------------------------------------------------------
(* The tests that are loaded.                                              *)

\* TestLoop leaves the tests and IsRunning() alone; a load it takes from the
\* queue is missed.
LEMMA TestLoopShape ==
  ASSUME \/ BeginTest \/ RunStep \/ Execute \/ Sleep
         \/ Poll \/ Resume \/ EndTest \/ LeaveLoop
  PROVE  /\ UNCHANGED <<mTests, mRunning>>
         /\ Testing /\ (Testing' \/ pc' = "finish")
         /\ \/ UNCHANGED <<mQueue, missed>>
            \/ /\ mQueue # <<>> /\ mQueue' = Tail(mQueue)
               /\ missed' = (missed \/ Head(mQueue) = "load")
            \/ mQueue' = mQueue /\ missed' = (missed \/ ev = "load")
<1>1. UNCHANGED <<mTests, mRunning>>
  BY DEF BeginTest, RunStep, Execute, Sleep, Poll, Resume, EndTest, LeaveLoop,
         loopFrame, delayFrame, pollFrame
<1>2. Testing /\ (Testing' \/ pc' = "finish")
  BY DEF BeginTest, RunStep, Execute, Sleep, Poll, Resume, EndTest, LeaveLoop,
         NextStep, Testing, Paused
<1>3. \/ UNCHANGED <<mQueue, missed>>
      \/ /\ mQueue # <<>> /\ mQueue' = Tail(mQueue)
         /\ missed' = (missed \/ Head(mQueue) = "load")
      \/ mQueue' = mQueue /\ missed' = (missed \/ ev = "load")
  BY DEF BeginTest, RunStep, Execute, Sleep, Poll, Resume, EndTest, LeaveLoop,
         loopFrame, delayFrame, guiVars, Missed
<1>4. QED  BY <1>1, <1>2, <1>3

\* No script is loaded, and none is to be.
LEMMA TestsInitially == Init => TestsInv
BY DEF Init, TestsInv, Running, Whole, Matching, Testing, IsLoaded

\* A step of the engine thread: the tests are replaced by a load only, which
\* leaves those of one script, or none.
LEMMA TestsEngine ==
  ASSUME Calling, Data, Chosen, TestsInv, Engine
  PROVE  TestsInv'
<1> USE DEF TestsInv, Running, Whole, Matching, IsLoaded
<1>0. /\ UNCHANGED <<mCurrentScript, todo>>
      /\ mQueue # <<>> => ToSet(mQueue) = {Head(mQueue)} \cup ToSet(Tail(mQueue))
  BY EngineShape, QueueFacts
<1>1. CASE \/ BeginTest \/ RunStep \/ Execute \/ Sleep
           \/ Poll \/ Resume \/ EndTest \/ LeaveLoop
  <2>1. /\ UNCHANGED <<mTests, mRunning>>
        /\ Testing /\ (Testing' \/ pc' = "finish")
    BY <1>1, TestLoopShape
  <2>2. Running' /\ Whole'
    BY <2>1 DEF Testing
  <2>3. "load" \in ToSet(mQueue) \/ missed => "load" \in ToSet(mQueue') \/ missed'
    BY <1>0, <1>1, TestLoopShape
  <2>4. Matching'
    BY <1>0, <2>1, <2>3 DEF Testing
  <2>5. QED  BY <2>2, <2>4
<1>2. CASE RunIgnore
  BY <1>0, <1>2 DEF RunIgnore, WaitAndPop, guiVars, Testing
<1>3. CASE RunStart
  BY <1>0, <1>3 DEF RunStart, WaitAndPop, guiVars, Testing
<1>4. CASE StartScript
  BY <1>0, <1>4 DEF StartScript, guiVars, Testing
<1>5. CASE RunLoad
  BY <1>0, <1>5 DEF RunLoad, Testing
<1>6. CASE ClearScript
  BY <1>0, <1>6 DEF ClearScript, Testing
<1>7. CASE ParseTests
  <2>1. mCurrentScript \in Scripts /\ mCurrentScript' = mCurrentScript
    BY <1>0, <1>7 DEF Chosen, ParseTests
  <2>2. mRunning' = mRunning /\ pc' \in {"cleanup", "config"}
    BY <1>7 DEF ParseTests
  <2>3. pc' # "cleanup" => mTests' = TestsOf[mCurrentScript]
    BY <1>7 DEF ParseTests
  <2>4. QED  BY <2>1, <2>2, <2>3 DEF Testing
<1>8. CASE ParseConfig
  BY <1>0, <1>8 DEF ParseConfig, guiVars, Testing
<1>9. CASE LoadFailed
  BY <1>0, <1>9 DEF LoadFailed, Cleanup, Testing
<1>10. CASE RunFinish
  BY <1>0, <1>10 DEF RunFinish, Finish, guiVars, Testing
<1>11. CASE RunQuit
  BY <1>0, <1>11 DEF RunQuit, WaitAndPop, guiVars, Testing
<1>12. QED
  BY ONLY Engine, <1>1, <1>2, <1>3, <1>4, <1>5, <1>6, <1>7, <1>8, <1>9, <1>10, <1>11
  DEF Engine

\* Every step keeps the invariant of the tests.
LEMMA TestsStep == TypeOK /\ LoopInv /\ TestsInv /\ [Next]_vars => TestsInv'
<1> SUFFICES ASSUME TypeOK, LoopInv, TestsInv, [Next]_vars PROVE TestsInv'
  OBVIOUS
<1>0. Calling /\ Data /\ Chosen
  BY TypeParts DEF LoopInv
<1>1. ASSUME Gui PROVE TestsInv'
  BY <1>0, <1>1, GuiFrame, LoadShape
  DEF TestsInv, Running, Whole, Matching, Testing, IsLoaded
<1>2. ASSUME Engine PROVE TestsInv'
  BY <1>0, <1>2, TestsEngine
<1>3. ASSUME UNCHANGED vars PROVE TestsInv'
  BY <1>3 DEF vars, TestsInv, Running, Whole, Matching, Testing, IsLoaded
<1>4. QED  BY ONLY [Next]_vars, <1>1, <1>2, <1>3 DEF Next, Terminated

-----------------------------------------------------------------------------
(* The two halves of a Stop.                                               *)

\* Nothing is to be stopped.
LEMMA StopInitially == Init => StopInv
<1>1. Init => todo = <<>> /\ mStop = FALSE
  BY DEF Init
<1>2. QED  BY <1>1 DEF StopInv, StopFirst, HalfStopped, CutShort

\* What is left of a call after its first half.
LEMMA TodoTail ==
  ASSUME Calling, StopFirst, todo # <<>>, todo' = Tail(todo)
  PROVE  /\ StopFirst'
         /\ todo' # <<>> /\ Head(todo') = "stopDelay" => Head(todo) = "stop"
<1>1. /\ Len(todo) \in Nat /\ Len(todo) >= 1 /\ Head(todo) = todo[1]
      /\ Len(todo') = Len(todo) - 1 /\ todo' \in Seq(Calls)
      /\ \A i \in 1 .. Len(todo) - 1 : todo'[i] = todo[i + 1]
  <2>1. "stop" \in Calls /\ todo \in Seq(Calls)
    BY DEF Calls, Calling
  <2>2. QED  BY <2>1, QueueShape
<1>2. ASSUME NEW i \in 1 .. Len(todo) - 1, todo[i + 1] = "stopDelay"
      PROVE  todo[i] = "stop"
  <2>1. i + 1 \in 1 .. Len(todo) /\ i + 1 # 1 /\ (i + 1) - 1 = i
    BY <1>1
  <2>2. QED  BY <1>2, <2>1 DEF StopFirst
<1>3. StopFirst'
  <2>1. ASSUME NEW i \in 1 .. Len(todo'), todo'[i] = "stopDelay", i # 1
        PROVE  todo'[i - 1] = "stop"
    <3>1. i \in 1 .. Len(todo) - 1 /\ i - 1 \in 1 .. Len(todo) - 1 /\ (i - 1) + 1 = i
      BY <1>1, <2>1
    <3>2. QED  BY <1>1, <1>2, <2>1, <3>1
  <2>2. QED  BY <2>1 DEF StopFirst
<1>4. todo' # <<>> /\ Head(todo') = "stopDelay" => Head(todo) = "stop"
  <2>1. ASSUME todo' # <<>>
        PROVE  1 \in 1 .. Len(todo) - 1 /\ Head(todo') = todo'[1]
    BY <1>1, <2>1
  <2>2. QED  BY <1>1, <1>2, <2>1
<1>5. QED  BY <1>3, <1>4

\* A step of the GUI thread.
LEMMA StopGui ==
  ASSUME Calling, StopInv, Gui
  PROVE  StopInv'
<1> USE DEF StopInv
<1>0. UNCHANGED <<pc, ev>>
  BY GuiFrame
<1>1. ASSUME UNCHANGED <<mQueue, mStop>> PROVE CutShort'
  BY <1>0, <1>1 DEF CutShort
<1>2. ASSUME NEW script \in Scripts, LoadScript(script) PROVE StopInv'
  <2>1. todo' = <<"load">> /\ UNCHANGED <<mQueue, mStop>>
    BY <1>2 DEF LoadScript, Click, engineVars
  <2>2. QED  BY <1>1, <2>1 DEF StopFirst, HalfStopped
<1>3. ASSUME NEW button \in Buttons, Press(button) PROVE StopInv'
  <2>1. /\ todo' = IF button = "stop" THEN <<"stop", "stopDelay">> ELSE <<button>>
        /\ UNCHANGED <<mQueue, mStop>> /\ button \in {"start", "pause", "stop"}
    BY <1>3, EngineAssumption DEF Press, Click, engineVars, StopCalls
  <2>2. CASE button = "stop"
    BY <1>1, <2>1, <2>2 DEF StopFirst, HalfStopped
  <2>3. CASE button # "stop"
    BY <1>1, <2>1, <2>3 DEF StopFirst, HalfStopped
  <2>4. QED  BY <2>2, <2>3
<1>4. ASSUME CloseWindow PROVE StopInv'
  <2>1. todo' = StopCalls \o <<"quit", "join">> /\ UNCHANGED <<mQueue, mStop>>
    BY <1>4 DEF CloseWindow, QuitCalls, engineVars
  <2>2. /\ Len(todo') = 4 /\ todo'[1] = "stop" /\ todo'[2] = "stopDelay"
        /\ todo'[3] = "quit" /\ todo'[4] = "join" /\ Head(todo') = "stop"
    BY <2>1 DEF StopCalls
  <2>3. QED  BY <1>1, <2>1, <2>2 DEF StopFirst, HalfStopped
<1>5. ASSUME PushEvent PROVE StopInv'
  <2>1. StopFirst' /\ HalfStopped'
    BY <1>5, PushFacts, TodoTail DEF HalfStopped
  <2>2. CutShort'
    BY <1>0, <1>5, PushFacts DEF CutShort, PushEvent, engineVars
  <2>3. QED  BY <2>1, <2>2
<1>6. ASSUME StopDelay PROVE StopInv'
  <2>1. /\ todo # <<>> /\ Head(todo) = "stopDelay" /\ todo' = Tail(todo)
        /\ mQueue' = mQueue
    BY <1>6 DEF StopDelay
  <2>2. StopFirst' /\ HalfStopped'
    BY <2>1, TodoTail DEF HalfStopped
  <2>3. ASSUME mQueue # <<>>, mQueue[Len(mQueue)] = "stop"
        PROVE  "stop" \in ToSet(mQueue)
    <3>1. mQueue \in Seq(Events)
      BY DEF Calling
    <3>2. Len(mQueue) \in DOMAIN mQueue
      BY <2>3, <3>1
    <3>3. QED  BY <2>3, <3>2 DEF ToSet
  <2>4. CutShort'
    BY <1>0, <2>1, <2>3 DEF HalfStopped, CutShort
  <2>5. QED  BY <2>2, <2>4
<1>7. ASSUME Join PROVE StopInv'
  <2>1. todo' = <<>> /\ UNCHANGED <<mQueue, mStop>>
    BY <1>7 DEF Join, engineVars
  <2>2. QED  BY <1>1, <2>1 DEF StopFirst, HalfStopped
<1>8. QED  BY ONLY Gui, <1>2, <1>3, <1>4, <1>5, <1>6, <1>7 DEF Gui

\* A pop leaves the last event of the queue where it is, if it is not the only one.
LEMMA QueueTail ==
  ASSUME Calling, mQueue # <<>>, mQueue' = Tail(mQueue)
  PROVE  \/ mQueue' # <<>> /\ mQueue'[Len(mQueue')] = mQueue[Len(mQueue)]
         \/ mQueue' = <<>> /\ Head(mQueue) = mQueue[Len(mQueue)]
<1>1. /\ Len(mQueue) \in Nat /\ Len(mQueue) >= 1 /\ Head(mQueue) = mQueue[1]
      /\ Len(mQueue') = Len(mQueue) - 1 /\ mQueue' \in Seq(Events)
      /\ \A i \in 1 .. Len(mQueue) - 1 : mQueue'[i] = mQueue[i + 1]
  <2>1. "stop" \in Events /\ mQueue \in Seq(Events)
    BY DEF Events, Calling
  <2>2. QED  BY <2>1, QueueShape
<1>2. CASE Len(mQueue) = 1
  BY <1>1, <1>2
<1>3. CASE Len(mQueue) # 1
  <2>1. /\ Len(mQueue') \in 1 .. Len(mQueue) - 1 /\ Len(mQueue') + 1 = Len(mQueue)
        /\ Len(mQueue') # 0
    BY <1>1, <1>3
  <2>2. QED  BY <1>1, <2>1
<1>4. QED  BY <1>2, <1>3

\* A step of the engine thread: nothing but the event of a Stop is behind the
\* event of that Stop, and a run that has taken it takes no other event.
LEMMA StopEngine ==
  ASSUME Calling, Locals, StopInv, Engine
  PROVE  StopInv'
<1> USE DEF StopInv
<1>0. todo' = todo
  BY EngineShape
<1>1. StopFirst'
  BY <1>0 DEF StopFirst
<1>2. CutShort'
  <2>1. pc' = "delay" => mStop' = FALSE
    BY DEF Engine, RunIgnore, RunStart, StartScript, RunLoad, ClearScript, ParseTests,
           ParseConfig, LoadFailed, RunFinish, RunQuit, BeginTest, RunStep, Execute,
           Sleep, Poll, Resume, EndTest, LeaveLoop, NextStep
  <2>2. QED  BY <2>1 DEF CutShort
<1>3. ASSUME todo # <<>>, Head(todo) = "stopDelay" PROVE HalfStopped'
  <2>1. CASE mQueue # <<>> /\ mQueue[Len(mQueue)] = "stop"
    <3>1. CASE mQueue' = mQueue
      BY <2>1, <3>1 DEF HalfStopped
    <3>2. ASSUME mQueue' = Tail(mQueue), mQueue' = <<>>
          PROVE  \/ pc' = "wait"
                 \/ ev' = "stop" /\ pc' \in {"step", "ended"}
      <4>1. Head(mQueue) = "stop" /\ mQueue' # mQueue
        BY <2>1, <3>2, QueueTail
      <4>2. QED
        BY <2>1, <4>1
        DEF Engine, WaitAndPop, RunIgnore, RunStart, StartScript, RunLoad, ClearScript,
            ParseTests, ParseConfig, LoadFailed, RunFinish, RunQuit, BeginTest, RunStep,
            Execute, Sleep, Poll, Resume, EndTest, LeaveLoop, NextStep, delayFrame
    <3>3. QED  BY <2>1, <3>1, <3>2, EngineShape, QueueTail DEF HalfStopped
  <2>2. CASE mQueue = <<>> /\ pc \in {"wait", "finish", "exited"}
    <3>1. mQueue' = <<>> /\ pc' \in {"wait", "finish", "exited"}
      BY <2>2
      DEF Engine, WaitAndPop, RunIgnore, RunStart, StartScript, RunLoad, ClearScript,
          ParseTests, ParseConfig, LoadFailed, RunFinish, RunQuit, BeginTest, RunStep,
          Execute, Sleep, Poll, Resume, EndTest, LeaveLoop, Paused
    <3>2. QED  BY <3>1 DEF HalfStopped
  <2>3. CASE /\ mQueue = <<>> /\ ev = "stop"
             /\ pc \in {"step", "delay", "poll", "ended"}
    <3>1. /\ mQueue' = <<>>
          /\ \/ pc' = "finish"
             \/ ev' = "stop" /\ pc' \in {"delay", "poll", "ended"}
      <4>1. CASE RunStep \/ Execute \/ Sleep
        BY <2>3, <4>1 DEF RunStep, Execute, Sleep, delayFrame
      <4>2. CASE Poll
        BY <2>3, <4>2 DEF Poll, MustStop
      <4>3. CASE EndTest \/ LeaveLoop
        BY <2>3, <4>3 DEF EndTest, LeaveLoop, LeavesLoop
      <4>4. QED
        BY <2>3, <4>1, <4>2, <4>3
        DEF Engine, RunIgnore, RunStart, StartScript, RunLoad, ClearScript,
            ParseTests, ParseConfig, LoadFailed, RunFinish, RunQuit, BeginTest,
            Resume, Paused
    <3>2. QED  BY <3>1 DEF HalfStopped
  <2>4. QED  BY <1>3, <2>1, <2>2, <2>3 DEF HalfStopped
<1>4. HalfStopped'
  BY <1>0, <1>3 DEF HalfStopped
<1>5. QED  BY <1>1, <1>2, <1>4

\* Every step keeps the invariant of the Stops.
LEMMA StopStep == TypeOK /\ LoopInv /\ StopInv /\ [Next]_vars => StopInv'
<1> SUFFICES ASSUME TypeOK, LoopInv, StopInv, [Next]_vars PROVE StopInv'
  OBVIOUS
<1>0. Calling /\ Locals
  BY TypeParts DEF LoopInv
<1>1. ASSUME Gui PROVE StopInv'
  BY <1>0, <1>1, StopGui
<1>2. ASSUME Engine PROVE StopInv'
  BY <1>0, <1>2, StopEngine
<1>3. ASSUME UNCHANGED vars PROVE StopInv'
  BY <1>3 DEF vars, StopInv, StopFirst, HalfStopped, CutShort
<1>4. QED  BY ONLY [Next]_vars, <1>1, <1>2, <1>3 DEF Next, Terminated

-----------------------------------------------------------------------------
(* The theorems.                                                           *)

\* The four invariants hold in every state.
LEMMA EngineInductive == Spec => [](TypeOK /\ LoopInv /\ TestsInv /\ StopInv)
<1>1. QED
  BY LoopInitially, TestsInitially, StopInitially, LoopStep, TestsStep, StopStep, PTL
  DEF Spec

\* IsRunning() is true while a script's steps are executed, and false again
\* when the engine waits, whichever way the script or the load ended.
THEOREM RunningFlag == Spec => []RunningWhileTesting
<1>1. TestsInv => RunningWhileTesting
  BY DEF TestsInv, Running, RunningWhileTesting
<1>2. QED  BY <1>1, EngineInductive, PTL

\* What can be started is everything some script declared: a load that fails
\* half way leaves no tests behind.
THEOREM WholeScripts == Spec => []LoadedWhole
<1>1. TestsInv => LoadedWhole
  BY DEF TestsInv, Whole, LoadedWhole, Testing
<1>2. QED  BY <1>1, EngineInductive, PTL

\* The steps and the functions of a run are those of one script, unless a load
\* is on its way or was thrown away by TestLoop.
THEOREM OneScript == Spec => []ScriptMatchesTests
<1>1. ASSUME TypeOK, TestsInv PROVE ScriptMatchesTests
  <2>1. mQueue \in Seq(Calls) /\ todo \in Seq(Calls)
    <3>1. mQueue \in Seq(Events) /\ todo \in Seq(Calls)
      BY <1>1, TypeParts DEF Calling
    <3>2. Events \subseteq Calls
      BY DEF Events, Calls
    <3>3. QED  BY <3>1, <3>2
  <2>2. ToSet(mQueue \o todo) = ToSet(mQueue) \cup ToSet(todo)
    BY <2>1, ConcatShape
  <2>3. QED  BY <1>1, <2>2 DEF TestsInv, Matching, ScriptMatchesTests, Testing
<1>2. QED  BY <1>1, EngineInductive, PTL

\* Nobody changes the tests while TestLoop iterates over them, although the GUI
\* thread pushes loads at any time and nothing is locked.
THEOREM StableTests == Spec => TestsStable
<1>1. [Next]_vars => [Testing => mTests' = mTests]_vars
  <2> SUFFICES ASSUME [Next]_vars, Testing PROVE mTests' = mTests
    OBVIOUS
  <2>1. CASE Gui
    BY <2>1, GuiFrame
  <2>2. CASE Engine
    BY <2>2, TestLoopShape
    DEF Engine, Testing, RunIgnore, RunStart, StartScript, RunLoad, ClearScript,
        ParseTests, ParseConfig, LoadFailed, RunFinish, RunQuit
  <2>3. CASE UNCHANGED vars
    BY <2>3 DEF vars
  <2>4. QED  BY <2>1, <2>2, <2>3 DEF Next, Terminated
<1>2. QED  BY <1>1, PTL DEF Spec, TestsStable

\* Once TestLoop has taken a Stop, or a step has failed, no other step of the
\* run begins, except at the end of a pause.
THEOREM StopsAtOnce == Spec => NoStepAfterStop
<1> DEFINE A == pc # "step" /\ pc' = "step" /\ (ev' = "stop" \/ stopOnError') => Paused
<1>1. LoopInv /\ [Next]_vars => [A]_vars
  <2> SUFFICES ASSUME LoopInv, [Next]_vars, pc # "step", pc' = "step",
                      ev' = "stop" \/ stopOnError'
               PROVE  Paused
    OBVIOUS
  <2>1. CASE Gui
    BY <2>1, GuiFrame
  <2>2. CASE BeginTest
    BY <2>2 DEF BeginTest, LoopInv, Locals, LeavesLoop
  <2>3. CASE Poll
    BY <2>3 DEF Poll, MustStop
  <2>4. CASE Engine
    BY <2>2, <2>3, <2>4
    DEF Engine, RunIgnore, RunStart, StartScript, RunLoad, ClearScript, ParseTests,
        ParseConfig, LoadFailed, RunFinish, RunQuit, RunStep, Execute, Sleep, Resume,
        EndTest, LeaveLoop
  <2>5. CASE UNCHANGED vars
    BY <2>5 DEF vars
  <2>6. QED  BY <2>1, <2>4, <2>5 DEF Next, Terminated
<1>2. QED  BY <1>1, EngineInductive, PTL DEF Spec, NoStepAfterStop

\* A delay is cut short only in a run that is being stopped: neither the Stop
\* of an earlier run nor one whose two halves come late shortens a wait.
THEOREM CutByStop == Spec => DelayCutByStop
<1> DEFINE A == pc = "delay" /\ seconds > 1 /\ seconds' = 0 =>
                  "stop" \in ToSet(mQueue) \/ ev = "stop"
<1>1. TypeOK /\ StopInv /\ [Next]_vars => [A]_vars
  <2> SUFFICES ASSUME TypeOK, StopInv, [Next]_vars,
                      pc = "delay", seconds > 1, seconds' = 0
               PROVE  "stop" \in ToSet(mQueue) \/ ev = "stop"
    OBVIOUS
  <2>0. seconds \in Nat
    <3>1. seconds \in 1 .. MaxDelay
      BY TypeParts DEF Control
    <3>2. QED  BY <3>1, EngineAssumption
  <2>1. CASE Gui
    BY <2>0, <2>1, GuiFrame
  <2>2. CASE Sleep
    <3>1. mStop
      BY <2>0, <2>2 DEF Sleep
    <3>2. QED  BY <3>1 DEF StopInv, CutShort
  <2>3. CASE Engine
    BY <2>2, <2>3
    DEF Engine, RunIgnore, RunStart, StartScript, RunLoad, ClearScript, ParseTests,
        ParseConfig, LoadFailed, RunFinish, RunQuit, BeginTest, RunStep, Execute,
        Poll, Resume, EndTest, LeaveLoop, Paused
  <2>4. CASE UNCHANGED vars
    BY <2>0, <2>4 DEF vars
  <2>5. QED  BY <2>1, <2>3, <2>4 DEF Next, Terminated
<1>2. QED  BY <1>1, EngineInductive, PTL DEF Spec, DelayCutByStop
=============================================================================
