\* Every button, in any order, at any step of the engine thread.
SPECIFICATION FairSpec
CONSTANTS
  s1 = s1
  s2 = s2
  Scripts = {s1, s2}
  TestsOf <- Tests
  Buttons = {"load", "start", "pause", "stop"}
  MaxDelay = 2
  MaxClicks = 5
INVARIANTS
  TypeOK
  RunningWhileTesting
  LoadedWhole
  ScriptMatchesTests
PROPERTIES
  TestsStable
  NoStepAfterStop
  DelayCutByStop
  StopEnds
  QuitReturns
\* A Quit may be taken by TestLoop after a pause: the program then hangs.
CHECK_DEADLOCK FALSE
