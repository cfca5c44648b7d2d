\* The pool inside the studio: the window is closed at any time, with a reader
\* that goes on reading, a script that runs and jobs in the queue.
SPECIFICATION FairLifeSpec
CONSTANTS
  j1 = j1
  j2 = j2
  j3 = j3
  t1 = t1
  t2 = t2
  Jobs = {j1, j2, j3}
  Pill = Pill
  Threads = {t1, t2}
  MaxEvents = 1
INVARIANTS
  TypeOK
  LifeTypeOK
  NoLostWakeUp
  OnlyTheseOutlive
  NoThreadLeft
PROPERTIES
  RefinesWorkPool
  JobsRun
  ShutdownEnds
