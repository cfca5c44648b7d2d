\* Two pool threads apply the three reads of a runner and of a tag that aliases
\* it, stamped by a clock that may step back, under two windows; the process
\* dies at any step, those of the autosave included, and starts again.
SPECIFICATION Spec
CONSTANTS
  w1 = w1
  w2 = w2
  A = A
  B = B
  Tags = {1, 5}
  KeyMod = 4
  Cats = {A}
  NoCat = NoCat
  Courses <- OneRunner
  Windows = {0, 1}
  DefaultWindow = 0
  Workers = {w1, w2}
  MaxTime = 2
  MaxReads = 3
  MaxRestarts = 1
SYMMETRY Symmetric
INVARIANTS
  LapLimit
  StartIsAPassage
  FileIsBehindTable
  CloudIsBehindTable
PROPERTIES
  LapsSpaced
  RefinesLapBook
