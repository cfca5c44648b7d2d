\* Two pool threads look up and apply reads of a runner and of a tag that
\* aliases it, while the GUI thread draws, saves, sends and fetches longer and
\* shorter courses; with fair pool threads an allowed read reaches the table.
SPECIFICATION FairSpec
CONSTANTS
  w1 = w1
  w2 = w2
  A = A
  B = B
  Tags = {2, 6}
  KeyMod = 4
  Cats = {A, B}
  NoCat = NoCat
  Courses <- Refetched
  Windows = {0}
  DefaultWindow = 0
  Workers = {w1, w2}
  MaxTime = 0
  MaxReads = 2
  MaxRestarts = 0
INVARIANTS
  TypeOK
PROPERTIES
  RunnersRefreshed
  PassageRecorded
