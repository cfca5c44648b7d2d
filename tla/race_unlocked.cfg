\* A pool thread looks a read up while the GUI thread refills the maps.
SPECIFICATION Spec
CONSTANTS
  w1 = w1
  w2 = w2
  A = A
  B = B
  Tags = {1}
  KeyMod = 4
  Cats = {A}
  NoCat = NoCat
  Courses <- OneRunner
  Windows = {0}
  DefaultWindow = 0
  Workers = {w1, w2}
  MaxTime = 0
  MaxReads = 1
  MaxRestarts = 0
SYMMETRY Symmetric
INVARIANTS
  NoUnlockedAccess
