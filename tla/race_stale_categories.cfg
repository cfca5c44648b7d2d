\* A course with other categories but as many of them.
SPECIFICATION Spec
CONSTANTS
  w1 = w1
  w2 = w2
  A = A
  B = B
  Tags = {1}
  KeyMod = 4
  Cats = {A, B}
  NoCat = NoCat
  Courses <- Renamed
  Windows = {0}
  DefaultWindow = 0
  Workers = {w1, w2}
  MaxTime = 0
  MaxReads = 0
  MaxRestarts = 0
SYMMETRY Symmetric
PROPERTIES
  CategoriesRefreshed
