\* Requests that overlap, overtake each other, are cut or die; statements of
\* the script that fail; a restart that takes laps back.
SPECIFICATION Spec
CONSTANTS
  p1 = p1
  p2 = p2
  Ids = {1, 2}
  Procs = {p1, p2}
  MaxLaps = 2
  MaxRequests = 3
  MaxRestarts = 1
  NoTable = NoTable
  Nobody = Nobody
SYMMETRY Symmetric
INVARIANTS
  TypeOK
  LastDropKeepsItsRows
  LoneRequestRepairs
