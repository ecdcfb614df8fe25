\* Two dimensions, lists of two: creating, replacing, moving, refusing and failing.
SPECIFICATION Spec
CONSTANTS
  Players = {p1, p2}
  Dimensions = {d1, d2}
  Uuids = {u1, u2}
  Placed = {a, b}
  Unplaced = {}
  MaxAnnotations = 2
  MaxBatch = 1
  MaxInFlight = 1
  Travel = TRUE
  None = None
SYMMETRY Symmetry
INVARIANTS
  TypeOK
  ListsAreSound
  SettledClientsAgree
