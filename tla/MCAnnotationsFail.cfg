\* A batch that fails half way.
SPECIFICATION Spec
CONSTANTS
  Players = {p1, p2}
  Dimensions = {d1}
  Uuids = {u1, u2}
  Placed = {a, b}
  Unplaced = {}
  MaxAnnotations = 2
  MaxBatch = 2
  MaxInFlight = 1
  Travel = FALSE
  None = None
SYMMETRY Symmetry
INVARIANTS
  ClientsAgree
