\* A player, a marker and three entities that ride each other.
SPECIFICATION Spec
CONSTANTS
  Entities = {p, m, a, b, c}
  Players = {p}
  Markers = {m}
  MaxStack = 3
  MaxNamed = 2
  None = None
SYMMETRY Symmetry
INVARIANTS
  TypeOK
  Forest
PROPERTIES
  PlayersAreLeftAlone
  NobodyIsStolen
