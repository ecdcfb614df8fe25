\* Entries that fit, fill a payload together, or need one each.
SPECIFICATION FairSpec
CONSTANTS
  Ids = {i}
  Lengths = {0, 524252, 1048512}
  MaxResponse = 1048512
  PayloadLimit = 1048576
  MaxSections = 2
  MaxAsked = 3
  MaxInFlight = 2
  Kinds = {"chunks", "entities"}
  None = None
INVARIANTS
  TypeOK
  BatchIsMeasured
  ChunkPayloadsFit
PROPERTIES
  AnswersInFull
  AlwaysAnswered
