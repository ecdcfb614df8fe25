\* Four entities whose NBT fills a payload to the byte.
SPECIFICATION FairSpec
CONSTANTS
  Ids = {i}
  Lengths = {0, 262128}
  MaxResponse = 1048512
  PayloadLimit = 1048576
  MaxSections = 2
  MaxAsked = 4
  MaxInFlight = 2
  Kinds = {"entities"}
  None = None
INVARIANTS
  SharedPayloadsFit
