\* Any client; round trips take less than a second (3 of 5 ticks), and top-ups are no whole sections.
SPECIFICATION FairSpec
CONSTANTS
  Allowed = 3
  Scale = 5
  MaxSections = 2
  MaxBuffers = 2
  Latency = 2
  None = None
INVARIANTS
  TypeOK
  NothingVanishes
  RateLimited
  ThriftyNotKicked
PROPERTIES
  ToppedUpUnlessDropped
