\* Buffers may be dropped, which is charged to nobody.
SPECIFICATION FairSpec
CONSTANTS
  Allowed = 3
  Scale = 2
  MaxSections = 3
  MaxBuffers = 2
  Latency = 2
  None = None
PROPERTIES
  ToppedUpAgain
