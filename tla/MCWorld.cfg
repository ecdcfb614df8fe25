SPECIFICATION WorldSpec
CONSTANTS
  Nodes <- PERMS
  Parent <- Parents
  All <- ALL
  Settings <- MCSettings
  Preferences <- MCPreferences
  Side = 2
  WordBits = 15
  MinIndirectBits = 2
  MaxIndirectBits = 2
  MaxBits = 6
  Horizontal = 8
  Vertical = 4
  StateCount = 17
  VoidAir = 13
  ToClient <- MCToClient
  WorldSections <- MCSections
  Fragile = {7}
  Holders = {3}
  MaxCollection = 3
  MaxSections = 2
  MaxTicked = 2
  MaxNbt = 3
  Dictionary = 0
  CellBlocks = 2
  BufferCells = 2
  BiomeCells <- MCBiomeCells
  BiomeNames <- MCBiomeNames
  AllowedKeys <- MCAllowed
  ManipulateTag <- Manipulated
  SpawnTag <- SpawnEntity
  Tags <- MCTags
  FarAway = {"the end of the world"}
  Dims <- MCDims
  Bare <- MCBare
  Kinds <- MCKinds
  Old <- MCOld
  Menu <- MCMenu
  Rights <- MCRights
  Shown <- MCShown
  OutOfView <- MCOutOfView
  Strays <- MCStrays
  FirstDim = "overworld"
  FirstWorld <- MCFirstWorld
  FirstTags <- MCFirstTags
  Players = {"steve"}
  Ridden = {"horse"}
  MaxRequests = 2
  MaxEvents <- MCMaxEvents
INVARIANTS
  WorldTypeOK
  ClientKnowsItsRights
  SettledViewAgrees
PROPERTIES
  SectionsTravelIntact
  UpdatesRunWhereWanted
  PaintedIsShown
  EntitiesKeepTheirOwn
  OnlyWhatIsAllowed
CHECK_DEADLOCK FALSE
