CONSTANTS
  MaxPlayerCount = 2
  OffsetValue = 10
  ResourceTypeCount = 2
  MaxMineCount = 1
  MineResourceCount = 2
  TotalRequirements = 1
  UintMax = 255
  UpdatesPerStep = 2
  MaxCollisions = 2
SPECIFICATION ObjectSpec
INVARIANTS
  ObjectTypeOK
  ClientIInv
  ResourcesConserved
  ClientConserves
  EndsWhenWon
  ClientShowsGroups
  ClientCountsAhead
PROPERTIES
  OneUnitEach
  PacketReadsBack
