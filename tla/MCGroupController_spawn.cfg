CONSTANTS
  MaxPlayerCount = 3
  OffsetValue = 10
SPECIFICATION Spec
PROPERTY
  SpawnsAlone
