CONSTANTS
  MaxPlayerCount = 2
  OffsetValue = 10
  Clients = {c1, c2}
  UpdatesPerStep = {2}
  MaxCollisions = 1
SPECIFICATION FairServerSpec
PROPERTIES
  ImplementsGroupController
  RegisteredGetsPlayer
