CONSTANTS
  MaxPlayerCount = 2
  OffsetValue = 10
  Clients = {c1, c2, c3}
  UpdatesPerStep = {1}
  MaxCollisions = 1
SPECIFICATION ServerSpec
SYMMETRY Symmetry
INVARIANTS
  ServerTypeOK
  CirclesMatchGroups
  UngroupServed
  PlayersNotShared
  KeepsPlayer
  ServerIInv
