CONSTANTS
  MaxPlayerCount = 2
  MaxMineCount = 1
  Bots = {1}
  GroupMemberSize = 2
  MineSize = 3
  GameBoundsRadius = 9
  MaxVelocity = 2
  JoinableDistance = 3
  MineResourceCount = 2
  Goal = 2
SPECIFICATION BotSpec
INVARIANT
  Resolved
