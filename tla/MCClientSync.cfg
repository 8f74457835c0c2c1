CONSTANTS
  Winners = {p1, p2}
  NoWinner = none
  Unknown = unknown
  BufferSize = 3
  BehindThreshold = 1
  TickLimit = 256
  MaxTick = 5
  LocalPort = 1
  OutsidePort = 2
SPECIFICATION FairSyncSpec
INVARIANTS
  SyncTypeOK
  NeverThePast
  BufferIsNewest
  EndIsFinal
PROPERTIES
  ImplementsFeed
  FullBufferStarts
  EndReachesClient
