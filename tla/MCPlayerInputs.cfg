CONSTANTS
  Moves <- MCMoves
  Toggles <- MCToggles
  ResourceTypeCount = 3
  Threshold = 2
  MaxRequests = 1
  MaxDatagrams = 2
  MaxBatch = 1
  MaxPresses = 2
SPECIFICATION FairInputsSpec
INVARIANTS
  InputsTypeOK
  InputsHavePlayer
  InputsIInv
PROPERTIES
  ImplementsChannel
  DirectionSettles
  GetsPlayerOrEnds
