CONSTANTS
  MaxPlayerCount = 3
  OffsetValue = 10
SPECIFICATION Spec
INVARIANTS
  TypeOK
  MembershipConsistent
  ActiveIffGrouped
  OnlyCapacityFailure
  IInv
PROPERTY
  LeaveAloneOrMergeWhole
