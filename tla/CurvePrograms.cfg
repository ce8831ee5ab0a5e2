SPECIFICATION Spec
CONSTANTS
  Order = 31
  FieldSize = 43
  BitWidth = 5
  BaseX = 2
  Multipliers = {0, 1, 2, 21, 30, 34}
  Excess = 3
INVARIANTS
  PointsAsAssumed
  ParsesExactlyEncodings
PROPERTY
  ImplementsGroup
CHECK_DEADLOCK FALSE
