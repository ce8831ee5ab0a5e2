SPECIFICATION Spec
CONSTANTS
  Order = 7
  EvenPoints = {1, 3, 5}
  MaxParticipants = 3
  MaxTweaks = 3
INVARIANTS
  TypeOK
  AccumulatorsExplainKey
  SignersKeyIsPublishedKey
  ReplayReachesContext
PROPERTY ImplementsTweaks
CHECK_DEADLOCK FALSE
