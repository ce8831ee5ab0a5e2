SPECIFICATION Spec
CONSTANTS
  Order = 5
  EvenPoints = {1, 3}
  MaxParticipants = 3
  NonceCoefHash <- MCNonceCoefHash
  ChallengeHash <- MCChallengeHash
  Sessions <- FaultySessions
  MainDraws = {}
  NonceScalars = {1}
  FaultyPubnonces <- ShortPubnonces
  FaultyPsigs <- AnyPsig
INVARIANTS
  NoSignerTriggersAssertion
CHECK_DEADLOCK FALSE
