SPECIFICATION Spec
CONSTANTS
  Order = 5
  EvenPoints = {1, 3}
  MaxParticipants = 3
  NonceCoefHash <- MCNonceCoefHash
  ChallengeHash <- MCChallengeHash
  Sessions <- CollusionSessions
  MainDraws = {}
  NonceScalars = {1}
  FaultyPubnonces <- OppositePubnonces
  FaultyPsigs <- AnyPsig
INVARIANTS
  SignatureAlwaysVerifies
CHECK_DEADLOCK FALSE
