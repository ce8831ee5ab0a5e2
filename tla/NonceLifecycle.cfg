SPECIFICATION LifecycleSpec
CONSTANTS
  Order = 5
  EvenPoints = {1, 3}
  MaxParticipants = 3
  NonceCoefHash <- MCNonceCoefHash
  ChallengeHash <- MCChallengeHash
  SigningRequests <- MCSigningRequests
  NonceScalars = {1, 2}
  MaxDraws = 3
INVARIANTS
  TypeOK
  OneSignaturePerDraw
  ReleasedNonceIsZeroed
PROPERTIES
  CoordinatorCannotBurnNonce
