SPECIFICATION Spec
CONSTANTS
  Order = 7
  EvenPoints = {1, 3, 5}
  MaxParticipants = 4
  NonceCoefHash <- MCNonceCoefHash
  ChallengeHash <- MCChallengeHash
  Sessions <- AllSessions
  MainDraws <- MCMainDraws
  NonceScalars = {3, 4}
  FaultyPubnonces <- SomePubnonces
  FaultyPsigs <- AnyPsig
INVARIANTS
  OnlyRightSharesSign
  OrderOfSignersIsIrrelevant
  SignatureVerifies
  BlameIsDeserved
  Agreement
  MainSucceeds
PROPERTIES
  ImplementsSession
  EndsUnlessFaultyIsSilent
CHECK_DEADLOCK FALSE
