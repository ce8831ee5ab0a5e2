SPECIFICATION Spec
CONSTANTS
  Order = 7
  EvenPoints = {1, 3, 5}
  MaxParticipants = 3
  NonceCoefHash <- MCNonceCoefHash
  ChallengeHash <- MCChallengeHash
  AuxHash <- MCAuxHash
  DetNonceHash <- MCDetNonceHash
  Requests <- MCRequests
  MaxCalls = 2
INVARIANTS
  NonceServesOneChallenge
  AnswerCompletesSession
  HonestCoordinatorIsServed
CHECK_DEADLOCK FALSE
