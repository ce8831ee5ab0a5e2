SPECIFICATION CasesSpec
CONSTANTS
  Order = 101
  EvenPoints <- MCEvenPoints
  MaxParticipants = 5
  NonceCoefHash <- MCNonceCoefHash
  ChallengeHash <- MCChallengeHash
  AuxHash <- MCAuxHash
  DetNonceHash <- MCDetNonceHash
  NonceGenHash <- MCNonceGenHash
  CoeffHash <- MCCoeffHash
  CommonRand = 15
  CommonTweaks <- MCCommonTweaks
  Configs <- MCConfigs
INVARIANTS
  EveryCaseBehaves
  ErrorsNameTheirFault
  BlameFallsOnFault
  SameAnswers
  FaultSlotsLeadToInfinity
CHECK_DEADLOCK FALSE
