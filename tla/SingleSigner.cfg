SPECIFICATION Spec
CONSTANTS
  Order = 7
  EvenPoints = {1, 3, 5}
  Parties = {"alice", "bob"}
  Messages = {0, 1}
  SecretKeys <- MCSecretKeys
  AuxRands <- MCAuxRands
  ChallengeHash <- MCChallengeHash
  AuxHash <- MCAuxHash
  NonceHash <- MCNonceHash
  MaxSignatures = 2
INVARIANTS
  OnlyItsSignatureVerifies
  SameKeySignsAlike
  NonceServesOneChallenge
  SharedSecretsAgree
