SPECIFICATION KeysSpec
CONSTANTS
  Order = 5
  EvenPoints = {1, 3}
  MaxParticipants = 4
  N = 4
  MaxAltered = 2
INVARIANTS
  AcceptsIffEverySignerListWorks
  SharesCombine
CHECK_DEADLOCK FALSE
