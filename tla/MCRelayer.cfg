SPECIFICATION FairSpec
CONSTANTS
  Tx = {t1, t2, t3}
  NoTx = NoTx
  BatchLimit = 2
  MaxLost = 1
  Unlucky = {t1}
  Faults <- FaultKinds
INVARIANTS TypeOK BroadcastBound NoForgottenBroadcast FollowUpDone FailedHadNoEffect
PROPERTIES SettledForGood ImplementsQueue EveryJobEnds LoopReturns
