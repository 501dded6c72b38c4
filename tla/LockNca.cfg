SPECIFICATION FairLockSpec
CONSTANTS
  p1 = p1
  p2 = p2
  p3 = p3
  p4 = p4
  p5 = p5
  Proc <- Procs5
  Kind <- PlainAndNca
  Host <- TwoHosts
  Operation <- RestartAndExecute
  Crashable <- Procs5
  NoProc = NoProc
INVARIANTS
  MutualExclusion
PROPERTIES
  BreaksOnlyDeadOwner
  DeadReceiptRecovered
CHECK_DEADLOCK FALSE
