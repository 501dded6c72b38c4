SPECIFICATION LockSpec
CONSTANTS
  p1 = p1
  p2 = p2
  p3 = p3
  p4 = p4
  p5 = p5
  Proc <- Procs3
  Kind <- AllStale
  Host <- OneHost
  Operation <- OneOperation
  Crashable = {}
  NoProc = NoProc
INVARIANT
  MutualExclusion
