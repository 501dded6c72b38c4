SPECIFICATION FairSpec
CONSTANTS
  N = 2
  new = new
  old = old
  other = other
  Absent = Absent
  NoEdit = NoEdit
  Content <- ThreeContents
  Payload <- AllNew
  LiveRecovery = FALSE
  MaxCrash = 2
  MaxFault = 1
  MaxExternal = 2
INVARIANTS
  OutsideEditKept
PROPERTIES
  IsAtomicUpdate
  JournalResolvedAfterOneFailure
CHECK_DEADLOCK FALSE
