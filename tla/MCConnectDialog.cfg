SPECIFICATION FairSpec
CONSTANTS
  none = none
  Boards <- MCBoards
  NoNumber = none
  LastAddr = 2
  MaxScans = 3
  MaxDialogs = 2
INVARIANTS
  TypeOK
  OneScanAtATime
  ListFromThisScan
  ConnectsToFound
PROPERTIES
  StoppedStaysStopped
  ScanEnds
  ThreadsEnd
CHECK_DEADLOCK FALSE
