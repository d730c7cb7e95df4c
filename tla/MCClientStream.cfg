SPECIFICATION FairSpec
CONSTANTS
  None = None
  Requests <- MCRequests
  BodyLength = 2
  FrameKinds <- MCFrameKinds
  MaxFrames = 3
  Sizes <- MCSizes
INVARIANTS
  TypeOK
  AtFrameStart
  LengthsAgree
PROPERTIES
  ConvSpec
  RequestEnds
  TextHeard
CHECK_DEADLOCK FALSE
