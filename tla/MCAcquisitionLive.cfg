CONSTANTS
  Channels = {1}
  ReconnectChannel = 1
  MaxErrors = 1
  MaxQueue = 1
  Posted = {"setting"}
SPECIFICATION FairSpec
PROPERTIES StopRequestHonoured UiReturns
CHECK_DEADLOCK FALSE
