CONSTANTS
  Channels <- MCChannels
  ReconnectChannel = 1
  MaxErrors = 2
  MaxQueue = 1
  Posted = {"run", "single", "setting"}
SPECIFICATION Spec
INVARIANT BusFreeDuringSync
CHECK_DEADLOCK FALSE
