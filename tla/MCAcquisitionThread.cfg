CONSTANTS
  Channels <- MCChannels
  ReconnectChannel = 1
  MaxErrors = 2
  MaxQueue = 1
  Posted = {"run", "single", "setting"}
SPECIFICATION FairSpec
INVARIANTS TypeOK StoppedBeforeUiUsesBus FramesFromWantedChannel
PROPERTY CommandSpec
CHECK_DEADLOCK FALSE
