CONSTANTS
  Channels <- MCChannels
  FirstChannel = 1
  Scales <- MCScales
  FirstScale = 10
  MaxUnread = 1
SPECIFICATION Spec
INVARIANTS TypeOK FrameScaledRight FrameLabelled
