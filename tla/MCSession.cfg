SPECIFICATION Spec
CONSTANTS
  start = start
  audio = audio
  Messages <- MCMessages
  MaxSends = 4
  NetworkFails = TRUE
  SendEarly = TRUE

INVARIANT IInv
PROPERTIES ChannelSafe StuckOnlyByFailure Delivers
CHECK_DEADLOCK FALSE
