SPECIFICATION Spec
CONSTANTS
  start = start
  audio = audio
  Messages <- MCMessages
  MaxSends = 4
  NetworkFails = FALSE
  SendEarly = TRUE
INVARIANT QueueMeansWriting
