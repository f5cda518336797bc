CONSTANTS
  Interrupts <- MCInterrupts
  Api <- MCApi
  Waited <- MCWaited
  Polling = TRUE
  MaxBreaks = 2
SPECIFICATION Spec
INVARIANT NoReplyIsLost
