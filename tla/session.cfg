CONSTANTS
  Interrupts <- MCInterrupts
  Api <- MCApi
  Waited <- MCWaited
  Polling = TRUE
  MaxBreaks = 2
SPECIFICATION FairSpec
INVARIANTS TypeOK NeverStartedAfresh OutcomeIsTold RepliesReachTheAgent ExchangeEndsWithTheAgent
PROPERTIES QuitIsFinal HonoursContract RunsEnd
