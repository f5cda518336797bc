CONSTANTS
  Interrupts <- MCInterrupts
  TriggerTypes <- MCTriggerTypes
  TypesOf <- MCTypesOf
  Misaddressed = TRUE
  MaxFaults = 1
  MaxBreaks = 1
SPECIFICATION FairSpec
INVARIANTS TypeOK SuspendedIsResumable AnsweredLeaveNothingStored NoAnswerLost RegisteredOnce
PROPERTIES OnlyAnsweredAreDeleted ImplementsLifecycle HonoursContract AnsweredEventually
