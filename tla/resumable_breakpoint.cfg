CONSTANTS
  Interrupts <- MCTwoInterrupts
  TriggerTypes <- MCTriggerTypes
  TypesOf <- MCTwoTypesOf
  Misaddressed = FALSE
  MaxFaults = 0
  MaxBreaks = 1
SPECIFICATION Spec
PROPERTIES BreakpointReachesCaller
