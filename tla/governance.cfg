CONSTANTS
  Rules <- MCRules
  Nothing = Nothing
  MaxRules = 2
SPECIFICATION Spec
INVARIANTS TypeOK BlockedExactlyWhenDenied SinksAgree SummaryAgreesWithEvents TracedOnce
