CONSTANTS
  MaxRuns = 3
  MaxPasses = 2
SPECIFICATION Spec
INVARIANTS TypeOK VerdictAgrees ArgumentsAreThere SuspensionReportedIsDurable
