SPECIFICATION Spec
CONSTANTS
  Limits <- MCLimits
  RiskyPorts <- MCRiskyPorts
  DefaultTop = 4
  Buckets = 3
  Second = 1
  TopFindings = 2
  MaxNodes = 2
  MaxFlows = 3
  Captures <- MCCaptures
  Commands <- MCCommands
  DefaultLimit = 3
INVARIANTS FindingsRanked BurstIsLargest FlaggedAgree RiskCoversFindings TotalsAgree DiagramHonest WhoisBudget FilesTellTheTruth
CHECK_DEADLOCK FALSE
