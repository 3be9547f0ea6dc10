SPECIFICATION Spec
CONSTANTS
  s = s  b = b
  Connection = {s, b}
  Inputs <- MCInputs
  Swappable = {s}
  Lists <- MCLists
  MaxRuns = 4  MaxCalls = 8
CHECK_DEADLOCK FALSE
INVARIANTS StateCarriesOver SavedStateSurvives
