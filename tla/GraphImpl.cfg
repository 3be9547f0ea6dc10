SPECIFICATION ImplFairSpec
CONSTANTS
  x = x  y = y  z = z  t1 = t1  t2 = t2
  Tensor <- MCTensor
  Graphs <- MCGraphs
  Thread <- MCThread
  MaxCalls = 2
CHECK_DEADLOCK FALSE
INVARIANTS PhasesApart VerifierReports
PROPERTIES OneSetup CallsReturn
