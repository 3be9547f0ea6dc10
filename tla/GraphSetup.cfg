SPECIFICATION Spec
CONSTANTS
  x = x  y = y  z = z  w = w
  Tensor <- MCTensor
  Graphs <- MCGraphs
CHECK_DEADLOCK FALSE
INVARIANTS InputsReady PrecisionBeforeCompute BuiltIsClosed SuccessIsComplete
