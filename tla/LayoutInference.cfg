SPECIFICATION FairSpec
CONSTANTS
  x = x  t1 = t1  t2 = t2  t3 = t3  t4 = t4  c4 = c4  c3 = c3  w = w  b = b
  Tensor <- MCTensor
  Graphs <- MCGraphs
  CWHN2WHCN <- MCCWHN2WHCN
  ConstPerms <- MCConstPerms
CHECK_DEADLOCK FALSE
INVARIANTS VectorsTellLayout OutputsWritten
PROPERTIES EveryOpHandled
