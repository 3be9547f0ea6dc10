SPECIFICATION GraphSpec
CONSTANTS
  t1 = t1  t2 = t2  t3 = t3  a1 = a1  o1 = o1  o2 = o2
  NULL = NULL
  Tensor <- MCTensor
  AppBuffer <- MCApp
  OvxBuffer <- MCOvx
  Size <- MCSize
  BufferSize <- MCBufferSize
  FirstHandle <- MCFirst
  Params <- MCTwoNodes
  MaxSwaps = 3
CHECK_DEADLOCK FALSE
INVARIANTS StaleForAReason StaleIsKnown
