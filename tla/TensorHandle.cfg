SPECIFICATION Spec
CONSTANTS
  t1 = t1  t2 = t2  t3 = t3  a1 = a1  o1 = o1  o2 = o2  o3 = o3
  NULL = NULL
  Tensor <- MCTensor
  AppBuffer <- MCApp
  OvxBuffer <- MCOvx
  Size <- MCSize
  BufferSize <- MCBufferSize
SYMMETRY MCSymmetry
CHECK_DEADLOCK FALSE
INVARIANTS FlagTellsOwner FreedOnce NoSilentLeak CopyIsTrue
