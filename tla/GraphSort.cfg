SPECIFICATION FairSpec
CONSTANTS
  a = a  b = b  c = c
  Tensor <- MCTensor
  Graphs <- MCGraphs
CHECK_DEADLOCK FALSE
INVARIANTS EachNodeOnce TopologicalPrefix GivesUpForAReason
PROPERTIES Terminates ImplementsSorter
