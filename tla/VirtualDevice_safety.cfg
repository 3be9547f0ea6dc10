SPECIFICATION Spec
CONSTANTS
  w1 = w1  w2 = w2  main = main  user = user
  j1 = j1  j2 = j2  j3 = j3  g1 = g1  g2 = g2
  NoJob = NoJob
  Worker <- MCWorker
  Client <- MCClient
  Owner = main
  Job <- MCJob
  Graph <- MCGraph
  GraphOf <- MCGraphOf
  Removable <- MCAll
  IdleWaiter <- MCClient
  SizeMax = 3
  MaxExit = 2
  MaxSpurious = 0
CHECK_DEADLOCK FALSE
SYMMETRY MCSymmetry
INVARIANTS EachJobOnce Accounting NoLostWakeup ExitDrains
PROPERTIES IdleMeansDone ImplementsService
