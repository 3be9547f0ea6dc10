SPECIFICATION FairSpec
CONSTANTS
  w1 = w1  w2 = w2  main = main  user = user
  j1 = j1  j2 = j2  j3 = j3  g1 = g1  g2 = g2
  NoJob = NoJob
  Worker <- MCWorker
  Client <- MCClient
  Owner = main
  Job <- MCTwoJobs
  Graph <- MCGraph
  GraphOf <- MCGraphOf
  Removable <- MCNone
  IdleWaiter <- MCMain
  SizeMax = 3
  MaxExit = 1
  MaxSpurious = 1
CHECK_DEADLOCK FALSE
PROPERTIES QueuedJobRuns ThreadExitReturns IdleReturns
