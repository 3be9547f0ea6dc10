SPECIFICATION FairSpec
CONSTANTS
  e1 = e1  e2 = e2
  Exe <- MCExe
  MaxSubmits = 3
INVARIANTS InRequestedOrder QueuedOnce
PROPERTIES QueuedRuns
