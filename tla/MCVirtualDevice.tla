---- MODULE MCVirtualDevice ----
EXTENDS VirtualDevice, TLC

CONSTANTS w1, w2, main, user, j1, j2, j3, g1, g2

MCWorker  == {w1, w2}
MCClient  == {main, user}
MCJob     == {j1, j2, j3}
MCGraph   == {g1, g2}
MCTwoJobs == {j1, j2}
MCGraphOf == [j \in Job |-> IF j = j2 THEN g2 ELSE g1]
MCNone    == {}
MCAll     == MCGraph
MCMain    == {main}
MCSymmetry == Permutations(MCWorker)
====
