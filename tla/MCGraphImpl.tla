---- MODULE MCGraphImpl ----
EXTENDS GraphImpl, TLC

CONSTANTS x, y, z, t1, t2

MCTensor == {x, y, z}
MCThread == {t1, t2}
MCSymmetry == Permutations(MCThread)

\* Two nodes that were added in reverse order; one node whose input nobody writes.
MCGraphOf(reads, writes, n) ==
  [node_num |-> n, missing |-> {}, nbg |-> {}, constants |-> {}, input |-> {x},
   declared |-> {}, inputs |-> [m \in 0 .. n - 1 |-> reads[m + 1]],
   outputs |-> [m \in 0 .. n - 1 |-> writes[m + 1]], isAllowFastMode |-> TRUE]
MCGraphs == {MCGraphOf(<<{y}, {x}>>, <<{z}, {y}>>, 2), MCGraphOf(<<{y}>>, <<{z}>>, 1)}
====
