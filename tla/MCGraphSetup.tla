---- MODULE MCGraphSetup ----
EXTENDS GraphSetup, TLC

CONSTANTS x, y, z, w

MCTensor == {x, y, z, w}

MCGraph(n, removed, nbgs, given, user, reads, writes, fast) ==
  [node_num |-> n, missing |-> removed, nbg |-> nbgs, constants |-> {}, input |-> given,
   declared |-> user, inputs |-> [m \in 0 .. n - 1 |-> reads[m]],
   outputs |-> [m \in 0 .. n - 1 |-> writes[m]], isAllowFastMode |-> fast]

MCReads(r0, r1, r2) == (0 :> r0) @@ (1 :> r1) @@ (2 :> r2)

\* Nodes in order, in reverse order, two branches that join, a cycle, a tensor
\* without producer, a removed node behind and before an NBG node.
MCGraphs == UNION {
  {MCGraph(3, {}, {}, {x}, user, MCReads({x}, {y}, {z}), MCReads({y}, {z}, {w}), fast),
   MCGraph(3, {}, {}, {x}, user, MCReads({z}, {y}, {x}), MCReads({w}, {z}, {y}), fast),
   MCGraph(3, {}, {}, {x}, user, MCReads({y, z}, {x}, {x}), MCReads({w}, {y}, {z}), fast),
   MCGraph(3, {}, {}, {x}, user, MCReads({x}, {z}, {y}), MCReads({w}, {y}, {z}), fast),
   MCGraph(2, {}, {}, {x}, user, MCReads({x}, {z}, {}), MCReads({y}, {w}, {}), fast),
   MCGraph(3, {1}, {0}, {x}, user, MCReads({x}, {y}, {x}), MCReads({y}, {z}, {w}), fast),
   MCGraph(3, {0}, {1}, {x}, user, MCReads({x}, {x}, {y}), MCReads({z}, {y}, {w}), fast)}
  : user \in {{}, {w}}, fast \in BOOLEAN}
====
