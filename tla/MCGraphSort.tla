---- MODULE MCGraphSort ----
EXTENDS GraphSort, FiniteSets

CONSTANTS a, b, c

MCTensor == {a, b, c}

\* All graphs of at most three nodes over three tensors in which a tensor is a
\* constant, an input of the graph, or the output of at most one node, and a node
\* reads one or two tensors.  Cycles, tensors nobody produces and removed nodes
\* are included.
MCNodes(n) == 0 .. n - 1
MCReads == {s \in SUBSET Tensor : Cardinality(s) \in 1 .. 2}
MCSources(n) ==
  {s \in [Tensor -> {<<"none">>, <<"const">>, <<"input">>} \cup ({"node"} \X MCNodes(n))] :
     s[a][1] # "node" /\ s[b][1] # "const" /\ s[c][1] \notin {"const", "input"}}
MCGraph(n, source, reads, removed) ==
  [node_num  |-> n,
   missing   |-> removed,
   constants |-> {t \in Tensor : source[t] = <<"const">>},
   input     |-> {t \in Tensor : source[t] = <<"input">>},
   inputs    |-> reads,
   outputs   |-> [m \in MCNodes(n) |-> {t \in Tensor : source[t] = <<"node", m>>}]]
MCShapes(n) ==
  {n} \X MCSources(n) \X [MCNodes(n) -> MCReads]
      \X {s \in SUBSET MCNodes(n) : Cardinality(s) <= 1}
MCGraphs == {MCGraph(x[1], x[2], x[3], x[4]) : x \in UNION {MCShapes(n) : n \in 0 .. 3}}
====
