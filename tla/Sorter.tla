---- MODULE Sorter ----
(***************************************************************************)
(* What vsi_nn_SortGraphNode promises, without its array and its passes:   *)
(* an order of all nodes in which every node comes after the producers of  *)
(* its inputs, or nothing when no such order exists (or memory runs out).  *)
(***************************************************************************)
EXTENDS TopologicalOrder

VARIABLES graph,   \* the graph to be sorted, whatever it is
          order,   \* the answer: a function from positions to nodes, or none
          verdict  \* "pending", "sorted", "unsortable", "noMemory"

SorterInit == order = <<>> /\ verdict = "pending"

Answer ==
  /\ verdict = "pending"
  /\ UNCHANGED graph
  /\ \/ verdict' = "sorted" /\ order' \in Orders(graph)
     \/ verdict' = "unsortable" /\ Orders(graph) = {} /\ UNCHANGED order
     \/ verdict' = "noMemory" /\ UNCHANGED order

SorterSpec == SorterInit /\ [][Answer]_<<graph, order, verdict>>
====
