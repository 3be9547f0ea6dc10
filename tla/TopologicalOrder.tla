---- MODULE TopologicalOrder ----
(***************************************************************************)
(* The orders of the nodes of a graph in which every node comes after the  *)
(* producers of its inputs.  A graph is a record: node_num nodes, of which *)
(* the missing ones cannot be found any more; the tensors that need no     *)
(* producer (constants and ids without a tensor, inputs of the graph); and *)
(* the tensors each node reads and writes, the slots that hold             *)
(* VSI_NN_TENSOR_ID_NA left out.                                           *)
(***************************************************************************)
EXTENDS Integers

NodesOf(g) == 0 .. g.node_num - 1

\* The tensors known before any node ran.
GivenTo(g) == g.constants \cup g.input

\* The tensors available to the node at position k of the order s.
Available(g, s, k) == GivenTo(g) \cup UNION {g.outputs[s[j]] : j \in 0 .. k - 1}

Orders(g) ==
  {s \in [NodesOf(g) -> NodesOf(g)] :
     /\ \A n \in NodesOf(g) : \E k \in NodesOf(g) : s[k] = n
     /\ \A k \in NodesOf(g) :
          /\ s[k] \notin g.missing
          /\ g.inputs[s[k]] \subseteq Available(g, s, k)}
====
