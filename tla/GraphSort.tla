---- MODULE GraphSort ----
(***************************************************************************)
(* vsi_nn_SortGraphNode: the array of the nodes still to be placed is      *)
(* scanned again and again; a node whose inputs are all available is moved *)
(* to the result and the last node of the array takes its place.           *)
(*                                                                         *)
(* One step is one iteration of the inner loop, or the end of a pass.      *)
(***************************************************************************)
EXTENDS Integers

CONSTANTS Tensor,  \* tensor ids
          Graphs   \* the graphs that may be sorted

\* node_num nodes, of which vsi_nn_GetNode does not find the missing ones;
\* constants: const tensors and ids without a tensor; inputs and outputs: the
\* tensors of each node, the slots that hold VSI_NN_TENSOR_ID_NA left out.
IsGraph(g) ==
  /\ g.node_num \in Nat
  /\ g.missing \subseteq 0 .. g.node_num - 1
  /\ g.constants \subseteq Tensor
  /\ g.input \subseteq Tensor
  /\ g.inputs \in [0 .. g.node_num - 1 -> SUBSET Tensor]
  /\ g.outputs \in [0 .. g.node_num - 1 -> SUBSET Tensor]

ASSUME GraphsAssumption == \A g \in Graphs : IsGraph(g)

VARIABLES
  graph,        \* the argument
  tensors,      \* the tensors marked TRUE
  nodes,        \* the nodes still to be placed: entries 0 .. count - 1
  count,
  i,            \* the scan's index
  dirty,        \* whether this pass placed a node
  sorted_nodes, \* the result: entries 0 .. node_num - count - 1
  pc            \* "start", "scan", or the outcome

vars == <<graph, tensors, nodes, count, i, dirty, sorted_nodes, pc>>

Outcome == {"sorted", "unsortable", "noMemory"}

Node == 0 .. graph.node_num - 1
Placed == graph.node_num - count
Pending == {nodes[k] : k \in 0 .. count - 1}
Sorted == {sorted_nodes[k] : k \in 0 .. Placed - 1}

\* mutant: one available input is enough
OneTensorProcessed(n) == graph.inputs[n] \cap tensors # {}

\* Every non-NA input of node n is available.
AllTensorProcessed(n) == graph.inputs[n] \subseteq tensors

\* mutant: const tensors are not marked
OnlyGraphInputs == graph.input

\* The tensors marked before the first pass.
InitiallyProcessed == graph.constants \cup graph.input

\* mutant: the freed entry gets the first entry
Replacement_First == nodes[0]

\* The entry of nodes[] that replaces the one just placed.
Replacement == nodes[count - 1]

\* mutant: the outer loop does not look at dirty
Again_Always == count > 0

\* The condition of the outer loop.
Again == dirty /\ count > 0

\* mutant: dirty is not set
Progress_Unnoticed == dirty

\* dirty after a node was placed.
Progress == TRUE

\* The verdict of the code after the label "final".
Final(c) == IF c = 0 THEN "sorted" ELSE "unsortable"

Init ==
  /\ graph \in Graphs
  /\ tensors = {} /\ nodes = [n \in Node |-> 0] /\ count = graph.node_num
  /\ i = 0 /\ dirty = TRUE
  /\ sorted_nodes = [n \in Node |-> 0] /\ pc = "start"

\* A malloc fails: nothing is sorted and NULL is returned.
AllocationFails ==
  /\ pc = "start"
  /\ pc' = "noMemory"
  /\ UNCHANGED <<graph, tensors, nodes, count, i, dirty, sorted_nodes>>

Start ==
  /\ pc = "start"
  /\ tensors' = InitiallyProcessed
  /\ nodes' = [n \in Node |-> n]
  /\ count' = graph.node_num
  /\ i' = 0 /\ dirty' = FALSE /\ pc' = "scan"
  /\ UNCHANGED <<graph, sorted_nodes>>

\* vsi_nn_GetNode fails: goto final, where count is not zero.
GetNodeFails ==
  /\ pc = "scan" /\ i < count
  /\ nodes[i] \in graph.missing
  /\ pc' = Final(count)
  /\ UNCHANGED <<graph, tensors, nodes, count, i, dirty, sorted_nodes>>

Place ==
  /\ pc = "scan" /\ i < count
  /\ nodes[i] \notin graph.missing
  /\ AllTensorProcessed(nodes[i])
  /\ sorted_nodes' = [sorted_nodes EXCEPT ![Placed] = nodes[i]]
  /\ nodes' = [nodes EXCEPT ![i] = Replacement]
  /\ count' = count - 1
  /\ UNCHANGED i      \* i-- and the loop's i++
  /\ dirty' = Progress
  /\ tensors' = tensors \cup graph.outputs[nodes[i]]
  /\ UNCHANGED <<graph, pc>>

Skip ==
  /\ pc = "scan" /\ i < count
  /\ nodes[i] \notin graph.missing
  /\ ~ AllTensorProcessed(nodes[i])
  /\ i' = i + 1
  /\ UNCHANGED <<graph, tensors, nodes, count, dirty, sorted_nodes, pc>>

EndPass ==
  /\ pc = "scan" /\ i >= count
  /\ IF Again
       THEN i' = 0 /\ dirty' = FALSE /\ UNCHANGED pc
       ELSE pc' = Final(count) /\ UNCHANGED <<i, dirty>>
  /\ UNCHANGED <<graph, tensors, nodes, count, sorted_nodes>>

Next == AllocationFails \/ Start \/ GetNodeFails \/ Place \/ Skip \/ EndPass

Spec == Init /\ [][Next]_vars

\* The function runs until it returns.
FairSpec == Spec /\ WF_vars(Next)

-----------------------------------------------------------------------------

TypeOK ==
  /\ IsGraph(graph)
  /\ tensors \subseteq Tensor
  /\ nodes \in [Node -> Node]
  /\ sorted_nodes \in [Node -> Node]
  /\ count \in 0 .. graph.node_num
  /\ i \in 0 .. graph.node_num
  /\ dirty \in BOOLEAN
  /\ pc \in {"start", "scan"} \cup Outcome

\* Swapping the last entry of nodes[] into the freed place neither loses nor
\* repeats a node: placed and pending nodes are the graph's nodes, each once.
EachNodeOnce ==
  pc \notin {"start", "noMemory"} =>
    /\ Sorted \cup Pending = Node
    /\ Sorted \cap Pending = {}
    /\ \A j, k \in 0 .. count - 1 : nodes[j] = nodes[k] => j = k
    /\ \A j, k \in 0 .. Placed - 1 : sorted_nodes[j] = sorted_nodes[k] => j = k

\* Every placed node comes after the producers of all its inputs, whatever the
\* order in which the passes met the nodes.
TopologicalPrefix ==
  pc # "start" =>
    \A k \in 0 .. Placed - 1 :
      graph.inputs[sorted_nodes[k]] \subseteq
        InitiallyProcessed \cup UNION {graph.outputs[sorted_nodes[j]] : j \in 0 .. k - 1}

\* The sort gives up only for a reason: a node the graph no longer has, or nodes
\* that each wait for a tensor which no node outside their own set produces.
GivesUpForAReason ==
  pc = "unsortable" =>
    \/ Pending \cap graph.missing # {}
    \/ /\ Pending # {}
       /\ \A n \in Pending : \E t \in graph.inputs[n] :
            /\ t \notin InitiallyProcessed
            /\ \A m \in Node \ Pending : t \notin graph.outputs[m]

\* The outer loop's dirty flag makes the sort stop on every graph, cyclic ones
\* included.
Terminates == <>(pc \in Outcome)

\* The answer a caller sees, for the refinement of Sorter.
Verdict == IF pc \in Outcome THEN pc ELSE "pending"
Result == IF pc = "sorted" THEN sorted_nodes ELSE <<>>

Abstract == INSTANCE Sorter WITH order <- Result, verdict <- Verdict

\* SortGraphNode implements Sorter: its answer is an order of the whole graph
\* whenever one exists, and NULL only when there is none or malloc failed.
ImplementsSorter == Abstract!SorterSpec
====
