---- MODULE GraphSortProofs ----
(***************************************************************************)
(* vsi_nn_SortGraphNode, for graphs of any size: no node is lost or        *)
(* repeated by the swaps, the nodes placed so far are in dependency order, *)
(* the sort gives up only for a reason, and its answer is an order in the  *)
(* sense of Sorter.                                                        *)
(***************************************************************************)
EXTENDS GraphSort, WellFoundedInduction, TLAPS

\* What is known of the tensors marked TRUE: they are the given ones and the
\* outputs of the placed nodes.
Marked ==
  pc # "start" /\ pc # "noMemory" =>
    tensors = InitiallyProcessed
                \cup UNION {graph.outputs[sorted_nodes[k]] : k \in 0 .. Placed - 1}

\* In a pass that has placed nothing yet, every entry already scanned waits for
\* a tensor.
ScannedWait ==
  pc \in {"scan", "unsortable"} /\ ~dirty =>
    \A k \in 0 .. i - 1 : k < count => ~ AllTensorProcessed(nodes[k])

\* The outcome follows from count, and from the reason to stop.
OutcomeSound ==
  /\ pc = "sorted" => count = 0
  /\ pc = "unsortable" =>
       /\ count > 0
       /\ \/ i < count /\ nodes[i] \in graph.missing
          \/ i >= count /\ ~dirty

\* Placed nodes were found by vsi_nn_GetNode.
PlacedExist == \A n \in Sorted : n \notin graph.missing

\* Nothing is placed before the scan begins, or without memory.
NothingPlaced == pc \in {"start", "noMemory"} => count = graph.node_num

IInv ==
  /\ TypeOK /\ EachNodeOnce /\ TopologicalPrefix
  /\ Marked /\ ScannedWait /\ OutcomeSound /\ PlacedExist /\ NothingPlaced

-----------------------------------------------------------------------------

\* The initial state satisfies the invariant.
LEMMA InitInvariant == Init => IInv
<1> SUFFICES ASSUME Init PROVE IInv
  OBVIOUS
<1>1. IsGraph(graph)
  BY GraphsAssumption DEF Init
<1>2. graph.node_num \in Nat /\ Placed = 0
  BY <1>1 DEF IsGraph, Init, Placed
<1>3. TypeOK
  <2>1. \A n \in Node : 0 \in Node
    BY <1>2 DEF Node
  <2>2. nodes \in [Node -> Node] /\ sorted_nodes \in [Node -> Node]
    BY <2>1 DEF Init
  <2>3. QED
    BY <1>1, <1>2, <2>2 DEF Init, TypeOK
<1>4. QED
  BY <1>2, <1>3 DEF Init, IInv, EachNodeOnce, TopologicalPrefix, Marked, ScannedWait,
                    OutcomeSound, PlacedExist,
                    NothingPlaced, Sorted

\* Putting the last pending node into the place of the one at i takes exactly
\* that one out of the pending nodes and leaves no node in two entries.
LEMMA SwapRemoves ==
  ASSUME graph.node_num \in Nat, count \in 1 .. graph.node_num, i \in 0 .. count - 1,
         nodes \in [0 .. graph.node_num - 1 -> 0 .. graph.node_num - 1],
         \A j, k \in 0 .. count - 1 : nodes[j] = nodes[k] => j = k,
         nodes' = [nodes EXCEPT ![i] = nodes[count - 1]]
  PROVE  /\ \A k \in 0 .. count - 2 : \E j \in 0 .. count - 1 : nodes'[k] = nodes[j] /\ nodes[j] # nodes[i]
         /\ \A j \in 0 .. count - 1 : nodes[j] # nodes[i] => \E k \in 0 .. count - 2 : nodes'[k] = nodes[j]
         /\ \A j, k \in 0 .. count - 2 : nodes'[j] = nodes'[k] => j = k
<1>1. \A k \in 0 .. count - 2 : nodes'[k] = IF k = i THEN nodes[count - 1] ELSE nodes[k]
  OBVIOUS
<1>2. \A k \in 0 .. count - 2 : \E j \in 0 .. count - 1 : nodes'[k] = nodes[j] /\ nodes[j] # nodes[i]
  <2> SUFFICES ASSUME NEW k \in 0 .. count - 2
               PROVE  \E j \in 0 .. count - 1 : nodes'[k] = nodes[j] /\ nodes[j] # nodes[i]
    OBVIOUS
  <2>1. CASE k = i
    <3>1. count - 1 \in 0 .. count - 1 /\ count - 1 # i /\ nodes'[k] = nodes[count - 1]
      BY <1>1, <2>1
    <3>2. QED
      BY <3>1
  <2>2. CASE k # i
    <3>1. k \in 0 .. count - 1 /\ nodes'[k] = nodes[k]
      BY <1>1, <2>2
    <3>2. QED
      BY <2>2, <3>1
  <2>3. QED
    BY <2>1, <2>2
<1>3. \A j \in 0 .. count - 1 : nodes[j] # nodes[i] => \E k \in 0 .. count - 2 : nodes'[k] = nodes[j]
  <2> SUFFICES ASSUME NEW j \in 0 .. count - 1, nodes[j] # nodes[i]
               PROVE  \E k \in 0 .. count - 2 : nodes'[k] = nodes[j]
    OBVIOUS
  <2>1. CASE j = count - 1
    <3>1. i \in 0 .. count - 2 /\ nodes'[i] = nodes[j]
      BY <1>1, <2>1
    <3>2. QED
      BY <3>1
  <2>2. CASE j # count - 1
    <3>1. j \in 0 .. count - 2 /\ nodes'[j] = nodes[j]
      BY <1>1, <2>2
    <3>2. QED
      BY <3>1
  <2>3. QED
    BY <2>1, <2>2
<1>4. \A j, k \in 0 .. count - 2 : nodes'[j] = nodes'[k] => j = k
  BY <1>1
<1>5. QED
  BY <1>2, <1>3, <1>4

\* An iteration that places nodes[i]: what becomes of the arrays.
LEMMA PlaceEffect ==
  ASSUME IInv, Place
  PROVE  /\ count \in 1 .. graph.node_num /\ i \in 0 .. count - 1
         /\ nodes[i] \in Node /\ nodes[i] \in Pending
         /\ count' = count - 1 /\ Placed' = Placed + 1 /\ Placed \in Node
         /\ Node' = Node
         /\ Pending' = Pending \ {nodes[i]}
         /\ Sorted' = Sorted \cup {nodes[i]}
         /\ \A k \in 0 .. Placed - 1 : sorted_nodes'[k] = sorted_nodes[k]
         /\ sorted_nodes'[Placed] = nodes[i]
         /\ \A j, k \in 0 .. count' - 1 : nodes'[j] = nodes'[k] => j = k
<1>1. TypeOK /\ EachNodeOnce /\ pc = "scan" /\ graph.node_num \in Nat
  BY DEF IInv, Place, TypeOK, IsGraph
<1>2. count \in 1 .. graph.node_num /\ i \in 0 .. count - 1 /\ count' = count - 1
  BY <1>1 DEF TypeOK, Place
<1>3. Node' = Node /\ Placed' = Placed + 1 /\ Placed \in Node
  BY <1>1, <1>2 DEF Place, Node, Placed
<1>4. nodes[i] \in Node /\ nodes[i] \in Pending
  BY <1>1, <1>2 DEF TypeOK, Pending, Node
<1>5. nodes' = [nodes EXCEPT ![i] = nodes[count - 1]]
  BY DEF Place, Replacement
<1>6. \A j, k \in 0 .. count - 1 : nodes[j] = nodes[k] => j = k
  BY <1>1 DEF EachNodeOnce
<1>7. nodes \in [0 .. graph.node_num - 1 -> 0 .. graph.node_num - 1]
  BY <1>1 DEF TypeOK, Node
<1>8. /\ \A k \in 0 .. count - 2 : \E j \in 0 .. count - 1 :
            nodes'[k] = nodes[j] /\ nodes[j] # nodes[i]
      /\ \A j \in 0 .. count - 1 : nodes[j] # nodes[i] =>
            \E k \in 0 .. count - 2 : nodes'[k] = nodes[j]
      /\ \A j, k \in 0 .. count - 2 : nodes'[j] = nodes'[k] => j = k
  BY <1>1, <1>2, <1>5, <1>6, <1>7, SwapRemoves
<1>9. count' - 1 = count - 2
  BY <1>1, <1>2
<1>10. Pending' = Pending \ {nodes[i]}
  BY <1>8, <1>9 DEF Pending
<1>11. \A j, k \in 0 .. count' - 1 : nodes'[j] = nodes'[k] => j = k
  BY <1>8, <1>9
<1>12. sorted_nodes' = [sorted_nodes EXCEPT ![Placed] = nodes[i]]
  BY DEF Place
<1>13. sorted_nodes \in [Node -> Node] /\ Placed \in Nat
  BY <1>1, <1>3 DEF TypeOK, Node
<1>14. /\ \A k \in 0 .. Placed - 1 : sorted_nodes'[k] = sorted_nodes[k]
       /\ sorted_nodes'[Placed] = nodes[i]
  <2>1. \A k \in 0 .. Placed - 1 : k \in Node /\ k # Placed
    BY <1>3, <1>13, <1>1 DEF Node
  <2>2. QED
    BY <2>1, <1>3, <1>12, <1>13
<1>15. Sorted' = Sorted \cup {nodes[i]}
  <2>1. Sorted' = {sorted_nodes'[k] : k \in 0 .. Placed}
    BY <1>3, <1>13 DEF Sorted
  <2>2. 0 .. Placed = (0 .. Placed - 1) \cup {Placed}
    BY <1>13
  <2>3. QED
    BY <2>1, <2>2, <1>14 DEF Sorted
<1>16. QED
  BY <1>2, <1>3, <1>4, <1>10, <1>11, <1>14, <1>15

\* Placing a node keeps the invariant.
LEMMA PlaceKeeps == IInv /\ Place => IInv'
<1> SUFFICES ASSUME IInv, Place PROVE IInv'
  OBVIOUS
<1>1. /\ count \in 1 .. graph.node_num /\ i \in 0 .. count - 1
      /\ nodes[i] \in Node /\ nodes[i] \in Pending
      /\ count' = count - 1 /\ Placed' = Placed + 1 /\ Placed \in Node
      /\ Node' = Node
      /\ Pending' = Pending \ {nodes[i]}
      /\ Sorted' = Sorted \cup {nodes[i]}
      /\ \A k \in 0 .. Placed - 1 : sorted_nodes'[k] = sorted_nodes[k]
      /\ sorted_nodes'[Placed] = nodes[i]
      /\ \A j, k \in 0 .. count' - 1 : nodes'[j] = nodes'[k] => j = k
  BY PlaceEffect
<1>2. /\ pc = "scan" /\ pc' = "scan" /\ graph' = graph /\ i' = i /\ dirty' = TRUE
      /\ tensors' = tensors \cup graph.outputs[nodes[i]]
      /\ nodes[i] \notin graph.missing
      /\ graph.inputs[nodes[i]] \subseteq tensors
  BY DEF Place, Progress, AllTensorProcessed
<1>3. TypeOK /\ IsGraph(graph) /\ graph.node_num \in Nat
  BY DEF IInv, TypeOK, IsGraph
<1>4. TypeOK'
  <2>1. nodes' \in [Node -> Node]
    <3>1. count - 1 \in Node
      BY <1>1, <1>3 DEF Node
    <3>2. QED
      BY <1>1, <1>3, <3>1 DEF TypeOK, Place, Replacement
  <2>2. sorted_nodes' \in [Node -> Node]
    BY <1>1, <1>3 DEF TypeOK, Place
  <2>3. tensors' \subseteq Tensor
    BY <1>1, <1>2, <1>3 DEF TypeOK, IsGraph, Node
  <2>4. count' \in 0 .. graph.node_num /\ i' \in 0 .. graph.node_num
    BY <1>1, <1>2, <1>3
  <2>5. QED
    BY <1>1, <1>2, <1>3, <2>1, <2>2, <2>3, <2>4 DEF TypeOK
<1>5. Placed \in Nat /\ \A k \in 0 .. Placed' - 1 : k \in 0 .. Placed - 1 \/ k = Placed
  BY <1>1, <1>3 DEF Node
<1>6. EachNodeOnce'
  <2>1. EachNodeOnce
    BY DEF IInv
  <2>2. /\ Sorted \cup Pending = Node
        /\ Sorted \cap Pending = {}
        /\ \A j, k \in 0 .. Placed - 1 : sorted_nodes[j] = sorted_nodes[k] => j = k
    BY <1>2, <2>1 DEF EachNodeOnce
  <2>3. Sorted' \cup Pending' = Node' /\ Sorted' \cap Pending' = {}
    BY <1>1, <2>2
  <2>4. \A k \in 0 .. Placed - 1 : sorted_nodes[k] # nodes[i]
    BY <1>1, <2>2 DEF Sorted
  <2>5. \A j, k \in 0 .. Placed' - 1 : sorted_nodes'[j] = sorted_nodes'[k] => j = k
    BY <1>1, <1>5, <2>2, <2>4
  <2>6. QED
    BY <1>1, <2>3, <2>5 DEF EachNodeOnce
<1>7. /\ Marked' /\ TopologicalPrefix'
  <2>1. tensors = InitiallyProcessed
                    \cup UNION {graph.outputs[sorted_nodes[k]] : k \in 0 .. Placed - 1}
    BY <1>2 DEF IInv, Marked
  <2>2. InitiallyProcessed' = InitiallyProcessed
    BY <1>2 DEF InitiallyProcessed
  <2>3. \A m \in 0 .. Placed :
          {graph.outputs[sorted_nodes'[k]] : k \in 0 .. m - 1}
            = {graph.outputs[sorted_nodes[k]] : k \in 0 .. m - 1}
    <3> SUFFICES ASSUME NEW m \in 0 .. Placed
                 PROVE  \A k \in 0 .. m - 1 : sorted_nodes'[k] = sorted_nodes[k]
      BY Zenon
    <3>1. \A k \in 0 .. m - 1 : k \in 0 .. Placed - 1
      BY <1>5
    <3>2. QED
      BY <1>1, <3>1
  <2>4. 0 .. Placed' - 1 = (0 .. Placed - 1) \cup {Placed}
    BY <1>1, <1>5
  <2>5. Placed \in 0 .. Placed
    BY <1>5
  <2>6. {graph.outputs[sorted_nodes'[k]] : k \in 0 .. Placed' - 1}
          = {graph.outputs[sorted_nodes[k]] : k \in 0 .. Placed - 1}
              \cup {graph.outputs[nodes[i]]}
    BY <1>1, <2>3, <2>4, <2>5
  <2>7. Marked'
    <3>1. \A S, T, e : S = T \cup {e} => UNION S = (UNION T) \cup e
      OBVIOUS
    <3>2. UNION {graph.outputs[sorted_nodes'[k]] : k \in 0 .. Placed' - 1}
            = (UNION {graph.outputs[sorted_nodes[k]] : k \in 0 .. Placed - 1})
                \cup graph.outputs[nodes[i]]
      BY <2>6, <3>1
    <3>3. tensors' = InitiallyProcessed'
                       \cup UNION {graph.outputs[sorted_nodes'[k]] : k \in 0 .. Placed' - 1}
      BY <1>2, <2>1, <2>2, <3>2
    <3>4. QED
      BY <1>2, <3>3 DEF Marked
  <2>8. \A k \in 0 .. Placed' - 1 :
          graph.inputs[sorted_nodes'[k]] \subseteq
            InitiallyProcessed \cup UNION {graph.outputs[sorted_nodes'[j]] : j \in 0 .. k - 1}
    <3> SUFFICES ASSUME NEW k \in 0 .. Placed' - 1
                 PROVE  graph.inputs[sorted_nodes'[k]] \subseteq
                          InitiallyProcessed
                            \cup UNION {graph.outputs[sorted_nodes'[j]] : j \in 0 .. k - 1}
      OBVIOUS
    <3>1. k \in 0 .. Placed
      BY <1>5
    <3>2. {graph.outputs[sorted_nodes'[j]] : j \in 0 .. k - 1}
            = {graph.outputs[sorted_nodes[j]] : j \in 0 .. k - 1}
      BY <2>3, <3>1
    <3>3. CASE k = Placed
      BY <1>1, <1>2, <2>1, <3>2, <3>3
    <3>4. CASE k \in 0 .. Placed - 1
      BY <1>1, <1>2, <3>2, <3>4 DEF IInv, TopologicalPrefix
    <3>5. QED
      BY <1>5, <3>3, <3>4
  <2>9. QED
    BY <1>2, <2>2, <2>7, <2>8 DEF TopologicalPrefix
<1>8. ScannedWait' /\ OutcomeSound' /\ NothingPlaced'
  BY <1>2 DEF ScannedWait, OutcomeSound, NothingPlaced
<1>9. PlacedExist'
  BY <1>1, <1>2 DEF IInv, PlacedExist
<1>10. QED
  BY <1>4, <1>6, <1>7, <1>8, <1>9 DEF IInv

\* A step that leaves the arrays alone keeps what is said of them.
LEMMA SameArrays ==
  ASSUME IInv, UNCHANGED <<graph, tensors, nodes, count, sorted_nodes>>,
         pc \in {"start", "noMemory"} => pc' = pc,
         pc' \in {"start", "noMemory"} => pc' = pc
  PROVE  /\ Node' = Node /\ Placed' = Placed /\ Pending' = Pending /\ Sorted' = Sorted
         /\ EachNodeOnce' /\ TopologicalPrefix' /\ Marked' /\ PlacedExist' /\ NothingPlaced'
<1>1. Node' = Node /\ Placed' = Placed /\ Pending' = Pending /\ Sorted' = Sorted
      /\ InitiallyProcessed' = InitiallyProcessed
  BY DEF Node, Placed, Pending, Sorted, InitiallyProcessed
<1>2. EachNodeOnce'
  BY <1>1 DEF IInv, EachNodeOnce
<1>3. TopologicalPrefix'
  BY <1>1 DEF IInv, TopologicalPrefix
<1>4. Marked'
  BY <1>1 DEF IInv, Marked
<1>5. PlacedExist' /\ NothingPlaced'
  BY <1>1 DEF IInv, PlacedExist, NothingPlaced
<1>6. QED
  BY <1>1, <1>2, <1>3, <1>4, <1>5

\* TypeOK says nothing more of a step that leaves the arrays alone than the
\* types of what it changes.
LEMMA SameTypes ==
  ASSUME TypeOK, UNCHANGED <<graph, tensors, nodes, count, sorted_nodes>>,
         i' \in 0 .. graph.node_num, dirty' \in BOOLEAN, pc' \in {"start", "scan"} \cup Outcome
  PROVE  TypeOK'
<1>1. Node' = Node
  BY DEF Node
<1>2. QED
  BY <1>1 DEF TypeOK

\* Every step keeps the invariant.
LEMMA StepKeeps == IInv /\ [Next]_vars => IInv'
<1> SUFFICES ASSUME IInv, [Next]_vars PROVE IInv'
  OBVIOUS
<1>1. TypeOK /\ IsGraph(graph) /\ graph.node_num \in Nat /\ ScannedWait /\ OutcomeSound
  BY DEF IInv, TypeOK, IsGraph
<1>2. count \in 0 .. graph.node_num /\ i \in 0 .. graph.node_num /\ dirty \in BOOLEAN
  BY <1>1 DEF TypeOK
<1>3. CASE AllocationFails
  <2>1. /\ pc = "start" /\ pc' = "noMemory"
        /\ UNCHANGED <<graph, tensors, nodes, count, i, dirty, sorted_nodes>>
    BY <1>3 DEF AllocationFails
  <2>2. TypeOK'
    BY <1>1, <1>2, <2>1, SameTypes DEF Outcome
  <2>3. count = graph.node_num /\ count' = count /\ graph' = graph
    BY <2>1 DEF IInv, NothingPlaced
  <2>4. Placed' = 0 /\ Sorted' = {}
    BY <1>1, <2>3 DEF Placed, Sorted
  <2>5. QED
    BY <2>1, <2>2, <2>3, <2>4 DEF IInv, EachNodeOnce, TopologicalPrefix, Marked,
      ScannedWait, OutcomeSound, PlacedExist, NothingPlaced
<1>4. CASE Start
  <2>1. Node' = Node /\ Placed' = 0 /\ count' = graph.node_num /\ pc' = "scan" /\ i' = 0
        /\ graph' = graph
    BY <1>1, <1>4 DEF Start, Node, Placed
  <2>2. nodes' = [n \in Node |-> n]
    BY <1>4 DEF Start
  <2>3. Sorted' = {} /\ Pending' = Node
    BY <1>1, <2>1, <2>2 DEF Sorted, Pending, Node
  <2>4. TypeOK'
    <3>1. nodes' \in [Node -> Node]
      BY <2>2
    <3>2. tensors' \subseteq Tensor /\ dirty' \in BOOLEAN
      BY <1>1, <1>4 DEF Start, InitiallyProcessed, IsGraph
    <3>3. QED
      BY <1>1, <1>4, <2>1, <3>1, <3>2 DEF Start, TypeOK
  <2>5. EachNodeOnce'
    <3>1. \A j, k \in 0 .. count' - 1 : nodes'[j] = nodes'[k] => j = k
      BY <2>1, <2>2 DEF Node
    <3>2. \A j, k \in 0 .. Placed' - 1 : sorted_nodes'[j] = sorted_nodes'[k] => j = k
      BY <2>1
    <3>3. QED
      BY <2>1, <2>3, <3>1, <3>2 DEF EachNodeOnce
  <2>6. Marked'
    <3>1. tensors' = InitiallyProcessed'
      BY <1>4 DEF Start, InitiallyProcessed
    <3>2. 0 .. Placed' - 1 = {}
      BY <2>1
    <3>3. QED
      BY <3>1, <3>2 DEF Marked
  <2>7. TopologicalPrefix' /\ ScannedWait' /\ OutcomeSound' /\ PlacedExist' /\ NothingPlaced'
    BY <2>1, <2>3 DEF TopologicalPrefix, ScannedWait, OutcomeSound, PlacedExist, NothingPlaced
  <2>8. QED
    BY <2>4, <2>5, <2>6, <2>7 DEF IInv
<1>5. CASE GetNodeFails
  <2>1. /\ pc = "scan" /\ i < count /\ nodes[i] \in graph.missing /\ count > 0
        /\ pc' = "unsortable"
        /\ UNCHANGED <<graph, tensors, nodes, count, i, dirty, sorted_nodes>>
    BY <1>2, <1>5 DEF GetNodeFails, Final
  <2>2. TypeOK'
    BY <1>1, <1>2, <2>1, SameTypes DEF Outcome
  <2>3. EachNodeOnce' /\ TopologicalPrefix' /\ Marked' /\ PlacedExist' /\ NothingPlaced'
    BY <2>1, SameArrays
  <2>4. ScannedWait' /\ OutcomeSound'
    BY <1>1, <2>1 DEF OutcomeSound, ScannedWait, AllTensorProcessed
  <2>5. QED
    BY <2>2, <2>3, <2>4 DEF IInv
<1>6. CASE Place
  BY <1>6, PlaceKeeps
<1>7. CASE Skip
  <2>1. /\ pc = "scan" /\ pc' = "scan" /\ i < count /\ i' = i + 1
        /\ UNCHANGED <<graph, tensors, nodes, count, dirty, sorted_nodes>>
        /\ ~ AllTensorProcessed(nodes[i])
    BY <1>7 DEF Skip
  <2>2. TypeOK'
    <3>1. i' \in 0 .. graph.node_num
      BY <1>1, <1>2, <2>1
    <3>2. QED
      BY <1>1, <1>2, <2>1, <3>1, SameTypes
  <2>3. EachNodeOnce' /\ TopologicalPrefix' /\ Marked' /\ PlacedExist' /\ NothingPlaced'
    BY <2>1, SameArrays
  <2>4. ScannedWait'
    <3>1. \A k \in 0 .. i' - 1 : k \in 0 .. i - 1 \/ k = i
      BY <1>2, <2>1
    <3>2. QED
      BY <1>1, <2>1, <3>1 DEF ScannedWait, AllTensorProcessed
  <2>5. OutcomeSound'
    BY <2>1 DEF OutcomeSound
  <2>6. QED
    BY <2>2, <2>3, <2>4, <2>5 DEF IInv
<1>8. CASE EndPass
  <2>1. /\ pc = "scan" /\ i >= count
        /\ UNCHANGED <<graph, tensors, nodes, count, sorted_nodes>>
    BY <1>8 DEF EndPass
  <2>2. CASE Again
    <3>1. i' = 0 /\ dirty' = FALSE /\ pc' = pc
      BY <1>8, <2>2 DEF EndPass
    <3>2. TypeOK'
      <4>1. i' \in 0 .. graph.node_num /\ pc' \in {"start", "scan"} \cup Outcome
        BY <1>1, <2>1, <3>1
      <4>2. dirty' \in BOOLEAN
        BY <3>1
      <4>3. QED
        BY <1>1, <2>1, <4>1, <4>2, SameTypes
    <3>3. EachNodeOnce' /\ TopologicalPrefix' /\ Marked' /\ PlacedExist' /\ NothingPlaced'
      BY <2>1, <3>1, SameArrays
    <3>4. ScannedWait' /\ OutcomeSound'
      BY <2>1, <3>1 DEF ScannedWait, OutcomeSound
    <3>5. QED
      BY <3>2, <3>3, <3>4 DEF IInv
  <2>3. CASE ~Again
    <3>1. i' = i /\ dirty' = dirty /\ pc' = Final(count)
      BY <1>8, <2>3 DEF EndPass
    <3>2. ~dirty \/ count = 0
      BY <1>2, <2>3 DEF Again
    <3>3. pc' \in {"sorted", "unsortable"} /\ (pc' = "sorted" <=> count = 0)
      BY <3>1 DEF Final
    <3>4. TypeOK'
      BY <1>1, <1>2, <2>1, <3>1, <3>3, SameTypes DEF Outcome
    <3>5. EachNodeOnce' /\ TopologicalPrefix' /\ Marked' /\ PlacedExist' /\ NothingPlaced'
      BY <2>1, <3>3, SameArrays
    <3>6. ScannedWait'
      BY <1>1, <2>1, <3>1 DEF ScannedWait, AllTensorProcessed
    <3>7. OutcomeSound'
      BY <1>2, <2>1, <3>1, <3>2, <3>3 DEF OutcomeSound
    <3>8. QED
      BY <3>4, <3>5, <3>6, <3>7 DEF IInv
  <2>4. QED
    BY <2>2, <2>3
<1>9. CASE UNCHANGED vars
  <2>1. pc' = pc /\ dirty' = dirty /\ i' = i /\ tensors' = tensors
        /\ UNCHANGED <<graph, tensors, nodes, count, sorted_nodes>>
    BY <1>9 DEF vars
  <2>2. TypeOK'
    <3>1. pc' \in {"start", "scan"} \cup Outcome
      BY <1>1, <2>1 DEF TypeOK
    <3>2. QED
      BY <1>1, <1>2, <2>1, <3>1, SameTypes
  <2>3. EachNodeOnce' /\ TopologicalPrefix' /\ Marked' /\ PlacedExist' /\ NothingPlaced'
    BY <2>1, SameArrays
  <2>4. ScannedWait' /\ OutcomeSound'
    BY <1>1, <2>1 DEF OutcomeSound, ScannedWait, AllTensorProcessed
  <2>5. QED
    BY <2>2, <2>3, <2>4 DEF IInv
<1>10. QED
  BY <1>3, <1>4, <1>5, <1>6, <1>7, <1>8, <1>9 DEF Next

-----------------------------------------------------------------------------

\* The invariant in every state of every sort.
LEMMA Invariant == Spec => []IInv
<1>1. Init => IInv
  BY InitInvariant
<1>2. IInv /\ [Next]_vars => IInv'
  BY StepKeeps
<1>3. QED
  BY <1>1, <1>2, PTL DEF Spec

\* Indices stay within the arrays, whatever the graph.
THEOREM TypeCorrect == Spec => []TypeOK
<1>1. IInv => TypeOK
  BY DEF IInv
<1>2. QED
  BY <1>1, Invariant, PTL

\* The swaps of vsi_nn_SortGraphNode neither lose nor repeat a node.
THEOREM SwapsKeepNodes == Spec => []EachNodeOnce
<1>1. IInv => EachNodeOnce
  BY DEF IInv
<1>2. QED
  BY <1>1, Invariant, PTL

\* The nodes placed so far are in dependency order.
THEOREM PlacedInOrder == Spec => []TopologicalPrefix
<1>1. IInv => TopologicalPrefix
  BY DEF IInv
<1>2. QED
  BY <1>1, Invariant, PTL

\* When the sort gives up every pending node waits for a tensor that only
\* pending nodes may produce, or a node is gone.
LEMMA ReasonForGivingUp == IInv => GivesUpForAReason
<1> SUFFICES ASSUME IInv, pc = "unsortable"
             PROVE  \/ Pending \cap graph.missing # {}
                    \/ /\ Pending # {}
                       /\ \A n \in Pending : \E t \in graph.inputs[n] :
                            /\ t \notin InitiallyProcessed
                            /\ \A m \in Node \ Pending : t \notin graph.outputs[m]
  BY DEF GivesUpForAReason
<1>1. TypeOK /\ EachNodeOnce /\ Marked /\ ScannedWait /\ OutcomeSound
  BY DEF IInv
<1>2. count > 0 /\ count \in Nat /\ i \in Nat
  BY <1>1 DEF OutcomeSound, TypeOK, IsGraph
<1>3. CASE i < count /\ nodes[i] \in graph.missing
  <2>1. nodes[i] \in Pending
    BY <1>2, <1>3 DEF Pending
  <2>2. QED
    BY <1>3, <2>1
<1>4. CASE i >= count /\ ~dirty
  <2>1. 0 \in 0 .. count - 1
    BY <1>2
  <2>2. Pending # {}
    BY <2>1 DEF Pending
  <2>3. ASSUME NEW n \in Pending
        PROVE  \E t \in graph.inputs[n] :
                 /\ t \notin InitiallyProcessed
                 /\ \A m \in Node \ Pending : t \notin graph.outputs[m]
    <3>1. PICK k \in 0 .. count - 1 : n = nodes[k]
      BY DEF Pending
    <3>2. k \in 0 .. i - 1 /\ k < count
      BY <1>2, <1>4
    <3>3. ~ (graph.inputs[n] \subseteq tensors)
      BY <1>1, <1>4, <3>1, <3>2 DEF ScannedWait, AllTensorProcessed
    <3>4. PICK t \in graph.inputs[n] : t \notin tensors
      BY <3>3
    <3>5. tensors = InitiallyProcessed
                      \cup UNION {graph.outputs[sorted_nodes[j]] : j \in 0 .. Placed - 1}
      BY <1>1 DEF Marked
    <3>6. t \notin InitiallyProcessed
      BY <3>4, <3>5
    <3>7. ASSUME NEW m \in Node \ Pending
          PROVE  t \notin graph.outputs[m]
      <4>1. m \in Sorted
        BY <1>1 DEF EachNodeOnce
      <4>2. PICK j \in 0 .. Placed - 1 : m = sorted_nodes[j]
        BY <4>1 DEF Sorted
      <4>3. graph.outputs[m] \subseteq tensors
        BY <3>5, <4>2
      <4>4. QED
        BY <3>4, <4>3
    <3>8. QED
      BY <3>6, <3>7
  <2>4. QED
    BY <2>2, <2>3
<1>5. QED
  BY <1>1, <1>3, <1>4 DEF OutcomeSound

\* The sort returns NULL only for a reason.
THEOREM NoGroundlessFailure == Spec => []GivesUpForAReason
<1>1. QED
  BY Invariant, ReasonForGivingUp, PTL

-----------------------------------------------------------------------------

\* Every nonempty set of positions has a first one.
LEMMA FirstPosition ==
  ASSUME NEW K, K \subseteq Nat, K # {}
  PROVE  \E k \in K : \A j \in K : k <= j
<1> DEFINE R == OpToRel(<, Nat)
<1>1. IsWellFoundedOn(R, Nat)
  BY NatLessThanWellFounded
<1>2. \A x, y \in Nat : x < y => <<x, y>> \in R
  BY DEF OpToRel
<1> HIDE DEF R
<1>3. PICK x \in K : \A y \in K : ~ (<<y, x>> \in R)
  BY <1>1, WFMin
<1>4. \A y \in K : ~(y < x)
  BY <1>2, <1>3
<1>5. x \in Nat /\ \A y \in K : y \in Nat
  OBVIOUS
<1>6. \A y \in K : x <= y
  BY <1>4, <1>5, SMT
<1>7. QED
  BY <1>6

\* With no node pending the result orders the whole graph.
LEMMA SortedIsOrder ==
  ASSUME IInv, pc # "start", pc # "noMemory", count = 0
  PROVE  sorted_nodes \in Abstract!Orders(graph)
<1>1. TypeOK /\ EachNodeOnce /\ TopologicalPrefix /\ PlacedExist /\ graph.node_num \in Nat
  BY DEF IInv, TypeOK, IsGraph
<1>2. Abstract!NodesOf(graph) = Node /\ Abstract!GivenTo(graph) = InitiallyProcessed
  BY DEF Abstract!NodesOf, Node, Abstract!GivenTo, InitiallyProcessed
<1>3. Pending = {} /\ 0 .. Placed - 1 = Node
  BY <1>1 DEF Pending, Placed, Node
<1>4. Sorted = Node
  BY <1>1, <1>3 DEF EachNodeOnce
<1>5. sorted_nodes \in [Node -> Node]
  BY <1>1 DEF TypeOK
<1>6. \A n \in Node : \E k \in Node : sorted_nodes[k] = n
  BY <1>3, <1>4 DEF Sorted
<1>7. \A k \in Node : sorted_nodes[k] \notin graph.missing
  BY <1>1, <1>3 DEF PlacedExist, Sorted
<1>8. \A k \in Node :
        graph.inputs[sorted_nodes[k]] \subseteq Abstract!Available(graph, sorted_nodes, k)
  BY <1>1, <1>2, <1>3 DEF TopologicalPrefix, Abstract!Available
<1>9. QED
  BY <1>2, <1>5, <1>6, <1>7, <1>8 DEF Abstract!Orders

\* When the sort gives up the graph has no order: its first pending node could
\* not have all its inputs.
LEMMA NoOrder == IInv /\ pc = "unsortable" => Abstract!Orders(graph) = {}
<1> SUFFICES ASSUME IInv, pc = "unsortable", NEW s \in Abstract!Orders(graph)
             PROVE  FALSE
  OBVIOUS
<1>1. Abstract!NodesOf(graph) = Node /\ Abstract!GivenTo(graph) = InitiallyProcessed
  BY DEF Abstract!NodesOf, Node, Abstract!GivenTo, InitiallyProcessed
<1>2. /\ s \in [Node -> Node]
      /\ \A n \in Node : \E k \in Node : s[k] = n
      /\ \A k \in Node : s[k] \notin graph.missing
      /\ \A k \in Node : graph.inputs[s[k]] \subseteq Abstract!Available(graph, s, k)
  BY <1>1 DEF Abstract!Orders
<1>3. Pending \subseteq Node /\ Node \subseteq Nat
  BY DEF IInv, EachNodeOnce, Node
<1>4. GivesUpForAReason
  BY ReasonForGivingUp
<1>5. CASE Pending \cap graph.missing # {}
  <2>1. PICK n \in Node : n \in graph.missing
    BY <1>3, <1>5
  <2>2. PICK k \in Node : s[k] = n
    BY <1>2
  <2>3. QED
    BY <1>2, <2>1, <2>2
<1>6. CASE /\ Pending # {}
           /\ \A n \in Pending : \E t \in graph.inputs[n] :
                /\ t \notin InitiallyProcessed
                /\ \A m \in Node \ Pending : t \notin graph.outputs[m]
  <2> DEFINE K == {k \in Node : s[k] \in Pending}
  <2>1. K # {} /\ K \subseteq Nat
    <3>1. PICK n \in Node : n \in Pending
      BY <1>3, <1>6
    <3>2. PICK k \in Node : s[k] = n
      BY <1>2
    <3>3. k \in K
      BY <3>1, <3>2
    <3>4. K \subseteq Node
      OBVIOUS
    <3>5. QED
      BY <1>3, <3>3, <3>4
  <2>2. PICK k \in K : \A j \in K : k <= j
    BY <2>1, FirstPosition
  <2>3. k \in Node /\ s[k] \in Pending
    BY <2>2
  <2>4. PICK t \in graph.inputs[s[k]] :
           /\ t \notin InitiallyProcessed
           /\ \A m \in Node \ Pending : t \notin graph.outputs[m]
    BY <1>6, <2>3
  <2>5. t \in Abstract!Available(graph, s, k)
    BY <1>2, <2>3, <2>4
  <2>6. PICK j \in 0 .. k - 1 : t \in graph.outputs[s[j]]
    BY <1>1, <2>4, <2>5 DEF Abstract!Available
  <2>7. j \in Node /\ j < k
    <3>1. graph.node_num \in Nat
      BY DEF IInv, TypeOK, IsGraph
    <3>2. QED
      BY <2>3, <3>1 DEF Node
  <2>8. j \notin K
    BY <1>3, <2>2, <2>3, <2>7
  <2>9. s[j] \in Node \ Pending
    BY <1>2, <2>7, <2>8
  <2>10. QED
    BY <2>4, <2>6, <2>9
<1>7. QED
  BY <1>4, <1>5, <1>6 DEF GivesUpForAReason

\* Every step of the sort is the answer of Sorter, or invisible to the caller.
LEMMA StepImplements ==
  IInv /\ IInv' /\ [Next]_vars => [Abstract!Answer]_<<graph, Result, Verdict>>
<1> SUFFICES ASSUME IInv, IInv', [Next]_vars
             PROVE  Abstract!Answer \/ UNCHANGED <<graph, Result, Verdict>>
  OBVIOUS
<1>1. CASE AllocationFails
  <2>1. pc = "start" /\ pc' = "noMemory" /\ graph' = graph
    BY <1>1 DEF AllocationFails
  <2>2. QED
    BY <2>1 DEF Abstract!Answer, Verdict, Result, Outcome
<1>2. CASE pc' = pc /\ graph' = graph /\ sorted_nodes' = sorted_nodes
  BY <1>2 DEF Verdict, Result
<1>3. CASE Start \/ Place \/ Skip
  <2>1. pc \notin Outcome /\ pc' \notin Outcome /\ graph' = graph
    BY <1>3 DEF Start, Place, Skip, Outcome
  <2>2. QED
    BY <2>1 DEF Verdict, Result, Outcome
<1>4. CASE pc = "scan" /\ pc' = Final(count) /\ graph' = graph /\ count' = count
           /\ sorted_nodes' = sorted_nodes
  <2>1. Verdict = "pending" /\ Result = <<>>
    BY <1>4 DEF Verdict, Result, Outcome
  <2>2. CASE count = 0
    <3>1. Verdict' = "sorted" /\ Result' = sorted_nodes
      BY <1>4, <2>2 DEF Verdict, Result, Outcome, Final
    <3>2. sorted_nodes \in Abstract!Orders(graph)
      BY <1>4, <2>2, SortedIsOrder
    <3>3. QED
      BY <1>4, <2>1, <3>1, <3>2 DEF Abstract!Answer
  <2>3. CASE count # 0
    <3>1. pc' = "unsortable" /\ Verdict' = "unsortable" /\ Result' = <<>>
      BY <1>4, <2>3 DEF Verdict, Result, Outcome, Final
    <3>2. Abstract!Orders(graph) = {}
      <4>1. (Abstract!Orders(graph) = {})'
        <5>1. (pc = "unsortable")'
          BY <3>1
        <5>2. QED
          BY <5>1, NoOrder, PTL
      <4>2. QED
        BY <1>4, <4>1 DEF Abstract!Orders, Abstract!NodesOf, Abstract!Available, Abstract!GivenTo
    <3>3. QED
      BY <1>4, <2>1, <3>1, <3>2 DEF Abstract!Answer
  <2>4. QED
    BY <2>2, <2>3
<1>5. QED
  <2>1. CASE GetNodeFails
    BY <1>4, <2>1 DEF GetNodeFails
  <2>2. CASE EndPass
    BY <1>2, <1>4, <2>2 DEF EndPass
  <2>3. CASE UNCHANGED vars
    BY <1>2, <2>3 DEF vars
  <2>4. QED
    BY <1>1, <1>3, <2>1, <2>2, <2>3 DEF Next

\* SortGraphNode implements Sorter for graphs of any size: it answers with an
\* order of all nodes whenever one exists and memory suffices, and with NULL only
\* when there is none or memory ran out.
THEOREM SortImplementsSorter == Spec => ImplementsSorter
<1>1. Init => Abstract!SorterInit
  BY DEF Init, Abstract!SorterInit, Verdict, Result, Outcome
<1>2. QED
  BY <1>1, StepImplements, Invariant, PTL DEF Spec, ImplementsSorter, Abstract!SorterSpec
====
