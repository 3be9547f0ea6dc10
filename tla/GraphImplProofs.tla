---- MODULE GraphImplProofs ----
(***************************************************************************)
(* vsi_nn_SetupGraph, for graphs of any size: whichever order the sort     *)
(* chose, every operation finds its inputs shaped when it is set up and    *)
(* created, or lost by a failure that was ignored, when it is computed;    *)
(* what has been built is closed under dependencies, after a failure too.  *)
(* Above it tim::vx::GraphImpl, for any threads and any number of calls:   *)
(* its once_flags make all calls together one run of vsi_nn_SetupGraph,    *)
(* and they keep set-up, verification, export and execution apart.         *)
(***************************************************************************)
EXTENDS GraphImpl, TLAPS

-----------------------------------------------------------------------------
\* vsi_nn_SetupGraph.

\* The order the passes use: one the sort may answer, or the order in which the
\* nodes were added, which the caller promised to be one.
ListOK ==
  /\ sort \/ AddedInOrder(graph)
  /\ phase = "list" => ~sort
  /\ nodes_list \in Orders(graph) \/ (nodes_list = AddOrder /\ ~sort) \/ phase \notin NodePass

\* The nodes the running pass has visited, when it runs forward.
Visited == {nodes_list[k] : k \in 0 .. pos - 1}

\* What the pass has done to them.
VisitedShaped == phase = "setup" => \A n \in Visited : graph.outputs[n] \subseteq shaped
VisitedBuilt ==
  /\ phase = "compute" =>
       built = Visited /\ \A n \in Visited : graph.outputs[n] \subseteq created \cup lost
  /\ phase \in {"optimize", "list", "sort", "setup", "backward", "forward", "precision"} =>
       built = {}

GivenReady == Given \cup graph.declared \subseteq shaped \cap created

IInv ==
  /\ TypeOK /\ ListOK /\ VisitedShaped /\ VisitedBuilt /\ GivenReady /\ BuiltIsClosed

-----------------------------------------------------------------------------

\* What IInv says of the types, in the form the steps use.
LEMMA Types ==
  ASSUME IInv
  PROVE  /\ graph.node_num \in Nat /\ pos \in Nat /\ pos <= graph.node_num
         /\ graph.inputs \in [Node -> SUBSET Tensor]
         /\ graph.outputs \in [Node -> SUBSET Tensor]
         /\ shaped \subseteq Tensor /\ created \subseteq Tensor /\ precise \subseteq Tensor
         /\ lost \subseteq Tensor
         /\ phase \in NodePass => nodes_list \in [Node -> Node]
BY DEF IInv, TypeOK, IsGraph, Node, NodesOf

\* The node a pass looks at is a node of the graph.
LEMMA CurrentIsNode ==
  ASSUME IInv, phase \in NodePass, pos < graph.node_num
  PROVE  Current \in Node
<1>1. IF phase = "backward" THEN graph.node_num - 1 - pos \in Node ELSE pos \in Node
  BY Types DEF Node, NodesOf
<1>2. QED
  BY <1>1, Types DEF Current

\* Every input of the node a forward pass looks at needs no producer or is written
\* by a node the pass has visited.
LEMMA InputsAreVisited ==
  ASSUME IInv, phase \in NodePass, phase # "backward", pos < graph.node_num,
         Current \notin graph.missing, NEW t \in graph.inputs[Current]
  PROVE  t \in Given \cup graph.declared \/ \E m \in Visited : t \in graph.outputs[m]
<1>1. Current = nodes_list[pos] /\ pos \in Node
  BY Types DEF Current, Node, NodesOf
<1>2. CASE nodes_list \in Orders(graph)
  <2>1. t \in Available(graph, nodes_list, pos)
    BY <1>1, <1>2 DEF Orders, Node
  <2>2. CASE t \in Given
    BY <2>2
  <2>3. CASE \E j \in 0 .. pos - 1 : t \in graph.outputs[nodes_list[j]]
    BY <2>3 DEF Visited
  <2>4. QED
    BY <2>1, <2>2, <2>3 DEF Available, Given
<1>3. CASE nodes_list = AddOrder /\ ~sort
  <2>1. AddedInOrder(graph)
    BY <1>3 DEF IInv, ListOK
  <2>2. Current = pos
    BY <1>1, <1>3 DEF AddOrder
  <2>3. t \in GivenTo(graph) \cup graph.declared
               \cup UNION {graph.outputs[m] : m \in 0 .. pos - 1}
    BY <1>1, <2>1, <2>2 DEF AddedInOrder, Node
  <2>4. \A m \in 0 .. pos - 1 : m \in Visited
    <3>1. \A m \in 0 .. pos - 1 : m \in Node /\ nodes_list[m] = m
      BY <1>1, <1>3, Types DEF AddOrder, Node, NodesOf
    <3>2. QED
      BY <3>1 DEF Visited
  <2>5. QED
    BY <2>3, <2>4 DEF Given
<1>4. QED
  BY <1>2, <1>3 DEF IInv, ListOK

\* Shape inference and node creation find their inputs.
LEMMA InvariantGivesReadiness == IInv => InputsReady
<1> SUFFICES ASSUME IInv PROVE InputsReady
  OBVIOUS
<1>1. ASSUME AtNode("setup") PROVE graph.inputs[Current] \subseteq shaped
  <2> SUFFICES ASSUME NEW t \in graph.inputs[Current] PROVE t \in shaped
    OBVIOUS
  <2>1. phase = "setup" /\ phase \in NodePass /\ pos < graph.node_num /\ Current \notin graph.missing
    BY <1>1 DEF AtNode, NodePass
  <2>2. t \in Given \cup graph.declared \/ \E m \in Visited : t \in graph.outputs[m]
    BY <2>1, InputsAreVisited
  <2>3. QED
    BY <2>1, <2>2 DEF IInv, VisitedShaped, GivenReady
<1>2. ASSUME AtNode("compute") PROVE graph.inputs[Current] \subseteq created \cup lost
  <2> SUFFICES ASSUME NEW t \in graph.inputs[Current] PROVE t \in created \cup lost
    OBVIOUS
  <2>1. phase = "compute" /\ phase \in NodePass /\ pos < graph.node_num /\ Current \notin graph.missing
    BY <1>2 DEF AtNode, NodePass
  <2>2. t \in Given \cup graph.declared \/ \E m \in Visited : t \in graph.outputs[m]
    BY <2>1, InputsAreVisited
  <2>3. QED
    BY <2>1, <2>2 DEF IInv, VisitedBuilt, GivenReady
<1>3. QED
  BY <1>1, <1>2 DEF InputsReady

\* A visit in a forward pass adds the current node to the visited ones.
LEMMA VisitAdds ==
  ASSUME IInv, phase \in NodePass, phase # "backward", pos < graph.node_num,
         pos' = pos + 1, nodes_list' = nodes_list
  PROVE  Visited' = Visited \cup {Current}
<1>1. 0 .. pos' - 1 = (0 .. pos - 1) \cup {pos}
  BY Types
<1>2. Current = nodes_list[pos]
  BY DEF Current
<1>3. QED
  BY <1>1, <1>2 DEF Visited

\* No node is visited when a pass begins.
LEMMA NoneVisited == ASSUME pos = 0 PROVE Visited = {}
BY DEF Visited

LEMMA InitInvariant == Init => IInv
<1> SUFFICES ASSUME Init PROVE IInv
  OBVIOUS
<1>1. IsGraph(graph)
  BY GraphsAssumption DEF Init
<1>2. Given \cup graph.declared \subseteq Tensor
  BY <1>1 DEF IsGraph, Given, GivenTo
<1>3. TypeOK
  <2>1. sort \in BOOLEAN /\ oom \in BOOLEAN /\ lost \subseteq Tensor
    BY DEF Init
  <2>2. pos \in 0 .. graph.node_num
    BY <1>1 DEF Init, IsGraph
  <2>3. phase = "optimize" /\ phase \in Phase /\ phase \notin NodePass
    BY DEF Init, Phase, NodePass
  <2>4. shaped \subseteq Tensor /\ created \subseteq Tensor /\ precise \subseteq Tensor
    BY <1>2 DEF Init
  <2>5. nodes_list = <<>> /\ status = "failure" /\ built = {}
    BY DEF Init
  <2>6. QED
    BY <1>1, <2>1, <2>2, <2>3, <2>4, <2>5 DEF TypeOK
<1>4. QED
  BY <1>3 DEF Init, IInv, ListOK, VisitedShaped, VisitedBuilt, GivenReady, BuiltIsClosed,
              NodePass

\* A step that does not enter a pass or stay in one, and forgets nothing of the
\* tensors, keeps the invariant.
LEMMA OutsidePasses ==
  ASSUME IInv, UNCHANGED <<graph, sort, nodes_list, pos, precise, built, lost>>,
         shaped \subseteq shaped', shaped' \subseteq Tensor,
         created \subseteq created', created' \subseteq Tensor,
         phase' \in {"list", "sort", "signal", "identify", "done"},
         phase' = "list" => ~sort,
         phase' \in {"list", "sort"} => built = {},
         status' \in {"success", "failure"}, oom' \in BOOLEAN
  PROVE  IInv'
<1>1. phase' \in Phase /\ phase' \notin NodePass
      /\ phase' \notin {"optimize", "setup", "backward", "forward", "precision", "compute"}
  BY DEF Phase, NodePass
<1>2. Node' = Node /\ Given' = Given /\ AddOrder' = AddOrder
      /\ Orders(graph)' = Orders(graph) /\ AddedInOrder(graph)' = AddedInOrder(graph)
  BY DEF Node, NodesOf, Given, GivenTo, AddOrder, Orders, AddedInOrder, Available
<1>3. TypeOK' /\ sort' = sort
  BY <1>1, <1>2 DEF IInv, TypeOK
<1>4. ListOK' /\ VisitedShaped' /\ VisitedBuilt'
  BY <1>1, <1>2 DEF IInv, ListOK, VisitedShaped, VisitedBuilt
<1>5. GivenReady'
  BY <1>2 DEF IInv, GivenReady
<1>6. BuiltIsClosed'
  BY <1>2 DEF IInv, BuiltIsClosed
<1>7. QED
  BY <1>3, <1>4, <1>5, <1>6 DEF IInv

\* The first step of a pass: a list is there and nothing has been visited.
LEMMA EntersPass ==
  ASSUME IInv, UNCHANGED <<graph, sort, status, shaped, created, precise, built, oom, lost>>,
         phase' \in NodePass, pos' = 0,
         nodes_list' \in Orders(graph) \/ (nodes_list' = AddOrder /\ ~sort),
         nodes_list' \in [Node -> Node],
         phase' # "precisionAgain" => built = {}
  PROVE  IInv'
<1>1. Node' = Node /\ Given' = Given /\ AddOrder' = AddOrder
      /\ Orders(graph)' = Orders(graph) /\ AddedInOrder(graph)' = AddedInOrder(graph)
  BY DEF Node, NodesOf, Given, GivenTo, AddOrder, Orders, AddedInOrder, Available
<1>2. Visited' = {}
  BY DEF Visited
<1>3. phase' \in Phase /\ phase' # "list"
  BY DEF Phase, NodePass
<1>4. TypeOK'
  <2>1. pos' \in 0 .. graph.node_num
    BY Types
  <2>2. QED
    BY <1>1, <1>3, <2>1 DEF IInv, TypeOK
<1>5. ListOK'
  BY <1>1, <1>3 DEF IInv, ListOK
<1>6. VisitedShaped' /\ VisitedBuilt'
  BY <1>2 DEF NodePass, VisitedShaped, VisitedBuilt
<1>7. GivenReady' /\ BuiltIsClosed'
  BY <1>1 DEF IInv, GivenReady, BuiltIsClosed
<1>8. QED
  BY <1>4, <1>5, <1>6, <1>7 DEF IInv

\* A visit of a pass that neither shapes nor builds: it may create tensors and set
\* precisions.
LEMMA PlainVisit ==
  ASSUME IInv, UNCHANGED <<graph, sort, phase, nodes_list, status, shaped, built, oom, lost>>,
         phase \in NodePass \ {"setup", "compute"},
         pos < graph.node_num, pos' = pos + 1,
         created \subseteq created', created' \subseteq Tensor, precise' \subseteq Tensor
  PROVE  IInv'
<1>1. Node' = Node /\ Given' = Given /\ AddOrder' = AddOrder
      /\ Orders(graph)' = Orders(graph) /\ AddedInOrder(graph)' = AddedInOrder(graph)
  BY DEF Node, NodesOf, Given, GivenTo, AddOrder, Orders, AddedInOrder, Available
<1>2. TypeOK'
  <2>1. pos' \in 0 .. graph.node_num
    BY Types
  <2>2. QED
    BY <1>1, <2>1 DEF IInv, TypeOK
<1>3. ListOK' /\ VisitedShaped' /\ VisitedBuilt'
  BY <1>1 DEF IInv, ListOK, VisitedShaped, VisitedBuilt
<1>4. GivenReady' /\ BuiltIsClosed'
  BY <1>1 DEF IInv, GivenReady, BuiltIsClosed
<1>5. QED
  BY <1>2, <1>3, <1>4 DEF IInv

LEMMA SetupNodeKeeps == IInv /\ SetupNode => IInv'
<1> SUFFICES ASSUME IInv, SetupNode PROVE IInv'
  OBVIOUS
<1>1. /\ phase = "setup" /\ phase \in NodePass /\ pos < graph.node_num /\ pos' = pos + 1
      /\ shaped' = shaped \cup graph.outputs[Current]
      /\ UNCHANGED <<graph, sort, phase, nodes_list, status, created, precise, built, oom, lost>>
  BY DEF SetupNode, AtNode, NodePass
<1>2. Current \in Node
  BY <1>1, CurrentIsNode
<1>3. Visited' = Visited \cup {Current}
  BY <1>1, VisitAdds
<1>4. Node' = Node /\ Given' = Given /\ AddOrder' = AddOrder
      /\ Orders(graph)' = Orders(graph) /\ AddedInOrder(graph)' = AddedInOrder(graph)
  BY <1>1 DEF Node, NodesOf, Given, GivenTo, AddOrder, Orders, AddedInOrder, Available
<1>5. TypeOK'
  <2>1. pos' \in 0 .. graph.node_num
    BY <1>1, Types
  <2>2. shaped' \subseteq Tensor
    BY <1>1, <1>2, Types
  <2>3. QED
    BY <1>1, <1>4, <2>1, <2>2 DEF IInv, TypeOK
<1>6. ListOK' /\ VisitedBuilt'
  BY <1>1, <1>4 DEF IInv, ListOK, VisitedBuilt
<1>7. VisitedShaped'
  BY <1>1, <1>3 DEF IInv, VisitedShaped
<1>8. GivenReady' /\ BuiltIsClosed'
  BY <1>1, <1>4 DEF IInv, GivenReady, BuiltIsClosed
<1>9. QED
  BY <1>5, <1>6, <1>7, <1>8 DEF IInv

LEMMA ComputeNodeKeeps == IInv /\ ComputeNode => IInv'
<1> SUFFICES ASSUME IInv, ComputeNode PROVE IInv'
  OBVIOUS
<1>1. /\ phase = "compute" /\ phase \in NodePass /\ pos < graph.node_num /\ pos' = pos + 1
      /\ Current \notin graph.missing
      /\ created \subseteq created' /\ created' \subseteq created \cup graph.outputs[Current]
      /\ lost' = lost \cup (graph.outputs[Current] \ created')
      /\ built' = built \cup {Current} /\ status' \in {"success", "failure"}
      /\ UNCHANGED <<graph, sort, phase, nodes_list, shaped, precise, oom>>
  BY DEF ComputeNode, AtNode, NodePass
<1>2. Current \in Node
  BY <1>1, CurrentIsNode
<1>3. Visited' = Visited \cup {Current}
  BY <1>1, VisitAdds
<1>4. Node' = Node /\ Given' = Given /\ AddOrder' = AddOrder
      /\ Orders(graph)' = Orders(graph) /\ AddedInOrder(graph)' = AddedInOrder(graph)
  BY <1>1 DEF Node, NodesOf, Given, GivenTo, AddOrder, Orders, AddedInOrder, Available
<1>5. TypeOK'
  <2>1. pos' \in 0 .. graph.node_num
    BY <1>1, Types
  <2>2. created' \subseteq Tensor /\ built' \subseteq Node /\ lost' \subseteq Tensor
    BY <1>1, <1>2, Types DEF IInv, TypeOK
  <2>3. QED
    BY <1>1, <1>4, <2>1, <2>2 DEF IInv, TypeOK
<1>6. ListOK' /\ VisitedShaped'
  BY <1>1, <1>4 DEF IInv, ListOK, VisitedShaped
<1>7. built = Visited /\ VisitedBuilt'
  BY <1>1, <1>3 DEF IInv, VisitedBuilt
<1>8. GivenReady'
  BY <1>1, <1>4 DEF IInv, GivenReady
<1>9. BuiltIsClosed'
  <2>1. \A t \in graph.inputs[Current] :
          t \in Given \cup graph.declared \/ \E m \in built : t \in graph.outputs[m]
    BY <1>1, <1>7, InputsAreVisited
  <2>2. QED
    BY <1>1, <1>4, <2>1 DEF IInv, BuiltIsClosed
<1>10. QED
  BY <1>5, <1>6, <1>7, <1>8, <1>9 DEF IInv

-----------------------------------------------------------------------------

\* The last pass ends: what follows looks at no node list.
LEMMA SignalAfterPasses ==
  ASSUME IInv, UNCHANGED <<graph, sort, nodes_list, status, shaped, created, precise, built, oom, lost>>,
         phase' = "signal", pos' = 0
  PROVE  IInv'
<1>1. phase' \in Phase /\ phase' \notin NodePass
      /\ phase' \notin {"optimize", "list", "sort", "setup", "backward", "forward",
                      "precision", "compute"}
  BY DEF Phase, NodePass
<1>2. Node' = Node /\ Given' = Given /\ AddOrder' = AddOrder
      /\ Orders(graph)' = Orders(graph) /\ AddedInOrder(graph)' = AddedInOrder(graph)
  BY DEF Node, NodesOf, Given, GivenTo, AddOrder, Orders, AddedInOrder, Available
<1>3. TypeOK'
  <2>1. pos' \in 0 .. graph.node_num
    BY Types
  <2>2. QED
    BY <1>1, <1>2, <2>1 DEF IInv, TypeOK
<1>4. ListOK' /\ VisitedShaped' /\ VisitedBuilt'
  BY <1>1, <1>2 DEF IInv, ListOK, VisitedShaped, VisitedBuilt
<1>5. GivenReady' /\ BuiltIsClosed'
  BY <1>2 DEF IInv, GivenReady, BuiltIsClosed
<1>6. QED
  BY <1>3, <1>4, <1>5 DEF IInv

\* Every step keeps the invariant, action by action.
LEMMA StepKeeps == IInv /\ [SetupStep]_setupVars => IInv'
<1> SUFFICES ASSUME IInv, [SetupStep]_setupVars PROVE IInv'
  OBVIOUS
<1>1. /\ sort \in BOOLEAN /\ oom \in BOOLEAN /\ status \in {"success", "failure"}
      /\ shaped \subseteq Tensor /\ created \subseteq Tensor /\ precise \subseteq Tensor
      /\ graph.node_num \in Nat /\ pos <= graph.node_num
  BY Types DEF IInv, TypeOK
<1>2. ASSUME NEW s \in {"success", "failure"}, Return(s), oom' \in BOOLEAN
      PROVE  IInv'
  <2>1. phase' = "done" /\ status' = s
        /\ UNCHANGED <<graph, sort, nodes_list, pos, shaped, created, precise, built, lost>>
    BY <1>2 DEF Return
  <2>2. QED
    BY <1>1, <1>2, <2>1, OutsidePasses
<1>3. ASSUME phase \in {"optimize", "list", "sort", "setup", "backward", "forward", "precision"}
      PROVE  built = {}
  BY <1>3 DEF IInv, VisitedBuilt
<1>4. CASE OptimizeGraph
  <2>1. phase = "optimize" /\ oom' = oom
    BY <1>4 DEF OptimizeGraph
  <2>2. CASE Return("failure")
    BY <1>1, <1>2, <2>1, <2>2
  <2>3. ASSUME NEW dirty \in BOOLEAN, phase' = (IF sort \/ dirty THEN "sort" ELSE "list"),
               status' = "success",
               UNCHANGED <<graph, sort, nodes_list, pos, shaped, created, precise, built, lost>>
        PROVE  IInv'
    <3>1. built = {}
      BY <1>3, <2>1
    <3>2. phase' \in {"list", "sort"} /\ (phase' = "list" => ~sort)
      BY <2>3, Zenon
    <3>3. phase' \in {"list", "sort", "signal", "identify", "done"}
          /\ status' \in {"success", "failure"} /\ oom' \in BOOLEAN
      BY <1>1, <2>1, <2>3, <3>2
    <3>4. QED
      BY <1>1, <2>3, <3>1, <3>2, <3>3, OutsidePasses
  <2>4. QED
    BY <1>4, <2>2, <2>3 DEF OptimizeGraph
<1>5. CASE ListAllocationFails
  <2>1. oom' \in BOOLEAN /\ Return(status)
    BY <1>5 DEF ListAllocationFails
  <2>2. QED
    BY <1>1, <1>2, <2>1
<1>6. CASE SortFails
  <2>1. oom' \in BOOLEAN /\ Return(status)
    BY <1>1, <1>6 DEF SortFails
  <2>2. QED
    BY <1>1, <1>2, <2>1
<1>7. CASE Sort
  <2>1. PICK order \in Orders(graph) : StartPasses(order)
    BY <1>7 DEF Sort
  <2>2. order \in [Node -> Node] /\ built = {}
    BY <1>3, <1>7 DEF Sort, Orders, Node
  <2>3. QED
    BY <2>1, <2>2, EntersPass DEF StartPasses, NodePass
<1>8. CASE KeepOrder
  <2>1. StartPasses(AddOrder) /\ phase = "list"
    BY <1>8 DEF KeepOrder
  <2>2. AddOrder \in [Node -> Node] /\ built = {} /\ ~sort
    BY <1>3, <2>1 DEF AddOrder, IInv, ListOK
  <2>3. QED
    BY <2>1, <2>2, EntersPass DEF StartPasses, NodePass
<1>9. CASE EndPass
  <2>1. phase \in NodePass /\ oom' = oom
    BY <1>9 DEF EndPass
  <2>2. CASE status # "success"
    <3>1. Return(status)
      BY <1>9, <2>2 DEF EndPass
    <3>2. QED
      BY <1>1, <1>2, <2>1, <3>1
  <2>3. CASE status = "success"
    <3>1. /\ phase' = PassAfter[phase] /\ pos' = 0
          /\ UNCHANGED <<graph, sort, nodes_list, status, shaped, created, precise, built, lost>>
      BY <1>9, <2>3 DEF EndPass
    <3>2. \/ phase \in {"setup", "backward", "forward", "precision"}
             /\ phase' \in {"backward", "forward", "precision", "compute"}
          \/ phase = "compute" /\ phase' = "precisionAgain"
          \/ phase = "precisionAgain" /\ phase' = "signal"
      BY <2>1, <3>1 DEF NodePass, PassAfter
    <3>3. nodes_list \in Orders(graph) \/ (nodes_list = AddOrder /\ ~sort)
      BY <2>1 DEF IInv, ListOK
    <3>4. CASE phase' = "signal"
      BY <1>1, <2>1, <3>1, <3>4, SignalAfterPasses
    <3>5. CASE phase' # "signal"
      <4>1. phase' \in NodePass /\ (phase' # "precisionAgain" => built = {})
        BY <1>3, <3>2, <3>5 DEF NodePass
      <4>2. nodes_list' = nodes_list /\ nodes_list \in [Node -> Node]
        BY <2>1, <3>1, Types
      <4>3. QED
        BY <2>1, <3>1, <3>3, <4>1, <4>2, EntersPass
    <3>6. QED
      BY <3>4, <3>5
  <2>4. QED
    BY <2>2, <2>3
<1>10. CASE BuffersFail
  <2>1. oom' \in BOOLEAN /\ Return("failure")
    BY <1>10 DEF BuffersFail
  <2>2. QED
    BY <1>2, <2>1
<1>11. CASE OperationFails
  <2>1. /\ phase \in NodePass /\ pos < graph.node_num
        /\ phase' = "done" /\ status' = "failure"
        /\ UNCHANGED <<graph, sort, nodes_list, pos, precise, built, oom, lost>>
    BY <1>11 DEF OperationFails, AtNode, NodePass
  <2>2. graph.inputs[Current] \cup graph.outputs[Current] \subseteq Tensor
    BY <2>1, CurrentIsNode, Types
  <2>3. PICK left \in SUBSET (graph.inputs[Current] \cup graph.outputs[Current]) :
          /\ shaped' = IF phase = "setup" THEN shaped \cup (left \cap graph.outputs[Current])
                       ELSE shaped
          /\ created' = CASE phase = "setup" -> created
                          [] phase = "compute" ->
                               created \cup (left \cap graph.outputs[Current])
                          [] OTHER -> created \cup left
    BY <1>11 DEF OperationFails
  <2>4. shaped \subseteq shaped' /\ shaped' \subseteq Tensor
    BY <1>1, <2>2, <2>3
  <2>5. created \subseteq created' /\ created' \subseteq Tensor
    <3>1. CASE phase = "setup"
      BY <1>1, <2>3, <3>1
    <3>2. CASE phase = "compute"
      BY <1>1, <2>2, <2>3, <3>2
    <3>3. CASE phase \notin {"setup", "compute"}
      BY <1>1, <2>2, <2>3, <3>3
    <3>4. QED
      BY <3>1, <3>2, <3>3
  <2>6. QED
    BY <1>1, <2>1, <2>4, <2>5, OutsidePasses
<1>12. CASE SetupNode
  BY <1>12, SetupNodeKeeps
<1>13. CASE OptimizeNode
  <2>1. phase \in NodePass \ {"setup", "compute"} /\ pos < graph.node_num
        /\ pos' = pos + 1
        /\ UNCHANGED <<graph, sort, phase, nodes_list, status, shaped, precise, built, oom, lost>>
    BY <1>13 DEF OptimizeNode, AtNode, NodePass
  <2>2. graph.inputs[Current] \cup graph.outputs[Current] \subseteq Tensor
    BY <2>1, CurrentIsNode, Types
  <2>3. created \subseteq created' /\ created' \subseteq Tensor
    BY <1>1, <1>13, <2>2 DEF OptimizeNode
  <2>4. QED
    BY <1>1, <2>1, <2>3, PlainVisit
<1>14. CASE SetPrecision
  <2>1. phase \in NodePass \ {"setup", "compute"} /\ pos < graph.node_num
        /\ pos' = pos + 1
        /\ UNCHANGED <<graph, sort, phase, nodes_list, status, shaped, created, built, oom, lost>>
    BY <1>14 DEF SetPrecision, AtNode, NodePass
  <2>2. graph.inputs[Current] \cup graph.outputs[Current] \subseteq Tensor
    BY <2>1, CurrentIsNode, Types
  <2>3. precise' \subseteq Tensor
    BY <1>1, <1>14, <2>2 DEF SetPrecision
  <2>4. QED
    BY <1>1, <2>1, <2>3, PlainVisit
<1>15. CASE ComputeNode
  BY <1>15, ComputeNodeKeeps
<1>16. CASE SetupSignal
  <2>1. phase = "signal" /\ oom' = oom
    BY <1>16 DEF SetupSignal
  <2>2. CASE Return("failure")
    BY <1>1, <1>2, <2>1, <2>2
  <2>3. CASE /\ phase' = "identify"
             /\ UNCHANGED <<graph, sort, nodes_list, pos, status, shaped, created, precise, built, lost>>
    BY <1>1, <2>1, <2>3, OutsidePasses
  <2>4. QED
    BY <1>16, <2>2, <2>3 DEF SetupSignal
<1>17. CASE IdentifyInputsOutputs
  <2>1. oom' = oom /\ (Return("success") \/ Return("failure"))
    BY <1>17 DEF IdentifyInputsOutputs
  <2>2. QED
    BY <1>1, <1>2, <2>1
<1>18. CASE UNCHANGED setupVars
  <2>1. UNCHANGED <<graph, sort, phase, nodes_list, pos, status, shaped, created, precise,
                    built, oom, lost>>
    BY <1>18 DEF setupVars
  <2>2. TypeOK' /\ GivenReady' /\ BuiltIsClosed'
    BY <2>1 DEF IInv, TypeOK, GivenReady, BuiltIsClosed, Node, NodesOf, Given, GivenTo
  <2>3. VisitedShaped' /\ VisitedBuilt'
    BY <2>1 DEF IInv, VisitedShaped, VisitedBuilt, Visited
  <2>4. AddOrder' = AddOrder /\ Orders(graph)' = Orders(graph)
        /\ AddedInOrder(graph)' = AddedInOrder(graph)
    BY <2>1 DEF Node, NodesOf, GivenTo, AddOrder, Orders, AddedInOrder, Available
  <2>5. ListOK'
    BY <2>1, <2>4 DEF IInv, ListOK
  <2>6. QED
    BY <2>2, <2>3, <2>5 DEF IInv
<1>19. QED
  BY <1>4, <1>5, <1>6, <1>7, <1>8, <1>9, <1>10, <1>11, <1>12, <1>13, <1>14, <1>15, <1>16,
     <1>17, <1>18 DEF SetupStep

\* The inductive invariant.
THEOREM Invariant == Spec => []IInv
<1>1. QED
  BY InitInvariant, StepKeeps, PTL DEF Spec

-----------------------------------------------------------------------------

\* The state of a set-up is well formed in all its phases.
THEOREM TypeCorrect == Spec => []TypeOK
<1>1. IInv => TypeOK
  BY DEF IInv
<1>2. QED
  BY <1>1, Invariant, PTL

\* Every operation finds its inputs shaped when it is set up, and created when it is
\* computed unless compute_node has ignored that their creation failed, in a graph of
\* any size, whichever order the sort chose, and without a sort when the nodes were added
\* in order.
THEOREM InputsAlwaysReady == Spec => []InputsReady
BY Invariant, InvariantGivesReadiness, PTL

\* What vsi_nn_SetupGraph has built is closed under dependencies at every moment,
\* and so when it gives up.
THEOREM ClosedWhereverItStops == Spec => []BuiltIsClosed
<1>1. IInv => BuiltIsClosed
  BY DEF IInv
<1>2. QED
  BY <1>1, Invariant, PTL
-----------------------------------------------------------------------------
\* What the passes have done for the whole graph.

IO(n) == graph.inputs[n] \cup graph.outputs[n]

\* The place k is reached by every pass: no node up to it is gone.
Reached(k) == \A j \in 0 .. k : nodes_list[j] \notin graph.missing

\* Outside fast mode the first precision pass handles every node that the compute
\* pass, which ends at the same node that is gone, will reach.
Precise ==
  ~graph.isAllowFastMode =>
    /\ phase \in {"precision", "compute"} =>
         \A k \in 0 .. pos - 1 : nodes_list[k] \notin graph.missing
    /\ phase = "precision" => \A k \in 0 .. pos - 1 : IO(nodes_list[k]) \subseteq precise
    /\ phase = "compute" => \A k \in Node : Reached(k) => IO(nodes_list[k]) \subseteq precise

Built == built = Node /\ \A n \in Node : graph.outputs[n] \subseteq created \cup lost

\* After the compute pass the graph is built or a node is gone.
Complete ==
  /\ phase \in {"optimize", "list", "sort"} => nodes_list = <<>>
  /\ phase \in {"precisionAgain", "signal", "identify"} => Built \/ graph.missing # {}
  /\ SuccessIsComplete

\* A pass over all the places visits all the nodes.
LEMMA AllVisited ==
  ASSUME IInv, phase \in NodePass, pos >= graph.node_num PROVE Visited = Node
<1>1. pos = graph.node_num /\ 0 .. pos - 1 = Node /\ nodes_list \in [Node -> Node]
  BY Types DEF Node, NodesOf
<1>2. \A n \in Node : \E k \in Node : nodes_list[k] = n
  BY DEF IInv, ListOK, Orders, AddOrder, Node
<1>3. QED
  BY <1>1, <1>2 DEF Visited

LEMMA PreciseStep == IInv /\ Precise /\ [SetupStep]_setupVars => Precise'
<1> SUFFICES ASSUME IInv, Precise, [SetupStep]_setupVars, ~graph'.isAllowFastMode
             PROVE  Precise'
  BY DEF Precise
<1>1. /\ graph.node_num \in Nat /\ pos \in Nat /\ pos <= graph.node_num
      /\ Node = 0 .. graph.node_num - 1
  BY Types DEF Node, NodesOf
<1>2. ASSUME phase' \notin {"precision", "compute"} PROVE Precise'
  BY <1>2 DEF Precise
<1>3. CASE SetPrecision
  <2>1. /\ phase \in {"precision", "precisionAgain"} /\ pos < graph.node_num
        /\ phase' = phase /\ pos' = pos + 1 /\ graph' = graph /\ nodes_list' = nodes_list
        /\ precise' = precise \cup IO(Current) /\ Current \notin graph.missing
        /\ ~graph.isAllowFastMode
    BY <1>3 DEF SetPrecision, AtNode, IO
  <2>2. CASE phase = "precision"
    <3>1. Current = nodes_list[pos] /\ \A k \in 0 .. pos' - 1 : k = pos \/ k \in 0 .. pos - 1
      BY <1>1, <2>1, <2>2 DEF Current
    <3>2. \A k \in 0 .. pos' - 1 : nodes_list[k] \notin graph.missing
                                  /\ IO(nodes_list[k]) \subseteq precise'
      BY <2>1, <2>2, <3>1 DEF Precise
    <3>3. QED
      BY <2>1, <2>2, <3>2 DEF Precise, IO
  <2>3. QED
    BY <1>2, <2>1, <2>2
<1>4. CASE ComputeNode
  <2>1. /\ phase = "compute" /\ pos < graph.node_num
        /\ phase' = phase /\ pos' = pos + 1 /\ graph' = graph /\ nodes_list' = nodes_list
        /\ precise' = precise /\ Current \notin graph.missing
    BY <1>4 DEF ComputeNode, AtNode
  <2>2. Current = nodes_list[pos] /\ \A k \in 0 .. pos' - 1 : k = pos \/ k \in 0 .. pos - 1
    BY <1>1, <2>1 DEF Current
  <2>3. \A k \in 0 .. pos' - 1 : nodes_list[k] \notin graph.missing
    BY <2>1, <2>2 DEF Precise
  <2>4. QED
    BY <2>1, <2>3 DEF Precise, IO, Reached, Node, NodesOf
<1>5. CASE EndPass
  <2>1. /\ phase \in NodePass /\ PassIsOver /\ graph' = graph
        /\ nodes_list' = nodes_list /\ precise' = precise
    BY <1>5 DEF EndPass, Return
  <2>2. phase' = "done" \/ (phase' = PassAfter[phase] /\ pos' = 0)
    BY <1>5 DEF EndPass, Return
  <2>3. CASE phase = "precision" /\ phase' = "compute" /\ pos' = 0
    <3>1. pos < graph.node_num => nodes_list[pos] \in graph.missing
      BY <2>1, <2>3 DEF PassIsOver, Current
    <3>2. ASSUME NEW k \in Node, Reached(k) PROVE k \in 0 .. pos - 1
      BY <1>1, <3>1, <3>2 DEF Reached
    <3>3. \A k \in Node : Reached(k) => IO(nodes_list[k]) \subseteq precise
      BY <2>1, <2>3, <3>2 DEF Precise
    <3>4. Node' = Node /\ \A k \in Node : Reached(k)' = Reached(k)
      BY <2>1 DEF Reached, Node, NodesOf
    <3>5. QED
      BY <2>1, <2>3, <3>3, <3>4 DEF Precise, IO
  <2>4. CASE phase' = "precision" /\ pos' = 0
    BY <2>4 DEF Precise
  <2>5. QED
    BY <1>2, <2>1, <2>2, <2>3, <2>4 DEF NodePass, PassAfter
<1>6. CASE UNCHANGED <<graph, phase, nodes_list, pos, precise>>
  BY <1>6 DEF Precise, IO, Reached, Node, NodesOf
<1>7. CASE SetupNode \/ OptimizeNode
  <2>1. phase' \in {"setup", "backward", "forward"}
    BY <1>7 DEF SetupNode, OptimizeNode, AtNode
  <2>2. QED
    BY <1>2, <2>1
<1>8. CASE \/ OptimizeGraph \/ ListAllocationFails \/ SortFails \/ Sort \/ KeepOrder
           \/ BuffersFail \/ OperationFails \/ SetupSignal \/ IdentifyInputsOutputs
  <2>1. phase' \in {"done", "sort", "list", "setup", "identify"}
    BY <1>8 DEF OptimizeGraph, ListAllocationFails, SortFails, Sort, KeepOrder, BuffersFail,
       OperationFails, SetupSignal, IdentifyInputsOutputs, Return, StartPasses
  <2>2. QED
    BY <1>2, <2>1
<1>9. QED
  BY <1>3, <1>4, <1>5, <1>6, <1>7, <1>8 DEF SetupStep, setupVars

LEMMA CompleteStep == IInv /\ Complete /\ [SetupStep]_setupVars => Complete'
<1> SUFFICES ASSUME IInv, Complete, [SetupStep]_setupVars PROVE Complete'
  OBVIOUS
<1>1. ASSUME phase' = "done", status' = "failure" PROVE Complete'
  BY <1>1 DEF Complete, SuccessIsComplete
<1>2. ASSUME phase' \in {"setup", "backward", "forward", "precision", "compute"} PROVE Complete'
  BY <1>2 DEF Complete, SuccessIsComplete
<1>3. ASSUME UNCHANGED <<graph, built, created, lost>> PROVE Built' = Built
  BY <1>3 DEF Built, Node, NodesOf
<1>4. CASE OptimizeGraph
  <2>1. CASE Return("failure")
    BY <1>1, <2>1 DEF Return
  <2>2. CASE phase' \in {"sort", "list"} /\ nodes_list' = nodes_list
    BY <1>4, <2>2 DEF OptimizeGraph, Complete, SuccessIsComplete
  <2>3. QED
    BY <1>4, <2>1, <2>2 DEF OptimizeGraph
<1>5. CASE ListAllocationFails \/ SortFails
  <2>1. /\ phase' = "done" /\ nodes_list' = <<>> /\ graph' = graph
        /\ oom' \/ Orders(graph) = {}
    BY <1>5 DEF ListAllocationFails, SortFails, Return, Complete
  <2>2. Orders(graph') = Orders(graph)
    BY <2>1
  <2>3. SuccessIsComplete'
    BY <2>1, <2>2 DEF SuccessIsComplete
  <2>4. QED
    BY <2>1, <2>3 DEF Complete
<1>6. CASE Sort \/ KeepOrder
  <2>1. phase' = "setup"
    BY <1>6 DEF Sort, KeepOrder, StartPasses
  <2>2. QED
    BY <1>2, <2>1
<1>7. CASE EndPass
  <2>1. phase \in NodePass /\ PassIsOver
    BY <1>7 DEF EndPass
  <2>2. CASE status # "success"
    <3>1. phase' = "done" /\ status' = "failure"
      BY <1>7, <2>2 DEF EndPass, Return, IInv, TypeOK
    <3>2. QED
      BY <1>1, <3>1
  <2>3. CASE status = "success"
    <3>1. phase' = PassAfter[phase] /\ UNCHANGED <<graph, nodes_list, built, created, lost>>
      BY <1>7, <2>3 DEF EndPass
    <3>2. Built' = Built
      BY <1>3, <3>1
    <3>3. CASE phase = "compute"
      <4>1. CASE pos < graph.node_num
        <5>1. Current \in graph.missing
          BY <2>1, <3>3, <4>1 DEF PassIsOver
        <5>2. QED
          BY <3>1, <3>3, <5>1 DEF PassAfter, Complete, SuccessIsComplete
      <4>2. CASE pos >= graph.node_num
        <5>1. Visited = Node
          BY <2>1, <4>2, AllVisited
        <5>2. Built
          BY <3>3, <5>1 DEF IInv, VisitedBuilt, Built
        <5>3. QED
          BY <3>1, <3>2, <3>3, <5>2 DEF PassAfter, Complete, SuccessIsComplete
      <4>3. QED
        BY <4>1, <4>2, Types
    <3>4. CASE phase = "precisionAgain"
      BY <3>1, <3>2, <3>4 DEF PassAfter, Complete, SuccessIsComplete
    <3>5. CASE phase \in {"setup", "backward", "forward", "precision"}
      <4>1. phase' \in {"backward", "forward", "precision", "compute"}
        BY <3>1, <3>5 DEF PassAfter
      <4>2. QED
        BY <1>2, <4>1
    <3>6. QED
      BY <2>1, <3>3, <3>4, <3>5 DEF NodePass
  <2>4. QED
    BY <2>2, <2>3
<1>8. CASE BuffersFail \/ OperationFails
  BY <1>1, <1>8 DEF BuffersFail, OperationFails, Return
<1>9. CASE SetupNode \/ OptimizeNode \/ ComputeNode
  <2>1. phase' \in {"setup", "backward", "forward", "compute"}
    BY <1>9 DEF SetupNode, OptimizeNode, ComputeNode, AtNode
  <2>2. QED
    BY <1>2, <2>1
<1>10. CASE SetPrecision
  <2>1. /\ phase \in {"precision", "precisionAgain"} /\ phase' = phase
        /\ UNCHANGED <<graph, built, created, lost>>
    BY <1>10 DEF SetPrecision, AtNode
  <2>2. QED
    BY <1>3, <2>1 DEF Complete, SuccessIsComplete
<1>11. CASE SetupSignal
  <2>1. CASE Return("failure")
    BY <1>1, <2>1 DEF Return
  <2>2. CASE phase' = "identify" /\ UNCHANGED <<graph, built, created, lost>>
    <3>1. Built' = Built
      BY <1>3, <2>2
    <3>2. QED
      BY <1>11, <2>2, <3>1 DEF SetupSignal, Complete, SuccessIsComplete
  <2>3. QED
    BY <1>11, <2>1, <2>2 DEF SetupSignal
<1>12. CASE IdentifyInputsOutputs
  <2>1. phase = "identify" /\ phase' = "done" /\ UNCHANGED <<graph, built, created, lost>>
    BY <1>12 DEF IdentifyInputsOutputs, Return
  <2>2. Built' = Built
    BY <1>3, <2>1
  <2>3. QED
    BY <2>1, <2>2 DEF Complete, SuccessIsComplete, Built
<1>13. CASE UNCHANGED setupVars
  <2>1. UNCHANGED <<graph, phase, nodes_list, status, created, built, oom, lost>>
    BY <1>13 DEF setupVars
  <2>2. Orders(graph') = Orders(graph) /\ Node' = Node
    BY <2>1 DEF Node, NodesOf
  <2>3. QED
    BY <2>1, <2>2 DEF Complete, SuccessIsComplete, Built
<1>14. QED
  BY <1>4, <1>5, <1>6, <1>7, <1>8, <1>9, <1>10, <1>11, <1>12, <1>13 DEF SetupStep

\* Outside fast mode no operation is computed before the precision of its tensors
\* is set, whatever the order, and in graphs in which nodes are gone.
THEOREM PrecisionComesFirst == Spec => []PrecisionBeforeCompute
<1>1. Init => Precise
  BY DEF Init, Precise
<1>2. IInv /\ Precise => PrecisionBeforeCompute
  <2> SUFFICES ASSUME IInv, Precise, AtNode("compute"), ~graph.isAllowFastMode
               PROVE  IO(Current) \subseteq precise
    BY DEF PrecisionBeforeCompute, IO
  <2>1. /\ phase = "compute" /\ pos \in Node /\ Current = nodes_list[pos]
        /\ nodes_list[pos] \notin graph.missing
    BY Types DEF AtNode, Current, Node, NodesOf
  <2>2. \A j \in 0 .. pos : j = pos \/ j \in 0 .. pos - 1
    BY Types
  <2>3. Reached(pos)
    BY <2>1, <2>2 DEF Reached, Precise
  <2>4. QED
    BY <2>1, <2>3 DEF Precise
<1>3. QED
  BY <1>1, <1>2, InitInvariant, StepKeeps, PreciseStep, PTL DEF Spec

\* A set-up that returns VSI_SUCCESS has built every node, but for the cases in which it
\* found no order, or a node was gone; an output that is not there then was lost when its
\* node was computed.
THEOREM SuccessMeansComplete == Spec => []SuccessIsComplete
<1>1. Init => Complete
  BY DEF Init, Complete, SuccessIsComplete
<1>2. Complete => SuccessIsComplete
  BY DEF Complete
<1>3. QED
  BY <1>1, <1>2, InitInvariant, StepKeeps, CompleteStep, PTL DEF Spec

-----------------------------------------------------------------------------
\* GraphImpl.

\* Where a thread can only be when the set-up, or the verification, is over.
AfterSetupPC == {"setupDone", "verify", "inVerify", "compiled", "processing", "generating"}
AfterVerifyPC == {"compiled", "processing"}

ThreadsTyped ==
  /\ {setio_once, setup_once, verify_once} \subseteq {"no", "busy", "done"}
  /\ tpc \in [Thread -> TPC] /\ call \in [Thread -> Call]
  /\ tstatus \in [Thread -> BOOLEAN] /\ calls \in [Thread -> 0 .. MaxCalls]
  /\ verified \in {"none", "ok", "failed"} /\ verifier \subseteq Thread

\* Nobody has touched the set-up before its once_flag is taken.
Untouched ==
  setup_once = "no" =>
    phase = "optimize" /\ nodes_list = <<>> /\ pos = 0 /\ status = "failure"

\* A flag is busy while one thread runs the body, and a thread is past the
\* call_once only when the flag is done.
SetupFlag ==
  \A t \in Thread :
    /\ tpc[t] = "inSetup" =>
         setup_once = "busy" /\ \A u \in Thread : tpc[u] = "inSetup" => u = t
    /\ tpc[t] \in AfterSetupPC => setup_once = "done"
VerifyFlag ==
  \A t \in Thread :
    /\ tpc[t] = "inVerify" =>
         verify_once = "busy" /\ \A u \in Thread : tpc[u] = "inVerify" => u = t
    /\ tpc[t] \in AfterVerifyPC => verify_once = "done"

ImplInv == ThreadsTyped /\ Untouched /\ SetupFlag /\ VerifyFlag

-----------------------------------------------------------------------------

LEMMA ImplInitInvariant == ImplInit => ImplInv
<1> SUFFICES ASSUME ImplInit PROVE ImplInv
  OBVIOUS
<1>1. \A t \in Thread : tpc[t] = "idle"
  BY DEF ImplInit
<1>2. ThreadsTyped
  BY CallsAssumption DEF ImplInit, ThreadsTyped, TPC, Call
<1>3. Untouched
  BY DEF ImplInit, Init, Untouched
<1>4. SetupFlag /\ VerifyFlag
  BY <1>1 DEF SetupFlag, VerifyFlag, AfterSetupPC, AfterVerifyPC
<1>5. QED
  BY <1>2, <1>3, <1>4 DEF ImplInv

\* The flags after one thread has moved, said of the place it moved to.
LEMMA SetupFlagMoves ==
  ASSUME ImplInv, NEW t \in Thread, NEW p \in TPC, Goto(t, p),
         p = "inSetup" => setup_once' = "busy" /\ \A u \in Thread : tpc[u] # "inSetup",
         p \in AfterSetupPC => setup_once' = "done",
         setup_once' = setup_once \/ setup_once = "no" \/ tpc[t] = "inSetup",
         setup_once' # setup_once /\ tpc[t] = "inSetup" => p # "inSetup"
  PROVE  SetupFlag'
<1>1. tpc \in [Thread -> TPC] /\ SetupFlag
  BY DEF ImplInv, ThreadsTyped
<1>2. tpc' = [tpc EXCEPT ![t] = p]
  BY DEF Goto
<1>3. tpc'[t] = p /\ \A u \in Thread \ {t} : tpc'[u] = tpc[u]
  BY <1>1, <1>2
<1>4. ASSUME NEW u \in Thread, tpc'[u] = "inSetup"
      PROVE  setup_once' = "busy" /\ \A v \in Thread : tpc'[v] = "inSetup" => v = u
  <2>1. CASE u = t
    BY <1>3, <1>4, <2>1
  <2>2. CASE u # t
    <3>1. tpc[u] = "inSetup" /\ setup_once = "busy"
          /\ (\A v \in Thread : tpc[v] = "inSetup" => v = u)
      BY <1>1, <1>3, <1>4, <2>2 DEF SetupFlag
    <3>2. p # "inSetup" /\ setup_once' = setup_once
      BY <2>2, <3>1
    <3>3. QED
      BY <1>3, <3>1, <3>2
  <2>3. QED
    BY <2>1, <2>2
<1>5. ASSUME NEW u \in Thread, tpc'[u] \in AfterSetupPC
      PROVE  setup_once' = "done"
  <2>1. CASE u = t
    BY <1>3, <1>5, <2>1
  <2>2. CASE u # t
    <3>1. setup_once = "done"
      BY <1>1, <1>3, <1>5, <2>2 DEF SetupFlag
    <3>2. tpc[t] # "inSetup"
      BY <1>1, <3>1 DEF SetupFlag
    <3>3. QED
      BY <3>1, <3>2
  <2>3. QED
    BY <2>1, <2>2
<1>6. QED
  BY <1>4, <1>5 DEF SetupFlag

LEMMA VerifyFlagMoves ==
  ASSUME ImplInv, NEW t \in Thread, NEW p \in TPC, Goto(t, p),
         p = "inVerify" => verify_once' = "busy" /\ \A u \in Thread : tpc[u] # "inVerify",
         p \in AfterVerifyPC => verify_once' = "done",
         verify_once' = verify_once \/ verify_once = "no" \/ tpc[t] = "inVerify",
         verify_once' # verify_once /\ tpc[t] = "inVerify" => p # "inVerify"
  PROVE  VerifyFlag'
<1>1. tpc \in [Thread -> TPC] /\ VerifyFlag
  BY DEF ImplInv, ThreadsTyped
<1>2. tpc' = [tpc EXCEPT ![t] = p]
  BY DEF Goto
<1>3. tpc'[t] = p /\ \A u \in Thread \ {t} : tpc'[u] = tpc[u]
  BY <1>1, <1>2
<1>4. ASSUME NEW u \in Thread, tpc'[u] = "inVerify"
      PROVE  verify_once' = "busy" /\ \A v \in Thread : tpc'[v] = "inVerify" => v = u
  <2>1. CASE u = t
    BY <1>3, <1>4, <2>1
  <2>2. CASE u # t
    <3>1. tpc[u] = "inVerify" /\ verify_once = "busy"
          /\ (\A v \in Thread : tpc[v] = "inVerify" => v = u)
      BY <1>1, <1>3, <1>4, <2>2 DEF VerifyFlag
    <3>2. p # "inVerify" /\ verify_once' = verify_once
      BY <2>2, <3>1
    <3>3. QED
      BY <1>3, <3>1, <3>2
  <2>3. QED
    BY <2>1, <2>2
<1>5. ASSUME NEW u \in Thread, tpc'[u] \in AfterVerifyPC
      PROVE  verify_once' = "done"
  <2>1. CASE u = t
    BY <1>3, <1>5, <2>1
  <2>2. CASE u # t
    <3>1. verify_once = "done"
      BY <1>1, <1>3, <1>5, <2>2 DEF VerifyFlag
    <3>2. tpc[t] # "inVerify"
      BY <1>1, <3>1 DEF VerifyFlag
    <3>3. QED
      BY <3>1, <3>2
  <2>3. QED
    BY <2>1, <2>2
<1>6. QED
  BY <1>4, <1>5 DEF VerifyFlag

-----------------------------------------------------------------------------

\* What the flags demand of a step that moves thread t to p.
SetupFlagAllows(t, p) ==
  \/ setup_once' = setup_once /\ p \notin {"inSetup"} \cup AfterSetupPC
  \/ setup_once' = "done" /\ p \in AfterSetupPC /\ tpc[t] = "inSetup"
  \/ setup_once' = setup_once /\ setup_once = "done" /\ p \in AfterSetupPC
  \/ setup_once' = "busy" /\ p = "inSetup" /\ setup_once = "no"
VerifyFlagAllows(t, p) ==
  \/ verify_once' = verify_once /\ p \notin {"inVerify"} \cup AfterVerifyPC
  \/ verify_once' = "done" /\ p = "compiled" /\ tpc[t] = "inVerify"
  \/ verify_once' = verify_once /\ verify_once = "done" /\ p \in AfterVerifyPC
  \/ verify_once' = "busy" /\ p = "inVerify" /\ verify_once = "no"

\* The part of the types that no flag is concerned with.
RestTyped ==
  /\ setio_once \in {"no", "busy", "done"}
  /\ call \in [Thread -> Call] /\ calls \in [Thread -> 0 .. MaxCalls]
  /\ tstatus \in [Thread -> BOOLEAN]
  /\ verified \in {"none", "ok", "failed"} /\ verifier \subseteq Thread

\* A step keeps the invariant when it moves one thread to p as the flags demand.
LEMMA Moves ==
  ASSUME ImplInv, NEW t \in Thread, NEW p \in TPC, Goto(t, p),
         SetupFlagAllows(t, p), VerifyFlagAllows(t, p), RestTyped', Untouched'
  PROVE  ImplInv'
<1>1. tpc' \in [Thread -> TPC]
  BY DEF Goto, ImplInv, ThreadsTyped
<1>2. setup_once' \in {"no", "busy", "done"} /\ verify_once' \in {"no", "busy", "done"}
  BY DEF ImplInv, ThreadsTyped, SetupFlagAllows, VerifyFlagAllows
<1>3. ThreadsTyped'
  BY <1>1, <1>2 DEF ThreadsTyped, RestTyped
<1>4. "inSetup" \notin AfterSetupPC /\ "inVerify" \notin AfterVerifyPC
      /\ "compiled" \in AfterVerifyPC
  BY DEF AfterSetupPC, AfterVerifyPC
<1>5. setup_once = "no" => \A u \in Thread : tpc[u] # "inSetup"
  BY DEF ImplInv, SetupFlag
<1>6. verify_once = "no" => \A u \in Thread : tpc[u] # "inVerify"
  BY DEF ImplInv, VerifyFlag
<1>7. SetupFlag'
  BY <1>4, <1>5, SetupFlagMoves DEF SetupFlagAllows
<1>8. VerifyFlag'
  BY <1>4, <1>6, VerifyFlagMoves DEF VerifyFlagAllows
<1>9. QED
  BY <1>3, <1>7, <1>8 DEF ImplInv

\* What ImplInv says of the types, one fact at a time.
LEMMA ThreadTypes ==
  ASSUME ImplInv
  PROVE  /\ setio_once \in {"no", "busy", "done"}
         /\ tpc \in [Thread -> TPC] /\ call \in [Thread -> Call]
         /\ tstatus \in [Thread -> BOOLEAN] /\ calls \in [Thread -> 0 .. MaxCalls]
         /\ verified \in {"none", "ok", "failed"} /\ verifier \subseteq Thread
BY DEF ImplInv, ThreadsTyped

LEMMA UntouchedStays ==
  ASSUME ImplInv, setup_once' = "no" => setup_once = "no" /\ UNCHANGED setupVars
  PROVE  Untouched'
BY DEF ImplInv, Untouched, setupVars

LEMMA StatusTyped ==
  ASSUME ImplInv, NEW t \in Thread, NEW ok \in BOOLEAN,
         tstatus' = [tstatus EXCEPT ![t] = ok]
  PROVE  tstatus' \in [Thread -> BOOLEAN]
BY ThreadTypes

-----------------------------------------------------------------------------

LEMMA BeginKeeps == ASSUME ImplInv, NEW t \in Thread, Begin(t) PROVE ImplInv'
<1>1. /\ Goto(t, "setio") /\ UNCHANGED <<setupVars, onceVars, verified>>
      /\ calls' = [calls EXCEPT ![t] = @ + 1] /\ calls[t] < MaxCalls
      /\ tstatus' = [tstatus EXCEPT ![t] = TRUE] /\ verifier' = verifier \ {t}
      /\ \E c \in Call : call' = [call EXCEPT ![t] = c]
  BY DEF Begin
<1>2. call' \in [Thread -> Call]
  BY <1>1, ThreadTypes
<1>3. calls' \in [Thread -> 0 .. MaxCalls]
  BY <1>1, ThreadTypes, CallsAssumption
<1>4. tstatus' \in [Thread -> BOOLEAN]
  BY <1>1, StatusTyped
<1>5. setup_once' = setup_once /\ verify_once' = verify_once /\ setio_once' = setio_once
  BY <1>1 DEF onceVars
<1>6. Untouched'
  BY <1>1, <1>5, UntouchedStays
<1>7. "setio" \in TPC /\ SetupFlagAllows(t, "setio") /\ VerifyFlagAllows(t, "setio")
  BY <1>5 DEF TPC, AfterSetupPC, AfterVerifyPC, SetupFlagAllows, VerifyFlagAllows
<1>8. RestTyped'
  BY <1>1, <1>2, <1>3, <1>4, <1>5, ThreadTypes DEF RestTyped
<1>9. QED
  BY <1>1, <1>6, <1>7, <1>8, Moves

LEMMA SetIOKeeps == ASSUME ImplInv, NEW t \in Thread, SetIO(t) PROVE ImplInv'
<1>1. /\ Goto(t, "setup") /\ setio_once' = "done"
      /\ UNCHANGED <<setupVars, setup_once, verify_once, call, calls, historyVars>>
      /\ tstatus' = tstatus \/ \E ok \in BOOLEAN : tstatus' = [tstatus EXCEPT ![t] = ok]
  BY DEF SetIO
<1>2. tstatus' \in [Thread -> BOOLEAN]
  BY <1>1, StatusTyped, ThreadTypes
<1>3. Untouched'
  BY <1>1, UntouchedStays
<1>4. "setup" \in TPC /\ SetupFlagAllows(t, "setup") /\ VerifyFlagAllows(t, "setup")
  BY <1>1 DEF TPC, AfterSetupPC, AfterVerifyPC, SetupFlagAllows, VerifyFlagAllows
<1>5. RestTyped'
  BY <1>1, <1>2, ThreadTypes DEF RestTyped, historyVars
<1>6. QED
  BY <1>1, <1>3, <1>4, <1>5, Moves

LEMMA EnterSetupKeeps == ASSUME ImplInv, NEW t \in Thread, EnterSetup(t) PROVE ImplInv'
<1>1. /\ setup_once = "no" /\ setup_once' = "busy" /\ Goto(t, "inSetup")
      /\ UNCHANGED <<setio_once, verify_once, call, tstatus, calls, historyVars>>
  BY DEF EnterSetup, MayEnterSetup
<1>2. Untouched'
  BY <1>1, UntouchedStays
<1>3. "inSetup" \in TPC /\ SetupFlagAllows(t, "inSetup") /\ VerifyFlagAllows(t, "inSetup")
  BY <1>1 DEF TPC, AfterVerifyPC, SetupFlagAllows, VerifyFlagAllows
<1>4. RestTyped'
  BY <1>1, ThreadTypes DEF RestTyped, historyVars
<1>5. QED
  BY <1>1, <1>2, <1>3, <1>4, Moves

\* A step inside the body moves no thread and touches no flag.
LEMMA SetupProgressKeeps ==
  ASSUME ImplInv, NEW t \in Thread, SetupProgress(t) PROVE ImplInv'
<1>1. setup_once = "busy" /\ UNCHANGED <<onceVars, threadVars, historyVars>>
  BY DEF SetupProgress, ImplInv, SetupFlag
<1>2. UNCHANGED <<setio_once, setup_once, verify_once, tpc, call, tstatus, calls, verified,
                  verifier>>
  BY <1>1 DEF onceVars, threadVars, historyVars
<1>3. Untouched'
  BY <1>1, <1>2 DEF Untouched
<1>4. ThreadsTyped' /\ SetupFlag' /\ VerifyFlag'
  BY <1>2 DEF ImplInv, ThreadsTyped, SetupFlag, VerifyFlag
<1>5. QED
  BY <1>3, <1>4 DEF ImplInv

LEMMA LeaveSetupKeeps == ASSUME ImplInv, NEW t \in Thread, LeaveSetup(t) PROVE ImplInv'
<1>1. /\ tpc[t] = "inSetup" /\ setup_once' = "done" /\ Goto(t, "setupDone")
      /\ tstatus' = [tstatus EXCEPT ![t] = status = "success"]
      /\ UNCHANGED <<setupVars, setio_once, verify_once, call, calls, historyVars>>
  BY DEF LeaveSetup
<1>2. tstatus' \in [Thread -> BOOLEAN]
  BY <1>1, StatusTyped
<1>3. Untouched'
  BY <1>1, UntouchedStays
<1>4. "setupDone" \in TPC /\ SetupFlagAllows(t, "setupDone")
      /\ VerifyFlagAllows(t, "setupDone")
  BY <1>1 DEF TPC, AfterSetupPC, AfterVerifyPC, SetupFlagAllows, VerifyFlagAllows
<1>5. RestTyped'
  BY <1>1, <1>2, ThreadTypes DEF RestTyped, historyVars
<1>6. QED
  BY <1>1, <1>3, <1>4, <1>5, Moves

\* The steps that only move a thread, to a place past the set-up or to the end.
LEMMA PlainMoveKeeps ==
  ASSUME ImplInv, NEW t \in Thread, NEW p \in TPC, Goto(t, p),
         UNCHANGED <<setupVars, onceVars, call, calls, historyVars>>,
         tstatus' \in [Thread -> BOOLEAN],
         p \in AfterSetupPC => setup_once = "done",
         p \in AfterVerifyPC => verify_once = "done",
         p \notin {"inSetup", "inVerify"}
  PROVE  ImplInv'
<1>1. UNCHANGED <<setio_once, setup_once, verify_once, verified, verifier>>
  BY DEF onceVars, historyVars
<1>2. Untouched'
  BY <1>1, UntouchedStays
<1>3. RestTyped'
  BY <1>1, ThreadTypes DEF RestTyped
<1>4. SetupFlagAllows(t, p) /\ VerifyFlagAllows(t, p)
  BY <1>1 DEF SetupFlagAllows, VerifyFlagAllows
<1>5. QED
  BY <1>1, <1>2, <1>3, <1>4, Moves

LEMMA SkipSetupKeeps == ASSUME ImplInv, NEW t \in Thread, SkipSetup(t) PROVE ImplInv'
<1>1. /\ setup_once = "done" /\ Goto(t, "setupDone")
      /\ UNCHANGED <<setupVars, onceVars, call, tstatus, calls, historyVars>>
  BY DEF SkipSetup, SetupPassable
<1>2. "setupDone" \in TPC /\ "setupDone" \notin AfterVerifyPC \cup {"inSetup", "inVerify"}
  BY DEF TPC, AfterVerifyPC
<1>3. tstatus' \in [Thread -> BOOLEAN]
  BY <1>1, ThreadTypes
<1>4. QED
  BY <1>1, <1>2, <1>3, PlainMoveKeeps

LEMMA AfterSetupKeeps == ASSUME ImplInv, NEW t \in Thread, AfterSetup(t) PROVE ImplInv'
<1>1. PICK p \in {"verify", "generating", "returned"} : Goto(t, p)
  BY DEF AfterSetup
<1>2. tpc[t] = "setupDone"
      /\ UNCHANGED <<setupVars, onceVars, call, tstatus, calls, historyVars>>
  BY DEF AfterSetup
<1>3. setup_once = "done"
  BY <1>2 DEF ImplInv, SetupFlag, AfterSetupPC
<1>4. p \in TPC /\ p \notin AfterVerifyPC \cup {"inSetup", "inVerify"}
  BY DEF TPC, AfterVerifyPC
<1>5. tstatus' \in [Thread -> BOOLEAN]
  BY <1>2, ThreadTypes
<1>6. QED
  BY <1>1, <1>2, <1>3, <1>4, <1>5, PlainMoveKeeps

LEMMA EnterVerifyKeeps == ASSUME ImplInv, NEW t \in Thread, EnterVerify(t) PROVE ImplInv'
<1>1. /\ tpc[t] = "verify" /\ verify_once = "no" /\ verify_once' = "busy"
      /\ Goto(t, "inVerify")
      /\ UNCHANGED <<setupVars, setio_once, setup_once, call, tstatus, calls, historyVars>>
  BY DEF EnterVerify
<1>2. setup_once = "done"
  BY <1>1 DEF ImplInv, SetupFlag, AfterSetupPC
<1>3. Untouched'
  BY <1>1, UntouchedStays
<1>4. "inVerify" \in TPC /\ SetupFlagAllows(t, "inVerify") /\ VerifyFlagAllows(t, "inVerify")
  BY <1>1, <1>2 DEF TPC, AfterSetupPC, SetupFlagAllows, VerifyFlagAllows
<1>5. RestTyped'
  BY <1>1, ThreadTypes DEF RestTyped, historyVars
<1>6. QED
  BY <1>1, <1>3, <1>4, <1>5, Moves

LEMMA LeaveVerifyKeeps == ASSUME ImplInv, NEW t \in Thread, LeaveVerify(t) PROVE ImplInv'
<1>1. /\ tpc[t] = "inVerify" /\ verify_once' = "done" /\ Goto(t, "compiled")
      /\ \E ok \in BOOLEAN : tstatus' = [tstatus EXCEPT ![t] = ok]
      /\ verified' \in {"ok", "failed"} /\ verifier' = verifier \cup {t}
      /\ UNCHANGED <<setupVars, setio_once, setup_once, call, calls>>
  BY DEF LeaveVerify, VerifyStatus
<1>2. setup_once = "done"
  BY <1>1 DEF ImplInv, SetupFlag, AfterSetupPC
<1>3. Untouched'
  BY <1>1, UntouchedStays
<1>4. "compiled" \in TPC /\ SetupFlagAllows(t, "compiled") /\ VerifyFlagAllows(t, "compiled")
  BY <1>1, <1>2 DEF TPC, AfterSetupPC, SetupFlagAllows, VerifyFlagAllows
<1>5. tstatus' \in [Thread -> BOOLEAN]
  BY <1>1, StatusTyped
<1>6. RestTyped'
  BY <1>1, <1>5, ThreadTypes DEF RestTyped
<1>7. QED
  BY <1>1, <1>3, <1>4, <1>6, Moves

LEMMA SkipVerifyKeeps == ASSUME ImplInv, NEW t \in Thread, SkipVerify(t) PROVE ImplInv'
<1>1. /\ tpc[t] = "verify" /\ verify_once = "done" /\ Goto(t, "compiled")
      /\ UNCHANGED <<setupVars, onceVars, call, tstatus, calls, historyVars>>
  BY DEF SkipVerify
<1>2. setup_once = "done"
  BY <1>1 DEF ImplInv, SetupFlag, AfterSetupPC
<1>3. "compiled" \in TPC /\ "compiled" \notin {"inSetup", "inVerify"}
  BY DEF TPC
<1>4. tstatus' \in [Thread -> BOOLEAN]
  BY <1>1, ThreadTypes
<1>5. QED
  BY <1>1, <1>2, <1>3, <1>4, PlainMoveKeeps

LEMMA AfterCompileKeeps == ASSUME ImplInv, NEW t \in Thread, AfterCompile(t) PROVE ImplInv'
<1>1. PICK p \in {"processing", "returned"} : Goto(t, p)
  BY DEF AfterCompile
<1>2. tpc[t] = "compiled"
      /\ UNCHANGED <<setupVars, onceVars, call, tstatus, calls, historyVars>>
  BY DEF AfterCompile
<1>3. setup_once = "done" /\ verify_once = "done"
  BY <1>2 DEF ImplInv, SetupFlag, AfterSetupPC, VerifyFlag, AfterVerifyPC
<1>4. p \in TPC /\ p \notin {"inSetup", "inVerify"}
  BY DEF TPC
<1>5. tstatus' \in [Thread -> BOOLEAN]
  BY <1>2, ThreadTypes
<1>6. QED
  BY <1>1, <1>2, <1>3, <1>4, <1>5, PlainMoveKeeps

LEMMA FinishKeeps == ASSUME ImplInv, NEW t \in Thread, Finish(t) PROVE ImplInv'
<1>1. /\ Goto(t, "returned") /\ \E ok \in BOOLEAN : tstatus' = [tstatus EXCEPT ![t] = ok]
      /\ UNCHANGED <<setupVars, onceVars, call, calls, historyVars>>
  BY DEF Finish
<1>2. "returned" \in TPC
      /\ "returned" \notin AfterSetupPC \cup AfterVerifyPC \cup {"inSetup", "inVerify"}
  BY DEF TPC, AfterSetupPC, AfterVerifyPC
<1>3. tstatus' \in [Thread -> BOOLEAN]
  BY <1>1, StatusTyped
<1>4. QED
  BY <1>1, <1>2, <1>3, PlainMoveKeeps

\* Every step keeps the invariant, action by action.
LEMMA ImplStepKeeps == ImplInv /\ [ImplNext]_implVars => ImplInv'
<1> SUFFICES ASSUME ImplInv, [ImplNext]_implVars PROVE ImplInv'
  OBVIOUS
<1>1. ASSUME NEW t \in Thread, Begin(t) \/ InCall(t) PROVE ImplInv'
  BY <1>1, BeginKeeps, SetIOKeeps, EnterSetupKeeps, SetupProgressKeeps, LeaveSetupKeeps,
     SkipSetupKeeps, AfterSetupKeeps, EnterVerifyKeeps, LeaveVerifyKeeps, SkipVerifyKeeps,
     AfterCompileKeeps, FinishKeeps DEF InCall
<1>2. CASE UNCHANGED implVars
  <2>1. UNCHANGED <<phase, nodes_list, pos, status, setio_once, setup_once, verify_once, tpc,
                    call, tstatus, calls, verified, verifier>>
    BY <1>2 DEF implVars, setupVars, onceVars, threadVars, historyVars
  <2>2. QED
    BY <2>1 DEF ImplInv, ThreadsTyped, Untouched, SetupFlag, VerifyFlag
<1>3. QED
  BY <1>1, <1>2 DEF ImplNext

\* The inductive invariant of the calls.
THEOREM ImplInvariant == ImplSpec => []ImplInv
<1>1. QED
  BY ImplInitInvariant, ImplStepKeeps, PTL DEF ImplSpec

-----------------------------------------------------------------------------

\* However many threads compile, export and run a graph, and however often, one
\* thread at a time is in each body, and nobody verifies, runs or exports a graph
\* that is being set up.
THEOREM PhasesNeverMeet == ImplSpec => []PhasesApart
<1>1. ImplInv => PhasesApart
  BY DEF ImplInv, SetupFlag, VerifyFlag, AfterSetupPC, AfterVerifyPC, PhasesApart
<1>2. QED
  BY <1>1, ImplInvariant, PTL

\* All calls together are one run of vsi_nn_SetupGraph: each step of a thread is a
\* step of it or leaves the graph alone.
THEOREM OneSetupRun == ImplSpec => OneSetup
<1>1. ImplInit => Init
  BY DEF ImplInit
<1>2. ImplInv /\ [ImplNext]_implVars => [SetupStep]_setupVars
  <2> SUFFICES ASSUME ImplInv, [ImplNext]_implVars PROVE [SetupStep]_setupVars
    OBVIOUS
  <2>1. ASSUME NEW t \in Thread, EnterSetup(t) PROVE UNCHANGED setupVars
    BY <2>1 DEF EnterSetup, MayEnterSetup, ImplInv, Untouched, setupVars
  <2>2. ASSUME NEW t \in Thread, Begin(t) \/ InCall(t), ~EnterSetup(t), ~SetupProgress(t)
        PROVE  UNCHANGED setupVars
    BY <2>2 DEF Begin, InCall, SetIO, LeaveSetup, SkipSetup, AfterSetup, EnterVerify,
       LeaveVerify, SkipVerify, AfterCompile, Finish
  <2>3. ASSUME NEW t \in Thread, SetupProgress(t) PROVE SetupStep
    BY <2>3 DEF SetupProgress
  <2>4. UNCHANGED implVars => UNCHANGED setupVars
    BY DEF implVars
  <2>5. QED
    BY <2>1, <2>2, <2>3, <2>4 DEF ImplNext, InCall
<1>3. QED
  BY <1>1, <1>2, ImplInvariant, PTL DEF ImplSpec, OneSetup, Spec

\* The types, those of the set-up included.
THEOREM ImplTypeCorrect == ImplSpec => []ImplTypeOK
<1>1. ImplInv /\ TypeOK => ImplTypeOK
  BY DEF ImplInv, ThreadsTyped, ImplTypeOK
<1>2. ImplSpec => []TypeOK
  BY OneSetupRun, TypeCorrect DEF OneSetup
<1>3. QED
  BY <1>1, <1>2, ImplInvariant, PTL
-----------------------------------------------------------------------------
\* The verdict on the way from vsi_nn_VerifyGraph to the caller.

Verdict ==
  /\ verifier # {} => verify_once = "done"
  /\ \A t \in verifier :
       /\ tpc[t] \in {"compiled", "processing", "returned"}
       /\ tpc[t] = "compiled" => (tstatus[t] <=> verified = "ok")
       /\ tpc[t] = "processing" => verified = "ok" /\ call[t] = "Run"
       /\ tpc[t] = "returned" /\ call[t] = "Compile" => (tstatus[t] <=> verified = "ok")

\* A step of a thread that did not verify the graph is no matter of the verdict.
LEMMA OthersMove ==
  ASSUME ImplInv, Verdict, NEW t \in Thread, NEW p \in TPC, Goto(t, p), t \notin verifier',
         verifier' \subseteq verifier,
         verified' = verified, verify_once' = verify_once \/ verify_once = "no",
         \A u \in Thread \ {t} : call'[u] = call[u] /\ tstatus'[u] = tstatus[u]
  PROVE  Verdict'
<1>1. verifier' \subseteq Thread \ {t} /\ \A u \in Thread \ {t} : tpc'[u] = tpc[u]
  BY ThreadTypes DEF Goto
<1>2. verifier' # {} => verify_once' = "done"
  BY DEF Verdict
<1>3. QED
  BY <1>1, <1>2 DEF Verdict

LEMMA VerdictStep == ImplInv /\ Verdict /\ [ImplNext]_implVars => Verdict'
<1> SUFFICES ASSUME ImplInv, Verdict, [ImplNext]_implVars PROVE Verdict'
  OBVIOUS
<1>1. /\ tpc \in [Thread -> TPC] /\ call \in [Thread -> Call] /\ tstatus \in [Thread -> BOOLEAN]
      /\ verifier \subseteq Thread
  BY ThreadTypes
<1>2. ASSUME NEW t \in Thread, tpc[t] \notin {"compiled", "processing", "returned"}
      PROVE  t \notin verifier
  BY <1>2 DEF Verdict
<1>3. ASSUME NEW t \in Thread, Begin(t) PROVE Verdict'
  <2>1. /\ Goto(t, "setio") /\ "setio" \in TPC /\ verifier' = verifier \ {t}
        /\ verified' = verified /\ verify_once' = verify_once
    BY <1>3 DEF Begin, onceVars, TPC
  <2>2. \A u \in Thread \ {t} : call'[u] = call[u] /\ tstatus'[u] = tstatus[u]
    BY <1>1, <1>3 DEF Begin
  <2>3. QED
    BY <2>1, <2>2, OthersMove
<1>4. ASSUME NEW t \in Thread, SetIO(t) PROVE Verdict'
  <2>1. /\ Goto(t, "setup") /\ "setup" \in TPC /\ t \notin verifier
        /\ UNCHANGED <<verifier, verified, verify_once, call>>
    BY <1>2, <1>4 DEF SetIO, historyVars, TPC
  <2>2. \A u \in Thread \ {t} : tstatus'[u] = tstatus[u]
    BY <1>1, <1>4 DEF SetIO
  <2>3. QED
    BY <2>1, <2>2, OthersMove
<1>5. ASSUME NEW t \in Thread, EnterSetup(t) PROVE Verdict'
  <2>1. /\ Goto(t, "inSetup") /\ "inSetup" \in TPC /\ t \notin verifier
        /\ UNCHANGED <<verifier, verified, verify_once, call, tstatus>>
    BY <1>2, <1>5 DEF EnterSetup, historyVars, TPC
  <2>2. QED
    BY <2>1, OthersMove
<1>6. ASSUME NEW t \in Thread, LeaveSetup(t) PROVE Verdict'
  <2>1. /\ Goto(t, "setupDone") /\ "setupDone" \in TPC /\ t \notin verifier
        /\ UNCHANGED <<verifier, verified, verify_once, call>>
    BY <1>2, <1>6 DEF LeaveSetup, historyVars, TPC
  <2>2. \A u \in Thread \ {t} : tstatus'[u] = tstatus[u]
    BY <1>1, <1>6 DEF LeaveSetup
  <2>3. QED
    BY <2>1, <2>2, OthersMove
<1>7. ASSUME NEW t \in Thread, SkipSetup(t) \/ AfterSetup(t) \/ EnterVerify(t) \/ SkipVerify(t)
      PROVE  Verdict'
  <2>1. PICK p \in {"setupDone", "verify", "generating", "returned", "inVerify", "compiled"} :
          Goto(t, p)
    BY <1>7 DEF SkipSetup, AfterSetup, EnterVerify, SkipVerify
  <2>2. /\ p \in TPC /\ t \notin verifier
        /\ UNCHANGED <<verifier, verified, call, tstatus>>
        /\ verify_once' = verify_once \/ verify_once = "no"
    BY <1>2, <1>7 DEF SkipSetup, AfterSetup, EnterVerify, SkipVerify, historyVars, onceVars, TPC
  <2>3. QED
    BY <2>1, <2>2, OthersMove
<1>8. ASSUME NEW t \in Thread, LeaveVerify(t) PROVE Verdict'
  <2>1. verify_once = "busy" /\ verifier = {}
    BY <1>8 DEF LeaveVerify, ImplInv, VerifyFlag, Verdict
  <2>2. verifier' = {t} /\ verify_once' = "done" /\ tpc'[t] = "compiled"
    BY <1>1, <1>8, <2>1 DEF LeaveVerify, Goto
  <2>3. tstatus'[t] <=> verified' = "ok"
    <3>1. PICK ok \in BOOLEAN : /\ verified' = IF ok THEN "ok" ELSE "failed"
                                /\ tstatus' = [tstatus EXCEPT ![t] = ok]
      BY <1>8 DEF LeaveVerify, VerifyStatus
    <3>2. tstatus'[t] = ok
      BY <1>1, <3>1
    <3>3. CASE ok
      BY <3>1, <3>2, <3>3
    <3>4. CASE ~ok
      BY <3>1, <3>2, <3>4
    <3>5. QED
      BY <3>3, <3>4
  <2>4. QED
    BY <2>2, <2>3 DEF Verdict
<1>9. ASSUME NEW t \in Thread, AfterCompile(t) PROVE Verdict'
  <2>1. /\ tpc[t] = "compiled"
        /\ Goto(t, IF call[t] = "Run" /\ tstatus[t] THEN "processing" ELSE "returned")
        /\ UNCHANGED <<verifier, verified, verify_once, call, tstatus>>
    BY <1>9 DEF AfterCompile, historyVars, onceVars
  <2>2. /\ tpc'[t] = IF call[t] = "Run" /\ tstatus[t] THEN "processing" ELSE "returned"
        /\ \A u \in Thread \ {t} : tpc'[u] = tpc[u]
    BY <1>1, <2>1 DEF Goto
  <2>3. ASSUME NEW u \in verifier
        PROVE  /\ tpc'[u] \in {"compiled", "processing", "returned"}
               /\ tpc'[u] = "compiled" => (tstatus[u] <=> verified = "ok")
               /\ tpc'[u] = "processing" => verified = "ok" /\ call[u] = "Run"
               /\ tpc'[u] = "returned" /\ call[u] = "Compile" => (tstatus[u] <=> verified = "ok")
    <3>1. CASE u = t
      BY <2>1, <2>2, <3>1 DEF Verdict
    <3>2. CASE u # t
      BY <1>1, <2>2, <3>2 DEF Verdict
    <3>3. QED
      BY <3>1, <3>2
  <2>4. QED
    BY <2>1, <2>3 DEF Verdict
<1>10. ASSUME NEW t \in Thread, Finish(t) PROVE Verdict'
  <2>1. /\ Goto(t, "returned") /\ tpc[t] \in {"processing", "generating"}
        /\ UNCHANGED <<verifier, verified, verify_once, call>>
    BY <1>10 DEF Finish, historyVars, onceVars
  <2>2. /\ tpc'[t] = "returned" /\ \A u \in Thread \ {t} : tpc'[u] = tpc[u]
    BY <1>1, <2>1 DEF Goto
  <2>3. \A u \in Thread \ {t} : tstatus'[u] = tstatus[u]
    BY <1>1, <1>10 DEF Finish
  <2>4. t \in verifier => call[t] = "Run"
    BY <2>1 DEF Verdict
  <2>5. QED
    BY <1>1, <2>1, <2>2, <2>3, <2>4 DEF Verdict
<1>11. ASSUME UNCHANGED <<tpc, call, tstatus, verified, verifier, verify_once>> PROVE Verdict'
  BY <1>11 DEF Verdict
<1>12. ASSUME NEW t \in Thread, SetupProgress(t) PROVE Verdict'
  BY <1>11, <1>12 DEF SetupProgress, onceVars, threadVars, historyVars
<1>13. CASE UNCHANGED implVars
  BY <1>11, <1>13 DEF implVars, onceVars, threadVars, historyVars
<1>14. QED
  BY <1>3, <1>4, <1>5, <1>6, <1>7, <1>8, <1>9, <1>10, <1>12, <1>13 DEF ImplNext, InCall

\* The thread in whose call the graph was verified reports what vsi_nn_VerifyGraph
\* said, whatever the other threads do in between.
THEOREM VerdictIsReported == ImplSpec => []VerifierReports
<1>1. ImplInit => Verdict
  BY DEF ImplInit, Verdict
<1>2. Verdict => VerifierReports
  BY DEF Verdict, VerifierReports
<1>3. QED
  BY <1>1, <1>2, ImplInitInvariant, ImplStepKeeps, VerdictStep, PTL DEF ImplSpec
====
