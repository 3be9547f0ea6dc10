---- MODULE GraphSetup ----
(***************************************************************************)
(* vsi_nn_SetupGraph: one call, from the optimisation of the graph to the  *)
(* identification of its inputs and outputs.  The passes over the node     *)
(* list are explored node by node, with every early return; the sort of    *)
(* the list is the answer Sorter promises.                                 *)
(*                                                                         *)
(* A tensor is shaped when its dimensions are known and created when its   *)
(* vx tensor exists; a node is built when its vx node exists.              *)
(***************************************************************************)
EXTENDS TopologicalOrder

CONSTANTS Tensor,  \* tensor ids
          Graphs   \* the graphs that may be set up

\* Beyond what the sort looks at: the nodes whose operation is NBG, the tensors
\* whose dimensions the user gave, and the graph's fast mode.
IsGraph(g) ==
  /\ g.node_num \in Nat
  /\ g.missing \subseteq 0 .. g.node_num - 1
  /\ g.nbg \subseteq 0 .. g.node_num - 1
  /\ g.constants \subseteq Tensor
  /\ g.input \subseteq Tensor
  /\ g.declared \subseteq Tensor
  /\ g.inputs \in [0 .. g.node_num - 1 -> SUBSET Tensor]
  /\ g.outputs \in [0 .. g.node_num - 1 -> SUBSET Tensor]
  /\ g.isAllowFastMode \in BOOLEAN

ASSUME GraphsAssumption == \A g \in Graphs : IsGraph(g)

VARIABLES
  graph, sort,  \* the arguments
  phase,        \* the pass that is running
  nodes_list,   \* the order of the passes; <<>> before it is known
  pos,          \* nodes the running pass has visited
  status,       \* the vsi_status to be returned
  shaped, created, precise,  \* tensors: dimensions, vx tensor, precision set
  built,        \* nodes whose vx node exists
  oom,          \* history: whether a malloc failed
  lost          \* history: outputs without a vx tensor though their node is built

setupVars == <<graph, sort, phase, nodes_list, pos, status, shaped, created,
               precise, built, oom, lost>>

Node == NodesOf(graph)
Given == GivenTo(graph)

\* Node ids are given in the order in which nodes are added.
AddOrder == [n \in Node |-> n]

\* mutant: the precision is set after compute_node only
PassAfter_LatePrecision ==
  [setup |-> "backward", backward |-> "forward", forward |-> "compute",
   precision |-> "compute", compute |-> "precisionAgain", precisionAgain |-> "signal"]

\* The passes over the node list and what follows each.
NodePass == {"setup", "backward", "forward", "precision", "compute", "precisionAgain"}
PassAfter == [setup |-> "backward", backward |-> "forward", forward |-> "precision",
              precision |-> "compute", compute |-> "precisionAgain",
              precisionAgain |-> "signal"]
Phase == {"optimize", "list", "sort", "signal", "identify", "done"} \cup NodePass

\* mutant: the other passes run backward
Current_Reversed == nodes_list[IF phase = "backward" THEN pos ELSE graph.node_num - 1 - pos]

\* The node the running pass looks at.
Current == nodes_list[IF phase = "backward" THEN graph.node_num - 1 - pos ELSE pos]
AtNode(p) ==
  /\ phase = p /\ pos < graph.node_num
  /\ Current \notin graph.missing

\* Without a sort the nodes must have been added in dependency order.
AddedInOrder(g) ==
  \A n \in NodesOf(g) \ g.missing :
    g.inputs[n] \subseteq
      GivenTo(g) \cup g.declared \cup UNION {g.outputs[m] : m \in 0 .. n - 1}

Init ==
  /\ graph \in Graphs
  /\ sort \in BOOLEAN
  /\ sort \/ AddedInOrder(graph)
  /\ phase = "optimize" /\ nodes_list = <<>> /\ pos = 0 /\ status = "failure"
  /\ shaped = Given \cup graph.declared
  /\ created = Given \cup graph.declared
  /\ precise = {} /\ built = {} /\ oom = FALSE /\ lost = {}

\* goto final, or a return, with status s.
Return(s) ==
  /\ phase' = "done"
  /\ status' = s
  /\ UNCHANGED <<graph, sort, nodes_list, pos, shaped, created, precise, built, lost>>

\* The scan of vsi_nn_OptimizeGraph meets a node that is gone before it meets an
\* NBG node.
OptimizeMissesNode ==
  \E n \in graph.missing : \A m \in graph.nbg : m > n

OptimizeGraph ==
  /\ phase = "optimize"
  /\ UNCHANGED oom
  /\ \/ OptimizeMissesNode /\ Return("failure")
     \/ graph.nbg = {} /\ Return("failure")   \* the conversion fails
     \/ /\ ~OptimizeMissesNode
        /\ status' = "success"
        /\ \E dirty \in IF graph.nbg = {} THEN BOOLEAN ELSE {FALSE} :
             phase' = IF sort \/ dirty THEN "sort" ELSE "list"
        /\ UNCHANGED <<graph, sort, nodes_list, pos, shaped, created, precise, built, lost>>

\* malloc of nodes_list fails; the status is that of vsi_nn_OptimizeGraph.
ListAllocationFails ==
  /\ phase \in {"sort", "list"}
  /\ oom' = TRUE
  /\ Return(status)

\* vsi_nn_SortGraphNode returns NULL.
SortFails ==
  /\ phase = "sort"
  /\ \/ oom' = TRUE
     \/ Orders(graph) = {} /\ UNCHANGED oom
  /\ Return(status)

StartPasses(order) ==
  /\ nodes_list' = order
  /\ phase' = "setup" /\ pos' = 0
  /\ UNCHANGED <<graph, sort, status, shaped, created, precise, built, oom, lost>>

\* The order of the passes, and update_max_node_io, which cannot fail.
Sort == phase = "sort" /\ \E order \in Orders(graph) : StartPasses(order)
KeepOrder == phase = "list" /\ StartPasses(AddOrder)

\* mutant: the last node is left out
PassIsOver_OneLess == pos >= graph.node_num - 1

\* A pass ends after the last node, or with "goto final" at a node that is gone;
\* set_graph_precision does nothing in fast mode.
PassIsOver ==
  pos < graph.node_num =>
    \/ Current \in graph.missing
    \/ phase \in {"precision", "precisionAgain"} /\ graph.isAllowFastMode

\* A pass returns; SetupGraph goes on only when its status is VSI_SUCCESS.
EndPass ==
  /\ phase \in NodePass
  /\ PassIsOver
  /\ IF status = "success"
       THEN /\ phase' = PassAfter[phase] /\ pos' = 0
            /\ UNCHANGED <<graph, sort, nodes_list, status, shaped, created, precise, built, lost>>
       ELSE Return(status)
  /\ UNCHANGED oom

\* allocate_io_buffer fails at the start of a pass.
BuffersFail ==
  /\ phase \in NodePass /\ pos = 0
  /\ oom' = TRUE
  /\ Return("failure")

\* mutant: an operation that fails is left out
OperationFails_GoOn ==
  /\ \E p \in {"setup", "backward", "forward", "compute"} : AtNode(p)
  /\ pos' = pos + 1
  /\ UNCHANGED <<graph, sort, phase, nodes_list, status, shaped, created, precise, built, oom, lost>>

\* The operation's check, setup, optimize or compute fails and leaves behind what
\* it, or vsi_nn_TensorReinit before it, has done to tensors of the node.
OperationFails ==
  /\ \E p \in {"setup", "backward", "forward", "compute"} : AtNode(p)
  /\ phase' = "done" /\ status' = "failure"
  /\ \E left \in SUBSET (graph.inputs[Current] \cup graph.outputs[Current]) :
       /\ shaped' = IF phase = "setup" THEN shaped \cup (left \cap graph.outputs[Current])
                    ELSE shaped
       /\ created' = CASE phase = "setup" -> created
                       [] phase = "compute" -> created \cup (left \cap graph.outputs[Current])
                       [] OTHER -> created \cup left
  /\ UNCHANGED <<graph, sort, nodes_list, pos, precise, built, oom, lost>>

\* vsi_nn_OpCheck and vsi_nn_OpGenerateTensor: the outputs get dimensions.
SetupNode ==
  /\ AtNode("setup")
  /\ shaped' = shaped \cup graph.outputs[Current]
  /\ pos' = pos + 1
  /\ UNCHANGED <<graph, sort, phase, nodes_list, status, created, precise, built, oom, lost>>

\* vsi_nn_OpOptimize, which may create tensors of the node as views of others.
OptimizeNode ==
  /\ AtNode("backward") \/ AtNode("forward")
  /\ \E views \in SUBSET (graph.inputs[Current] \cup graph.outputs[Current]) :
       created' = created \cup views
  /\ pos' = pos + 1
  /\ UNCHANGED <<graph, sort, phase, nodes_list, status, shaped, precise, built, oom, lost>>

SetPrecision ==
  /\ AtNode("precision") \/ AtNode("precisionAgain")
  /\ ~graph.isAllowFastMode
  /\ precise' = precise \cup graph.inputs[Current] \cup graph.outputs[Current]
  /\ pos' = pos + 1
  /\ UNCHANGED <<graph, sort, phase, nodes_list, status, shaped, created, built, oom, lost>>

\* The outputs are created with vsi_nn_TensorReinit and the vx node with vsi_nn_OpCompute.
\* What the first returns is ignored, and the second may succeed without an output, as
\* that of a reshape does.  The status that stays is that of vsi_nn_update_node_attr.
ComputeNode ==
  /\ AtNode("compute")
  /\ \E made \in SUBSET graph.outputs[Current] : created' = created \cup made
  /\ lost' = lost \cup (graph.outputs[Current] \ created')
  /\ built' = built \cup {Current}
  /\ status' \in {"success", "failure"}
  /\ pos' = pos + 1
  /\ UNCHANGED <<graph, sort, phase, nodes_list, shaped, precise, oom>>

\* vsi_nn_TrySetupCompleteSignalNode.
SetupSignal ==
  /\ phase = "signal"
  /\ UNCHANGED oom
  /\ \/ Return("failure")
     \/ /\ phase' = "identify"
        /\ UNCHANGED <<graph, sort, nodes_list, pos, status, shaped, created, precise, built, lost>>

\* vsi_nn_setup_binary_graph_inputs_outputs.
IdentifyInputsOutputs ==
  /\ phase = "identify"
  /\ UNCHANGED oom
  /\ Return("success") \/ Return("failure")

SetupStep ==
  \/ OptimizeGraph \/ ListAllocationFails \/ SortFails \/ Sort \/ KeepOrder
  \/ EndPass \/ BuffersFail \/ OperationFails
  \/ SetupNode \/ OptimizeNode \/ SetPrecision \/ ComputeNode
  \/ SetupSignal \/ IdentifyInputsOutputs

Spec == Init /\ [][SetupStep]_setupVars

-----------------------------------------------------------------------------

TypeOK ==
  /\ IsGraph(graph) /\ sort \in BOOLEAN
  /\ phase \in Phase
  /\ nodes_list \in {<<>>} \cup [Node -> Node]
  /\ phase \in NodePass => nodes_list \in [Node -> Node]
  /\ pos \in 0 .. graph.node_num
  /\ status \in {"success", "failure"}
  /\ shaped \subseteq Tensor /\ created \subseteq Tensor /\ precise \subseteq Tensor
  /\ built \subseteq Node
  /\ oom \in BOOLEAN /\ lost \subseteq Tensor

\* The order of the passes serves the operations, whichever order the sort chose, and
\* without a sort when nodes were added in order: shape inference finds every input of a
\* node shaped, and node creation finds every input created.  The exception: a tensor
\* whose producer was built without it, since the failure to create it was ignored.
InputsReady ==
  /\ AtNode("setup") => graph.inputs[Current] \subseteq shaped
  /\ AtNode("compute") => graph.inputs[Current] \subseteq created \cup lost

\* Outside fast mode the precision of a node's tensors is set before its
\* operation is computed, since internal tensors are derived from it.
PrecisionBeforeCompute ==
  AtNode("compute") /\ ~graph.isAllowFastMode =>
    graph.inputs[Current] \cup graph.outputs[Current] \subseteq precise

\* The nodes built so far, after a failure too, are closed under dependencies:
\* every input is given, declared by the user, or written by a built node.
BuiltIsClosed ==
  \A n \in built : \A t \in graph.inputs[n] :
    t \in Given \cup graph.declared \/ \E m \in built : t \in graph.outputs[m]

\* VSI_SUCCESS means that every node is built, with two exceptions: no order was found
\* for the nodes (or no memory for it), and a node is gone.  Every output has its vx
\* tensor then, except the lost ones, which success does not rule out.
SuccessIsComplete ==
  phase = "done" /\ status = "success" =>
    \/ built = Node /\ (\A n \in Node : graph.outputs[n] \subseteq created \cup lost)
    \/ nodes_list = <<>> /\ (oom \/ Orders(graph) = {})
    \/ graph.missing # {}
====
