---- MODULE LayoutInference ----
(***************************************************************************)
(* tim::transform::LayoutInference: a walk over the source graph that      *)
(* builds a second graph whose operations work in the layout of the        *)
(* device, with the transposes that needs.  A step takes a tensor from the *)
(* queue, or looks at one of its consumers.                                *)
(*                                                                         *)
(* The program keeps a permute vector for each tensor of the source graph, *)
(* its belief; lies is how the data of the tensor's counterpart really     *)
(* lies, a permutation of the source tensor's axes, or Garbage once an     *)
(* operation was given data in a layout it does not work in.  Operands of  *)
(* one operation have the same rank here.                                  *)
(*                                                                         *)
(* A handler that has no vector to work from dereferences a null pointer,  *)
(* which ends the program: crashed.                                        *)
(***************************************************************************)
EXTENDS PermuteVector, SequencesExt

CONSTANTS Tensor,     \* tensors of the source graph
          Graphs,     \* the source graphs
          CWHN2WHCN,  \* kCWHN2WHCN
          ConstPerms  \* the vectors by which a constant can be transposed

\* The operands and results each kind of operation has.  A composite one (RNNCell, kind_
\* -1) reads its inputs by way of its parts, which are operations of the graph themselves
\* and have its results.
Fits(g, op) ==
  LET first == op.ins[1]
      Ranks(ts, n) == \A t \in Range(ts) : g.rank[t] = n
      alike == Ranks(op.ins, g.rank[first])
  IN  CASE op.kind \in {"activation", "softmax", "split"} ->
             Len(op.ins) = 1 /\ op.axis <= g.rank[first] /\ Ranks(op.outs, g.rank[first])
        [] op.kind \in {"elementwise", "addn", "concat"} ->
             alike /\ op.axis <= g.rank[first] /\ Ranks(op.outs, g.rank[first])
        [] op.kind = "stack" ->
             alike /\ op.axis \in 1 .. g.rank[first] + 1 /\ Ranks(op.outs, g.rank[first] + 1)
        [] op.kind = "reduce" ->
             /\ Len(op.ins) = 1 /\ op.axis \in 1 .. g.rank[first]
             /\ Ranks(op.outs, IF op.keep_dim THEN g.rank[first] ELSE g.rank[first] - 1)
        [] op.kind = "transpose" ->
             /\ Len(op.ins) = 1 /\ op.perm \in PermuteVectors(g.rank[first])
             /\ Ranks(op.outs, g.rank[first])
        [] op.kind = "conv2d" ->
             /\ Len(op.ins) = 2 /\ op.ins[2] # first
             /\ Ranks(op.ins, 4) /\ op.perm \in PermuteVectors(4) /\ Ranks(op.outs, 4)
        [] op.kind \in {"pool2d", "resize"} -> Len(op.ins) = 1 /\ Ranks(op.ins \o op.outs, 4)
        [] op.kind = "batchnorm" ->
             /\ g.rank[first] = 4 /\ Ranks(op.outs, 4)
             /\ \A t \in Range(op.ins) \ {first} : t \in g.constants /\ g.rank[t] = 1
        [] op.kind = "composite" -> op.outs = <<>>
        [] OTHER -> op.kind = "default"

\* A graph: the rank of each tensor, the inputs, the constants, the outputs, the
\* operations in the order of creation, and the caller's vectors for the inputs
\* (tensor_pv_map).  A tensor is the result of one operation at most; what is read, and
\* is no input and no constant, is a result, as the outputs are; and no operation reads,
\* by way of others, its own result.
Results(g) == UNION {Range(g.ops[o].outs) : o \in DOMAIN g.ops}
IsGraph(g) ==
  /\ g.rank \in [Tensor -> Nat \ {0}]
  /\ g.inputs \in Seq(Tensor)
  /\ g.constants \subseteq Tensor /\ g.outputs \subseteq Tensor
  /\ \A t \in DOMAIN g.tensor_pv_map :
       t \in Range(g.inputs) /\ g.tensor_pv_map[t] \in PermuteVectors(g.rank[t])
  /\ g.ops \in Seq(Range(g.ops)) /\ g.outputs \subseteq Results(g)
  /\ \A S \in SUBSET DOMAIN g.ops : S # {} =>
       \E o \in S : \A other \in S : Range(g.ops[o].ins) \cap Range(g.ops[other].outs) = {}
  /\ \A o \in DOMAIN g.ops : LET op == g.ops[o] IN
       /\ op.ins \in Seq(Tensor) /\ op.ins # <<>> /\ op.outs \in Seq(Tensor)
       /\ op.axis \in Nat /\ op.cwhn \in BOOLEAN /\ op.keep_dim \in BOOLEAN
       /\ Range(op.ins) \subseteq g.constants \cup Range(g.inputs) \cup Results(g)
       /\ Range(op.outs) \cap (Range(op.ins) \cup g.constants) = {}
       /\ \A other \in DOMAIN g.ops \ {o} : Range(op.outs) \cap Range(g.ops[other].outs) = {}
       /\ Fits(g, op)

ASSUME GraphsAssumption ==
  /\ \A g \in Graphs : IsGraph(g)
  /\ CWHN2WHCN \in PermuteVectors(4)

VARIABLES
  src_graph,
  tensor_queue,
  consumers,    \* operations the running iteration has still to look at
  op_visited,
  tensor_pv,    \* tensor_pv_; Unset when there is none
  lies,         \* how the counterpart of a tensor, by tensor_map_, lies
  out_lies,     \* how the data of an output of the new graph lies; Unset if unwritten
  on_output,    \* graph outputs that tensor_map_ maps to the output of the new graph
  slips,        \* history: where a vector was set, or data moved, by another vector
  crashed

vars == <<src_graph, tensor_queue, consumers, op_visited, tensor_pv, lies, out_lies,
          on_output, slips, crashed>>

Garbage == <<0>>
Unset == <<>>

Ops == DOMAIN src_graph.ops
Op(o) == src_graph.ops[o]
IsConst(t) == t \in src_graph.constants
Plain(t) == Aligned(src_graph.rank[t])

\* The operations the walk is to handle.
ToHandle == {o \in Ops : Op(o).kind # "composite"}

\* Some operation reads t.
IsRead(t) == \E o \in Ops : t \in Range(Op(o).ins)

\* Bindings <<operation, place>> in the order of the operations and of their places.
Upto(B, b) == {c \in B : c[1] < b[1] \/ (c[1] = b[1] /\ c[2] <= b[2])}
InOrder(B) == [j \in 1 .. Cardinality(B) |-> CHOOSE b \in B : Cardinality(Upto(B, b)) = j]
InputBindings(g) == UNION {{o} \X DOMAIN g.ops[o].ins : o \in DOMAIN g.ops}

\* GetConsumersOp: an operation is listed once for each time it binds the tensor.
ConsumersOf(t) ==
  LET bound == InOrder({b \in InputBindings(src_graph) : Op(b[1]).ins[b[2]] = t})
  IN  [j \in DOMAIN bound |-> bound[j][1]]

\* The operations that read nothing but constants; the places whose tensors
\* GetConstantInputs takes, of a convolution the data alone; and those tensors.
ReadsConstants(g, o) == Range(g.ops[o].ins) \subseteq g.constants
ConstantInputsTensor(g, o) ==
  CASE ~ReadsConstants(g, o) \/ g.ops[o].kind = "composite" -> {}
    [] ReadsConstants(g, o) /\ g.ops[o].kind = "conv2d" -> {1}
    [] OTHER -> DOMAIN g.ops[o].ins
GetConstantInputs(g) ==
  LET bound == InOrder({b \in InputBindings(g) : b[2] \in ConstantInputsTensor(g, b[1])})
  IN  [j \in DOMAIN bound |-> g.ops[bound[j][1]].ins[bound[j][2]]]

\* Inputs, those constants and outputs have a vector from the start, the caller's or the
\* plain one.
Init ==
  /\ src_graph \in Graphs
  /\ tensor_queue = src_graph.inputs \o GetConstantInputs(src_graph)
  /\ consumers = <<>> /\ op_visited = {} /\ slips = {} /\ crashed = FALSE
  /\ LET known == Range(src_graph.inputs) \cup Range(GetConstantInputs(src_graph))
                    \cup src_graph.outputs
         Given(t) == IF t \in DOMAIN src_graph.tensor_pv_map
                     THEN src_graph.tensor_pv_map[t] ELSE Plain(t)
     IN  /\ tensor_pv = [t \in Tensor |-> IF t \in known THEN Given(t) ELSE Unset]
         /\ lies = [t \in Tensor |->
                      IF t \in Range(src_graph.inputs) THEN Given(t)
                      ELSE IF t \in known THEN Plain(t) ELSE Unset]
  /\ out_lies = [t \in src_graph.outputs |-> Unset]
  /\ on_output = src_graph.outputs

\* The next tensor of the queue.
NextTensor ==
  /\ ~crashed /\ consumers = <<>> /\ tensor_queue # <<>>
  /\ tensor_queue' = Tail(tensor_queue)
  /\ consumers' = ConsumersOf(Head(tensor_queue))
  /\ UNCHANGED <<src_graph, op_visited, tensor_pv, lies, out_lies, on_output, slips, crashed>>

IsReadyForInfer(o) ==
  \A t \in Range(Op(o).ins) : IsConst(t) \/ tensor_pv[t] # Unset

\* The walk has come to o, which is to be handled.
Due(o) ==
  /\ ~crashed /\ consumers # <<>> /\ o = Head(consumers)
  /\ o \in ToHandle \ op_visited /\ IsReadyForInfer(o)

\* A consumer that was visited before, waits for another input or is composite is left
\* out.
SkipConsumer ==
  /\ ~crashed /\ consumers # <<>> /\ ~Due(Head(consumers))
  /\ consumers' = Tail(consumers)
  /\ UNCHANGED <<src_graph, tensor_queue, op_visited, tensor_pv, lies, out_lies,
                 on_output, slips, crashed>>

\* The handler of o has no vector to work from: among constants only there is none to
\* align to, and a constant that is convolved with a variable weight need not have one.
NoVector(o) ==
  \/ Op(o).kind \in {"elementwise", "addn", "concat", "stack"} /\ ReadsConstants(src_graph, o)
  \/ Op(o).kind = "conv2d" /\ tensor_pv[Op(o).ins[1]] = Unset

\* HandleLayoutInfer marks o, and its handler dereferences null.  (Stack reads beyond its
\* operands first.)
Crash == \E o \in Ops :
  /\ Due(o) /\ NoVector(o)
  /\ op_visited' = op_visited \cup {o} /\ crashed' = TRUE
  /\ UNCHANGED <<src_graph, tensor_queue, consumers, tensor_pv, lies, out_lies, on_output, slips>>

-----------------------------------------------------------------------------
\* What handling an operation does to its inputs: a function "use" gives, for the
\* tensors concerned, the vector set and the transpose put before the operation.

\* InsertPermute: data that lies as layout, transposed by p.
Permuted(layout, p) == IF Len(layout) = Len(p) THEN Added(layout, p) ELSE Garbage

\* mutant: the vector is taken as it is
Change_NotReversed(t, p) == Added(tensor_pv[t], p)

\* The transpose from the vector of t to the vector p.
Change(t, p) == Added(Reversed(tensor_pv[t]), p)

\* t is used with the vector p: the counterpart is transposed, or, of a constant, the data
\* is copied into a new one.
Moved(t, p) == [pv |-> p, by |-> Change(t, p), copied |-> FALSE]
Use(t, p) == IF IsConst(t) THEN [pv |-> p, by |-> p, copied |-> TRUE] ELSE Moved(t, p)

\* PermuteConstTensor knows a few vectors, and takes that of CWHN convolutions for
\* every other one; a constant that needs no transpose is copied.
ConstPermutedBy(p) == IF IsAligned(p) \/ p \in ConstPerms THEN p ELSE CWHN2WHCN

LiesWith(use, t) ==
  CASE t \notin DOMAIN use -> lies[t]
    [] t \in DOMAIN use /\ use[t].copied -> Permuted(Plain(t), ConstPermutedBy(use[t].by))
    [] OTHER -> Permuted(lies[t], use[t].by)

\* Inputs that are mapped to another tensor from now on.
Remapped(use) == {t \in DOMAIN use : ~IsConst(t) /\ ~IsAligned(use[t].by)}

\* The operation o, declared with another layout, copies the data of the constant t as it is.
CopiedAsIs(o, t) == Op(o).kind = "batchnorm" /\ Op(o).cwhn /\ t = Op(o).ins[1] /\ IsConst(t)

\* What no vector tells: a constant copied in another way; a transpose or a copy that does
\* not lead to the vector set; and an output of the new graph that nobody has written when
\* a consumer maps it to its own transpose.
SlipsOf(o, use) ==
  {"constant" : t \in {u \in DOMAIN use :
                 CopiedAsIs(o, u) \/ (use[u].copied /\ ConstPermutedBy(use[u].by) # use[u].by)}}
  \cup {"vector" : t \in {u \in DOMAIN use :
                 IF use[u].copied THEN use[u].pv \notin {Unset, use[u].by}
                 ELSE use[u].by # Change(u, use[u].pv)}}
  \cup {"remapped" : t \in {u \in Remapped(use) \cap on_output : out_lies[u] = Unset}}

\* mutant: not for an output that is read as well
Transposed_Unread(t, p) ==
  t \in src_graph.outputs /\ ~IsAligned(p) /\ ~IsRead(t)

\* What handling does to its outputs: p[t] and result[t] are the vector of the result
\* t and how it lies.  CreateOutputsTensor: with a plain vector, the operation writes
\* the tensor a graph output is mapped to.  OnOutputs: with another vector, a new
\* tensor is transposed into the output of the new graph.
Transposed(t, p) == t \in src_graph.outputs /\ ~IsAligned(p)
ResultLies(t, p, result) ==
  CASE Transposed(t, p) -> Permuted(result, Reversed(p))
    [] t \in src_graph.outputs \ on_output /\ IsAligned(p) -> Garbage  \* a second writer
    [] OTHER -> result

\* A graph output that is read again is plain.
ResultVector(t, p) == IF Transposed(t, p) /\ IsRead(t) THEN Plain(t) ELSE p

\* The results of o that are in K, in their order.
ResultsIn(o, K) ==
  LET outs == Op(o).outs
      kept == InOrder({b \in {o} \X DOMAIN outs : outs[b[2]] \in K})
  IN  [j \in DOMAIN kept |-> outs[kept[j][2]]]

\* mutant: outputs of the graph are dropped
NextTensors_NoOutputs(o) == ResultsIn(o, Tensor \ src_graph.outputs)

\* next_tensors: an output of the graph only if it has consumers.
NextTensors(o) == ResultsIn(o, {t \in Tensor : t \notin src_graph.outputs \/ IsRead(t)})

\* HandleLayoutInfer for an operation o whose inputs are used as by use.
Handle(o, use, p, result) ==
  LET outs == Range(Op(o).outs)
  IN  /\ op_visited' = op_visited \cup {o}
      /\ tensor_pv' = [t \in Tensor |-> IF t \in outs THEN ResultVector(t, p[t])
                         ELSE IF t \in DOMAIN use THEN use[t].pv ELSE tensor_pv[t]]
      /\ lies' = [t \in Tensor |-> IF t \in outs THEN ResultLies(t, p[t], result[t])
                    ELSE LiesWith(use, t)]
      /\ out_lies' = [t \in src_graph.outputs |->
                        IF t \in outs /\ (t \in on_output \/ Transposed(t, p[t]))
                        THEN ResultLies(t, p[t], result[t]) ELSE out_lies[t]]
      /\ on_output' = (on_output \ Remapped(use)) \cup {t \in outs : Transposed(t, p[t])}
      /\ slips' = slips \cup SlipsOf(o, use)
      /\ tensor_queue' = tensor_queue \o NextTensors(o)
      /\ consumers' = Tail(consumers)
      /\ UNCHANGED <<src_graph, crashed>>

\* All results alike.
Alike(o, v) == [t \in Range(Op(o).outs) |-> v]

\* The consumer looked at, when it is to be handled and is of the kind.
Handles(o, kind) == Due(o) /\ ~NoVector(o) /\ Op(o).kind = kind

-----------------------------------------------------------------------------
\* The kinds of operation.

\* Data of an operation whose inputs must lie alike, and that works along an axis, if
\* any, of which the new graph is told the place by the vector p.
Together(o, use, axis, p) ==
  LET first == LiesWith(use, Op(o).ins[1])
  IN  IF /\ \A t \in Range(Op(o).ins) : LiesWith(use, t) = first
         /\ first # Garbage
         /\ axis > 0 => first[MapAxis(p, axis)] = axis
      THEN first ELSE Garbage

\* Data of an operation whose input t must lie as p.
Only(use, t, p) == IF LiesWith(use, t) = p THEN p ELSE Garbage

\* The vector goes through: activations; softmax and split, along an axis.
PassThrough(o) ==
  LET p == tensor_pv[Op(o).ins[1]]
  IN  Handle(o, <<>>, Alike(o, p), Alike(o, Together(o, <<>>, Op(o).axis, p)))
Activation == \E o \in Ops : Handles(o, "activation") /\ PassThrough(o)
Softmax == \E o \in Ops : Handles(o, "softmax") /\ PassThrough(o)
Split == \E o \in Ops : Handles(o, "split") /\ PassThrough(o)

\* AlignPermuteVectorForMutilInputs and ...ForElementWise: the vector of the first
\* operand that is no constant.
RequiredVector(o) ==
  LET ins == Op(o).ins
  IN  tensor_pv[ins[CHOOSE i \in DOMAIN ins :
                       ~IsConst(ins[i]) /\ \A k \in 1 .. i - 1 : IsConst(ins[k])]]
Aligning(o) == [t \in Range(Op(o).ins) |-> Use(t, RequiredVector(o))]
Align(o) ==
  LET p == RequiredVector(o)
  IN  Handle(o, Aligning(o), Alike(o, p), Alike(o, Together(o, Aligning(o), Op(o).axis, p)))
ElementWise == \E o \in Ops : Handles(o, "elementwise") /\ Align(o)
AddN == \E o \in Ops : Handles(o, "addn") /\ Align(o)
Concat == \E o \in Ops : Handles(o, "concat") /\ Align(o)

\* Stack tells the new graph its axis as it is.
Stack == \E o \in Ops :
  /\ Handles(o, "stack")
  /\ LET axis == Op(o).axis
         aligned == Together(o, Aligning(o), 0, <<>>)
         Number(a) == IF a < axis THEN a ELSE a + 1
     IN  Handle(o, Aligning(o), Alike(o, Stacked(RequiredVector(o), axis)),
           Alike(o, IF aligned = Garbage THEN Garbage
                    ELSE InsertAt([i \in DOMAIN aligned |-> Number(aligned[i])], axis, axis)))

\* Reduction: without keep_dim an axis that is left gets its number among those left.
Reduce == \E o \in Ops :
  /\ Handles(o, "reduce")
  /\ LET p == tensor_pv[Op(o).ins[1]]
         axis == Op(o).axis
         at == MapAxis(p, axis)
         data == Together(o, <<>>, axis, p)
         Number(a) == Cardinality({b \in Range(data) \ {axis} : b <= a})
     IN  IF Op(o).keep_dim THEN PassThrough(o)
         ELSE Handle(o, <<>>, Alike(o, Reduced(p, {at})),
                Alike(o, IF data = Garbage THEN Garbage
                         ELSE LET left == RemoveAt(data, at)
                              IN  [i \in DOMAIN left |-> Number(left[i])]))

\* A transpose of the source takes in what the layout needs; with nothing left to do
\* it becomes a reshape.  Its result is plain.
Transpose == \E o \in Ops :
  /\ Handles(o, "transpose")
  /\ LET t == Op(o).ins[1]
         moved == Permuted(lies[t], Change(t, Op(o).perm))
         plain == Aligned(Len(Op(o).perm))
     IN  Handle(o, <<>>, Alike(o, plain),
                Alike(o, IF moved = Op(o).perm THEN plain ELSE Garbage))

\* The layout an operation was declared with decides: CWHN data is transposed.
Declared(o) == IF Op(o).cwhn THEN CWHN2WHCN ELSE Aligned(4)

\* Convolution, with the weights transposed from a layout of their own.
Conv2d == \E o \in Ops :
  /\ Handles(o, "conv2d")
  /\ LET input == Op(o).ins[1]
         weight == Op(o).ins[2]
         use == [t \in {input, weight} |->
                   IF t = input THEN Moved(t, Declared(o)) ELSE Use(t, Op(o).perm)]
     IN  Handle(o, use, Alike(o, Declared(o)),
           Alike(o, IF LiesWith(use, weight) = Op(o).perm
                    THEN Only(use, input, Declared(o)) ELSE Garbage))

Pool2d == \E o \in Ops :
  /\ Handles(o, "pool2d")
  /\ LET t == Op(o).ins[1]
         use == [u \in {t} |-> Moved(u, Declared(o))]
     IN  Handle(o, use, Alike(o, Declared(o)), Alike(o, Only(use, t, Declared(o))))

\* Resize gives a tensor it has transposed the vector of the transpose.
ResizeUse(t, p) ==
  [Moved(t, p) EXCEPT !.pv = IF IsAligned(Change(t, p)) THEN p ELSE Change(t, p)]
Resize == \E o \in Ops :
  /\ Handles(o, "resize")
  /\ LET t == Op(o).ins[1]
         use == [u \in {t} |-> ResizeUse(u, Declared(o))]
     IN  Handle(o, use, Alike(o, Declared(o)), Alike(o, Only(use, t, Declared(o))))

\* Batch normalisation transposes by the vector it needs, not by the change to it; a
\* constant, as its parameters are, is copied as it is and keeps its vector.
BatchNormUse(t, p) ==
  IF IsConst(t) THEN [pv |-> tensor_pv[t], by |-> Plain(t), copied |-> TRUE]
  ELSE [Moved(t, p) EXCEPT !.by = IF IsAligned(Change(t, p)) THEN Change(t, p) ELSE p]
BatchNorm == \E o \in Ops :
  /\ Handles(o, "batchnorm")
  /\ LET t == Op(o).ins[1]
         use == [u \in Range(Op(o).ins) |-> BatchNormUse(u, Declared(o))]
     IN  Handle(o, use, Alike(o, Declared(o)), Alike(o, Only(use, t, Declared(o))))

\* Every other operation works in the layout of the source: ReverseInputsPermuteVector.
Default == \E o \in Ops :
  /\ Handles(o, "default")
  /\ LET use == [t \in Range(Op(o).ins) |-> Use(t, Plain(t))]
         plain == [t \in Range(Op(o).outs) |-> Plain(t)]
         ready == \A t \in Range(Op(o).ins) : LiesWith(use, t) = Plain(t)
     IN  Handle(o, use, plain, IF ready THEN plain ELSE Alike(o, Garbage))

Next ==
  \/ NextTensor \/ SkipConsumer \/ Crash
  \/ Activation \/ Softmax \/ Split \/ ElementWise \/ AddN \/ Concat \/ Stack
  \/ Reduce \/ Transpose \/ Conv2d \/ Pool2d \/ Resize \/ BatchNorm \/ Default

Spec == Init /\ [][Next]_vars

\* The function runs until it returns.
FairSpec == Spec /\ WF_vars(Next)

Done == ~crashed /\ tensor_queue = <<>> /\ consumers = <<>>

-----------------------------------------------------------------------------

\* The permute vector of a tensor that is read tells how the data of its counterpart
\* really lies, through every operation, shared input and constant.  The exceptions: a
\* constant transposed by another vector than the one asked for, the vector Resize
\* leaves on its input, the transpose and the copied constant of BatchNorm, and a graph
\* output that a consumer has mapped to its own transpose before it is produced.
VectorsTellLayout ==
  slips = {} =>
    \A t \in Tensor : tensor_pv[t] # Unset /\ IsRead(t) => lies[t] = tensor_pv[t]

\* At the end every output of the new graph is written, with plain data, whatever the
\* order in which consumers and producers were handled, with the same exceptions.
OutputsWritten ==
  Done => \A t \in src_graph.outputs :
    /\ "remapped" \notin slips => out_lies[t] # Unset
    /\ slips = {} => out_lies[t] = Plain(t)

\* No vector can be had for o: it aligns constants only, or convolves a constant with a
\* weight that is none.
Unguided(o) ==
  \/ Op(o).kind \in {"elementwise", "addn", "concat", "stack"} /\ ReadsConstants(src_graph, o)
  \/ Op(o).kind = "conv2d" /\ IsConst(Op(o).ins[1]) /\ ~IsConst(Op(o).ins[2])

\* The walk ends, and every operation of the source has its counterpart, whatever the
\* order in which inputs, constants and shared tensors made it ready: composite ones,
\* of which the parts have theirs, apart, and unless an operation ends the program for
\* which no vector can be had.
EveryOpHandled ==
  <>(\/ Done /\ op_visited = ToHandle
     \/ crashed /\ \E o \in op_visited : Unguided(o))
====
