---- MODULE GraphBuild ----
(***************************************************************************)
(* How an application builds a tim::vx::Graph: tensors, constants that come *)
(* from a cache keyed by their first 512 bytes, operations, and the maps   *)
(* from a tensor to its consumers and its producer that binding keeps up.  *)
(*                                                                         *)
(* The data of a constant is a sequence of chunks of 128 elements, so that *)
(* the part that makes the key depends on the width of an element.  A      *)
(* tensor is its place in tensors; its id in ovxlib is that place as well, *)
(* or NA when ovxlib could not add it.  NA is also the placeholder and its *)
(* id.  inputs_ and outputs_ are the tensors of that attribute in the      *)
(* order of creation, and the counters of those not yet bound feed         *)
(* warnings only: neither is a variable.                                   *)
(***************************************************************************)
EXTENDS Naturals, Sequences, FiniteSets, SequencesExt

CONSTANTS Specs,       \* specifications that tensors are created with
          Quants,      \* quantizations
          Chunk,       \* contents of 128 elements
          Kinds,       \* kinds of operation; "conv" stands for conv2d and fullyconnected
          Arity,       \* inputs an application binds to an operation of a kind
          MaxTensors, MaxOps, MaxWrites, MaxFailures  \* bounds of a run

Bytes(datatype) ==
  CASE datatype \in {"INT8", "UINT8"} -> 1
    [] datatype \in {"FLOAT16", "INT16"} -> 2
    [] datatype \in {"FLOAT32", "INT32"} -> 4

DataType == {"INT8", "UINT8", "FLOAT16", "INT16", "FLOAT32", "INT32"}

\* A specification: attribute, data type, quantization and length in chunks.
Attr == {"CONSTANT", "TRANSIENT", "VARIABLE", "INPUT", "OUTPUT"}
SpecType == [attr : Attr, datatype : DataType, quant : Quants, len : Nat]

ASSUME SpecsAssumption == Specs \subseteq SpecType /\ "NONE" \in Quants

VARIABLES
  tensors,             \* [spec, id, data] of every tensor created
  tensor_placeholder,  \* specification of the placeholder, Unset before it is created
  cached_tensor,       \* from key to tensor
  op_vector,           \* [kind, inputs, node, outputs]; node: the ids ovxlib has
  tensor_consumers,
  tensor_producer,
  \* history
  asked,    \* constants asked for, with the answer, and the data each should hold now
  bound,    \* the tensors an application bound to an operation
  written,  \* constants overwritten by CopyDataToTensor
  unset,    \* constants whose data could not be copied when they were created
  writes,   \* how many writes there were
  dropped   \* <<t, o>> that a renewal erased

graphVars == <<tensor_placeholder, op_vector, tensor_consumers, tensor_producer>>
storeVars == <<tensors, cached_tensor, asked, unset>>
vars == <<graphVars, storeVars, bound, written, writes, dropped>>

NA == 0
Unset == [attr |-> "unset"]
NoData == <<>>

Init ==
  /\ tensors = <<>> /\ op_vector = <<>> /\ bound = <<>>
  /\ tensor_placeholder = Unset
  /\ cached_tensor = <<>> /\ tensor_consumers = <<>> /\ tensor_producer = <<>>
  /\ asked = {} /\ written = {} /\ unset = {} /\ writes = 0 /\ dropped = {}

SpecOf(t) == IF t = NA THEN tensor_placeholder ELSE tensors[t].spec
IsConst(spec) == spec.attr = "CONSTANT"

-----------------------------------------------------------------------------
\* Tensors.

\* CalculateCacheKey: at most 512 bytes.
Key(spec, data) ==
  LET chunks == 4 \div Bytes(spec.datatype)
  IN  <<Bytes(spec.datatype), IF Len(data) <= chunks THEN data ELSE SubSeq(data, 1, chunks)>>

\* TensorSpec::operator==.  A dynamic fixed point quantization is compared by its
\* position only, which others leave at its default.
SameSpec(cached, spec) ==
  /\ [cached EXCEPT !.quant = spec.quant] = spec
  /\ cached.quant \in {spec.quant, "DFP"}

\* mutant: the key alone decides
Hit_ByKey(spec, data) == Key(spec, data) \in DOMAIN cached_tensor

\* GetTensorFromCache finds a tensor.
Hit(spec, data) ==
  /\ Key(spec, data) \in DOMAIN cached_tensor
  /\ SameSpec(tensors[cached_tensor[Key(spec, data)]].spec, spec)

Cacheable(spec, data) == IsConst(spec) /\ data # NoData

\* The tensor CreateTensor returns.
Created(spec, data) ==
  IF Cacheable(spec, data) /\ Hit(spec, data)
  THEN cached_tensor[Key(spec, data)] ELSE Len(tensors) + 1

DataFor(spec) == IF IsConst(spec) THEN [1 .. spec.len -> Chunk] ELSE {NoData}

MayFail == Cardinality({t \in DOMAIN tensors : tensors[t].id = NA} \cup unset) < MaxFailures

\* The constructor ignores what Init returns: ovxlib may have no tensor, or one into
\* which the data was not copied, so that it holds anything.
TensorImpl(spec, data) ==
  LET t == Len(tensors) + 1
      AddTensor(id, holds) == tensors' = Append(tensors, [spec |-> spec, id |-> id, data |-> holds])
  IN  \/ AddTensor(t, data) /\ UNCHANGED unset
      \/ MayFail /\ AddTensor(NA, NoData) /\ UNCHANGED unset
      \/ /\ MayFail /\ data # NoData
         /\ \E garbage \in DataFor(spec) : AddTensor(t, garbage)
         /\ unset' = unset \cup {t}

\* What CreateTensor changes.  A constant that is not found is cached, whatever became of
\* it, in the place of the one that had its key.
Create(spec, data) ==
  /\ IF Cacheable(spec, data) /\ Hit(spec, data) THEN UNCHANGED <<tensors, cached_tensor, unset>>
     ELSE /\ TensorImpl(spec, data)
          /\ cached_tensor' = IF ~Cacheable(spec, data) THEN cached_tensor
               ELSE [k \in DOMAIN cached_tensor \cup {Key(spec, data)} |->
                       IF k = Key(spec, data) THEN Len(tensors) + 1 ELSE cached_tensor[k]]
  /\ asked' = IF ~IsConst(spec) THEN asked
              ELSE asked \cup {[spec |-> spec, data |-> data, tensor |-> Created(spec, data),
                                stale |-> Created(spec, data) \in written]}

CreateTensor == \E spec \in Specs : \E data \in DataFor(spec) :
  /\ Len(tensors) < MaxTensors
  /\ Create(spec, data)
  /\ UNCHANGED <<graphVars, bound, written, writes, dropped>>

\* CreateTensorPlaceHolder: TensorSpec() leaves attribute and data type undefined.
CreateTensorPlaceHolder == \E garbage \in Specs :
  /\ tensor_placeholder = Unset
  /\ tensor_placeholder' = garbage
  /\ UNCHANGED <<storeVars, op_vector, tensor_consumers, tensor_producer, bound, written,
                 writes, dropped>>

\* CopyDataToTensor on a constant, which does nothing and returns true when ovxlib has no
\* tensor.  From then on everybody who was answered with t should find the new data.
CopyDataToTensor == \E t \in DOMAIN tensors : \E data \in DataFor(tensors[t].spec) :
  /\ IsConst(tensors[t].spec) /\ writes < MaxWrites
  /\ tensors' = IF tensors[t].id = NA THEN tensors ELSE [tensors EXCEPT ![t].data = data]
  /\ asked' = {a \in asked : a.tensor # t} \cup
              {[a EXCEPT !.data = data, !.stale = FALSE] : a \in {b \in asked : b.tensor = t}}
  /\ unset' = unset \ {t}
  /\ written' = written \cup {t} /\ writes' = writes + 1
  /\ UNCHANGED <<graphVars, cached_tensor, bound, dropped>>

-----------------------------------------------------------------------------
\* Operations.

CreateOperation == \E kind \in Kinds :
  /\ Len(op_vector) < MaxOps
  /\ op_vector' = Append(op_vector, [kind |-> kind, inputs |-> <<>>, node |-> <<>>, outputs |-> <<>>])
  /\ bound' = Append(bound, <<>>)
  /\ UNCHANGED <<storeVars, tensor_placeholder, tensor_consumers, tensor_producer, written,
                 writes, dropped>>

ConsumersOf(t) == IF t \in DOMAIN tensor_consumers THEN tensor_consumers[t] ELSE <<>>

\* UpdateTensorConsumersMap.
Consumed(map, t, o) ==
  [u \in DOMAIN map \cup {t} |->
     IF u # t THEN map[u] ELSE IF t \in DOMAIN map THEN Append(map[t], o) ELSE <<o>>]

\* mutant: the operation stays a consumer of the original
Renewed_NotErased(map, t, u, o) == Consumed(map, u, o)

\* RenewTensorConsumersMap: all consumers of the original tensor go.
Renewed(map, t, u, o) == Consumed([v \in DOMAIN map \ {t} |-> map[v]], u, o)

\* OnBindInputPostProc of a convolution: a third input that is a constant of 16 bit
\* floats is converted.
Converts(o, t) ==
  /\ op_vector[o].kind = "conv" /\ Len(op_vector[o].inputs) = 2
  /\ SpecOf(t).datatype = "FLOAT16" /\ IsConst(SpecOf(t))
Float32(spec) == [spec EXCEPT !.datatype = "FLOAT32", !.quant = "NONE"]

\* ConvertTensorToFloat32Data: NULL without a tensor in ovxlib, as for the placeholder,
\* or without memory.
Float32Data(t) == {NoData} \cup {tensors[u].data : u \in {t} \cap DOMAIN tensors}

IdIn(store, t) == IF t = NA THEN NA ELSE store[t].id

\* mutant: the converted tensor is not given to ovxlib
Node_Original(node, t, u) == Append(node, IdIn(tensors', t))

\* The inputs of the vsi_nn_node_t once t was bound, and replaced by u.
Node(node, t, u) == Append(node, IdIn(tensors', u))

\* The operation o gets u for the t it was bound to.
TakeInput(o, t, u) ==
  /\ bound' = [bound EXCEPT ![o] = Append(@, t)]
  /\ op_vector' = [op_vector EXCEPT ![o].inputs = Append(@, u), ![o].node = Node(@, t, u)]

BindPlain(o, t) ==
  /\ UNCHANGED <<storeVars, dropped>>
  /\ TakeInput(o, t, t)
  /\ tensor_consumers' = Consumed(tensor_consumers, t, o)

BindConverted(o, t, data) ==
  LET spec == Float32(SpecOf(t))
      u == Created(spec, data)
  IN  /\ Create(spec, data)
      /\ TakeInput(o, t, u)
      /\ tensor_consumers' = Renewed(Consumed(tensor_consumers, t, o), t, u, o)
      /\ dropped' = dropped \cup {<<t, p>> : p \in Range(ConsumersOf(t))}

BindInput == \E o \in DOMAIN op_vector : \E t \in DOMAIN tensors \cup {NA} :
  /\ Len(op_vector[o].inputs) < Arity[op_vector[o].kind]
  /\ t = NA => tensor_placeholder # Unset
  /\ IF Converts(o, t) THEN \E data \in Float32Data(t) : BindConverted(o, t, data)
                      ELSE BindPlain(o, t)
  /\ UNCHANGED <<tensor_placeholder, tensor_producer, written, writes>>

BindOutput == \E o \in DOMAIN op_vector : \E t \in DOMAIN tensors :
  /\ op_vector[o].outputs = <<>> /\ ~IsConst(tensors[t].spec)
  /\ op_vector' = [op_vector EXCEPT ![o].outputs = Append(@, t)]
  /\ tensor_producer' = [u \in DOMAIN tensor_producer \cup {t} |->
                           IF u = t THEN o ELSE tensor_producer[u]]
  /\ UNCHANGED <<storeVars, tensor_placeholder, tensor_consumers, bound, written, writes,
                 dropped>>

Next ==
  \/ CreateTensor \/ CreateTensorPlaceHolder \/ CopyDataToTensor
  \/ CreateOperation \/ BindInput \/ BindOutput

Spec == Init /\ [][Next]_vars

-----------------------------------------------------------------------------

\* A specification but for its quantization, which is dynamic fixed point.
FixedPoint(spec) == [spec EXCEPT !.quant = "DFP"]

\* A constant has the specification it was asked for with, and holds the data it was
\* asked for with or that was written to it since, whatever the cache was filled with
\* before.  The exceptions, each a place where the code does less: data behind its first
\* 512 bytes; a cached constant of dynamic fixed point for one of another quantization,
\* or of none; a constant that ovxlib could not add, or not fill; and an answer from the
\* cache that was stale when it was given, since the tensor had been overwritten.
ConstantsAsAsked ==
  \A a \in asked : LET t == tensors[a.tensor] IN
    /\ t.spec = a.spec \/ t.spec = FixedPoint(a.spec)
    /\ \/ t.data = a.data
       \/ a.data # NoData /\ Key(t.spec, t.data) = Key(a.spec, a.data)
       \/ t.id = NA \/ a.tensor \in unset
       \/ a.stale

Times(seq, e) == Cardinality({i \in DOMAIN seq : seq[i] = e})

\* The maps a walk over the graph goes by follow the bindings: an operation is listed
\* with a tensor as often as it has it for an input, and a producer is the operation
\* that has the tensor for an output.  The exception: consumers erased when a
\* convolution that reads the same tensor got a converted one.
MapsFollowBindings ==
  /\ \A t \in DOMAIN tensors, o \in DOMAIN op_vector :
       \/ Times(ConsumersOf(t), o) = Times(op_vector[o].inputs, t)
       \/ <<t, o>> \in dropped /\ Times(ConsumersOf(t), o) < Times(op_vector[o].inputs, t)
  /\ \A t \in DOMAIN tensor_producer : t \in Range(op_vector[tensor_producer[t]].outputs)

\* What ovxlib computes with is, for every input, the tensor the application bound or,
\* for the third one if it is a constant of 16 bit floats, its conversion; the
\* placeholder counts as such a constant when its undefined specification says so.  It is
\* given no input only for the placeholder and for a tensor that it could not add itself.
NodesComputeWhatWasBound ==
  \A o \in DOMAIN op_vector : \A i \in DOMAIN bound[o] :
    LET t == bound[o][i]
        u == op_vector[o].inputs[i]
    IN  /\ op_vector[o].node[i] = IdIn(tensors, u)
        /\ \/ u = t
           \/ /\ i = 3 /\ SpecOf(t).datatype = "FLOAT16" /\ u # NA
              /\ tensors[u].spec.datatype = "FLOAT32"
        /\ op_vector[o].node[i] \in {NA, u}
====
