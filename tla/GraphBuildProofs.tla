---- MODULE GraphBuildProofs ----
(***************************************************************************)
(* How a graph is built, for any specifications, contents, kinds of        *)
(* operation and bounds: what the cache of constants answers, what the     *)
(* maps from a tensor to its operations list, and what ovxlib computes     *)
(* with.                                                                   *)
(***************************************************************************)
EXTENDS GraphBuild, SequenceTheorems, FiniteSetTheorems, TLAPS

TensorId == 1 .. Len(tensors)
OpId == 1 .. Len(op_vector)

\* A tensor an operation may be bound to.
Bindable(t) == t \in TensorId \/ (t = NA /\ tensor_placeholder # Unset)

TypeOK ==
  /\ tensors \in Seq([spec : SpecType, id : Nat, data : Seq(Chunk)])
  /\ tensor_placeholder \in SpecType \cup {Unset}
  /\ op_vector \in Seq([kind : Kinds, inputs : Seq(Nat), node : Seq(Nat), outputs : Seq(Nat)])
  /\ written \subseteq TensorId /\ unset \subseteq TensorId

\* The id of a tensor is its place, if ovxlib has it.
IdsOK == \A t \in TensorId : tensors[t].id \in {NA, t}

\* The cache leads to a tensor of its key, unless the tensor was overwritten, or never
\* got its data.
Kept(u, k, store) ==
  \/ store[u].data # NoData /\ Key(store[u].spec, store[u].data) = k
  \/ store[u].id = NA
CacheOK ==
  \A k \in DOMAIN cached_tensor :
    /\ cached_tensor[k] \in TensorId
    /\ cached_tensor[k] \in written \cup unset \/ Kept(cached_tensor[k], k, tensors)

Answer == [spec : SpecType, data : Seq(Chunk), tensor : Nat, stale : BOOLEAN]
AskedKnown == asked \subseteq Answer /\ \A a \in asked : a.tensor \in TensorId

\* Operations are bound to tensors there are, and a map lists operations there are.
BindingsKnown ==
  /\ \A o \in OpId : \A i \in DOMAIN op_vector[o].inputs : Bindable(op_vector[o].inputs[i])
  /\ \A o \in OpId : \A i \in DOMAIN op_vector[o].outputs : op_vector[o].outputs[i] \in TensorId
  /\ \A t \in DOMAIN tensor_consumers : Bindable(t) /\ tensor_consumers[t] \in Seq(OpId)
  /\ \A t \in DOMAIN tensor_producer : t \in TensorId /\ tensor_producer[t] \in OpId

\* What an application bound, what the operation holds and what ovxlib has go together.
BoundTogether ==
  /\ bound \in Seq(Seq(Nat)) /\ Len(bound) = Len(op_vector)
  /\ \A o \in OpId :
       /\ Len(bound[o]) = Len(op_vector[o].inputs)
       /\ Len(op_vector[o].node) = Len(op_vector[o].inputs)
       /\ \A i \in DOMAIN bound[o] : Bindable(bound[o][i])

IInv ==
  /\ TypeOK /\ IdsOK /\ CacheOK /\ AskedKnown /\ BindingsKnown /\ BoundTogether
  /\ ConstantsAsAsked /\ MapsFollowBindings /\ NodesComputeWhatWasBound

USE SpecsAssumption

-----------------------------------------------------------------------------
\* Sequences and how often they have an element.

Tensor == [spec : SpecType, id : Nat, data : Seq(Chunk)]

LEMMA Appended ==
  ASSUME NEW S, NEW s \in Seq(S), NEW e \in S
  PROVE  /\ Append(s, e) \in Seq(S) /\ Len(Append(s, e)) = Len(s) + 1
         /\ Len(s) \in Nat /\ DOMAIN s = 1 .. Len(s) /\ DOMAIN Append(s, e) = 1 .. Len(s) + 1
         /\ \A i \in 1 .. Len(s) : Append(s, e)[i] = s[i]
         /\ Append(s, e)[Len(s) + 1] = e
  OBVIOUS

LEMMA AppendedAt ==
  ASSUME NEW S, NEW s \in Seq(S), NEW e \in S, NEW m \in Nat, Len(s) = m, NEW n, n = m + 1
  PROVE  /\ DOMAIN Append(s, e) = DOMAIN s \cup {n} /\ n \notin DOMAIN s
         /\ Append(s, e)[n] = e /\ Len(Append(s, e)) = n
         /\ \A i \in DOMAIN s : Append(s, e)[i] = s[i]
  OBVIOUS

LEMMA TimesType ==
  ASSUME NEW S, NEW s \in Seq(S), NEW x
  PROVE  /\ IsFiniteSet({i \in DOMAIN s : s[i] = x}) /\ Times(s, x) \in Nat
         /\ Times(s, x) = 0 <=> \A i \in DOMAIN s : s[i] # x
  <1>1. DOMAIN s = 1 .. Len(s) /\ Len(s) \in Nat
    OBVIOUS
  <1>2. IsFiniteSet(DOMAIN s)
    BY <1>1, FS_Interval
  <1>3. IsFiniteSet({i \in DOMAIN s : s[i] = x})
    BY <1>2, FS_Subset
  <1> QED BY <1>3, FS_CardinalityType, FS_EmptySet DEF Times

LEMMA TimesAppended ==
  ASSUME NEW S, NEW s \in Seq(S), NEW e \in S, NEW x
  PROVE  Times(Append(s, e), x) = Times(s, x) + IF e = x THEN 1 ELSE 0
  <1> DEFINE at == {i \in DOMAIN s : s[i] = x}
             at2 == {i \in DOMAIN Append(s, e) : Append(s, e)[i] = x}
  <1>1. at2 = IF e = x THEN at \cup {Len(s) + 1} ELSE at
    BY Appended
  <1>2. Len(s) + 1 \notin at
    BY Appended
  <1>3. IsFiniteSet(at) /\ Cardinality(at) \in Nat
    BY TimesType, FS_CardinalityType
  <1>4. Times(s, x) = Cardinality(at) /\ Times(Append(s, e), x) = Cardinality(at2)
    BY DEF Times
  <1> HIDE DEF at, at2
  <1>5. Cardinality(at \cup {Len(s) + 1}) = Cardinality(at) + 1
    BY <1>2, <1>3, FS_AddElement
  <1> QED BY <1>1, <1>3, <1>4, <1>5

LEMMA TimesEmpty == \A x : Times(<<>>, x) = 0
  BY FS_EmptySet DEF Times

-----------------------------------------------------------------------------
\* Specifications.

LEMMA SameSpecMeans ==
  ASSUME NEW c \in SpecType, NEW s \in SpecType, SameSpec(c, s)
  PROVE  /\ c = s \/ c = FixedPoint(s)
         /\ c.datatype = s.datatype
  <1>1. /\ c = [attr |-> c.attr, datatype |-> c.datatype, quant |-> c.quant, len |-> c.len]
        /\ s = [attr |-> s.attr, datatype |-> s.datatype, quant |-> s.quant, len |-> s.len]
    BY DEF SpecType
  <1>2. /\ c.attr = s.attr /\ c.datatype = s.datatype /\ c.len = s.len
        /\ c.quant = s.quant \/ c.quant = "DFP"
    BY DEF SameSpec, SpecType
  <1>3. CASE c.quant = s.quant
    BY <1>1, <1>2, <1>3
  <1>4. CASE c.quant = "DFP"
    <2>1. FixedPoint(s)
            = [attr |-> s.attr, datatype |-> s.datatype, quant |-> "DFP", len |-> s.len]
      BY DEF SpecType, FixedPoint
    <2> QED BY <1>1, <1>2, <1>4, <2>1
  <1> QED BY <1>2, <1>3, <1>4

LEMMA Float32Type ==
  ASSUME NEW s \in SpecType
  PROVE  Float32(s) \in SpecType /\ Float32(s).datatype = "FLOAT32"
  <1>0. s = [attr |-> s.attr, datatype |-> s.datatype, quant |-> s.quant, len |-> s.len]
    BY DEF SpecType
  <1>1. [s EXCEPT !.datatype = "FLOAT32"]
          = [attr |-> s.attr, datatype |-> "FLOAT32", quant |-> s.quant, len |-> s.len]
    BY <1>0
  <1>2. Float32(s) = [[s EXCEPT !.datatype = "FLOAT32"] EXCEPT !.quant = "NONE"]
    BY DEF Float32
  <1>3. Float32(s) = [attr |-> s.attr, datatype |-> "FLOAT32", quant |-> "NONE", len |-> s.len]
    BY <1>1, <1>2
  <1>4. s.attr \in Attr /\ s.len \in Nat /\ "FLOAT32" \in DataType
    BY DEF SpecType, DataType
  <1>5. Float32(s) \in SpecType
    BY <1>3, <1>4 DEF SpecType
  <1> QED BY <1>3, <1>5

\* Unset is no specification.
LEMMA UnsetIsNone == Unset \notin SpecType
  <1> SUFFICES ASSUME Unset \in SpecType PROVE FALSE
    OBVIOUS
  <1>1. DOMAIN Unset = {"attr", "datatype", "quant", "len"}
    BY DEF SpecType
  <1>2. DOMAIN Unset = {"attr"}
    BY DEF Unset
  <1>3. "len" # "attr"
    OBVIOUS
  <1> QED BY <1>1, <1>2, <1>3

-----------------------------------------------------------------------------
\* CreateTensor, alone and for a converted constant.

\* Data of a length is a sequence of chunks.
LEMMA DataType1 ==
  ASSUME NEW spec \in SpecType, NEW data \in DataFor(spec) PROVE data \in Seq(Chunk)
  <1>1. spec.len \in Nat
    BY DEF SpecType
  <1>2. CASE data \in [1 .. spec.len -> Chunk]
    BY <1>1, <1>2
  <1>3. CASE data = NoData
    BY <1>3 DEF NoData
  <1> QED BY <1>2, <1>3 DEF DataFor

\* The answer a is as ConstantsAsAsked says, with these tensors and those not filled.
Right(a, store, empty) ==
  LET t == store[a.tensor] IN
    /\ t.spec = a.spec \/ t.spec = FixedPoint(a.spec)
    /\ \/ t.data = a.data
       \/ a.data # NoData /\ Key(t.spec, t.data) = Key(a.spec, a.data)
       \/ t.id = NA \/ a.tensor \in empty
       \/ a.stale

Answered(spec, data) ==
  [spec |-> spec, data |-> data, tensor |-> Created(spec, data),
   stale |-> Created(spec, data) \in written]

\* What TensorImpl appends.
LEMMA ImplStep ==
  ASSUME IInv, NEW spec \in SpecType, NEW data \in Seq(Chunk), TensorImpl(spec, data)
  PROVE  \E new \in Tensor :
           /\ tensors' = Append(tensors, new) /\ new.spec = spec
           /\ new.id \in {NA, Len(tensors) + 1}
           /\ unset' = unset \cup {Len(tensors) + 1} \/ unset' = unset
           /\ new.id = NA \/ new.data = data \/ Len(tensors) + 1 \in unset'
  <1> DEFINE t == Len(tensors) + 1
             new(id, holds) == [spec |-> spec, id |-> id, data |-> holds]
  <1>1. /\ t \in Nat /\ NA \in Nat /\ NoData \in Seq(Chunk)
    BY EmptySeq DEF IInv, TypeOK, NA, NoData
  <1>2. ASSUME NEW id \in {NA, t}, NEW holds \in Seq(Chunk)
        PROVE  /\ new(id, holds) \in Tensor /\ new(id, holds).spec = spec
               /\ new(id, holds).id = id /\ new(id, holds).data = holds
    BY <1>1 DEF Tensor
  <1>3. CASE tensors' = Append(tensors, new(t, data)) /\ UNCHANGED unset
    <2>1. new(t, data) \in Tensor
      BY <1>1, <1>2
    <2> WITNESS new(t, data) \in Tensor
    <2> QED BY <1>2, <1>3
  <1>4. CASE tensors' = Append(tensors, new(NA, NoData)) /\ UNCHANGED unset
    <2>1. new(NA, NoData) \in Tensor
      BY <1>1, <1>2
    <2> WITNESS new(NA, NoData) \in Tensor
    <2> QED BY <1>1, <1>2, <1>4
  <1>5. CASE /\ \E garbage \in DataFor(spec) : tensors' = Append(tensors, new(t, garbage))
             /\ unset' = unset \cup {t}
    <2>1. PICK garbage \in DataFor(spec) : tensors' = Append(tensors, new(t, garbage))
      BY <1>5
    <2>2. garbage \in Seq(Chunk)
      BY DataType1
    <2>3. new(t, garbage) \in Tensor
      BY <1>2, <2>2
    <2> WITNESS new(t, garbage) \in Tensor
    <2> QED BY <1>2, <1>5, <2>1, <2>2
  <1> QED BY <1>3, <1>4, <1>5 DEF TensorImpl

\* A tensor that is created, or found, leaves the others as they are, keeps the cache
\* in order and is what was asked for.
LEMMA CreateStep ==
  ASSUME IInv, NEW spec \in SpecType, NEW data \in Seq(Chunk), Create(spec, data),
         written' = written
  PROVE  /\ tensors' \in Seq(Tensor) /\ Len(tensors) \in Nat
         /\ TensorId \subseteq TensorId' /\ unset' \subseteq TensorId'
         /\ \A t \in TensorId : tensors'[t] = tensors[t]
         /\ unset \subseteq unset'
         /\ Created(spec, data) \in TensorId' /\ Created(spec, data) \in Nat \ {0}
         /\ CacheOK' /\ IdsOK'
         /\ Right(Answered(spec, data), tensors', unset')
         /\ tensors'[Created(spec, data)].spec.datatype = spec.datatype
  <1> PICK u, k : u = Created(spec, data) /\ k = Key(spec, data)
    OBVIOUS
  <1>0. /\ tensors \in Seq(Tensor) /\ Len(tensors) \in Nat
        /\ written \subseteq TensorId /\ unset \subseteq TensorId
        /\ \A t \in TensorId : tensors[t] \in Tensor
        /\ CacheOK /\ IdsOK
    <2>1. /\ tensors \in Seq(Tensor) /\ written \subseteq TensorId /\ unset \subseteq TensorId
          /\ CacheOK /\ IdsOK
      BY DEF IInv, TypeOK, Tensor
    <2> QED BY <2>1 DEF TensorId
  <1> PICK a : a = Answered(spec, data)
    OBVIOUS
  <1>9. /\ a.spec = spec /\ a.data = data /\ a.tensor = u /\ a.stale = (u \in written)
    BY DEF Answered
  <1>1. CASE Cacheable(spec, data) /\ Hit(spec, data)
    <2>1. /\ tensors' = tensors /\ cached_tensor' = cached_tensor /\ unset' = unset
          /\ u = cached_tensor[k] /\ k \in DOMAIN cached_tensor
      BY <1>1 DEF Create, Created, Hit
    <2>2. /\ u \in TensorId /\ tensors[u].spec \in SpecType
          /\ u \in written \cup unset \/ Kept(u, k, tensors)
          /\ SameSpec(tensors[u].spec, spec) /\ data # NoData
      BY <1>0, <1>1, <2>1 DEF CacheOK, Hit, Cacheable, Tensor
    <2>3. CacheOK' /\ IdsOK'
      BY <1>0, <2>1 DEF CacheOK, Kept, IdsOK, TensorId
    <2>4. tensors[u].spec = spec \/ tensors[u].spec = FixedPoint(spec)
      BY <2>2, SameSpecMeans
    <2>6. Right(a, tensors, unset)
      BY <1>9, <2>2, <2>4 DEF Right, Kept
    <2>5. tensors[u].spec.datatype = spec.datatype
      BY <2>2, SameSpecMeans
    <2>7. u \in Nat \ {0}
      BY <2>2 DEF TensorId
    <2> QED BY <1>0, <2>1, <2>2, <2>3, <2>6, <2>5, <2>7 DEF TensorId
  <1>2. CASE ~(Cacheable(spec, data) /\ Hit(spec, data))
    <2>1. /\ TensorImpl(spec, data) /\ u = Len(tensors) + 1
          /\ cached_tensor' = IF ~Cacheable(spec, data) THEN cached_tensor
               ELSE [l \in DOMAIN cached_tensor \cup {k} |-> IF l = k THEN u ELSE cached_tensor[l]]
      BY <1>2 DEF Create, Created
    <2>0. PICK new \in Tensor :
            /\ tensors' = Append(tensors, new) /\ new.spec = spec /\ new.id \in {NA, u}
            /\ unset' = unset \cup {u} \/ unset' = unset
            /\ new.id = NA \/ new.data = data \/ u \in unset'
      BY <2>1, ImplStep
    <2>2. /\ tensors' \in Seq(Tensor) /\ Len(tensors') = Len(tensors) + 1
          /\ \A t \in TensorId : tensors'[t] = tensors[t]
          /\ tensors'[u] = new
      BY <1>0, <2>0, <2>1, Appended DEF TensorId
    <2>3. TensorId' = TensorId \cup {u} /\ u \in TensorId' /\ u \notin TensorId /\ u \in Nat \ {0}
      BY <1>0, <2>1, <2>2 DEF TensorId
    <2>4. CacheOK'
      <3> SUFFICES ASSUME NEW l \in DOMAIN cached_tensor'
                   PROVE  /\ cached_tensor'[l] \in TensorId'
                          /\ \/ cached_tensor'[l] \in written \cup unset'
                             \/ Kept(cached_tensor'[l], l, tensors')
        BY DEF CacheOK, Kept
      <3>1. CASE l \in DOMAIN cached_tensor /\ cached_tensor'[l] = cached_tensor[l]
        <4>1. /\ cached_tensor[l] \in TensorId
              /\ cached_tensor[l] \in written \cup unset \/ Kept(cached_tensor[l], l, tensors)
          BY <1>0, <3>1 DEF CacheOK
        <4> QED BY <2>0, <2>2, <2>3, <3>1, <4>1 DEF Kept
      <3>2. CASE Cacheable(spec, data) /\ l = k /\ cached_tensor'[l] = u
        <4>1. data # NoData
          BY <3>2 DEF Cacheable
        <4> QED BY <2>0, <2>2, <2>3, <3>2, <4>1 DEF Kept
      <3> QED BY <2>1, <3>1, <3>2
    <2>5. IdsOK'
      BY <1>0, <2>0, <2>2, <2>3 DEF IdsOK
    <2>6. Right(a, tensors', unset')
      BY <1>9, <2>0, <2>2 DEF Right
    <2>7. tensors'[u].spec.datatype = spec.datatype
      BY <2>0, <2>2
    <2> QED BY <1>0, <2>0, <2>2, <2>3, <2>4, <2>5, <2>6, <2>7
  <1> QED BY <1>1, <1>2

\* What was asked for before stays right when tensors are added.
LEMMA AnswersStay ==
  ASSUME IInv, TensorId \subseteq TensorId', unset \subseteq unset',
         \A t \in TensorId : tensors'[t] = tensors[t]
  PROVE  \A a \in asked : /\ a \in Answer /\ a.tensor \in TensorId'
                         /\ Right(a, tensors', unset')
  <1> SUFFICES ASSUME NEW a \in asked
               PROVE  /\ a \in Answer /\ a.tensor \in TensorId'
                      /\ Right(a, tensors', unset')
    OBVIOUS
  <1>1. a \in Answer /\ a.tensor \in TensorId
    BY DEF IInv, AskedKnown
  <1>2. Right(a, tensors, unset)
    BY DEF IInv, ConstantsAsAsked, Right
  <1> QED BY <1>1, <1>2 DEF Right

AllRight == \A a \in asked : a \in Answer /\ a.tensor \in TensorId /\ Right(a, tensors, unset)

LEMMA RightMeans == AllRight <=> AskedKnown /\ ConstantsAsAsked
  BY DEF AllRight, AskedKnown, ConstantsAsAsked, Right

\* The answers after a tensor was created.
LEMMA CreateAnswers ==
  ASSUME IInv, NEW spec \in SpecType, NEW data \in Seq(Chunk), Create(spec, data),
         written' = written
  PROVE  AskedKnown' /\ ConstantsAsAsked'
  <1>1. /\ TensorId \subseteq TensorId' /\ unset \subseteq unset'
        /\ \A t \in TensorId : tensors'[t] = tensors[t]
        /\ Created(spec, data) \in TensorId' /\ Created(spec, data) \in Nat
        /\ Right(Answered(spec, data), tensors', unset')
    BY CreateStep
  <1>2. \A a \in asked' : a \in asked \/ a = Answered(spec, data)
    BY DEF Create, Answered
  <1>3. Answered(spec, data) \in Answer /\ Answered(spec, data).tensor \in TensorId'
    BY <1>1 DEF Answered, Answer
  <1>4. AllRight'
    BY <1>1, <1>2, <1>3, AnswersStay DEF AllRight, Right
  <1> QED BY <1>4, RightMeans, PTL

-----------------------------------------------------------------------------
\* Bindings.

\* The conjuncts of MapsFollowBindings and NodesComputeWhatWasBound for one operation.
Listed(t, o) ==
  \/ Times(ConsumersOf(t), o) = Times(op_vector[o].inputs, t)
  \/ <<t, o>> \in dropped /\ Times(ConsumersOf(t), o) < Times(op_vector[o].inputs, t)
Computes(o, i) ==
  LET t == bound[o][i]
      u == op_vector[o].inputs[i]
  IN  /\ op_vector[o].node[i] = IdIn(tensors, u)
      /\ \/ u = t
         \/ /\ i = 3 /\ SpecOf(t).datatype = "FLOAT16" /\ u # NA
            /\ tensors[u].spec.datatype = "FLOAT32"
      /\ op_vector[o].node[i] \in {NA, u}

LEMMA Types ==
  TypeOK => /\ DOMAIN tensors = TensorId /\ Len(tensors) \in Nat
            /\ \A t \in TensorId : tensors[t] \in Tensor /\ t \in Nat \ {0}
            /\ DOMAIN op_vector = OpId /\ Len(op_vector) \in Nat
            /\ \A o \in OpId : /\ op_vector[o].inputs \in Seq(Nat)
                              /\ op_vector[o].node \in Seq(Nat)
                              /\ op_vector[o].outputs \in Seq(Nat)
  <1> SUFFICES ASSUME TypeOK
               PROVE  /\ DOMAIN tensors = TensorId /\ Len(tensors) \in Nat
                      /\ \A t \in TensorId : tensors[t] \in Tensor /\ t \in Nat \ {0}
                      /\ DOMAIN op_vector = OpId /\ Len(op_vector) \in Nat
                      /\ \A o \in OpId : /\ op_vector[o].inputs \in Seq(Nat)
                                        /\ op_vector[o].node \in Seq(Nat)
                                        /\ op_vector[o].outputs \in Seq(Nat)
    OBVIOUS
  <1>1. tensors \in Seq(Tensor)
    BY DEF TypeOK, Tensor
  <1>2. DOMAIN tensors = TensorId /\ Len(tensors) \in Nat
    BY <1>1 DEF TensorId
  <1>3. \A t \in TensorId : tensors[t] \in Tensor /\ t \in Nat \ {0}
    BY <1>1, <1>2 DEF TensorId
  <1>4. DOMAIN op_vector = OpId /\ Len(op_vector) \in Nat
    BY DEF TypeOK, OpId
  <1>5. ASSUME NEW o \in OpId
        PROVE  op_vector[o] \in [kind : Kinds, inputs : Seq(Nat), node : Seq(Nat), outputs : Seq(Nat)]
    BY <1>4, ElementOfSeq DEF TypeOK, OpId
  <1> QED BY <1>2, <1>3, <1>4, <1>5

AllListed == \A t \in TensorId, o \in OpId : Listed(t, o)
AllProduced ==
  \A t \in DOMAIN tensor_producer : t \in Range(op_vector[tensor_producer[t]].outputs)
AllCompute == \A o \in OpId : \A i \in DOMAIN bound[o] : Computes(o, i)

LEMMA MapsMean == TypeOK => (MapsFollowBindings <=> AllListed /\ AllProduced)
  BY Types DEF MapsFollowBindings, AllListed, AllProduced, Listed

LEMMA NodesMean == TypeOK => (NodesComputeWhatWasBound <=> AllCompute)
  BY Types DEF NodesComputeWhatWasBound, AllCompute, Computes

\* A tensor that cannot be bound is bound nowhere.
LEMMA Unbound ==
  ASSUME TypeOK, BindingsKnown, NEW t, ~Bindable(t), NEW o \in OpId
  PROVE  ConsumersOf(t) = <<>> /\ Times(op_vector[o].inputs, t) = 0
  <1>1. ConsumersOf(t) = <<>>
    BY DEF BindingsKnown, ConsumersOf
  <1>2. /\ op_vector[o].inputs \in Seq(Nat)
        /\ \A i \in DOMAIN op_vector[o].inputs : op_vector[o].inputs[i] # t
    BY Types DEF BindingsKnown
  <1> QED BY <1>1, <1>2, TimesType

\* A step that touches no binding, and keeps the specifications.
LEMMA BindingsStay ==
  ASSUME IInv, TypeOK',
         UNCHANGED <<op_vector, tensor_consumers, tensor_producer, bound, dropped>>,
         TensorId \subseteq TensorId',
         \A t \in TensorId : tensors'[t].spec = tensors[t].spec /\ tensors'[t].id = tensors[t].id,
         tensor_placeholder # Unset => tensor_placeholder' = tensor_placeholder
  PROVE  BindingsKnown' /\ BoundTogether' /\ MapsFollowBindings' /\ NodesComputeWhatWasBound'
  <1> USE DEF IInv
  <1>1. \A t : Bindable(t) => Bindable(t)' /\ SpecOf(t)' = SpecOf(t)
    BY Types DEF Bindable, SpecOf, NA
  <1>2. OpId' = OpId /\ \A t : ConsumersOf(t)' = ConsumersOf(t)
    BY DEF OpId, ConsumersOf
  <1>3. BindingsKnown'
    BY <1>1, <1>2 DEF BindingsKnown
  <1>4. BoundTogether'
    BY <1>1, <1>2 DEF BoundTogether
  <1>5. MapsFollowBindings'
    <2>1. ASSUME NEW t \in TensorId', NEW o \in OpId PROVE Listed(t, o)'
      <3>1. CASE t \in TensorId
        BY <3>1, <1>2, MapsMean DEF AllListed, Listed
      <3>2. CASE t \notin TensorId
        <4>1. t # NA
          BY DEF TensorId, NA
        <4>2. ~Bindable(t)
          BY <3>2, <4>1 DEF Bindable
        <4> QED BY <4>2, <1>2, Unbound, TimesEmpty DEF Listed
      <3> QED BY <3>1, <3>2
    <2>2. AllListed'
      BY <2>1, <1>2 DEF AllListed
    <2>3. AllProduced'
      BY MapsMean DEF AllProduced
    <2> QED BY <2>2, <2>3, MapsMean, PTL
  <1>6. NodesComputeWhatWasBound'
    <2>1. ASSUME NEW o \in OpId, NEW i \in DOMAIN bound[o] PROVE Computes(o, i)'
      <3>1. Computes(o, i) /\ SpecOf(bound[o][i])' = SpecOf(bound[o][i])
        BY <1>1, NodesMean DEF BoundTogether, AllCompute
      <3>2. /\ i \in DOMAIN op_vector[o].inputs /\ Bindable(op_vector[o].inputs[i])
        BY Types DEF BoundTogether, BindingsKnown
      <3> QED BY <3>1, <3>2 DEF Computes, Bindable, IdIn, NA
    <2>2. AllCompute'
      BY <2>1, <1>2 DEF AllCompute
    <2> QED BY <2>2, NodesMean, PTL
  <1> QED BY <1>3, <1>4, <1>5, <1>6

-----------------------------------------------------------------------------
\* The steps that touch no binding.

LEMMA InitInv == Init => IInv
  <1> SUFFICES ASSUME Init PROVE IInv
    OBVIOUS
  <1>1. tensors = <<>> /\ op_vector = <<>> /\ bound = <<>> /\ asked = {} /\ written = {}
    BY DEF Init
  <1>2. DOMAIN cached_tensor = {} /\ DOMAIN tensor_consumers = {} /\ DOMAIN tensor_producer = {}
    BY DEF Init
  <1>3. TensorId = {} /\ OpId = {}
    BY <1>1 DEF TensorId, OpId
  <1>4. TypeOK
    BY <1>1 DEF TypeOK, Init, Unset
  <1>5. IdsOK /\ CacheOK /\ AskedKnown /\ BindingsKnown /\ BoundTogether
    BY <1>1, <1>2, <1>3 DEF IdsOK, CacheOK, AskedKnown, BindingsKnown, BoundTogether
  <1>6. ConstantsAsAsked /\ MapsFollowBindings /\ NodesComputeWhatWasBound
    BY <1>1, <1>2, <1>3, <1>4, MapsMean, NodesMean
       DEF ConstantsAsAsked, AllListed, AllProduced, AllCompute
  <1> QED BY <1>4, <1>5, <1>6 DEF IInv

LEMMA CreateTensorInv == ASSUME IInv, CreateTensor PROVE IInv'
  <1>0. PICK spec \in Specs : \E data \in DataFor(spec) : Create(spec, data)
    BY DEF CreateTensor
  <1>1. PICK data \in DataFor(spec) : Create(spec, data)
    BY <1>0
  <1>2. spec \in SpecType /\ data \in Seq(Chunk)
    BY DataType1
  <1>3. UNCHANGED <<tensor_placeholder, op_vector, tensor_consumers, tensor_producer, bound,
                    written, writes, dropped>>
    BY DEF CreateTensor, graphVars
  <1>4. /\ tensors' \in Seq(Tensor) /\ Len(tensors) \in Nat
        /\ TensorId \subseteq TensorId' /\ unset' \subseteq TensorId'
        /\ \A t \in TensorId : tensors'[t] = tensors[t]
        /\ CacheOK' /\ IdsOK'
    BY <1>1, <1>2, <1>3, CreateStep
  <1>5. TypeOK'
    BY <1>3, <1>4 DEF IInv, TypeOK, Tensor
  <1>6. BindingsKnown' /\ BoundTogether' /\ MapsFollowBindings' /\ NodesComputeWhatWasBound'
    BY <1>3, <1>4, <1>5, BindingsStay
  <1>7. AskedKnown' /\ ConstantsAsAsked'
    BY <1>1, <1>2, <1>3, CreateAnswers
  <1> QED BY <1>4, <1>5, <1>6, <1>7 DEF IInv

\* A step that leaves the tensors and the cache as they are.
LEMMA StoreStays ==
  ASSUME IInv, UNCHANGED <<tensors, cached_tensor, asked, written, unset>>
  PROVE  IdsOK' /\ CacheOK' /\ AskedKnown' /\ ConstantsAsAsked' /\ TensorId' = TensorId
  BY DEF IInv, IdsOK, CacheOK, Kept, AskedKnown, ConstantsAsAsked, TensorId

LEMMA PlaceHolderInv == ASSUME IInv, CreateTensorPlaceHolder PROVE IInv'
  <1>1. /\ UNCHANGED <<tensors, cached_tensor, op_vector, tensor_consumers, tensor_producer,
                       asked, bound, written, unset, dropped>>
        /\ tensor_placeholder = Unset /\ tensor_placeholder' \in SpecType
    BY DEF CreateTensorPlaceHolder, storeVars
  <1>2. IdsOK' /\ CacheOK' /\ AskedKnown' /\ ConstantsAsAsked' /\ TensorId' = TensorId
    BY <1>1, StoreStays
  <1>3. TypeOK'
    BY <1>1, <1>2 DEF IInv, TypeOK
  <1>4. BindingsKnown' /\ BoundTogether' /\ MapsFollowBindings' /\ NodesComputeWhatWasBound'
    BY <1>1, <1>2, <1>3, BindingsStay
  <1> QED BY <1>2, <1>3, <1>4 DEF IInv

LEMMA AnswerWith ==
  ASSUME NEW s, NEW d, NEW t, NEW f, NEW g
  PROVE  [[spec |-> s, data |-> d, tensor |-> t, stale |-> f] EXCEPT !.stale = g]
           = [spec |-> s, data |-> d, tensor |-> t, stale |-> g]
  OBVIOUS

\* An answer to which other data was written.
LEMMA Rewritten ==
  ASSUME NEW a \in Answer, NEW data \in Seq(Chunk)
  PROVE  LET b == [a EXCEPT !.data = data, !.stale = FALSE] IN
         /\ b \in Answer /\ b.spec = a.spec /\ b.data = data /\ b.tensor = a.tensor
         /\ b.stale = FALSE
  <1>1. PICK s \in SpecType, d \in Seq(Chunk), t \in Nat, f \in BOOLEAN :
          a = [spec |-> s, data |-> d, tensor |-> t, stale |-> f]
    BY DEF Answer
  <1>2. [a EXCEPT !.data = data] = [spec |-> s, data |-> data, tensor |-> t, stale |-> f]
    BY <1>1
  <1>4. [[spec |-> s, data |-> data, tensor |-> t, stale |-> f] EXCEPT !.stale = FALSE]
          = [spec |-> s, data |-> data, tensor |-> t, stale |-> FALSE]
    BY AnswerWith
  <1>5. [a EXCEPT !.data = data, !.stale = FALSE] = [[a EXCEPT !.data = data] EXCEPT !.stale = FALSE]
    OBVIOUS
  <1>6. [a EXCEPT !.data = data, !.stale = FALSE]
          = [spec |-> s, data |-> data, tensor |-> t, stale |-> FALSE]
    BY <1>2, <1>4, <1>5, Zenon
  <1>7. PICK b : b = [spec |-> s, data |-> data, tensor |-> t, stale |-> FALSE]
    OBVIOUS
  <1>8. /\ b \in Answer /\ b.spec = a.spec /\ b.data = data /\ b.tensor = a.tensor
        /\ b.stale = FALSE
    BY <1>1, <1>7 DEF Answer
  <1> QED BY <1>6, <1>7, <1>8

LEMMA CopyDataInv == ASSUME IInv, CopyDataToTensor PROVE IInv'
  <1>20. PICK t \in DOMAIN tensors : \E data \in DataFor(tensors[t].spec) :
          /\ tensors' = IF tensors[t].id = NA THEN tensors ELSE [tensors EXCEPT ![t].data = data]
          /\ asked' = {a \in asked : a.tensor # t} \cup
                {[a EXCEPT !.data = data, !.stale = FALSE] : a \in {b \in asked : b.tensor = t}}
          /\ unset' = unset \ {t} /\ written' = written \cup {t}
    BY DEF CopyDataToTensor
  <1>0. PICK data \in DataFor(tensors[t].spec) :
          /\ tensors' = IF tensors[t].id = NA THEN tensors ELSE [tensors EXCEPT ![t].data = data]
          /\ asked' = {a \in asked : a.tensor # t} \cup
                {[a EXCEPT !.data = data, !.stale = FALSE] : a \in {b \in asked : b.tensor = t}}
          /\ unset' = unset \ {t} /\ written' = written \cup {t}
    BY <1>20
  <1>2. UNCHANGED <<tensor_placeholder, cached_tensor, op_vector, tensor_consumers,
                    tensor_producer, bound, dropped>>
    BY DEF CopyDataToTensor, graphVars
  <1>3. /\ DOMAIN tensors = TensorId /\ tensors \in Seq(Tensor)
        /\ \A v \in TensorId : tensors[v] \in Tensor
    BY Types DEF IInv, TypeOK, Tensor
  <1>4. tensors[t].spec \in SpecType /\ data \in Seq(Chunk)
    BY <1>3, DataType1 DEF Tensor
  <1>5. [tensors[t] EXCEPT !.data = data]
          = [spec |-> tensors[t].spec, id |-> tensors[t].id, data |-> data]
    BY <1>3 DEF Tensor
  <1>6. /\ tensors' \in Seq(Tensor) /\ TensorId' = TensorId
        /\ \A v \in TensorId : v # t => tensors'[v] = tensors[v]
        /\ \A v \in TensorId : tensors'[v].spec = tensors[v].spec /\ tensors'[v].id = tensors[v].id
        /\ tensors'[t].data = data \/ tensors'[t].id = NA
    <2>1. CASE tensors[t].id = NA
      BY <1>0, <1>3, <2>1 DEF TensorId
    <2>2. CASE tensors[t].id # NA
      <3>1. PICK new : new = [spec |-> tensors[t].spec, id |-> tensors[t].id, data |-> data]
        OBVIOUS
      <3>2. /\ new \in Tensor /\ new.spec = tensors[t].spec /\ new.id = tensors[t].id
            /\ new.data = data
        BY <1>3, <1>4, <3>1 DEF Tensor
      <3>3. tensors' = [tensors EXCEPT ![t] = new]
        BY <1>0, <1>5, <2>2, <3>1
      <3> QED BY <1>3, <3>2, <3>3 DEF TensorId
    <2> QED BY <2>1, <2>2
  <1>7. TypeOK'
    BY <1>0, <1>2, <1>3, <1>6 DEF IInv, TypeOK, Tensor
  <1>9. BindingsKnown' /\ BoundTogether' /\ MapsFollowBindings' /\ NodesComputeWhatWasBound'
    BY <1>2, <1>6, <1>7, BindingsStay
  <1>10. CacheOK' /\ IdsOK'
    <2>1. CacheOK /\ IdsOK
      BY DEF IInv
    <2>2. IdsOK'
      BY <1>6, <2>1 DEF IdsOK
    <2>3. ASSUME NEW k \in DOMAIN cached_tensor
          PROVE  /\ cached_tensor[k] \in TensorId'
                 /\ cached_tensor[k] \in written' \cup unset' \/ Kept(cached_tensor[k], k, tensors')
      <3>1. /\ cached_tensor[k] \in TensorId
            /\ cached_tensor[k] \in written \cup unset \/ Kept(cached_tensor[k], k, tensors)
        BY <2>1 DEF CacheOK
      <3>2. CASE cached_tensor[k] = t
        BY <1>0, <1>6, <3>1, <3>2
      <3>3. CASE cached_tensor[k] # t
        <4>1. tensors'[cached_tensor[k]] = tensors[cached_tensor[k]]
          BY <1>6, <3>1, <3>3
        <4> QED BY <1>0, <1>6, <3>1, <3>3, <4>1 DEF Kept
      <3> QED BY <3>2, <3>3
    <2> QED BY <1>2, <2>2, <2>3 DEF CacheOK, Kept
  <1>11. AllRight'
    <2>1. ASSUME NEW a \in asked
          PROVE  a \in Answer /\ a.tensor \in TensorId /\ Right(a, tensors, unset)
      BY DEF IInv, AskedKnown, ConstantsAsAsked, Right
    <2>2. ASSUME NEW a \in asked'
          PROVE  a \in Answer /\ a.tensor \in TensorId' /\ Right(a, tensors', unset')
      <3>1. CASE a \in asked /\ a.tensor # t
        <4>1. a \in Answer /\ a.tensor \in TensorId /\ Right(a, tensors, unset)
          BY <2>1, <3>1
        <4>2. tensors'[a.tensor] = tensors[a.tensor] /\ a.tensor \in unset => a.tensor \in unset'
          BY <1>0, <1>6, <3>1, <4>1
        <4>3. Right(a, tensors', unset')
          BY <1>0, <1>6, <3>1, <4>1, <4>2 DEF Right
        <4> QED BY <1>6, <4>1, <4>3
      <3>2. CASE \E b \in asked : b.tensor = t /\ a = [b EXCEPT !.data = data, !.stale = FALSE]
        <4>1. PICK b \in asked : b.tensor = t /\ a = [b EXCEPT !.data = data, !.stale = FALSE]
          BY <3>2
        <4>2. b \in Answer /\ b.tensor \in TensorId /\ Right(b, tensors, unset)
          BY <2>1, <4>1
        <4>3. /\ a \in Answer /\ a.spec = b.spec /\ a.data = data /\ a.tensor = t
          BY <1>4, <4>1, <4>2, Rewritten
        <4>4. tensors'[t].spec = a.spec \/ tensors'[t].spec = FixedPoint(a.spec)
          BY <1>6, <4>1, <4>2, <4>3 DEF Right
        <4> QED BY <1>6, <4>1, <4>2, <4>3, <4>4 DEF Right
      <3> QED BY <1>0, <3>1, <3>2
    <2> QED BY <2>2 DEF AllRight, Right
  <1>12. AskedKnown' /\ ConstantsAsAsked'
    BY <1>11, RightMeans, PTL
  <1> QED BY <1>7, <1>9, <1>10, <1>12 DEF IInv

-----------------------------------------------------------------------------
\* The steps on operations.

Op == [kind : Kinds, inputs : Seq(Nat), node : Seq(Nat), outputs : Seq(Nat)]

\* How an operation lists a tensor depends on these only.
LEMMA ListedStays ==
  ASSUME NEW t, NEW o, Listed(t, o), ConsumersOf(t)' = ConsumersOf(t),
         op_vector'[o].inputs = op_vector[o].inputs, dropped \subseteq dropped'
  PROVE  Listed(t, o)'
  BY DEF Listed

\* An operation that does not exist consumes nothing.
LEMMA NewOpUnlisted ==
  ASSUME TypeOK, BindingsKnown, NEW t PROVE Times(ConsumersOf(t), Len(op_vector) + 1) = 0
  <1>1. CASE t \in DOMAIN tensor_consumers
    <2>1. tensor_consumers[t] \in Seq(OpId) /\ Len(op_vector) \in Nat
      BY <1>1, Types DEF BindingsKnown
    <2>2. \A i \in DOMAIN tensor_consumers[t] : tensor_consumers[t][i] # Len(op_vector) + 1
      BY <2>1 DEF OpId
    <2> QED BY <1>1, <2>1, <2>2, TimesType DEF ConsumersOf
  <1>2. CASE t \notin DOMAIN tensor_consumers
    BY <1>2, TimesEmpty DEF ConsumersOf
  <1> QED BY <1>1, <1>2

LEMMA CreateOperationInv == ASSUME IInv, CreateOperation PROVE IInv'
  <1> DEFINE n == Len(op_vector) + 1
             new(kind) == [kind |-> kind, inputs |-> <<>>, node |-> <<>>, outputs |-> <<>>]
  <1>1. PICK kind \in Kinds : op_vector' = Append(op_vector, new(kind))
    BY DEF CreateOperation
  <1>2. /\ bound' = Append(bound, <<>>)
        /\ UNCHANGED <<tensors, tensor_placeholder, cached_tensor, tensor_consumers,
                       tensor_producer, asked, written, unset, dropped>>
    BY DEF CreateOperation, storeVars
  <1>3. IdsOK' /\ CacheOK' /\ AskedKnown' /\ ConstantsAsAsked' /\ TensorId' = TensorId
    BY <1>2, StoreStays
  <1>4. op_vector \in Seq(Op) /\ Len(op_vector) \in Nat /\ new(kind) \in Op
    BY EmptySeq DEF IInv, TypeOK, Op
  <1>5. /\ op_vector' \in Seq(Op) /\ OpId' = OpId \cup {n} /\ n \notin OpId
        /\ \A o \in OpId : op_vector'[o] = op_vector[o]
        /\ op_vector'[n] = new(kind)
    BY <1>1, <1>4, Appended DEF OpId
  <1>6. /\ op_vector'[n].inputs = <<>> /\ op_vector'[n].node = <<>>
        /\ op_vector'[n].outputs = <<>>
    BY <1>5
  <1>7. TypeOK'
    BY <1>2, <1>3, <1>5 DEF IInv, TypeOK, Op
  <1>8. /\ bound' \in Seq(Seq(Nat)) /\ Len(bound') = n
        /\ \A o \in OpId : bound'[o] = bound[o]
        /\ bound'[n] = <<>>
    <2>1. bound \in Seq(Seq(Nat)) /\ Len(bound) = Len(op_vector) /\ <<>> \in Seq(Nat)
      BY EmptySeq DEF IInv, BoundTogether
    <2> QED BY <1>2, <2>1, Appended DEF OpId
  <1>9. /\ \A t : Bindable(t)' = Bindable(t)
        /\ \A t : SpecOf(t)' = SpecOf(t)
        /\ \A t : ConsumersOf(t)' = ConsumersOf(t)
    BY <1>2, <1>3 DEF Bindable, SpecOf, ConsumersOf
  <1> HIDE DEF n, new
  <1>10. BindingsKnown'
    <2>1. \A t \in DOMAIN tensor_consumers : tensor_consumers[t] \in Seq(OpId')
      BY <1>5, SeqMonotonic DEF IInv, BindingsKnown
    <2>2. \A o \in OpId' : \A i \in DOMAIN op_vector'[o].inputs : Bindable(op_vector'[o].inputs[i])
      BY <1>5, <1>6 DEF IInv, BindingsKnown
    <2>3. \A o \in OpId' : \A i \in DOMAIN op_vector'[o].outputs : op_vector'[o].outputs[i] \in TensorId
      BY <1>5, <1>6 DEF IInv, BindingsKnown
    <2>4. \A t \in DOMAIN tensor_producer : t \in TensorId /\ tensor_producer[t] \in OpId'
      BY <1>5 DEF IInv, BindingsKnown
    <2>5. \A t \in DOMAIN tensor_consumers : Bindable(t)
      BY DEF IInv, BindingsKnown
    <2> QED BY <1>2, <1>3, <1>9, <2>1, <2>2, <2>3, <2>4, <2>5 DEF BindingsKnown
  <1>11. BoundTogether'
    <2>1. ASSUME NEW o \in OpId'
          PROVE  /\ Len(bound'[o]) = Len(op_vector'[o].inputs)
                 /\ Len(op_vector'[o].node) = Len(op_vector'[o].inputs)
                 /\ \A i \in DOMAIN bound'[o] : Bindable(bound'[o][i])
      <3>1. CASE o \in OpId
        BY <1>5, <1>8, <3>1 DEF IInv, BoundTogether
      <3>2. CASE o = n
        BY <1>6, <1>8, <3>2
      <3> QED BY <1>5, <3>1, <3>2
    <2>2. Len(bound') = Len(op_vector')
      BY <1>1, <1>4, <1>8, Appended DEF n
    <2> QED BY <1>8, <1>9, <2>1, <2>2 DEF BoundTogether
  <1>12. MapsFollowBindings'
    <2>0. TypeOK /\ BindingsKnown /\ MapsFollowBindings
      BY DEF IInv
    <2>1. ASSUME NEW t \in TensorId, NEW o \in OpId' PROVE Listed(t, o)'
      <3>1. CASE o \in OpId
        BY <1>2, <1>5, <1>9, <2>0, <3>1, MapsMean, ListedStays DEF AllListed
      <3>2. CASE o = n
        BY <1>6, <1>9, <2>0, <3>2, NewOpUnlisted, TimesEmpty DEF Listed, n
      <3> QED BY <1>5, <3>1, <3>2
    <2>2. AllListed'
      BY <1>3, <2>1 DEF AllListed
    <2>3. AllProduced'
      BY <1>2, <1>5, <2>0, MapsMean DEF BindingsKnown, AllProduced
    <2> QED BY <1>7, <2>2, <2>3, MapsMean, PTL
  <1>13. NodesComputeWhatWasBound'
    <2>1. ASSUME NEW o \in OpId', NEW i \in DOMAIN bound'[o] PROVE Computes(o, i)'
      <3>1. o \in OpId
        BY <1>5, <1>8
      <3>2. Computes(o, i)
        BY <1>8, <3>1, NodesMean DEF IInv, AllCompute
      <3> QED BY <1>2, <1>5, <1>8, <1>9, <3>1, <3>2 DEF Computes, IdIn
    <2>2. AllCompute'
      BY <2>1 DEF AllCompute
    <2> QED BY <1>7, <2>2, NodesMean, PTL
  <1> QED BY <1>3, <1>7, <1>10, <1>11, <1>12, <1>13 DEF IInv

\* What binding an output of an operation changes.
LEMMA BindOutputInv == ASSUME IInv, BindOutput PROVE IInv'
  <1>1. PICK o \in DOMAIN op_vector, t \in DOMAIN tensors :
          /\ op_vector[o].outputs = <<>>
          /\ op_vector' = [op_vector EXCEPT ![o].outputs = Append(@, t)]
          /\ tensor_producer' = [u \in DOMAIN tensor_producer \cup {t} |->
                                   IF u = t THEN o ELSE tensor_producer[u]]
    BY DEF BindOutput
  <1>2. UNCHANGED <<tensors, tensor_placeholder, cached_tensor, tensor_consumers, asked,
                    bound, written, unset, dropped>>
    BY DEF BindOutput, storeVars
  <1>3. IdsOK' /\ CacheOK' /\ AskedKnown' /\ ConstantsAsAsked' /\ TensorId' = TensorId
    BY <1>2, StoreStays
  <1>4. /\ op_vector \in Seq(Op) /\ o \in OpId /\ DOMAIN op_vector = OpId
        /\ \A p \in OpId : op_vector[p] \in Op
        /\ t \in TensorId /\ t \in Nat
    <2>1. op_vector \in Seq(Op)
      BY DEF IInv, TypeOK, Op
    <2>2. TypeOK
      BY DEF IInv
    <2>3. DOMAIN op_vector = OpId /\ DOMAIN tensors = TensorId /\ \A v \in TensorId : v \in Nat
      BY <2>2, Types
    <2>4. \A p \in OpId : op_vector[p] \in Op
      BY <2>1 DEF OpId
    <2> QED BY <1>1, <2>1, <2>3, <2>4
  <1> DEFINE new == [kind |-> op_vector[o].kind, inputs |-> op_vector[o].inputs,
                     node |-> op_vector[o].node, outputs |-> <<t>>]
  <1>5. op_vector' = [op_vector EXCEPT ![o] = new]
    <2>1. Append(op_vector[o].outputs, t) = <<t>>
      BY <1>1
    <2>2. op_vector[o] = [kind |-> op_vector[o].kind, inputs |-> op_vector[o].inputs,
                          node |-> op_vector[o].node, outputs |-> op_vector[o].outputs]
      BY <1>4 DEF Op
    <2>3. [op_vector[o] EXCEPT !.outputs = <<t>>] = new
      BY <2>2
    <2>4. op_vector' = [op_vector EXCEPT ![o] = [op_vector[o] EXCEPT !.outputs = <<t>>]]
      BY <1>1, <2>1
    <2> QED BY <2>3, <2>4
  <1>6. new \in Op
    BY <1>4 DEF Op
  <1>7. /\ new.inputs = op_vector[o].inputs /\ new.node = op_vector[o].node
        /\ new.outputs = <<t>>
    OBVIOUS
  <1> HIDE DEF new
  <1>8. /\ op_vector' \in Seq(Op) /\ OpId' = OpId /\ Len(op_vector') = Len(op_vector)
        /\ \A p \in OpId : /\ op_vector'[p].inputs = op_vector[p].inputs
                           /\ op_vector'[p].node = op_vector[p].node
                           /\ p # o => op_vector'[p] = op_vector[p]
        /\ op_vector'[o].outputs = <<t>>
    BY <1>4, <1>5, <1>6, <1>7 DEF OpId
  <1>9. TypeOK'
    BY <1>2, <1>3, <1>8 DEF IInv, TypeOK, Op
  <1>10. /\ \A u : Bindable(u)' = Bindable(u)
         /\ \A u : SpecOf(u)' = SpecOf(u)
         /\ \A u : ConsumersOf(u)' = ConsumersOf(u)
    BY <1>2, <1>3 DEF Bindable, SpecOf, ConsumersOf
  <1>11. BindingsKnown'
    <2>1. \A p \in OpId : \A i \in DOMAIN op_vector'[p].outputs : op_vector'[p].outputs[i] \in TensorId
      <3>1. \A i \in DOMAIN op_vector'[o].outputs : op_vector'[o].outputs[i] \in TensorId
        BY <1>4, <1>8
      <3> QED BY <1>8, <3>1 DEF IInv, BindingsKnown
    <2>2. \A u \in DOMAIN tensor_producer' : u \in TensorId /\ tensor_producer'[u] \in OpId
      BY <1>1, <1>4 DEF IInv, BindingsKnown
    <2>3. \A p \in OpId : \A i \in DOMAIN op_vector'[p].inputs : Bindable(op_vector'[p].inputs[i])
      BY <1>8 DEF IInv, BindingsKnown
    <2>4. \A u \in DOMAIN tensor_consumers : Bindable(u) /\ tensor_consumers[u] \in Seq(OpId)
      BY DEF IInv, BindingsKnown
    <2> QED BY <1>2, <1>3, <1>8, <1>10, <2>1, <2>2, <2>3, <2>4 DEF BindingsKnown
  <1>12. BoundTogether'
    BY <1>2, <1>8, <1>10 DEF IInv, BoundTogether
  <1>13. MapsFollowBindings'
    <2>0. TypeOK /\ BindingsKnown /\ MapsFollowBindings
      BY DEF IInv
    <2>1. ASSUME NEW v \in TensorId, NEW p \in OpId PROVE Listed(v, p)'
      BY <1>2, <1>8, <1>10, <2>0, MapsMean, ListedStays DEF AllListed
    <2>2. ASSUME NEW u \in DOMAIN tensor_producer'
          PROVE  u \in Range(op_vector'[tensor_producer'[u]].outputs)
      <3>1. CASE u = t
        <4>1. t = op_vector'[o].outputs[1] /\ 1 \in DOMAIN op_vector'[o].outputs
          BY <1>8
        <4> QED BY <1>1, <3>1, <4>1 DEF Range
      <3>2. CASE u # t
        <4>1. u \in DOMAIN tensor_producer /\ tensor_producer'[u] = tensor_producer[u]
          BY <1>1, <3>2
        <4>2. u \in Range(op_vector[tensor_producer[u]].outputs)
          BY <2>0, <4>1, MapsMean DEF AllProduced
        <4>3. tensor_producer[u] # o /\ tensor_producer[u] \in OpId
          BY <1>1, <2>0, <4>1, <4>2 DEF BindingsKnown, Range
        <4> QED BY <1>8, <4>1, <4>2, <4>3
      <3> QED BY <3>1, <3>2
    <2>3. AllListed' /\ AllProduced'
      BY <1>3, <1>8, <2>1, <2>2 DEF AllListed, AllProduced
    <2> QED BY <1>9, <2>3, MapsMean, PTL
  <1>14. NodesComputeWhatWasBound'
    <2>1. \A p \in OpId : \A i \in DOMAIN bound[p] : Computes(p, i)
      BY NodesMean DEF IInv, AllCompute
    <2>2. ASSUME NEW p \in OpId, NEW i \in DOMAIN bound[p] PROVE Computes(p, i)'
      BY <1>2, <1>8, <1>10, <2>1 DEF Computes, IdIn
    <2>3. AllCompute'
      BY <1>2, <1>8, <2>2 DEF AllCompute
    <2> QED BY <1>9, <2>3, NodesMean, PTL
  <1> QED BY <1>3, <1>9, <1>11, <1>12, <1>13, <1>14 DEF IInv

-----------------------------------------------------------------------------
\* Binding an input.

\* What a map lists with a tensor.
Listing(map, t) == IF t \in DOMAIN map THEN map[t] ELSE <<>>

LEMMA ConsumedLists ==
  ASSUME NEW map, NEW t, NEW o
  PROVE  /\ Listing(Consumed(map, t, o), t) = Append(Listing(map, t), o)
         /\ \A v : v # t => Listing(Consumed(map, t, o), v) = Listing(map, v)
  <1>1. Append(<<>>, o) = <<o>>
    OBVIOUS
  <1> QED BY <1>1 DEF Consumed, Listing

LEMMA RenewedLists ==
  ASSUME NEW map, NEW t, NEW u, NEW o, t # u
  PROVE  /\ Listing(Renewed(map, t, u, o), t) = <<>>
         /\ Listing(Renewed(map, t, u, o), u) = Append(Listing(map, u), o)
         /\ \A v : v \notin {t, u} => Listing(Renewed(map, t, u, o), v) = Listing(map, v)
  <1>0. PICK rest : rest = [v \in DOMAIN map \ {t} |-> map[v]]
    OBVIOUS
  <1>1. /\ DOMAIN rest = DOMAIN map \ {t} /\ Listing(rest, t) = <<>>
        /\ \A v : v # t => Listing(rest, v) = Listing(map, v)
    BY <1>0 DEF Listing
  <1>2. Renewed(map, t, u, o) = Consumed(rest, u, o)
    BY <1>0 DEF Renewed
  <1>3. /\ Listing(Consumed(rest, u, o), u) = Append(Listing(rest, u), o)
        /\ \A v : v # u => Listing(Consumed(rest, u, o), v) = Listing(rest, v)
    BY ConsumedLists
  <1>4. Listing(rest, u) = Listing(map, u)
    BY <1>1
  <1> QED BY <1>1, <1>2, <1>3, <1>4

LEMMA ConsumersAre == \A t : ConsumersOf(t) = Listing(tensor_consumers, t)
  BY DEF ConsumersOf, Listing

LEMMA ListingType ==
  ASSUME BindingsKnown, NEW t PROVE ConsumersOf(t) \in Seq(OpId)
  BY EmptySeq DEF BindingsKnown, ConsumersOf

\* IdIn(tensors, u)'.
IdThen(u) == IdIn(tensors', u)

\* What TakeInput makes of the operation.
Takes(o, t, u) ==
  op_vector' = [op_vector EXCEPT ![o].inputs = Append(@, u), ![o].node = Node(@, t, u)]

LEMMA OpWith ==
  ASSUME NEW k, NEW a, NEW b, NEW c, NEW x, NEW y
  PROVE  /\ [[kind |-> k, inputs |-> a, node |-> b, outputs |-> c] EXCEPT !.inputs = x]
              = [kind |-> k, inputs |-> x, node |-> b, outputs |-> c]
         /\ [[kind |-> k, inputs |-> x, node |-> b, outputs |-> c] EXCEPT !.node = y]
              = [kind |-> k, inputs |-> x, node |-> y, outputs |-> c]
  OBVIOUS

LEMMA BoundInput ==
  ASSUME TypeOK, NEW o \in OpId, NEW t, NEW u \in Nat, Takes(o, t, u), IdThen(u) \in Nat
  PROVE  /\ op_vector' \in Seq(Op) /\ OpId' = OpId /\ Len(op_vector') = Len(op_vector)
         /\ \A p \in OpId : /\ p # o => op_vector'[p] = op_vector[p]
                            /\ op_vector'[p].outputs = op_vector[p].outputs
         /\ op_vector'[o].inputs = Append(op_vector[o].inputs, u)
         /\ op_vector'[o].node = Append(op_vector[o].node, IdThen(u))
  <1>1. op_vector \in Seq(Op) /\ DOMAIN op_vector = OpId
    BY Types DEF TypeOK, Op
  <1>2. op_vector[o] \in Op
    BY <1>1 DEF OpId
  <1>3. PICK k \in Kinds, a \in Seq(Nat), b \in Seq(Nat), c \in Seq(Nat) :
          op_vector[o] = [kind |-> k, inputs |-> a, node |-> b, outputs |-> c]
    BY <1>2 DEF Op
  <1>9. PICK w \in Nat : w = IdThen(u)
    OBVIOUS
  <1>4. PICK x, y : x = Append(a, u) /\ y = Append(b, w)
    OBVIOUS
  <1>5. PICK new : new = [kind |-> k, inputs |-> x, node |-> y, outputs |-> c]
    OBVIOUS
  <1>6. op_vector' = [op_vector EXCEPT ![o] = new]
    <2>1. [op_vector[o] EXCEPT !.inputs = x] = [kind |-> k, inputs |-> x, node |-> b, outputs |-> c]
      <3>1. [[kind |-> k, inputs |-> a, node |-> b, outputs |-> c] EXCEPT !.inputs = x]
              = [kind |-> k, inputs |-> x, node |-> b, outputs |-> c]
        BY OpWith
      <3> QED BY <1>3, <3>1, Zenon
    <2>2. PICK half : half = [kind |-> k, inputs |-> x, node |-> b, outputs |-> c]
      OBVIOUS
    <2>3. [half EXCEPT !.node = y] = new
      <3>1. [[kind |-> k, inputs |-> x, node |-> b, outputs |-> c] EXCEPT !.node = y]
              = [kind |-> k, inputs |-> x, node |-> y, outputs |-> c]
        BY OpWith
      <3> QED BY <1>5, <2>2, <3>1, Zenon
    <2>4. op_vector' = [[op_vector EXCEPT ![o].inputs = x] EXCEPT ![o].node = y]
      BY <1>1, <1>3, <1>4, <1>9 DEF Takes, Node, IdThen
    <2>5. [op_vector EXCEPT ![o].inputs = x] = [op_vector EXCEPT ![o] = half]
      BY <1>1, <2>1, <2>2
    <2>6. [[op_vector EXCEPT ![o] = half] EXCEPT ![o].node = y] = [op_vector EXCEPT ![o] = new]
      BY <1>1, <2>3
    <2> QED BY <2>4, <2>5, <2>6
  <1>7. new \in Op /\ new.inputs = x /\ new.node = y /\ new.outputs = c
    BY <1>4, <1>5 DEF Op
  <1>8. op_vector[o].inputs = a /\ op_vector[o].node = b /\ op_vector[o].outputs = c
    BY <1>3
  <1> QED BY <1>1, <1>4, <1>6, <1>7, <1>8, <1>9 DEF OpId

\* Bindable(t)' and SpecOf(t)'.
BindableThen(t) == t \in TensorId' \/ (t = NA /\ tensor_placeholder' # Unset)
SpecThen(t) == IF t = NA THEN tensor_placeholder' ELSE tensors'[t].spec

\* Operation o gets u for the tensor t that the application bound, and no operation,
\* no specification and no producer changes otherwise.
GetsInput(o, t, u) ==
  /\ TypeOK' /\ TensorId \subseteq TensorId'
  /\ \A v \in TensorId : tensors'[v].spec = tensors[v].spec /\ tensors'[v].id = tensors[v].id
  /\ UNCHANGED <<tensor_placeholder, tensor_producer>>
  /\ OpId' = OpId /\ Len(op_vector') = Len(op_vector)
  /\ \A p \in OpId : /\ p # o => op_vector'[p] = op_vector[p]
                     /\ op_vector'[p].outputs = op_vector[p].outputs
  /\ op_vector'[o].inputs = Append(op_vector[o].inputs, u)
  /\ op_vector'[o].node = Append(op_vector[o].node, IdThen(u))
  /\ IdThen(u) \in Nat /\ IdThen(u) \in {NA, u}
  /\ bound' = [bound EXCEPT ![o] = Append(@, t)]
  /\ BindableThen(u)
  /\ \/ u = t
     \/ /\ Len(op_vector[o].inputs) = 2 /\ SpecOf(t).datatype = "FLOAT16" /\ u # NA
        /\ tensors'[u].spec.datatype = "FLOAT32"

LEMMA InputKnown ==
  ASSUME IInv, NEW o \in OpId, NEW t, Bindable(t), NEW u \in Nat, GetsInput(o, t, u)
  PROVE  /\ \A p \in OpId' : \A i \in DOMAIN op_vector'[p].inputs : BindableThen(op_vector'[p].inputs[i])
         /\ \A p \in OpId' : \A i \in DOMAIN op_vector'[p].outputs : op_vector'[p].outputs[i] \in TensorId'
         /\ \A v \in DOMAIN tensor_producer' : v \in TensorId' /\ tensor_producer'[v] \in OpId'
         /\ AllProduced'
         /\ \A v : Bindable(v) => BindableThen(v) /\ SpecThen(v) = SpecOf(v)
  <1>0. TypeOK /\ BindingsKnown
    BY DEF IInv
  <1>1. /\ OpId' = OpId
        /\ \A p \in OpId : /\ p # o => op_vector'[p] = op_vector[p]
                           /\ op_vector'[p].outputs = op_vector[p].outputs
        /\ op_vector'[o].inputs = Append(op_vector[o].inputs, u)
        /\ op_vector[o].inputs \in Seq(Nat)
    BY <1>0, Types DEF GetsInput
  <1>2. \A v : Bindable(v) => BindableThen(v) /\ SpecThen(v) = SpecOf(v)
    BY <1>0, Types DEF GetsInput, Bindable, BindableThen, SpecOf, SpecThen, NA
  <1>3. ASSUME NEW p \in OpId, NEW i \in DOMAIN op_vector'[p].inputs
        PROVE  BindableThen(op_vector'[p].inputs[i])
    <2>1. CASE p # o
      <3>1. Bindable(op_vector[p].inputs[i])
        BY <1>0, <1>1, <1>3, <2>1 DEF BindingsKnown
      <3> QED BY <1>1, <1>2, <2>1, <3>1
    <2>2. CASE p = o /\ i \in DOMAIN op_vector[o].inputs
      <3>1. Bindable(op_vector[o].inputs[i])
        BY <1>0, <2>2 DEF BindingsKnown
      <3>2. op_vector'[o].inputs[i] = op_vector[o].inputs[i]
        BY <1>1, <2>2, Appended
      <3> QED BY <1>2, <2>2, <3>1, <3>2
    <2>3. CASE p = o /\ i \notin DOMAIN op_vector[o].inputs
      <3>1. op_vector'[o].inputs[i] = u
        BY <1>1, <1>3, <2>3, Appended
      <3> QED BY <2>3, <3>1 DEF GetsInput
    <2> QED BY <2>1, <2>2, <2>3
  <1>4. \A p \in OpId : \A i \in DOMAIN op_vector'[p].outputs : op_vector'[p].outputs[i] \in TensorId'
    BY <1>0, <1>1 DEF BindingsKnown, GetsInput
  <1>5. \A v \in DOMAIN tensor_producer' : v \in TensorId' /\ tensor_producer'[v] \in OpId'
    BY <1>0, <1>1 DEF BindingsKnown, GetsInput
  <1>6. AllProduced'
    <2>1. AllProduced
      BY <1>0, MapsMean DEF IInv
    <2> QED BY <1>0, <1>1, <2>1 DEF AllProduced, GetsInput, BindingsKnown
  <1> QED BY <1>1, <1>2, <1>3, <1>4, <1>5, <1>6

LEMMA InputTogether ==
  ASSUME IInv, NEW o \in OpId, NEW t \in Nat, Bindable(t), NEW u \in Nat, GetsInput(o, t, u)
  PROVE  BoundTogether' /\ NodesComputeWhatWasBound'
  <1>0. TypeOK /\ BindingsKnown /\ BoundTogether
    BY DEF IInv
  <1>30. PICK w \in Nat : w = IdThen(u)
    BY DEF GetsInput
  <1>1. /\ OpId' = OpId /\ Len(op_vector') = Len(op_vector)
        /\ \A p \in OpId : p # o => op_vector'[p] = op_vector[p]
        /\ op_vector'[o].inputs = Append(op_vector[o].inputs, u)
        /\ op_vector'[o].node = Append(op_vector[o].node, w)
        /\ op_vector[o].inputs \in Seq(Nat) /\ op_vector[o].node \in Seq(Nat)
    BY <1>0, <1>30, Types DEF GetsInput
  <1>2. \A v : Bindable(v) => BindableThen(v) /\ SpecThen(v) = SpecOf(v)
    BY InputKnown
  <1>3. /\ bound' \in Seq(Seq(Nat)) /\ Len(bound') = Len(bound)
        /\ bound[o] \in Seq(Nat)
        /\ \A p \in OpId : p # o => bound'[p] = bound[p]
        /\ bound'[o] = Append(bound[o], t)
    <2>1. bound \in Seq(Seq(Nat)) /\ o \in DOMAIN bound /\ bound[o] \in Seq(Nat)
      BY <1>0 DEF BoundTogether, OpId
    <2>2. Append(bound[o], t) \in Seq(Nat)
      BY <2>1, Appended
    <2>3. bound' = [bound EXCEPT ![o] = Append(bound[o], t)]
      BY DEF GetsInput
    <2> QED BY <1>0, <2>1, <2>2, <2>3 DEF BoundTogether, OpId
  <1>31. Len(op_vector[o].inputs) \in Nat
    BY <1>0, Types, LenProperties
  <1>20. PICK m \in Nat : m = Len(op_vector[o].inputs)
    BY <1>31
  <1>21. PICK n \in Nat : n = m + 1
    OBVIOUS
  <1>4. /\ Len(bound[o]) = Len(op_vector[o].inputs)
        /\ Len(op_vector[o].node) = Len(op_vector[o].inputs)
        /\ DOMAIN bound[o] = DOMAIN op_vector[o].inputs
        /\ DOMAIN bound'[o] = DOMAIN bound[o] \cup {n}
        /\ n \notin DOMAIN bound[o]
        /\ bound'[o][n] = t /\ op_vector'[o].inputs[n] = u /\ op_vector'[o].node[n] = w
        /\ \A i \in DOMAIN bound[o] : /\ bound'[o][i] = bound[o][i]
                                     /\ op_vector'[o].inputs[i] = op_vector[o].inputs[i]
                                     /\ op_vector'[o].node[i] = op_vector[o].node[i]
        /\ Len(bound'[o]) = n /\ Len(op_vector'[o].inputs) = n /\ Len(op_vector'[o].node) = n
        /\ n = 3 <=> Len(op_vector[o].inputs) = 2
    <2>1. /\ Len(bound[o]) = Len(op_vector[o].inputs)
          /\ Len(op_vector[o].node) = Len(op_vector[o].inputs)
      BY <1>0 DEF BoundTogether
    <2>9. Len(bound[o]) = m /\ Len(op_vector[o].node) = m
      BY <2>1, <1>20
    <2>2. DOMAIN bound[o] = DOMAIN op_vector[o].inputs
      BY <1>1, <1>3, <2>1
    <2>10. DOMAIN op_vector[o].node = DOMAIN bound[o]
      BY <1>1, <1>3, <2>9
    <2>3. /\ DOMAIN bound'[o] = DOMAIN bound[o] \cup {n}
          /\ n \notin DOMAIN bound[o] /\ bound'[o][n] = t /\ Len(bound'[o]) = n
          /\ \A i \in DOMAIN bound[o] : bound'[o][i] = bound[o][i]
      <3>1. bound[o] \in Seq(Nat) /\ Len(bound[o]) = m /\ n = m + 1 /\ t \in Nat
        BY <1>3, <1>21, <2>9
      <3>2. /\ DOMAIN Append(bound[o], t) = DOMAIN bound[o] \cup {n}
            /\ n \notin DOMAIN bound[o] /\ Append(bound[o], t)[n] = t
            /\ Len(Append(bound[o], t)) = n
            /\ \A i \in DOMAIN bound[o] : Append(bound[o], t)[i] = bound[o][i]
        BY <3>1, AppendedAt
      <3> QED BY <1>3, <3>2, Zenon
    <2>4. /\ op_vector'[o].inputs[n] = u /\ Len(op_vector'[o].inputs) = n
          /\ \A i \in DOMAIN bound[o] : op_vector'[o].inputs[i] = op_vector[o].inputs[i]
      <3> DEFINE inputs == op_vector[o].inputs
      <3>1. inputs \in Seq(Nat) /\ Len(inputs) = m /\ n = m + 1
        BY <1>1, <1>20, <1>21
      <3>2. /\ Append(inputs, u)[n] = u /\ Len(Append(inputs, u)) = n
            /\ \A i \in DOMAIN inputs : Append(inputs, u)[i] = inputs[i]
        BY <3>1, AppendedAt
      <3> QED BY <1>1, <2>2, <3>2, Zenon
    <2>5. /\ op_vector'[o].node[n] = w /\ Len(op_vector'[o].node) = n
          /\ \A i \in DOMAIN bound[o] : op_vector'[o].node[i] = op_vector[o].node[i]
      <3> DEFINE node == op_vector[o].node
      <3>1. node \in Seq(Nat) /\ Len(node) = m /\ n = m + 1 /\ w \in Nat
        BY <1>1, <1>21, <2>9
      <3>2. /\ Append(node, w)[n] = w /\ Len(Append(node, w)) = n
            /\ \A i \in DOMAIN node : Append(node, w)[i] = node[i]
        BY <3>1, AppendedAt
      <3> QED BY <1>1, <2>10, <3>2, Zenon
    <2>6. n = 3 <=> Len(op_vector[o].inputs) = 2
      <3>1. (n = 3) <=> (m = 2)
        BY <1>21
      <3> QED BY <1>20, <3>1, Zenon
    <2> QED BY <2>1, <2>2, <2>3, <2>4, <2>5, <2>6
  <1>5. BoundTogether'
    <2>1. ASSUME NEW p \in OpId
          PROVE  /\ Len(bound'[p]) = Len(op_vector'[p].inputs)
                 /\ Len(op_vector'[p].node) = Len(op_vector'[p].inputs)
                 /\ \A i \in DOMAIN bound'[p] : BindableThen(bound'[p][i])
      <3>1. CASE p # o
        BY <1>0, <1>1, <1>2, <1>3, <3>1 DEF BoundTogether
      <3>2. CASE p = o
        <4>1. \A i \in DOMAIN bound[o] : Bindable(bound[o][i])
          BY <1>0 DEF BoundTogether
        <4> QED BY <1>2, <1>4, <3>2, <4>1
      <3> QED BY <3>1, <3>2
    <2>2. Len(bound') = Len(op_vector')
      BY <1>0, <1>1, <1>3 DEF BoundTogether
    <2> QED BY <1>1, <1>3, <2>1, <2>2 DEF BoundTogether, Bindable, BindableThen
  <1>6. ASSUME NEW p \in OpId, NEW i \in DOMAIN bound[p] PROVE Computes(p, i)'
    <2>1. Computes(p, i)
      BY <1>0, NodesMean DEF IInv, AllCompute
    <2>2. SpecThen(bound[p][i]) = SpecOf(bound[p][i])
      BY <1>0, <1>2 DEF BoundTogether
    <2>3. /\ bound'[p][i] = bound[p][i]
          /\ op_vector'[p].inputs[i] = op_vector[p].inputs[i]
          /\ op_vector'[p].node[i] = op_vector[p].node[i]
      BY <1>1, <1>3, <1>4
    <2>4. Bindable(op_vector[p].inputs[i])
      <3>1. DOMAIN bound[p] = 1 .. Len(bound[p]) /\ Len(bound[p]) = Len(op_vector[p].inputs)
        BY <1>0 DEF BoundTogether, OpId
      <3>2. op_vector[p].inputs \in Seq(Nat)
        BY <1>0, Types
      <3>3. i \in DOMAIN op_vector[p].inputs
        BY <3>1, <3>2
      <3> QED BY <1>0, <3>3 DEF BindingsKnown
    <2>5. op_vector[p].inputs[i] # NA =>
            /\ tensors'[op_vector[p].inputs[i]].spec = tensors[op_vector[p].inputs[i]].spec
            /\ tensors'[op_vector[p].inputs[i]].id = tensors[op_vector[p].inputs[i]].id
      BY <2>4 DEF GetsInput, Bindable
    <2> QED BY <2>1, <2>2, <2>3, <2>5 DEF Computes, SpecOf, SpecThen, IdIn
  <1>7. Computes(o, n)'
    <2>1. SpecThen(t) = SpecOf(t)
      BY <1>2
    <2> QED BY <1>4, <1>30, <2>1 DEF Computes, GetsInput, SpecOf, SpecThen, IdThen
  <1>8. AllCompute'
    <2>1. ASSUME NEW p \in OpId, NEW i \in DOMAIN bound'[p] PROVE Computes(p, i)'
      BY <1>3, <1>4, <1>6, <1>7, <2>1
    <2> QED BY <1>1, <2>1 DEF AllCompute
  <1>9. NodesComputeWhatWasBound'
    <2>1. TypeOK'
      BY DEF GetsInput
    <2> QED BY <1>8, <2>1, NodesMean, PTL
  <1> QED BY <1>5, <1>9

\* How often an operation that got u has a tensor.
LEMMA TimesTaken ==
  ASSUME TypeOK, NEW o \in OpId, NEW t, NEW u \in Nat, GetsInput(o, t, u), NEW p \in OpId, NEW v
  PROVE  /\ Times(op_vector[p].inputs, v) \in Nat
         /\ Times(op_vector'[p].inputs, v)
              = Times(op_vector[p].inputs, v) + IF p = o /\ u = v THEN 1 ELSE 0
  <1>1. op_vector[p].inputs \in Seq(Nat)
    BY Types
  <1>2. Times(op_vector[p].inputs, v) \in Nat
    BY <1>1, TimesType
  <1>3. CASE p = o
    <2>1. op_vector'[o].inputs = Append(op_vector[o].inputs, u)
      BY DEF GetsInput
    <2>2. Times(Append(op_vector[p].inputs, u), v)
            = Times(op_vector[p].inputs, v) + IF u = v THEN 1 ELSE 0
      BY <1>1, TimesAppended
    <2> QED BY <1>2, <1>3, <2>1, <2>2
  <1>4. CASE p # o
    <2>1. op_vector'[p] = op_vector[p]
      BY <1>4 DEF GetsInput
    <2> QED BY <1>2, <1>4, <2>1
  <1> QED BY <1>2, <1>3, <1>4

LEMMA ListedEverywhere == IInv => \A v : v # NA => \A p \in OpId : Listed(v, p)
  <1> SUFFICES ASSUME IInv, NEW v, v # NA, NEW p \in OpId PROVE Listed(v, p)
    OBVIOUS
  <1>1. CASE v \in TensorId
    BY <1>1, MapsMean DEF IInv, AllListed
  <1>2. CASE v \notin TensorId
    <2>1. ~Bindable(v)
      BY <1>2 DEF Bindable
    <2> QED BY <2>1, Unbound, TimesEmpty DEF IInv, Listed
  <1> QED BY <1>1, <1>2

\* The input is listed with the tensor that the operation got.
LEMMA PlainListed ==
  ASSUME IInv, NEW o \in OpId, NEW t \in Nat, GetsInput(o, t, t), NEW v \in TensorId', NEW p \in OpId,
         tensor_consumers' = Consumed(tensor_consumers, t, o), dropped' = dropped
  PROVE  Listed(v, p)'
  <1>0. TypeOK /\ BindingsKnown
    BY DEF IInv
  <1>1. v # NA
    BY DEF TensorId, NA
  <1>2. Listed(v, p)
    BY <1>1, ListedEverywhere
  <1>3. /\ Times(op_vector[p].inputs, v) \in Nat
        /\ Times(op_vector'[p].inputs, v)
             = Times(op_vector[p].inputs, v) + IF p = o /\ t = v THEN 1 ELSE 0
    BY <1>0, TimesTaken
  <1> PICK now, before : now = Listing(tensor_consumers', v) /\ before = Listing(tensor_consumers, v)
    OBVIOUS
  <1>4. before \in Seq(OpId) /\ Times(before, p) \in Nat
    BY <1>0, ListingType, ConsumersAre, TimesType
  <1>5. Times(now, p) = Times(before, p) + IF p = o /\ t = v THEN 1 ELSE 0
    <2>1. CASE v = t
      <3>1. now = Append(before, o)
        BY <2>1, ConsumedLists
      <3>2. Times(Append(before, o), p) = Times(before, p) + IF o = p THEN 1 ELSE 0
        BY <1>4, TimesAppended
      <3> QED BY <1>4, <2>1, <3>1, <3>2
    <2>2. CASE v # t
      <3>1. now = before
        BY <2>2, ConsumedLists
      <3> QED BY <1>4, <2>2, <3>1
    <2> QED BY <2>1, <2>2
  <1>6. now = ConsumersOf(v)' /\ before = ConsumersOf(v)
    BY DEF Listing, ConsumersOf
  <1> QED BY <1>2, <1>3, <1>4, <1>5, <1>6 DEF Listed

\* The input is listed with the converted tensor, and the original loses its consumers.
LEMMA ConvertedListed ==
  ASSUME IInv, NEW o \in OpId, NEW t \in Nat, NEW u \in Nat, t # u, GetsInput(o, t, u),
         NEW v \in TensorId', NEW p \in OpId,
         tensor_consumers' = Renewed(Consumed(tensor_consumers, t, o), t, u, o),
         dropped' = dropped \cup {<<t, q>> : q \in Range(ConsumersOf(t))}
  PROVE  Listed(v, p)'
  <1>0. TypeOK /\ BindingsKnown
    BY DEF IInv
  <1>1. v # NA
    BY DEF TensorId, NA
  <1>2. Listed(v, p)
    BY <1>1, ListedEverywhere
  <1>3. /\ Times(op_vector[p].inputs, v) \in Nat
        /\ Times(op_vector'[p].inputs, v)
             = Times(op_vector[p].inputs, v) + IF p = o /\ u = v THEN 1 ELSE 0
    BY <1>0, TimesTaken
  <1> PICK now, before : now = Listing(tensor_consumers', v) /\ before = Listing(tensor_consumers, v)
    OBVIOUS
  <1> PICK map : map = Consumed(tensor_consumers, t, o)
    OBVIOUS
  <1>4. before \in Seq(OpId) /\ Times(before, p) \in Nat
    BY <1>0, ListingType, ConsumersAre, TimesType
  <1>5. now = ConsumersOf(v)' /\ before = ConsumersOf(v)
    BY DEF Listing, ConsumersOf
  <1>6. CASE v = t
    <2>1. now = <<>> /\ Times(now, p) = 0
      BY <1>6, RenewedLists, TimesEmpty
    <2>2. Times(op_vector'[p].inputs, v) = Times(op_vector[p].inputs, v)
      BY <1>3, <1>6
    <2>3. CASE Times(op_vector[p].inputs, v) = 0
      BY <1>5, <2>1, <2>2, <2>3 DEF Listed
    <2>4. CASE Times(op_vector[p].inputs, v) # 0
      <3>1. <<v, p>> \in dropped'
        <4>1. CASE <<v, p>> \in dropped
          BY <4>1
        <4>2. CASE Times(before, p) = Times(op_vector[p].inputs, v)
          <5>1. \E i \in DOMAIN before : before[i] = p
            BY <1>4, <2>4, <4>2, TimesType
          <5>2. p \in Range(ConsumersOf(t))
            BY <1>5, <1>6, <5>1 DEF Range
          <5> QED BY <1>6, <5>2
        <4> QED BY <1>2, <1>5, <4>1, <4>2 DEF Listed
      <3> QED BY <1>3, <1>5, <2>1, <2>2, <2>4, <3>1 DEF Listed
    <2> QED BY <2>3, <2>4
  <1>7. CASE v # t
    <2>1. Listing(map, v) = before
      BY <1>7, ConsumedLists
    <2>2. Times(now, p) = Times(before, p) + IF p = o /\ u = v THEN 1 ELSE 0
      <3>1. CASE v = u
        <4>1. now = Append(before, o)
          BY <2>1, <3>1, RenewedLists
        <4>2. Times(Append(before, o), p) = Times(before, p) + IF o = p THEN 1 ELSE 0
          BY <1>4, TimesAppended
        <4> QED BY <1>4, <3>1, <4>1, <4>2
      <3>2. CASE v # u
        <4>1. now = before
          BY <1>7, <2>1, <3>2, RenewedLists
        <4> QED BY <1>4, <3>2, <4>1
      <3> QED BY <3>1, <3>2
    <2>3. <<v, p>> \in dropped => <<v, p>> \in dropped'
      OBVIOUS
    <2> QED BY <1>2, <1>3, <1>4, <1>5, <2>2, <2>3 DEF Listed
  <1> QED BY <1>6, <1>7

\* A binding that converts nothing.
LEMMA PlainInv ==
  ASSUME IInv, NEW o \in OpId, NEW t \in Nat, Bindable(t), BindPlain(o, t),
         UNCHANGED <<tensor_placeholder, tensor_producer, written>>
  PROVE  IInv'
  <1>0. TypeOK /\ BindingsKnown /\ IdsOK
    BY DEF IInv
  <1>20. /\ Takes(o, t, t) /\ bound' = [bound EXCEPT ![o] = Append(@, t)]
         /\ tensor_consumers' = Consumed(tensor_consumers, t, o)
         /\ UNCHANGED <<tensors, tensor_placeholder, cached_tensor, tensor_producer, asked,
                        unset, written, dropped>>
    BY DEF BindPlain, TakeInput, Takes, storeVars
  <1>1. IdsOK' /\ CacheOK' /\ AskedKnown' /\ ConstantsAsAsked' /\ TensorId' = TensorId
    BY <1>20, StoreStays
  <1>21. IdThen(t) \in Nat /\ IdThen(t) \in {NA, t}
    BY <1>0, <1>20 DEF IdThen, IdIn, IdsOK, Bindable, NA
  <1>2. /\ op_vector' \in Seq(Op) /\ OpId' = OpId /\ Len(op_vector') = Len(op_vector)
        /\ \A p \in OpId : /\ p # o => op_vector'[p] = op_vector[p]
                           /\ op_vector'[p].outputs = op_vector[p].outputs
        /\ op_vector'[o].inputs = Append(op_vector[o].inputs, t)
        /\ op_vector'[o].node = Append(op_vector[o].node, IdThen(t))
    BY <1>0, <1>20, <1>21, BoundInput
  <1>3. TypeOK'
    BY <1>0, <1>1, <1>2, <1>20 DEF TypeOK, Op
  <1>4. GetsInput(o, t, t)
    BY <1>1, <1>2, <1>3, <1>20, <1>21 DEF GetsInput, Bindable, BindableThen
  <1>5. BoundTogether' /\ NodesComputeWhatWasBound'
    BY <1>4, InputTogether
  <1>6. \A v \in DOMAIN tensor_consumers' :
          BindableThen(v) /\ tensor_consumers'[v] \in Seq(OpId)
    <2> SUFFICES ASSUME NEW v \in DOMAIN tensor_consumers'
                 PROVE  BindableThen(v) /\ tensor_consumers'[v] \in Seq(OpId)
      OBVIOUS
    <2>1. v \in DOMAIN tensor_consumers \/ v = t
      BY <1>20 DEF Consumed
    <2>2. Bindable(v)
      BY <1>0, <2>1 DEF BindingsKnown
    <2>3. Listing(tensor_consumers, v) \in Seq(OpId)
      BY <1>0, ListingType, ConsumersAre
    <2>4. Listing(tensor_consumers', v) \in Seq(OpId)
      <3>1. CASE v = t
        BY <1>20, <2>3, <3>1, ConsumedLists, Appended
      <3>2. CASE v # t
        BY <1>20, <2>3, <3>2, ConsumedLists
      <3> QED BY <3>1, <3>2
    <2> QED BY <1>4, <2>2, <2>4, InputKnown DEF Listing
  <1>7. BindingsKnown'
    BY <1>2, <1>4, <1>6, InputKnown DEF BindingsKnown, Bindable, BindableThen
  <1>8. AllListed'
    BY <1>2, <1>4, <1>20, PlainListed DEF AllListed
  <1>9. MapsFollowBindings'
    <2>1. AllProduced'
      BY <1>4, InputKnown
    <2> QED BY <1>3, <1>8, <2>1, MapsMean, PTL
  <1> QED BY <1>1, <1>3, <1>5, <1>7, <1>9 DEF IInv

\* A binding that converts the tensor.
LEMMA ConvertedInv ==
  ASSUME IInv, NEW o \in OpId, NEW t \in Nat, Bindable(t), Converts(o, t),
         NEW data \in Float32Data(t), BindConverted(o, t, data),
         UNCHANGED <<tensor_placeholder, tensor_producer, written>>
  PROVE  IInv'
  <1>0. TypeOK /\ BindingsKnown
    BY DEF IInv
  <1>20. PICK spec : spec = Float32(SpecOf(t))
    OBVIOUS
  <1>21. PICK u : u = Created(spec, data)
    OBVIOUS
  <1>22. /\ Takes(o, t, u) /\ bound' = [bound EXCEPT ![o] = Append(@, t)]
         /\ Create(spec, data)
         /\ tensor_consumers' = Renewed(Consumed(tensor_consumers, t, o), t, u, o)
         /\ dropped' = dropped \cup {<<t, q>> : q \in Range(ConsumersOf(t))}
    BY <1>20, <1>21 DEF BindConverted, TakeInput, Takes
  <1>1. SpecOf(t) \in SpecType /\ data \in Seq(Chunk)
    <2>1. CASE t = NA
      <3>1. data = NoData
        BY <1>0, <2>1, Types DEF Float32Data, TensorId, NA
      <3> QED BY <1>0, <2>1, <3>1, EmptySeq DEF Bindable, SpecOf, TypeOK, NA, NoData, TensorId
    <2>2. CASE t # NA
      <3>1. tensors[t] \in Tensor
        BY <1>0, <2>2, Types DEF Bindable
      <3> QED BY <2>2, <3>1, EmptySeq DEF SpecOf, Float32Data, Tensor, NoData
    <2> QED BY <2>1, <2>2
  <1>2. spec \in SpecType /\ spec.datatype = "FLOAT32"
    BY <1>1, <1>20, Float32Type
  <1>3. /\ tensors' \in Seq(Tensor) /\ TensorId \subseteq TensorId' /\ unset' \subseteq TensorId'
        /\ \A v \in TensorId : tensors'[v] = tensors[v]
        /\ u \in TensorId' /\ u \in Nat /\ u # NA
        /\ CacheOK' /\ IdsOK'
        /\ tensors'[u].spec.datatype = "FLOAT32"
    <2>1. written' = written /\ u \in Nat \ {0} => u \in Nat /\ u # NA
      BY DEF NA
    <2> QED BY <1>1, <1>2, <1>21, <1>22, <2>1, CreateStep
  <1>23. IdThen(u) \in Nat /\ IdThen(u) \in {NA, u}
    BY <1>3 DEF IdThen, IdIn, IdsOK, NA
  <1>4. t # u
    <2>1. t # NA => tensors'[t].spec.datatype = "FLOAT16"
      BY <1>3 DEF Converts, SpecOf, Bindable
    <2> QED BY <1>3, <2>1
  <1>5. /\ op_vector' \in Seq(Op) /\ OpId' = OpId /\ Len(op_vector') = Len(op_vector)
        /\ \A p \in OpId : /\ p # o => op_vector'[p] = op_vector[p]
                           /\ op_vector'[p].outputs = op_vector[p].outputs
        /\ op_vector'[o].inputs = Append(op_vector[o].inputs, u)
        /\ op_vector'[o].node = Append(op_vector[o].node, IdThen(u))
    BY <1>0, <1>3, <1>22, <1>23, BoundInput
  <1>6. TypeOK'
    BY <1>0, <1>3, <1>5, <1>22 DEF TypeOK, Op, Tensor
  <1>7. GetsInput(o, t, u)
    BY <1>3, <1>5, <1>6, <1>22, <1>23 DEF GetsInput, BindableThen, Converts
  <1>8. BoundTogether' /\ NodesComputeWhatWasBound'
    BY <1>3, <1>7, InputTogether
  <1>9. \A v \in DOMAIN tensor_consumers' :
          BindableThen(v) /\ tensor_consumers'[v] \in Seq(OpId)
    <2> SUFFICES ASSUME NEW v \in DOMAIN tensor_consumers'
                 PROVE  BindableThen(v) /\ tensor_consumers'[v] \in Seq(OpId)
      OBVIOUS
    <2> PICK map : map = Consumed(tensor_consumers, t, o)
      OBVIOUS
    <2>1. (v \in DOMAIN tensor_consumers /\ v # t) \/ v = u
      <3>1. DOMAIN Renewed(map, t, u, o) = (DOMAIN map \ {t}) \cup {u}
        BY DEF Renewed, Consumed
      <3>2. DOMAIN Consumed(tensor_consumers, t, o) = DOMAIN tensor_consumers \cup {t}
        BY DEF Consumed
      <3> QED BY <1>22, <3>1, <3>2
    <2>2. BindableThen(v)
      BY <1>0, <1>3, <1>7, <2>1, InputKnown DEF BindingsKnown, BindableThen
    <2>3. v # t
      BY <1>4, <2>1
    <2>4. Listing(map, v) = Listing(tensor_consumers, v)
      BY <2>3, ConsumedLists
    <2>5. Listing(tensor_consumers, v) \in Seq(OpId)
      BY <1>0, ListingType, ConsumersAre
    <2>6. Listing(tensor_consumers', v) \in Seq(OpId)
      <3>1. CASE v = u
        BY <1>4, <1>22, <2>4, <2>5, <3>1, RenewedLists, Appended
      <3>2. CASE v # u
        BY <1>4, <1>22, <2>3, <2>4, <2>5, <3>2, RenewedLists
      <3> QED BY <3>1, <3>2
    <2> QED BY <2>2, <2>6 DEF Listing
  <1>10. BindingsKnown'
    BY <1>3, <1>5, <1>7, <1>9, InputKnown DEF BindingsKnown, Bindable, BindableThen
  <1>11. AllListed'
    BY <1>3, <1>4, <1>5, <1>7, <1>22, ConvertedListed DEF AllListed
  <1>12. MapsFollowBindings'
    <2>1. AllProduced'
      BY <1>3, <1>7, InputKnown
    <2> QED BY <1>6, <1>11, <2>1, MapsMean, PTL
  <1>13. AskedKnown' /\ ConstantsAsAsked'
    BY <1>1, <1>2, <1>22, CreateAnswers
  <1> QED BY <1>3, <1>6, <1>8, <1>10, <1>12, <1>13 DEF IInv

LEMMA BindInputInv == ASSUME IInv, BindInput PROVE IInv'
  <1>1. PICK o \in DOMAIN op_vector, t \in DOMAIN tensors \cup {NA} :
          /\ t = NA => tensor_placeholder # Unset
          /\ IF Converts(o, t) THEN \E data \in Float32Data(t) : BindConverted(o, t, data)
                              ELSE BindPlain(o, t)
          /\ UNCHANGED <<tensor_placeholder, tensor_producer, written, writes>>
    BY DEF BindInput
  <1>2. o \in OpId /\ Bindable(t) /\ t \in Nat
    BY <1>1, Types DEF IInv, Bindable, NA
  <1>3. CASE ~Converts(o, t)
    BY <1>1, <1>2, <1>3, PlainInv
  <1>4. CASE Converts(o, t)
    <2>1. PICK data \in Float32Data(t) : BindConverted(o, t, data)
      BY <1>1, <1>4
    <2> QED BY <1>1, <1>2, <1>4, <2>1, ConvertedInv
  <1> QED BY <1>3, <1>4

-----------------------------------------------------------------------------
LEMMA NextInv == IInv /\ [Next]_vars => IInv'
  <1> SUFFICES ASSUME IInv, [Next]_vars PROVE IInv'
    OBVIOUS
  <1>1. CASE CreateTensor
    BY <1>1, CreateTensorInv
  <1>2. CASE CreateTensorPlaceHolder
    BY <1>2, PlaceHolderInv
  <1>3. CASE CopyDataToTensor
    BY <1>3, CopyDataInv
  <1>4. CASE CreateOperation
    BY <1>4, CreateOperationInv
  <1>5. CASE BindInput
    BY <1>5, BindInputInv
  <1>6. CASE BindOutput
    BY <1>6, BindOutputInv
  <1>7. CASE UNCHANGED vars
    <2>0. UNCHANGED <<tensors, tensor_placeholder, cached_tensor, op_vector, tensor_consumers,
                      tensor_producer, asked, bound, written, unset, dropped>>
      BY <1>7 DEF vars, graphVars, storeVars
    <2>1. IdsOK' /\ CacheOK' /\ AskedKnown' /\ ConstantsAsAsked' /\ TensorId' = TensorId
      BY <2>0, StoreStays
    <2>2. TypeOK'
      BY <2>0, <2>1 DEF IInv, TypeOK
    <2>3. BindingsKnown' /\ BoundTogether' /\ MapsFollowBindings' /\ NodesComputeWhatWasBound'
      BY <2>0, <2>1, <2>2, BindingsStay
    <2> QED BY <2>1, <2>2, <2>3 DEF IInv
  <1> QED BY <1>1, <1>2, <1>3, <1>4, <1>5, <1>6, <1>7 DEF Next

LEMMA Invariance == Spec => []IInv
  BY InitInv, NextInv, PTL DEF Spec

\* CreateTensor answers a constant with a tensor of what was asked for, whatever the
\* cache had been filled with before, and the tensor holds it, or what CopyDataToTensor put
\* into it since: unless ovxlib did not take it, or it had been overwritten when it was
\* handed out again.
THEOREM ConstantsAreAsAsked == Spec => []ConstantsAsAsked
  <1>1. IInv => ConstantsAsAsked
    BY DEF IInv
  <1> QED BY <1>1, Invariance, PTL

\* UpdateTensorConsumersMap, RenewTensorConsumersMap and UpdateTensorProducerMap keep
\* the maps in step with what operations were bound to.
THEOREM MapsAreKept == Spec => []MapsFollowBindings
  <1>1. IInv => MapsFollowBindings
    BY DEF IInv
  <1> QED BY <1>1, Invariance, PTL

\* BindInput gives ovxlib the id of the tensor that was bound, or of its conversion, which
\* is NA for one that ovxlib could not add.
THEOREM OvxlibHasWhatWasBound == Spec => []NodesComputeWhatWasBound
  <1>1. IInv => NodesComputeWhatWasBound
    BY DEF IInv
  <1> QED BY <1>1, Invariance, PTL
====
