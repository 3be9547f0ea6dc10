---- MODULE MCGraphBuild ----
EXTENDS GraphBuild, TLC

CONSTANTS a, b

\* An input, biases of 16 and 32 bit floats of 256 elements, and constants of 16 bit
\* integers that differ in their quantization.
MCSpec(attr, datatype, quant, len) ==
  [attr |-> attr, datatype |-> datatype, quant |-> quant, len |-> len]
MCSpecs == {MCSpec("INPUT", "FLOAT16", "NONE", 0),
            MCSpec("CONSTANT", "FLOAT16", "NONE", 2),
            MCSpec("CONSTANT", "INT16", "NONE", 1),
            MCSpec("CONSTANT", "INT16", "DFP", 1)}
Contents == Permutations(Chunk)
MCArity == [conv |-> 3, add |-> 1]

\* Convolutions differ in their third input only; operations get their inputs one after
\* the other, and their outputs after them; the placeholder comes as an input or as a bias.
OneInput == \A o \in DOMAIN bound : op_vector[o].kind = "conv" =>
  \A i \in DOMAIN bound[o] : i < 3 => bound[o][i] = 1
InTurn == \A o \in DOMAIN bound :
  /\ o < Len(bound) => Len(bound[o]) = Arity[op_vector[o].kind]
  /\ op_vector[o].outputs # <<>> => Len(bound[o]) = Arity[op_vector[o].kind]
TensorsFirst == op_vector # <<>> => Len(tensors) >= MaxTensors
Placeholder == tensor_placeholder = Unset \/ tensor_placeholder.datatype = "FLOAT16"
====
