SPECIFICATION Spec
CONSTANTS
  a = a  b = b
  Specs <- MCSpecs
  Quants = {"NONE", "DFP"}
  Chunk = {a, b}
  Kinds = {"conv", "add"}
  Arity <- MCArity
  MaxTensors = 2  MaxOps = 2  MaxWrites = 1  MaxFailures = 1
CONSTRAINTS OneInput InTurn TensorsFirst Placeholder
SYMMETRY Contents
CHECK_DEADLOCK FALSE
INVARIANTS ConstantsAsAsked MapsFollowBindings NodesComputeWhatWasBound
