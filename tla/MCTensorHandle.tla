---- MODULE MCTensorHandle ----
EXTENDS TensorHandle, TLC

CONSTANTS t1, t2, t3, a1, o1, o2, o3

MCTensor == {t1, t2, t3}
MCApp == {a1}
MCOvx == {o1, o2, o3}
MCSize == [t \in MCTensor |-> 4]
MCBufferSize == [b \in MCApp \cup MCOvx |-> 4]
MCSymmetry == Permutations(MCTensor) \cup Permutations(MCOvx)

\* A tensor that is twice as large as the others.
MCSizes == [t \in MCTensor |-> IF t = t1 THEN 8 ELSE 4]
MCBufferSizes == [b \in MCApp \cup MCOvx |-> IF b = o1 THEN 8 ELSE 4]
====
