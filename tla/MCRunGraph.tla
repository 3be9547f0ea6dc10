---- MODULE MCRunGraph ----
EXTENDS RunGraph, TLC

CONSTANTS t1, t2, t3, a1, o1, o2

MCTensor == {t1, t2, t3}
MCApp == {a1}
MCOvx == {o1, o2}
MCSize == [t \in MCTensor |-> 4]
MCBufferSize == [b \in MCApp \cup MCOvx |-> 4]
MCFirst == (t1 :> a1) @@ (t2 :> o1) @@ (t3 :> o2)

\* One node with an input and an output, and a second node that reads the first's input.
MCTwoNodes == <<t1, t2, t1>>
====
