---- MODULE MCRNNState ----
EXTENDS RNNState, TLC

CONSTANTS s, b

MCInputs == (s :> 1) @@ (b :> 2)
MCLists == {<<s, b>>, <<b, s>>}
====
