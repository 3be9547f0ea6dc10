---- MODULE MCLayoutInference ----
EXTENDS LayoutInference, TLC

CONSTANTS x, t1, t2, t3, t4, c4, c3, w, b

MCTensor == {x, t1, t2, t3, t4, c4, c3, w, b}
MCCWHN2WHCN == <<2, 3, 1, 4>>
MCConstPerms == {<<2, 3, 1, 4>>, <<3, 4, 2, 1>>, <<3, 4, 1, 2>>, <<3, 4, 5, 2, 1>>}

MCOp(kind, ins, out) ==
  [kind |-> kind, ins |-> ins, outs |-> <<out>>, axis |-> 0, perm |-> <<>>,
   cwhn |-> FALSE, keep_dim |-> FALSE]

\* Operations that read the tensor t of rank r: any, and one of each kind.
MCPlain(t, out, r) ==
  {MCOp("activation", <<t>>, out), MCOp("default", <<t>>, out)} \cup
  IF r # 4 THEN {}
  ELSE {[MCOp("conv2d", <<t, w>>, out) EXCEPT !.cwhn = TRUE, !.perm = <<3, 4, 2, 1>>],
        MCOp("pool2d", <<t>>, out)}
MCOthers(t, out, r) ==
  {[MCOp("softmax", <<t>>, out) EXCEPT !.axis = 1],
   [MCOp("stack", <<t, t>>, out) EXCEPT !.axis = 2]} \cup
  IF r # 4 THEN {}
  ELSE {[MCOp("reduce", <<t>>, out) EXCEPT !.axis = 3, !.keep_dim = k] : k \in BOOLEAN}
       \cup {[MCOp("resize", <<t>>, out) EXCEPT !.cwhn = TRUE],
             [MCOp("batchnorm", <<t, b, b>>, out) EXCEPT !.cwhn = t = x],
             [MCOp("split", <<t>>, out) EXCEPT !.outs = <<out, t4>>, !.axis = 1],
             [MCOp("transpose", <<t>>, out) EXCEPT !.perm = <<2, 3, 1, 4>>]}
MCPair(t, u, out) ==
  {MCOp("elementwise", <<t, u>>, out), MCOp("addn", <<u, t>>, out),
   [MCOp("concat", <<t, u>>, out) EXCEPT !.axis = 1]}

MCRankAfter(op, r) ==
  CASE op.kind = "stack" -> r + 1
    [] op.kind = "reduce" /\ ~op.keep_dim -> r - 1
    [] OTHER -> r

\* A graph of three operations; used are the tensors that are read.
MCGraph(ops, r1, r2, also, pvs) ==
  LET used == UNION {Range(ops[o].ins) : o \in DOMAIN ops}
      written == UNION {Range(ops[o].outs) : o \in DOMAIN ops}
  IN  [rank |-> [t \in MCTensor |-> CASE t = t1 -> r1 [] t = t2 -> r2 [] t = t3 -> r2
                                      [] t = c3 -> 3 [] t = b -> 1 [] OTHER -> 4],
       inputs |-> <<x>>, constants |-> {c4, c3, w, b},
       outputs |-> (written \ used) \cup also,
       tensor_pv_map |-> pvs, ops |-> ops]

MCFirst == MCPlain(x, t1, 4) \cup MCOthers(x, t1, 4) \cup {MCOp("elementwise", <<c4, x>>, t1)}
MCSecond(r1) ==
  MCPlain(x, t2, 4) \cup MCPlain(t1, t2, r1)
  \cup {MCOp("activation", <<c4>>, t2), MCOp("default", <<c4>>, t2)}
  \* Constants only, and a weight that is none.
  \cup {MCOp("addn", <<c4, c4>>, t2), [MCOp("resize", <<c4>>, t2) EXCEPT !.cwhn = TRUE],
        [MCOp("batchnorm", <<c4, b, b>>, t2) EXCEPT !.cwhn = TRUE]}
  \cup {[MCOp("conv2d", <<t, x>>, t2) EXCEPT !.perm = <<1, 2, 3, 4>>] :
           t \in {c4} \cup (IF r1 = 4 THEN {t1} ELSE {})}
  \cup {op \in MCOthers(t1, t2, r1) : op.kind \in {"softmax", "batchnorm"}}
  \cup (IF r1 = 4 THEN MCPair(x, t1, t2) ELSE {})
  \cup (IF r1 = 3 THEN MCPair(t1, c3, t2) ELSE {})
\* The last operation keeps the rank of the tensor it reads, or is composite.
MCThird(r1, r2) ==
  MCPlain(t2, t3, r2) \cup {[MCOp("composite", <<x, t2>>, t3) EXCEPT !.outs = <<>>]}
  \cup (IF r2 = 4 THEN MCPair(x, t2, t3) \cup {MCOp("resize", <<x>>, t3)}
        ELSE {})
  \cup (IF r1 = r2 THEN {MCOp("elementwise", <<t1, t2>>, t3)} ELSE {})

MCGraphs ==
  UNION {LET r1 == MCRankAfter(first, 4) IN
    UNION {LET r2 == MCRankAfter(second, IF {x, c4} \cap Range(second.ins) # {} THEN 4 ELSE r1) IN
      {MCGraph(<<first, second, third>>, r1, r2, also, pvs) :
         third \in MCThird(r1, r2), also \in {{}, {t2}},
         pvs \in {<<>>, x :> <<2, 3, 1, 4>>}}
      : second \in MCSecond(r1)}
    : first \in MCFirst}
====
