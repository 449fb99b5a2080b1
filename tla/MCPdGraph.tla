----------------------------- MODULE MCPdGraph -----------------------------
(* A mixer and a filter of two oscillators; a graph with a filter between    *)
(* an oscillator and the output, beside it; a graph that feeds another;    *)
(* and an envelope that messages a graph.                                    *)
EXTENDS PdGraph

CONSTANTS osc1, osc2, mul, lop, dac, env, mtof, sub1, in1, wrap1, out1,
          sub2, in2, send2, ctl2, let2

MCNodeList == <<dac, osc1, mul, osc2, lop, mtof, env,
                sub1, in1, wrap1, out1, sub2, in2, send2, ctl2, let2>>
MCNodes == {MCNodeList[n] : n \in DOMAIN MCNodeList}
MCGraphs == {Root, sub1, sub2}
MCIn1 == {in1, wrap1, out1}
MCIn2 == {in2, send2, ctl2, let2}
MCGraphOf == [o \in MCNodes |->
    IF o \in MCIn1 THEN sub1 ELSE IF o \in MCIn2 THEN sub2 ELSE Root]
MCKind == [o \in MCNodes |->
    CASE o \in {sub1, sub2} -> "graph"
      [] o \in {in1, in2}   -> "inlet~"
      [] o = out1           -> "outlet~"
      [] o = ctl2           -> "inlet"
      [] o = let2           -> "outlet"
      [] o = mtof           -> "message"
      [] OTHER              -> "dsp"]
MCMessageInlets == [o \in MCNodes |->
    IF o = lop THEN 2
    ELSE IF o \in {osc1, osc2, mtof, ctl2, let2} THEN 1 ELSE 0]
MCDspInlets == [o \in MCNodes |->
    IF o = mul THEN 2
    ELSE IF o \in {osc1, osc2, mtof, sub1, sub2, ctl2, let2} THEN 0 ELSE 1]
MCOutlets == [o \in MCNodes |->
    IF o \in {dac, send2, sub1, sub2} THEN 0 ELSE 1]
MCSenders == {env}
MCInletList == [g \in {sub1, sub2} |->
    IF g = sub1 THEN <<in1>> ELSE <<ctl2, in2>>]
MCOutletList == [g \in {sub1, sub2} |->
    IF g = sub1 THEN <<out1>> ELSE <<let2>>]
MCDepth == [o \in MCNodes |->
    CASE o \in {osc1, in1, in2, ctl2} -> 1
      [] o \in {env, wrap1}           -> 2
      [] o \in {mtof, send2, out1}    -> 3
      [] o = osc2                     -> 4
      [] o \in {lop, sub1}            -> 5
      [] o \in {mul, sub2}            -> 6
      [] OTHER                        -> 7]
MCPatches ==
    {{osc1, osc2, mul, lop},
     {osc1, sub1, in1, wrap1, out1, dac},
     {osc1, sub1, in1, out1, sub2, in2, send2, ctl2, let2},
     {env, mtof, sub2, ctl2, in2, send2, let2}}
=============================================================================
