--------------------------- MODULE MCSignalPatch ---------------------------
(* One patch where an object sends to a filter while the graph runs, one     *)
(* where the host changes the connections of an object in a subgraph that    *)
(* has a switch~; a delay line with readers that run before and after it is  *)
(* written; and an object or two of every other kind, one of which takes no  *)
(* messages.                                                                 *)
EXTENDS SignalPatch

CONSTANTS snapshot, lop, noise, plus, write, early, late1, sig, vd, shape,
          osc, fmOsc, env, read, read4, addBoth, minus, times, over, least, clip,
          wrap, bp, hip, throwA, throwB, throwC, catch, sender, receive1,
          receive2, dacA, dacB, root2, logOf, recip, cosine, vline,
          phasor, fmPhasor, main, root, sub

MCKind ==
    [o \in DspObjects |->
        CASE o = snapshot -> "snapshot~" [] o = lop -> "lop~"
          [] o = noise -> "noise~" [] o \in {plus, addBoth} -> "+~"
          [] o = write -> "delwrite~" [] o \in {early, late1} -> "delread~"
          [] o = sig -> "sig~" [] o = vd -> "vd~" [] o = shape -> "line~"
          [] o \in {osc, fmOsc} -> "osc~" [] o = env -> "env~"
          [] o = read -> "tabread~" [] o = read4 -> "tabread4~"
          [] o = minus -> "-~" [] o = times -> "*~" [] o = over -> "/~"
          [] o = least -> "min~" [] o = clip -> "clip~"
          [] o = wrap -> "wrap~" [] o = bp -> "bp~" [] o = hip -> "hip~"
          [] o \in {throwA, throwB, throwC} -> "throw~" [] o = catch -> "catch~"
          [] o = sender -> "send~" [] o \in {receive1, receive2} -> "receive~"
          [] o \in {dacA, dacB} -> "dac~" [] o = root2 -> "sqrt~"
          [] o = logOf -> "log~" [] o = recip -> "rsqrt~"
          [] o = cosine -> "cos~" [] o = vline -> "vline~"
          [] o \in {phasor, fmPhasor} -> "phasor~"]

MCOrder ==
    <<snapshot, lop, noise, plus, early, write, late1, sig, vd, shape, osc,
      fmOsc, env, read, read4, addBoth, minus, times, over, least, clip, wrap, bp,
      hip, throwA, throwB, catch, throwC, receive1, sender, receive2, dacA,
      dacB, root2, logOf, recip, cosine, vline, phasor, fmPhasor>>
MCObjects == Range(MCOrder)
MCPatches ==
    {{snapshot, lop}, {plus}, {early, write, late1}, {write, sig, vd},
     {shape}, {osc}, {sig, fmOsc}, {env}, {read}, {read4}, {addBoth}, {minus, root2}, {wrap, logOf},
     {minus, recip, cosine}, {vline}, {phasor}, {sig, fmPhasor},
     {times}, {over}, {least}, {clip, wrap}, {bp}, {noise, hip},
     {catch}, {throwA, catch}, {throwA, throwB, catch, throwC},
     {receive1, sender, receive2}, {dacA, dacB}}

MCNodeList ==
    [p \in MCPatches |-> SelectSeq(MCOrder, LAMBDA o : o \in p)]

MCArguments ==
    [o \in DspObjects |->
        CASE o = write -> {<<20>>, <<32>>}
          [] o = early -> {<<0>>, <<16>>}
          [] o = late1 -> {<<0>>, <<5>>, <<20>>, <<32>>, <<40>>}
          [] o \in {osc, phasor} -> {<<100>>, <<9000>>}
          [] o = logOf -> {<<2>>}
          [] o = env -> {<<32>>, <<40>>, <<16, 16>>, <<32, 24>>}
          [] o = over -> {<<2>>}
          [] o = addBoth -> {<<3>>}
          [] o \in {throwA, throwC, catch, sender} -> {<<1>>}
          [] o = throwB -> {<<1>>, <<2>>}
          [] o \in {receive1, receive2} -> {<<1, 0>>, <<1, 1>>, <<2, 0>>}
          [] OTHER -> {<<>>}]

Adc == <<adc_1>>
MCSourcesOf ==
    [o \in DspObjects |->
        CASE o \in {plus, addBoth, minus, times, over, least} -> <<adc_1, adc_2>>
          [] o \in {vd, fmOsc, fmPhasor} -> <<sig>>
          [] o \in {osc, phasor} -> <<Silent>>
          [] o \in {sig, noise, catch, receive1, receive2, shape, vline,
                    early, late1} -> <<>>
          [] o = logOf -> <<wrap, adc_2>>
          [] o \in {root2, recip, cosine} -> <<minus>>
          [] o \in {wrap, throwB} -> <<adc_2>>
          [] o = dacA -> <<adc_1, adc_2>>
          [] o = dacB -> <<adc_1, adc_1>>
          [] OTHER -> Adc]

MCBuildsOf ==
    [o \in DspObjects |->
        CASE o \in {osc, fmOsc} -> {"SSE"}
          [] o \in {addBoth, minus, times, over, sig, shape, vline, root2,
                   logOf, cosine} -> Builds
          [] OTHER -> {"plain"}]

Number(inlet, n) == [inlet |-> inlet, selector |-> "float", floats |-> <<n>>]
Word2(selector, n) == [inlet |-> 0, selector |-> selector, floats |-> <<n>>]
Ramp(target, ms) ==
    [inlet |-> 0, selector |-> "float", floats |-> <<target, ms>>]
Bang == [inlet |-> 0, selector |-> "bang", floats |-> <<>>]

MCMessagesTo ==
    [o \in DspObjects |->
        CASE o = snapshot -> {Bang}
          [] o = lop -> {Number(1, 2), [Bang EXCEPT !.selector = "clear"]}
          [] o \in {hip} -> {Number(1, 0)}
          [] o = bp -> {Number(1, 0), Number(2, 2)}
          [] o \in {noise, late1} -> {Number(0, 7)}
          [] o = plus -> {Number(1, 4)}
          [] o = addBoth -> {Number(1, 0), Number(1, 4), Number(0, 9)}
          [] o = over -> {Number(1, 0), Number(1, 4)}
          [] o \in {minus, times, least} -> {Number(1, 4)}
          [] o = sig -> {Number(0, 3), Number(0, 70)}
          [] o = clip -> {Number(1, 40), Number(2, 20)}
          [] o = shape -> {Number(0, 4096), Ramp(4096, 0), Ramp(4096, 8),
                           Ramp(0, 2)}
          [] o = vline -> {Ramp(4096, 8), Ramp(0, 2),
                           [Bang EXCEPT !.selector = "stop"]}
          [] o = osc -> {Bang, Number(0, 50)}
          [] o = phasor -> {Number(0, 50)}
          [] o = logOf -> {Number(1, 0), Number(1, 3)}
          [] o \in {read, read4} -> {Number(1, -7), Word2("set", 0),
                                     Word2("set", 1)}
          [] OTHER -> {}]

\* The host's direct messages to some carry times out of order, of the block before
\* and of the one after.
MCDirectTimes ==
    [o \in DspObjects |->
        IF o \in {plus, over, clip} THEN {-3, 0, 9, 40} ELSE {0}]
MCBlockStart == [o \in DspObjects |-> {0}]

MCFeeds == [o \in DspObjects |-> IF o = snapshot THEN {lop} ELSE {}]
MCGraphOf == [o \in DspObjects |->
    IF o \in {plus, throwB, dacB} THEN sub ELSE main]
MCAround == [o \in DspObjects |->
    IF GraphOf[o] = sub THEN {root, sub} ELSE {MCGraphOf[o]}]

\* In these patches the snapshot~ runs before the filter it feeds, every object
\* after those it hears, readers have places and lines, and courses go on, as the
\* proofs assume.
ASSUME PatchesFeedOnward ==
    /\ FeedsOnward /\ HearsBefore /\ SnapshotsHearTheHost
    /\ PlacesAreGiven /\ DelayLinesHearTheHost /\ CoursesGoOn
=============================================================================
