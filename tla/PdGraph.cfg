SPECIFICATION Spec
CONSTANTS
    osc1 = osc1
    osc2 = osc2
    mul = mul
    lop = lop
    dac = dac
    env = env
    mtof = mtof
    sub1 = sub1
    in1 = in1
    wrap1 = wrap1
    out1 = out1
    sub2 = sub2
    in2 = in2
    send2 = send2
    ctl2 = ctl2
    let2 = let2
    Root = Root
    ImplicitAdd = ImplicitAdd
    NodeList <- MCNodeList
    Graphs <- MCGraphs
    GraphOf <- MCGraphOf
    Kind <- MCKind
    MessageInlets <- MCMessageInlets
    DspInlets <- MCDspInlets
    Outlets <- MCOutlets
    Senders <- MCSenders
    InletList <- MCInletList
    OutletList <- MCOutletList
    Depth <- MCDepth
    Patches <- MCPatches
    MaxConnections = 4
    MaxRefused = 1
    MaxEdits = 4
    MaxOrders = 2
INVARIANTS EndsAgree RunsWhatIsThere ReadsItsSources
PROPERTY BuffersComeBack
CHECK_DEADLOCK FALSE
