SPECIFICATION Spec
CONSTANTS
    snapshot = snapshot
    lop = lop
    noise = noise
    plus = plus
    write = write
    early = early
    late1 = late1
    sig = sig
    vd = vd
    shape = shape
    osc = osc
    fmOsc = fmOsc
    env = env
    read = read
    read4 = read4
    addBoth = addBoth
    minus = minus
    times = times
    over = over
    least = least
    clip = clip
    wrap = wrap
    bp = bp
    hip = hip
    throwA = throwA
    throwB = throwB
    throwC = throwC
    catch = catch
    sender = sender
    receive1 = receive1
    receive2 = receive2
    dacA = dacA
    dacB = dacB
    root2 = root2
    logOf = logOf
    recip = recip
    cosine = cosine
    vline = vline
    phasor = phasor
    fmPhasor = fmPhasor
    main = main
    root = root
    sub = sub
    adc_1 = adc_1
    adc_2 = adc_2
    Silent = Silent
    DspObjects <- MCObjects
    dspNodeList <- MCNodeList
    Patches <- MCPatches
    Graphs = {main, root, sub}
    GraphOf <- MCGraphOf
    Around <- MCAround
    Switchable = {root, sub}
    Handles = {snapshot, lop, plus, sig, shape, vd, osc, fmOsc, read, read4, addBoth, minus, times, over, least, clip, bp, hip, logOf, vline, phasor}
    Adapts = {plus, addBoth, minus, times, over, least, logOf}
    Feeds <- MCFeeds
    Kind <- MCKind
    Arguments <- MCArguments
    SourcesOf <- MCSourcesOf
    BuildsOf <- MCBuildsOf
    MessagesTo <- MCMessagesTo
    Offsets = {0, 9, 16, 24}
    DirectTimes <- MCBlockStart
    TableLengths = {3, 12}
    Unit = 2
    ShortUnit = 8
    SamplesPerMs = 4
    Outside = 999999
    BlockSize = 16
    TicksPerSample = 2
    MaxBlocks = 4
    MaxQueue = 2
    MaxMessages = 2
INVARIANT UnalignedIsServed
CHECK_DEADLOCK FALSE
