SPECIFICATION Spec
CONSTANTS
    Unit = 20
    Forever = 6
    SymbolBufferLength = 3
    DEFAULT_BUFFER_LENGTH = 2
    SampleRate = 44100
    RootPath = "/patches/"
    MaxDepth = 32
    MaxNow = 2
    Files <- MCFiles
    Sounds <- MCSounds
    Patches <- MCPatches
    Inputs <- MCInputs
    Requests <- MCRequests
    ExternalReceivers <- MCExternalReceivers
    LibM <- MCLibM
CHECK_DEADLOCK FALSE
INVARIANTS CyclesEnd StateIsKept ArithmeticAgrees MessagesArrive PatchIsItsFile TablesKeep
