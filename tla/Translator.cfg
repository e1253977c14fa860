SPECIFICATION MCSpec
CONSTANTS
    W64 = 8
    W32 = 4
    W16 = 2
    W8 = 3
    Values = {0, 1, 2, 7, 8, 15, 16, 127, 128, 129, 247, 255}
    Cells = {0, 7, 8, 136, 255}
    MaxWrites = 2
    CacheLine = 8
    MaxOther = 1
    Exp = 3
    Sig = 2
    Exp2 = 4
    Sig2 = 3
    Ints = {1, 5, 6}
    LineSize = 2
    PageSize = 4
    Pages = 2
    Models = {"atomic", "simple", "inorder"}
    Kinds = {"alu", "mul", "mem", "sys", "br", "jal", "jalr"}
INVARIANTS
    OpsAsInterp
    AtomicsAsInterp
    
    FloatRight
    PreciseState
    CyclesPaid
    PageFetched
    DecoderUsesBits
    EncoderRoundTrip
\* An instruction that has run, has returned or was decoded, has no next step.
CHECK_DEADLOCK FALSE
