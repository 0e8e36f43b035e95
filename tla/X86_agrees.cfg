CONSTANTS
    Opcodes <- X86Opcodes
    Parse <- X86Parse
    Size <- Sizes
    Registers <- RegNames
    Number <- Numerals
    Instructions <- Built
    Files <- SomeFiles
    Modulus = 8
    MayFail = TRUE
    NULL = NULL
    UNINIT = UNINIT
SPECIFICATION FairSpec
CHECK_DEADLOCK FALSE
INVARIANTS
    BufferOK
    NoOverrun
    RoundTrip
    BackendsAgree
PROPERTIES
    MainEnds
