SPECIFICATION Spec
CONSTANTS
    MaxRK = 2
    Flush = 2
    StackSize = 40
    Programs <- Numbers
    Compiled <- CompiledAll
    Meanings <- MeaningsAll
INVARIANTS
    CodeSound
    UpvaluesOpen
PROPERTIES
    MeansWhatItSays
