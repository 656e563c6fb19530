SPECIFICATION FairSpec
CONSTANTS
    Calls <- MCCalls
    MaxDecoders = 2
    Temperatures = 2
    WithHistory = 1
    TextCtx = 14
    InitLen = 4
    Chunk = 4
    DeltaMin = 1
    ShortRest = 1
    MaxInitialTs = 1
    EntropyLen = 2
INVARIANT TypeOK
INVARIANT OwnContext
INVARIANT CacheRoom
PROPERTY TranscriptGrows
PROPERTY CallReturns
