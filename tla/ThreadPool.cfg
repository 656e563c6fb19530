SPECIFICATION FairSpec
CONSTANTS
    MaxThreads = 3
    MaxGraphs = 2
    Calls <- MCCalls
    ChunksWanted = 4
    PoorChunking = 2
INVARIANT TypeOK
INVARIANT Lockstep
INVARIANT QuietBetweenGraphs
PROPERTY ImplementsGraphRun
PROPERTY ComputeReturns
