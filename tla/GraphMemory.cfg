SPECIFICATION Spec
CONSTANTS
    Alignment = 2
    MaxChunkSize = 6
    MaxChunks = 3
    Endless = 50
    MaxParts = 3
    Graphs <- MCGraphs
INVARIANT FreeSpaceExact
INVARIANT SourcesIntact
INVARIANT OutputsIntact
