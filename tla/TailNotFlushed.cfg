SPECIFICATION Spec
CONSTANTS
    MaxRecordings = 2
    ReadSize = 2
    WindowSamples = 2
    SamplesPerMs = 2
    MaxPosition = 4
CHECK_DEADLOCK FALSE
INVARIANT TailFlushed
