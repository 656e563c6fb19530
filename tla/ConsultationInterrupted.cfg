SPECIFICATION FairSpec
CONSTANTS
    None = None
    Clients = {c1}
    Cases = {demo}
    ClientOf <- MCClientOf
    DemoCase = demo
    Sessions = {s1}
    Jobs = {j1, j2}
    MinSegments = 1
    MaxSegments = 1
    MaxInterrupts = 1
    SaveMayFail = TRUE
INVARIANT CaptureOwned
INVARIANT ProcessingHasJob
INVARIANT SessionsListFresh
INVARIANT CaseIntegrity
PROPERTY ProcessingEnds
