SPECIFICATION Spec
CONSTANTS
    None = None
    Clients = {demoClient, c1}
    Cases = {demoCase, k1}
    Sessions = {s1, s2}
    Documents = {d1}
    DemoClient = demoClient
    DemoCase = demoCase
INVARIANT NoOrphans
INVARIANT ListsMatchDisk
INVARIANT ScreenSound
