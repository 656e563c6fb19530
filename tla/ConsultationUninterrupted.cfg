SPECIFICATION Spec
CONSTANTS
    None = None
    Clients = {c1}
    Cases = {demo, matter}
    ClientOf <- MCClientOf
    DemoCase = demo
    Sessions = {s1, s2}
    Jobs = {j1}
    MinSegments = 1
    MaxSegments = 2
    MaxInterrupts = 0
    SaveMayFail = TRUE
 
INVARIANT ConsentBeforeCapture
 
 
