SPECIFICATION Spec
CONSTANTS
    None = None
    Clients = {c1}
    Cases = {matter}
    ClientOf <- MCClientOf
    DemoCase = demo
    Sessions = {s1, s2}
    Jobs = {j1, j2}
    MinSegments = 1
    MaxSegments = 2
    MaxInterrupts = 1
    SaveMayFail = FALSE
SYMMETRY MCSymmetry
INVARIANT ConsentBeforeCapture
