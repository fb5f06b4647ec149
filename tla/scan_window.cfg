SPECIFICATION Spec
CONSTANTS
    a = a
    b = b
    c = c
    Modules = {a, b, c}
    Steady = {a}
    MinGap <- Shortest
    MaxGap <- Longest
    Cycle = 4
    MaxStart = 1
    Horizon = 15
INVARIANTS
    TypeOK
    AdoptedInTime
    SilentDropped
    EarlyByStart
PROPERTIES
    NoFalseLoss
