CONSTANTS
    Names <- MCNames
    TestName <- MCTestName
    Values = {0, 7, 10}
    ReadLimit = 45
    Beyond <- MCBeyond
SPECIFICATION Spec
INVARIANTS TextIsObject ReadsBack CutRefused BuffersFit
CHECK_DEADLOCK FALSE
