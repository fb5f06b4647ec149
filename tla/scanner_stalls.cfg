CONSTANTS
    Modules = {a, b}
    Ips = {i1, i2}
    Fds = {f1, f2}
    NoModule = NoModule
    NoIp = NoIp
    TornIp = TornIp
    HandlerThreads = {"main", "scanner"}
    PromptRearm = FALSE
SYMMETRY Symmetry
SPECIFICATION Spec
INVARIANTS IInv OneTurn FreeNotUnderWalk
PROPERTIES ImplementsPresence HandlerEnds
CHECK_DEADLOCK FALSE
