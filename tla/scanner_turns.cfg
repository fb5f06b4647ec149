CONSTANTS
    Modules = {a, b}
    Ips = {i1, i2}
    Fds = {f1, f2, f3}
    NoModule = NoModule
    NoIp = NoIp
    TornIp = TornIp
    HandlerThreads = {"main", "scanner"}
    PromptRearm = TRUE
SYMMETRY Symmetry
SPECIFICATION Spec
INVARIANTS TypeOK CycleGoesOn WindowSettled SocketsOwned AddressesFollowed FileCurrent
CHECK_DEADLOCK FALSE
