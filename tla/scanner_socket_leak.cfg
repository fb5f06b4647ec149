CONSTANTS
    Modules = {a, b}
    Ips = {i1}
    Fds = {f1, f2}
    NoModule = NoModule
    NoIp = NoIp
    TornIp = TornIp
    HandlerThreads = {"scanner"}
    PromptRearm = TRUE
SPECIFICATION Spec
INVARIANT LostSocketClosed
CHECK_DEADLOCK FALSE
