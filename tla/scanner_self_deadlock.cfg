CONSTANTS
    Modules = {a, b}
    Ips = {i1}
    Fds = {f1, f2}
    NoModule = NoModule
    NoIp = NoIp
    TornIp = TornIp
    HandlerThreads = {"main"}
    PromptRearm = TRUE
SPECIFICATION LiveSpec
PROPERTY CycleRecords
CHECK_DEADLOCK FALSE
