CONSTANTS
    Modules = {a, b}
    Ips = {i1}
    Fds = {f1, f2}
    NoModule = NoModule
    NoIp = NoIp
    TornIp = TornIp
    HandlerThreads = {"scanner"}
    PromptRearm = TRUE
SPECIFICATION FairSpec
PROPERTY SilenceNoticed
CHECK_DEADLOCK FALSE
