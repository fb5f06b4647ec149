CONSTANTS
    Modules = {m1, m2}
    Ips = {a1, a2}
    Nodes = {n1, n2}
    Fds = {f1, f2, f3}
    NoModule = NoModule
    NoIp = NoIp
    NoNode = NoNode
    NoFd = NoFd
    Held = Held
SYMMETRY Symmetry
SPECIFICATION Spec
CHECK_DEADLOCK FALSE
INVARIANTS TypeOK TableSound AwaitedWhereAsked NoOldAnswer
PROPERTIES SentToItsAddress
