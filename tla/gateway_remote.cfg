CONSTANTS
    d1 = d1
    d2 = d2
    stranger = stranger
    Sids = {d1, d2}
    CodeCount <- MCCodeCount
    Datagrams <- Improper
    MaxObjects = 2
    MaxInbox = 2
    Orderly = FALSE
    Fragments = FALSE
    NoItem = NoItem
SPECIFICATION Spec
INVARIANTS InStep
PROPERTY ImplementsRemote
CHECK_DEADLOCK FALSE
