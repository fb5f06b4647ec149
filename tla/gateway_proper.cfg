CONSTANTS
    d1 = d1
    d2 = d2
    stranger = stranger
    Sids = {d1, d2}
    CodeCount <- MCCodeCount
    Datagrams <- Proper
    MaxObjects = 2
    MaxInbox = 1
    Orderly = TRUE
    Fragments = TRUE
    NoItem = NoItem
SPECIFICATION FairSpec
INVARIANTS TypeOK EndsNotByCommand AtMostTries
PROPERTIES HostServed CommandsEnd
CHECK_DEADLOCK FALSE
