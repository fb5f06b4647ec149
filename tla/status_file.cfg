CONSTANTS
    Sids = {s1, s2, s3}
    TestSid = TestSid
    Values = {0, 1, 1000}
    Unread = Unread
    ReadLimit = 98
    Splices <- MCSplices
SYMMETRY Symmetry
SPECIFICATION Spec
INVARIANTS TypeOK KeysUnique GatewayAgrees RefusesOnlyDamage
PROPERTIES NeverWiped UnreadableIsLeft ImplementsDurableStatus
