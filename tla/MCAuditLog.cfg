SPECIFICATION Spec
CONSTANTS
    Procs = {p1, p2, p3}
    Contents = {c1, c2}
    MaxEvents = 3
    EmptyHash <- MCEmptyHash
    Hashes <- MCHashes
    computeAuditHash <- MCHash
INVARIANTS
    ChainIntact
    RealTimeOrder
    AlterationDetected
PROPERTIES
    AppendOnly
