SPECIFICATION Spec
CONSTANTS
    Handlers = {h1, h2}
    Identities = {i1, i2}
    FactorIDs = {f1, f2}
    Devices = {d1}
    Ages = {1, 2}
    MaxCount = 1
    MaxRequests = 3
    MaxCeremonies = 3
SYMMETRY Symmetry
INVARIANTS
    TypeOK
    EnrolledFirst
    StaleNeverVerifies
PROPERTIES
    CounterMonotone
