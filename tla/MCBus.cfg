SPECIFICATION Spec
CONSTANTS
    Procs = {p1, p2}
    NumSubscribers = 2
    Healthy = {2}
    MaxEvents = 3
    genesis <- MCGenesis
    Hashes <- MCHashes
    Digest <- MCDigest
INVARIANTS
    NoFork
    HealthyHasChain
    DeliveryOrder
PROPERTIES
    EmitReturns
