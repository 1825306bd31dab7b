SPECIFICATION Spec
CONSTANTS
    Log <- MCLog
    Distance <- MCDistance
    MaxTravelSpeed = 5
    FatigueThreshold = 2
    FatigueWindow = 2
    maxGeosPerIdentity = 2
    maxDevicesPerIdentity = 1
    maxMFAFailsPerIdentity = 2
    Live = TRUE
    Limit = 2
    MaxPages = 2
    maxAttempts = 2
    maxRecentUUIDs = 2
    maxTrackedIdentities = 2
    MaxFaults = 3
INVARIANTS
    NoGap
    ReplayedAlike
    FatigueGrounded
    DuplicatesBounded
    WaitsAsAsked
    NewGeoMismatch
PROPERTIES
    EventuallyDelivered
