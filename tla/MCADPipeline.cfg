SPECIFICATION Spec
CONSTANTS
    svc = svc
    dc1 = dc1
    dc2 = dc2
    h1 = h1
    h2 = h2
    Agents = {dc1, dc2}
    Handlers = {h1, h2}
    SIDs = {svc}
    Logged <- MCLogged
    AttributeValues <- MCValues
    Hours = {0, 1}
    temporalRegularity <- MCRegularity
    minObservationDays = 1
    minAuthCount = 2
    classifyThreshold = 750
    baselineMinPercent = 5
    BatchSize = 2
    MaxEvents = 3
    MaxDays = 1
    MaxFaults = 1
SYMMETRY Symmetry
INVARIANTS
    CountsSound
    ClassifiedAfterObservation
    DenialHasContrast
