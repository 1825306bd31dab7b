SPECIFICATION Spec
CONSTANTS
    Handlers = {h1}
    Challenges = {c1, c2}
    MethodSets <- OneOrMore
    MaxAttempts = 2
    MaxRequests = 3
    MaxCeremonies = 2
INVARIANTS
    AttemptsBounded
    CeremonyBound
PROPERTIES
    ImplementsLifecycle
