SPECIFICATION Spec
CONSTANTS
    Handlers = {h1, h2}
    Challenges = {c1}
    MethodSets <- AllMethods
    MaxAttempts = 2
    MaxRequests = 4
    MaxCeremonies = 1
SYMMETRY HandlerSymmetry
INVARIANTS
    ApprovalWasOpen
    AuditAccounts
    FailsAfterAttempts
