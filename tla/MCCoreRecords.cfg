SPECIFICATION Spec
CONSTANTS
    h1 = h1
    h2 = h2
    w1 = w1
    w2 = w2
    Handlers = {h1, h2}
    Webhooks = {w1, w2}
    InitialAccounts <- MCAccounts
    AdminFlags = {"ACCOUNTDISABLE", "DONT_EXPIRE_PASSWORD"}
    AdminGroups = {512}
    Bodies <- MCBodies
    Decisions <- MCDecisions
    Readable = {1}
    MaxRequests = 4
SYMMETRY Symmetry
INVARIANTS
    NoResurrection
    ReportedComplete
    OneIdentityPerAccount
    SuccessApplied
    AdaptersAccounted
PROPERTIES
    FlagsKept
