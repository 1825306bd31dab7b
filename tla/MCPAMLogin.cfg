SPECIFICATION Spec
CONSTANTS
    Logins = {l1, l2}
    Generated <- MCGenerated
    EnvToken = "env"
    CreatedToken = "created"
INVARIANTS
    GrantJustified
PROPERTIES
    LoginEnds
