SPECIFICATION Spec
CONSTANTS
    Low = 24
    Elevated = 49
    High = 74
    VeryHigh = 89
    Handlers = {h1, h2}
    Admins = {a1, a2}
    PolicyIDs = {p1, p2}
    PolicyBodies <- MCBodies
    Requests <- MCRequests
    conditionsAnswer <- MCConditions
    MaxRequests = 2
    MaxChanges = 3
SYMMETRY AccessSymmetry
INVARIANTS
    AnswersAudited
    ChallengesAnswered
    DecisionDocumented
    AnswersAsMeant
