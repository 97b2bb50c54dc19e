SPECIFICATION FairSpec
CONSTANTS
    Requests <- MCRequests
    DotLists <- MCDotLists
    Tenants <- MCTenants
    MAX_DOT_ATTEMPTS = 2
    MAX_CONFIG_ATTEMPTS_PER_DOT = 2
    MaxRtt = 2
    MaxOthers = 1
INVARIANTS DotsInTurn TokenReachesDot
PROPERTIES EndsOrHangs
CHECK_DEADLOCK FALSE
