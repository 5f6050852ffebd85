SPECIFICATION LifecycleSpec
CONSTANTS
    Users = {u1, u2}
    Issues = {1, 2}
    Requests = {r1, r2}
    MaxTime = 4
    MaxLists = 1
    PageSize = 1
SYMMETRY Symmetry
INVARIANTS
    CountIsConfirmations
    TimelineTellsTheStatus
    StatementsFollowTheIssue
    DetailsAreConsistent
    ListIsComplete
