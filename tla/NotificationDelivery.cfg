SPECIFICATION ConsumerSpec
CONSTANTS
    Consumers = {c1, c2}
    Entries = {n1, n2}
    Events = {e1}
    Quiet = {}
    Malformed = {}
    Recipients = {1, 2}
    PageSize = 1
    MaxAttempts = 2
    FaultKinds = {"crash", "redis", "slow"}
    NoEntry = NoEntry
    NoEvent = NoEvent
    Nobody = Nobody
SYMMETRY Symmetry
INVARIANTS
    AckedIsSettled
    DoneReachedEverybody
    RepeatHasCause
CONSTRAINTS
    FaultsStay
    OneSlip
