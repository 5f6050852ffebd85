SPECIFICATION FairConsumerSpec
CONSTANTS
    Consumers = {c1, c2}
    Entries = {n1}
    Events = {e1, quiet, bad}
    Quiet = {quiet}
    Malformed = {bad}
    Recipients = {1}
    PageSize = 1
    MaxAttempts = 2
    FaultKinds = {"crash", "redis", "slow", "identity"}
    NoEntry = NoEntry
    NoEvent = NoEvent
    Nobody = Nobody
PROPERTIES
    EveryEntrySettles
