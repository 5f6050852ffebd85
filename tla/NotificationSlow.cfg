SPECIFICATION FairConsumerSpec
CONSTANTS
    Consumers = {c1}
    Entries = {n1}
    Events = {e1}
    Quiet = {}
    Malformed = {}
    Recipients = {1}
    PageSize = 2
    MaxAttempts = 2
    FaultKinds = {"slow"}
    NoEntry = NoEntry
    NoEvent = NoEvent
    Nobody = Nobody
PROPERTIES
    AttemptsEnd
