\* The three rows of the instance are all there are: the system stops when they
\* are published.
SPECIFICATION FairRelaySpec
CONSTANTS
    Relays = {r1, r2}
    Rows = {1, 2, 3}
    BatchSize = 2
    Services = {"identity", "issue", "community"}
INVARIANTS
    RelayTypeOK
    PublishedWasAppended
    RepeatNeedsFailure
PROPERTIES
    EveryRowIsPublished
CHECK_DEADLOCK FALSE
