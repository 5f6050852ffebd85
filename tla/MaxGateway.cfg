SPECIFICATION MCSpec
CONSTANTS
    Users = {u1}
    Houses = {h1}
    Roles = {"none", "CHAIRMAN"}
    Tokens = {t1, t2}
    Keys = {k1}
    Commands = {manage, join}
    Managing = {manage}
    Open = {join}
    Requests = {1, 2}
    MaxChanges = 1
    Nobody = Nobody
    NoHouse = NoHouse
    NoKey = NoKey
    Nothing = Nothing
    Deliveries = {d1, d2, d3}
    MaxSlips = 2
    Free = Free
CHECK_DEADLOCK FALSE
INVARIANTS
    AuthorityWasHeld
    NothingAfterLogout
    OneAtATime
    RepeatedAnswerHasCause
PROPERTIES
    ImplementsOnce
    EveryUpdateIsAnswered
