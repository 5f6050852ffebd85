SPECIFICATION Spec
CONSTANTS
    Users = {adm, u1}
    Admins = {adm}
    Houses = {h1, h2}
    RegIds = {r1, r2}
    JoinIds = {j1}
    TransferIds = {}
    NoUser = NoUser
    NoHouse = NoHouse
SYMMETRY Symmetry
INVARIANTS
    DefaultHouseIsActive
    PendingRegistrationIsApprovable
    HousesComeFromRegistrations
PROPERTIES
    EntryNeedsDecision
    AccessChangesAreAnnounced
VIEW View
