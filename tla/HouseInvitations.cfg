SPECIFICATION InvitationSpec
CONSTANTS
    Users = {adm, u1}
    Admins = {adm}
    Houses = {h1}
    RegIds = {r1}
    JoinIds = {j1, j2}
    TransferIds = {}
    InviteIds = {i1}
    MaxUses = 2
    NoUser = NoUser
    NoHouse = NoHouse
    NoRequest = NoRequest
SYMMETRY Symmetry
INVARIANTS
    QuotaCountsUsers
    RedemptionNamesOwnRequest
PROPERTIES
    ImplementsWorkflow
VIEW View
