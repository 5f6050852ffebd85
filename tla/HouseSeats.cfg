SPECIFICATION Spec
CONSTANTS
    Users = {adm, u1, u2}
    Admins = {adm}
    Houses = {h1}
    RegIds = {r1}
    JoinIds = {}
    TransferIds = {t1, t2}
    NoUser = NoUser
    NoHouse = NoHouse
SYMMETRY Symmetry
INVARIANTS
    TypeOK
    OneChairmanRow
    RevokedHoldNoPower
    OpenOfferIsFromTheChairman
PROPERTIES
    ChairmanIsReplacedCleanly
VIEW View
