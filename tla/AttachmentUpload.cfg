SPECIFICATION UploadSpec
CONSTANTS
    Users = {u1, u2}
    Uploads = {p1, p2}
    Issues = {n1, n2}
    Calls = {c1, c2, c3}
    Files = {good1, good2, bad}
    Valid = {good1, good2}
    NoUser = NoUser
    NoUpload = NoUpload
    NoIssue = NoIssue
    NoFile = NoFile
SYMMETRY Symmetry
INVARIANTS
    UploadTypeOK
    VerifiedFileStays
    OnlyRefusedAreDeleted
    IssueHasOwnPhotos
PROPERTIES
    PhotoIsDecidedOnce
