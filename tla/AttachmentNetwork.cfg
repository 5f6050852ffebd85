SPECIFICATION UploadSpec
CONSTANTS
    Users = {u1, u2}
    Uploads = {p1}
    Issues = {n1}
    Calls = {c1, c2, c3}
    Files = {good1, good2, bad}
    Valid = {good1, good2}
    NoUser = NoUser
    NoUpload = NoUpload
    NoIssue = NoIssue
    NoFile = NoFile
SYMMETRY Symmetry
PROPERTIES
    ValidPhotoIsNotRefused
