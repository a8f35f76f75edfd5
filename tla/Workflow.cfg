SPECIFICATION Spec
CONSTANTS
    Entries = {e1}
    Versions = {v1}
    Changes = {c1}
    Fields = {}
    FieldValues = {0, 1}
    Blank = 0
    Users = {ada, sam}
    Editors = {ada}
    Reviewers = {ada}
    ServerAdmins = {sam}
    MaxRequests = 2
    None = None
INVARIANTS TypeOK ReviewInv FourEyes PublicEntryHasPublishedVersion
PROPERTIES ReleaseIsReviewed
SYMMETRY IdSymmetry
CHECK_DEADLOCK FALSE
