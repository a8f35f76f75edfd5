SPECIFICATION ReviewSpec
CONSTANTS
    Entries = {e1}
    Versions = {v1, v2}
    Changes = {}
    Fields = {}
    FieldValues = {0, 1}
    Blank = 0
    Users = {ada, sam}
    Editors = {ada}
    Reviewers = {ada}
    ServerAdmins = {sam}
    MaxRequests = 2
    None = None
INVARIANT OfferedPublicationWorks

SYMMETRY IdSymmetry
CHECK_DEADLOCK FALSE
