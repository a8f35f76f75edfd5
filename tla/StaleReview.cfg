SPECIFICATION ChangeSpec
CONSTANTS
    Entries = {e1}
    Versions = {v1}
    Changes = {c1, c2}
    Fields = {}
    FieldValues = {0, 1}
    Blank = 0
    Users = {ada, rob}
    Editors = {ada}
    Reviewers = {rob}
    ServerAdmins = {}
    MaxRequests = 2
    None = None
PROPERTIES StaleReviewRefused
CHECK_DEADLOCK FALSE
