SPECIFICATION Spec
CONSTANTS
    Names = {"read", "write"}
    NoContent = 0
    Contents = {0, 1}
    MaxTools = 2
    MaxEdits = 2
    Unnamed = Unnamed
    Malformed = Malformed
    Texts <- MCTexts
    Listings <- MCListings
    None = None
    NoTool = NoTool
    MaxJobs = 2
    Revisions = {1, 2, 3}
    Typo = Typo
    Empty = Empty
    Endpoints = {"here", "there"}
    NoEndpoint = NoEndpoint
    Absent = Absent
INVARIANTS TypeOK ToldWhatHappened AppliedTicksAgree RevisionListAccepted
PROPERTIES TypedWorkIsGuarded OwnRedirectPasses
CHECK_DEADLOCK FALSE
