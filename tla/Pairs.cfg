SPECIFICATION PairsSpec
CONSTANTS
    Entries = {e1}
    Versions = {v1, v2}
    Changes = {c1, c2}
    Fields = {f}
    FieldValues = {0, 1}
    Blank = 0
    Users = {ada, sam}
    Editors = {ada}
    Reviewers = {ada}
    ServerAdmins = {sam}
    MaxRequests = 2
    None = None
INVARIANTS OneAtATime VersionOffersMatchServer EntryOffersMatchServer QueueCanBeEmptied
PROPERTIES PublishedImmutable ImplementsCatalog ApprovedChangeApplied DeletionIsFinal
SYMMETRY IdSymmetry
CHECK_DEADLOCK FALSE
