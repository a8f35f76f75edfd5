SPECIFICATION Spec
CONSTANTS
    Log <- MCLog
    AuditPage = 1
    MaxQueries = 3
    NoFilter = NoFilter
    Servers = {"a", "b"}
    NoText = ""
    Finds <- MCFinds
    Nothing = Nothing
    MaxTyping = 1
    MaxLists = 2
    Submissions <- MCSubmissions
    NoItem = NoItem
    Publishers = {"p", "q"}
    Everywhere = "*"
    NoScope = NoScope
    Unset = Unset
    Grantable <- MCGrantable
    Slugs = {"beta", "paid"}
    NoTag = NoTag
    People = {"ann"}
    Groups = {"team"}
    NoPrincipal = NoPrincipal
    Seeds <- MCSeeds
    MaxGrants = 3
    Entries = {"fetch", "draft"}
    PrivateEntries = {"draft"}
    Sources <- MCSources
    VersionsOf <- MCVersionsOf
    Drafts <- MCDrafts
    Anonymous = Anonymous
    Member = Member
    Unknown = Unknown
    MaxFetches = 2
INVARIANT CarriedTagsExist
CHECK_DEADLOCK FALSE
