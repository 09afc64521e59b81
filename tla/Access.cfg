CONSTANTS
    Names = {"work", "home", "a", "key", "lib"}
    Files <- MCFiles
    Hosts = {"intranet"}
    Addresses = {"private"}
    Policies <- MCPolicies
    Blank = Blank
    LinkAt <- MCLinkAt
    LinkTo <- MCLinkTo
    MaxChanges = 1
    Calls <- MCCalls
    Unreadable = {}
    None = None
    NotLoaded = NotLoaded
    SavesFail = TRUE
SPECIFICATION Spec
INVARIANTS
    WhitelistSound
PROPERTIES
    DecisionsAgree
    OutsideWasAllowed
CHECK_DEADLOCK FALSE
CONSTRAINT FewGiven
