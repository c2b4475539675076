CONSTANTS
    Url <- SmallUrl
    Ttls = {0, 1}
    MaxNow = 1
    Resource <- SmallResource
    Blank = ""
    Resolve <- SmallResolve
    Refused = Refused
    Page <- SmallPage
    Pages <- SmallPages
    NoResponse = NoResponse
    Slot = {s1, s2}
    Start = "/redfish/v1"
    RootPath = "/redfish/v1"
    Parent <- SmallParent
    Bare <- SmallBare
    Trim <- SmallTrim
    PathOf <- SmallPathOf
    Links <- SmallLinks
    Curl <- SmallCurl
    Heights = {}
    maxHistory = 1
    Keys = {"up", "enter", "back", "reload"}
    MaxCommands = 0
SYMMETRY Slots
SPECIFICATION Spec
INVARIANTS
    FiledUnderOwnUrl
    RowsBelongToLocation
    DisabledCacheIsSilent
