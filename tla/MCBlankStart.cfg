CONSTANTS
    Url <- SmallUrl
    Ttls = {0}
    MaxNow = 0
    Resource <- SmallResource
    Blank = ""
    Resolve <- SmallResolve
    Refused = Refused
    Page <- SmallPage
    Pages <- SmallPages
    NoResponse = NoResponse
    Slot = {s1, s2}
    Start = ""
    RootPath = "/redfish/v1"
    Parent <- SmallParent
    Bare <- SmallBare
    Trim <- SmallTrim
    PathOf <- SmallPathOf
    Links <- SmallLinks
    Curl <- SmallCurl
    Heights = {}
    maxHistory = 1
    Keys = {"up", "enter", "reload"}
    MaxCommands = 0
SPECIFICATION Spec
INVARIANTS ScreenAnswersLastRequest
