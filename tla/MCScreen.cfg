CONSTANTS
    Url <- SmallUrl
    Ttls = {0}
    MaxNow = 0
    Resource <- UIResource
    Blank = ""
    Resolve <- UIResolve
    Refused = Refused
    Page <- SmallPage
    Pages <- SmallPages
    NoResponse = NoResponse
    Slot = {s1}
    Start = "/redfish/v1"
    RootPath = "/redfish/v1"
    Parent <- UIParent
    Bare <- UIBare
    Trim <- UITrim
    PathOf <- SmallPathOf
    Links <- UILinks
    Curl <- UICurl
    Heights = {14, 15, 16, 24}
    maxHistory = 1
    Keys = {"quit", "interrupt", "help", "tab", "page", "up", "down", "enter",
            "reload", "headers", "copy", "location", "resize"}
    MaxCommands = 1
VIEW InSight
SPECIFICATION Spec
INVARIANTS
    NoticeDescribesRow
    BodyIsCurrent
    RefusalNeedsEditor
    CursorOnScreen
    CurlAsksTheSame
PROPERTIES FooterForetellsEnter
CHECK_DEADLOCK FALSE
