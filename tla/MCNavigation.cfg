CONSTANTS
    Url <- MCUrl
    Ttls = {0}
    MaxNow = 0
    Resource <- MCResource
    Blank = ""
    Resolve <- MCResolve
    Refused = Refused
    Page <- MCPage
    Pages <- MCPages
    NoResponse = NoResponse
    Slot = {s1, s2}
    Start = "/redfish/v1"
    RootPath = "/redfish/v1"
    Parent <- MCParent
    Bare <- MCBare
    Trim <- MCTrim
    PathOf <- MCPathOf
    Links <- MCLinks
    Curl <- MCCurl
    Heights = {}
    maxHistory = 2
    Keys = {"up", "down", "enter", "back", "reload"}
    MaxCommands = 0
SYMMETRY Slots
SPECIFICATION Spec
INVARIANTS
    TypeOK
    PendingInFlight
    ScreenAnswersLastRequest
    CursorRests
    RequestFitsPlace
    StepsMove
PROPERTIES NavigatesTrail
