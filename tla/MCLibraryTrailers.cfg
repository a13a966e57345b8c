SPECIFICATION LibrarySpec
CONSTANTS
    a = a  b = b
    here = here  there = there
    R = R  O = O
    usr = usr  opt = opt
    Tasks = {a, b}
    Paths = {usr, opt}
    Versions <- MCVersions
    MaxInstalls = 0
    Dirs = {here, there}
    StartDir <- MCStartDir
    Layouts <- MCLayouts
    Main = "main"
    MaxMoves = 0
    MaxClock = 2
    MaxBacks = 1
    Draws = {1, 2}
    SaveTokens = {"Opax-Save", "opax-save"}
    AlikeTokens = {"Opax-Save-Extra"}
    OtherTokens = {"Signed-off-by"}
    SaveToken = "Opax-Save"
    NotAnID = 0
    Templates <- MCTemplates
    MaxEvents = 0
    Layers <- MCLayers
    Width = 12
    Day = 1
    Records = {"s1", "s2", "e1"}
    RootOf <- MCRootOf
    Requests <- MCRequests
    Foreign <- MCForeign
    Link = "link"
    ValidRoots <- MCValidRoots
    Backslashed <- MCBackslashed
    MaxWrites = 2
INVARIANT OneSaveTrailer
CHECK_DEADLOCK FALSE
