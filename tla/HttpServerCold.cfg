\* A process that died in an undefined read stops.
CHECK_DEADLOCK FALSE
SPECIFICATION ServerSpec
CONSTANTS
    Sym <- MCSym
    Text <- MCText
    LowerSym <- MCLowerSym
    CutForSearch <- MCCutForSearch
    StopWords <- MCStopWords
    NoFile = NoFile
    Inputs <- MCNoInput
    Junk = {}
    Main = main
    Worker = {w1, w2}
    NoThread = NoThread
    Client = {c1, c2}
    NoClient = NoClient
    Queries <- MCQueries
    NoParam = NoParam
    NoRequest = NoRequest
    Hint = Hint
    NoResponse = NoResponse
INVARIANT CutsSeeAllStopWords
