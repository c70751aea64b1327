\* An index that is built, or a process that died, stops.
CHECK_DEADLOCK FALSE
SPECIFICATION PipelineSpec
CONSTANTS
    Sym <- MCSym
    Text <- MCText
    LowerSym <- MCLowerSym
    CutForSearch <- MCCutForSearch
    StopWords <- MCStopWords
    NoFile = NoFile
    Inputs <- MCInputs
    Junk <- MCJunk
    Sep = "sep"
    Nl = "nl"
    Lt = "<"
    Gt = ">"
    Blank = " "
    OpenTag <- MCOpenTag
    CloseTag <- MCCloseTag
    Byte <- MCByte
    NoRaw = NoRaw
    Trees <- MCEmptyPages
    NoRoot = NoRoot
    RootPath <- MCRootPath
    UrlHead <- MCUrlHead
    MaxRuns = 1
    MaxFiles = 2
INVARIANT RecordsHaveThreeFields
