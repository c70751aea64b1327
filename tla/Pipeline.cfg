\* An index that is built, or a process that died, stops.
CHECK_DEADLOCK FALSE
SPECIFICATION PipelineSpec
CONSTANTS
    Sym <- MCSym
    Text <- MCText
    LowerSym <- MCLowerSym
    CutForSearch <- MCCutForSearch
    StopWords <- MCStopWords
    NoFile = NoFile
    Inputs <- MCInputs
    Junk <- MCJunk
    Sep = "sep"
    Nl = "nl"
    Lt = "<"
    Gt = ">"
    Blank = " "
    OpenTag <- MCOpenTag
    CloseTag <- MCCloseTag
    Byte <- MCByte
    NoRaw = NoRaw
    Trees <- MCTrees
    NoRoot = NoRoot
    RootPath <- MCRootPath
    UrlHead <- MCUrlHead
    MaxRuns = 2
    MaxFiles = 2
INVARIANTS
    ParserTypeOK
    RawIsPrefix
    ExitZeroSaved
    SplitCompresses
    EarlierDocsWhole
    CleanRunServesAll
PROPERTIES
    ParserEnds
