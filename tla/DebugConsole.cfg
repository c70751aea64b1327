\* A console that died in an undefined access stops.
CHECK_DEADLOCK FALSE
SPECIFICATION ConsoleSpec
CONSTANTS
    Sym <- MCSym
    Text <- MCLongText
    LowerSym <- MCLowerSym
    CutForSearch <- MCCutForSearch
    StopWords <- MCStopWords
    NoFile = NoFile
    Inputs <- MCInputs
    Junk = {}
    PrevStep = 1
    NextStep = 2
    NoDesc = NoDesc
    Queries <- MCQueries
    NoQuery = NoQuery
    NoAnswer = NoAnswer
    Sep = "sep"
    Nl = "nl"
    BufferSize = 5
    Sessions <- MCSessions
    Leftovers <- MCLeftovers
    NoEnd = NoEnd
INVARIANTS
    MergedDocsExist
    AskedAsTyped
    OneLostPerRead
PROPERTIES
    ImplementsScan
    EveryLineSearched
