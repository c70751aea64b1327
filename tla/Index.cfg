\* A finished build stops: BuildIndex returns once.
CHECK_DEADLOCK FALSE
SPECIFICATION Spec
CONSTANTS
    Sym <- MCSym
    Text <- MCText
    LowerSym <- MCLowerSym
    CutForSearch <- MCCutForSearch
    StopWords <- MCStopWords
    NoFile = NoFile
    Inputs <- MCInputs
    Junk <- MCJunk
    MaxLines = 2
INVARIANTS
    TypeOK
    DocIdIsPosition
    ListsAscend
    IndexIsInverse
    LinesBecomeDocs
PROPERTY BuildEnds
