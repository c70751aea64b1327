\* A file that was parsed or skipped is done with.
CHECK_DEADLOCK FALSE
SPECIFICATION HtmlSpec
CONSTANTS
    Sep = Sep
    Nl = "nl"
    Lt = "<"
    Gt = ">"
    Blank = " "
    OpenTag <- MCOpenTag
    CloseTag <- MCCloseTag
    Files <- MCFiles
    MaxPieces = 5
INVARIANTS
    OnlyLineEndsLost
    StatusIsLastBracket
    ContentIsBody
    TitleInContent
