\* A page that was written over, with no reply to come, stops.
CHECK_DEADLOCK FALSE
SPECIFICATION FrontSpec
CONSTANTS
    Char <- MCChar
    Item <- MCItem
    Words <- MCWords
    Default <- MCDefault
    Hash = "#"
    Amp = "&"
    Plus = "+"
    Blank = " "
    Answer <- MCAnswer
    MaxSearches = 3
INVARIANTS
    ShownIsLastReply
    StaleHasReason
    PageLostForNothing
