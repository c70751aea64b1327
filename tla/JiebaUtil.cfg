\* A process that died in an undefined read stops.
CHECK_DEADLOCK FALSE
SPECIFICATION JiebaSpec
CONSTANTS
    Thread <- MCThread
    NoThread = NoThread
    StopWords <- MCStopWords
INVARIANTS
    JiebaTypeOK
    MutualExclusion
    OneInstance
    ReadyWhenFree
PROPERTIES
    WarmCutsSeeAll
    CallsReturn
