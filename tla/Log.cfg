\* A server that died, or threads that have made their calls, stop.
CHECK_DEADLOCK FALSE
SPECIFICATION LogSpec
CONSTANTS
    Thread = {t1, t2}
    Pieces = 2
    MaxRecords = 2
INVARIANTS
    ReturnedIsInFile
    AloneIsALine
