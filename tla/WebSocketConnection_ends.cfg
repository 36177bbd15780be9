CONSTANTS
    TlsModes = {TRUE, FALSE}
    MaxEndpoints = 2
    MaxSends = 3
    MaxReads = 2
    MaxCloses = 2
SPECIFICATION FairSpec
INVARIANTS NeverAsserts
PROPERTIES Implements CloseIsTold SendsAreWritten
CHECK_DEADLOCK FALSE
