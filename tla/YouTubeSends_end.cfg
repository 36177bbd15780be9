SPECIFICATION SendsFairSpec
CONSTANTS
    m1 = m1
    m2 = m2
    Send = {m1, m2}
    MaxBroadcasts = 2
PROPERTIES RefreshTokenIsKept EveryMessageEnds
CHECK_DEADLOCK FALSE
