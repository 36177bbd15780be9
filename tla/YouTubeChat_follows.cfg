SPECIFICATION FairSpec
CONSTANTS
    MaxConsecutiveFailures = 2
    Backlog = 1
    StrayOnAir = FALSE
    MaxBroadcasts = 2
    MaxMessages = 2
    MaxErrors = 2
    MaxAsks = 2
INVARIANTS NeverStuck NothingSkipped
PROPERTIES FollowsTheStreamer
CHECK_DEADLOCK FALSE
