SPECIFICATION FairSpec
CONSTANTS
    r1 = r1
    r2 = r2
    Request = {r1, r2}
    MAX_REFRESH_RETRIES = 1
    MaxGrants = 2
    MaxRenewals = 2
    MaxErrors = 3
    MaxRestarts = 1
INVARIANTS WaitersHaveOneRefresh RefreshTokensAreUsedOnce SavedIsCurrent
CHECK_DEADLOCK FALSE
PROPERTIES WaitingEnds
