SPECIFICATION FairSpec
CONSTANTS
    r1 = r1
    Request = {r1}
    MAX_REFRESH_RETRIES = 1
    MaxGrants = 1
    MaxRenewals = 1
    MaxErrors = 1
    MaxRestarts = 1
PROPERTIES ExpiredTokensAreRenewed
CHECK_DEADLOCK FALSE
