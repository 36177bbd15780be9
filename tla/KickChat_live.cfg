CONSTANTS
    a1 = a1
    a2 = a2
    b1 = b1
    A = A
    B = B
    None = None
    Channel = {a1, b1}
    Slug = {A, B}
    SlugOf <- TwoSlugs
    LoginModes = {FALSE}
    EnabledModes = {TRUE}
    MAX_RECONNECT_ATTEMPTS = 1
    MaxUserActions = 1
    MaxInFlight = 2
SPECIFICATION FairSpec
PROPERTIES AttemptsEnd
CHECK_DEADLOCK FALSE
