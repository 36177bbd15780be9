CONSTANTS
    a1 = a1
    a2 = a2
    b1 = b1
    A = A
    B = B
    None = None
    Channel = {a1, a2, b1}
    Slug = {A, B}
    SlugOf <- ThreeChannels
    LoginModes = {FALSE}
    EnabledModes = {TRUE, FALSE}
    MAX_RECONNECT_ATTEMPTS = 1
    MaxUserActions = 1
    MaxInFlight = 1
SPECIFICATION Spec
INVARIANTS TypeOK ConnectedIsSubscribed ReconnectingHasTimer ConnectingHasCause
CHECK_DEADLOCK FALSE
