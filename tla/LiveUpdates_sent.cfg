CONSTANTS
    s1 = s1
    s2 = s2
    s3 = s3
    Sub = {s1, s2, s3}
    maxSubscriptions = 2
    MaxCloses = 2
    MaxUnsubscribes = 1
    MayStop = TRUE
SPECIFICATION FairSpec
INVARIANTS TypeOK SubscribedOnce WantedIsOnItsWay
PROPERTY WantedIsSent
CHECK_DEADLOCK FALSE
