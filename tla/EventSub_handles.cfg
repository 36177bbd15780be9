CONSTANTS
    r1 = r1
    r2 = r2
    ann = ann
    bob = bob
    NoUser = NoUser
    Request = {r1, r2}
    User = {ann, bob}
    Owner <- TwoUsers
    MaxSessions = 5
    MaxLosses = 2
    MaxErrors = 1
    MaxAsks = 3
SPECIFICATION FairSpec
INVARIANTS HandlesAreCounted SubscribedIsHeard WantedIsPursued OneConnectionAtATime
PROPERTIES WantedIsSubscribed
CHECK_DEADLOCK FALSE
