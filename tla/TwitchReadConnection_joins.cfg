CONSTANTS
    v1 = v1
    h1 = h1
    h2 = h2
    Channel = {v1, h1, h2}
    Visible = {v1}
    JOIN_RATELIMIT_BUDGET = 2
    MaxLosses = 2
    MaxConnects = 1
    MaxOpens = 4
SPECIFICATION FairSpec
INVARIANTS JoinsAreLimited OpenChannelsAreJoined ClosedChannelsAreParted ClosedLinkReconnects
PROPERTIES TimesOutOnlyWhenQuiet SilenceIsNoticed ChannelsGetJoined
CHECK_DEADLOCK FALSE
