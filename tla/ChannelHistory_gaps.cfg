CONSTANTS
    scrollbackSplitLimit = 7
    historyLimit = 2
    MaxMessages = 4
    MaxLosses = 3
SPECIFICATION HistorySpec
INVARIANTS GapsAreFilled InOrder
PROPERTY NewestAreKept
CHECK_DEADLOCK FALSE
