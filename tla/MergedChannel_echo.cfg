CONSTANTS
    Twitch = Twitch
    Kick = Kick
    YouTube = YouTube
    hi = hi
    yo = yo
    Platform = {Twitch, Kick}
    Text = {hi}
    Window = 1
    MaxDelay = 0
    MaxTime = 2
    MaxSends = 2
    MaxOthers = 1
    MayRemove = TRUE
SPECIFICATION Spec
INVARIANTS OwnMessageShownOnce UnrelatedMessagesShown SuppressedTextWasShown
SYMMETRY Symmetry
CHECK_DEADLOCK FALSE
