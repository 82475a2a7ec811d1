\* A perfect network and one silent tick.
CONSTANTS
    Depth = 2
    SeqSpace = 16
    ResetThreshold = 3
    StreakMax = 3
    MaxPause = 1
    MaxLoss = 0
    MaxCorrupt = 0
    MaxDelay = 0
SPECIFICATION FairSpec
PROPERTY
    ListenerHearsAgain
