\* Frames lost, frames that do not decode (four, so that a decoder that could not
\* be replaced is tried again), a silent tick of the talker and a rise of the
\* delay; with fairness.
CONSTANTS
    Depth = 2
    SeqSpace = 16
    ResetThreshold = 3
    StreakMax = 3
    MaxPause = 1
    MaxLoss = 2
    MaxCorrupt = 4
    MaxDelay = 1
SPECIFICATION FairSpec
INVARIANTS
    TypeOK
    InStepNeverLate
PROPERTIES
    SteadyListenerHears
