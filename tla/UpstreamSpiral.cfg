\* Nothing lost, one frame overtaken.
CONSTANTS
    Depth = 2
    SeqSpace = 16
    ChanCap = 2
    ResetStreak = 4
    MaxFlight = 3
    MaxLoss = 0
    MaxReorder = 1
SPECIFICATION Spec
INVARIANT
    NoDeathSpiral
