\* One frame lost or dropped and one overtaken, any drift between the clocks of
\* the sender and the mix task, others coming and going; with fairness.
CONSTANTS
    Depth = 2
    SeqSpace = 8
    ChanCap = 2
    ResetStreak = 3
    MaxFlight = 3
    MaxLoss = 1
    MaxReorder = 1
SPECIFICATION FairSpec
INVARIANTS
    TypeOK
    InOrderNeverLate
PROPERTIES
    TalkerHeardAgain
