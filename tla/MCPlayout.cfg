\* Three slots, twelve sequence numbers, five frames of two samples across the
\* wrap at 12; a ring of two frames. Devices of 48 kHz, slower and faster.
CONSTANTS
    Depth = 3
    SeqSpace = 12
    First = 9
    Last = 13
    Rates <- MCRates
    FrameSize = 2
    RingSize = 4
    MaxFrames = 2
    MaxMic = 8
    MaxReset = 1
    Bitrate = 24
    CodecReset = 3
SPECIFICATION SoundSpec
INVARIANTS
    SoundTypeOK
    SlotsConsistent
    BackOnlyAtReplacement
    NoGapWhenFed
    RateKept
PROPERTIES
    ImplementsWindow
