\* A ring and a window with room for all frames; one new jitter buffer. Seamless
\* is violated at a faster or slower device, NeverBack at one of 48 kHz.
CONSTANTS
    Depth = 4
    SeqSpace = 8
    First = 0
    Last = 3
    Rates <- MCRates
    FrameSize = 2
    RingSize = 10
    MaxFrames = 2
    MaxMic = 0
    MaxReset = 1
    Bitrate = 24
    CodecReset = 3
SPECIFICATION SoundSpec
PROPERTIES
    Seamless
    NeverBack
