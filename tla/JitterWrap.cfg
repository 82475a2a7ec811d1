\* Three slots, sixteen sequence numbers, eight frames across the wrap at 16.
CONSTANTS
    Depth = 3
    SeqSpace = 16
    First = 12
    Last = 19
SPECIFICATION Spec
PROPERTY
    ImplementsWindow
