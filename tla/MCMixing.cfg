\* Two commands of the talker, one of the host, one of them refused, a roster,
\* one push overtaken; one other client.
CONSTANTS
    MaxToggle = 2
    MaxForce = 1
    MaxRefuse = 1
    MaxReorder = 1
    MaxInfo = 1
    Talker = talker
    Other = {o1}
SPECIFICATION MixingSpec
CHECK_DEADLOCK FALSE
INVARIANTS
    MixingTypeOK
    FlagsSettle
    MixIsExact
    SilentAsShown
