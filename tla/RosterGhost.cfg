\* ShownIsPresent is violated by a client kicked between its registration and its
\* ClientJoined, PresentIsShown by one whose connection is lost there.
CONSTANTS
    Id = {1, 2, 3}
    Me = 2
    Name <- MCName
    MaxKick = 1
    MaxReorder = 0
SPECIFICATION Spec
CHECK_DEADLOCK FALSE
INVARIANTS
    ShownIsPresent
    PresentIsShown
