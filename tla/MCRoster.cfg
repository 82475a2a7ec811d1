\* Two others and Me, who is neither the first nor the last in the order of ids.
CONSTANTS
    Id = {1, 2, 3}
    Me = 2
    Name <- MCName
    MaxKick = 1
    MaxReorder = 1
SPECIFICATION Spec
CHECK_DEADLOCK FALSE
INVARIANTS
    TypeOK
    RosterSettles
    CommandsAim
