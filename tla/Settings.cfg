\* Two pages, over four seconds; or one service mail at a time, with two users,
\* three channels and five edits.  One failure.
SPECIFICATION Spec
CONSTANTS
    p1 = p1
    p2 = p2
    l1 = l1
    Pages <- MCPages
    Loads <- MCLoads
    NumUsers = 2
    NumChannels = 3
    OwnerOf <- MCOwnerOf
    MaxTime = 4
    MaxEdits = 5
    MaxFaults = 1
SYMMETRY MCSymmetry
CONSTRAINT MCOneQuestion
INVARIANTS
    LogoServed
    ChannelOfAdmin
    FoundWhenSteady
CHECK_DEADLOCK FALSE
