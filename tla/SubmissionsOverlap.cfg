\* Two overlapping requests and two submissions of one visitor, with auto-replies,
\* deletions and one fault; every outcome comes under fairness.
SPECIFICATION FairSpec
CONSTANTS
    r1 = r1
    r2 = r2
    f1 = f1
    v1 = v1
    v2 = v2
    Requests <- MCRequests
    Forms <- MCForms
    ReplyForms <- MCForms
    HookForms <- MCNone
    Visitors <- MCOneVisitor
    Writers <- MCOneVisitor
    Addresses <- MCOneAddress
    NumChannels = 1
    Own <- MCOwnOne
    MaxRows = 2
    MaxFaults = 1
    MaxEdits = 0
INVARIANTS
    DuplicateJustified
PROPERTIES
    ImplementsDelivery
    OutcomeEventually
CHECK_DEADLOCK FALSE
