\* One submission with an auto-reply, three channels of which the owner has two,
\* two edits: first of the form's binding or the channels, then of its address;
\* one fault.
SPECIFICATION Spec
CONSTANTS
    r1 = r1
    r2 = r2
    f1 = f1
    v1 = v1
    v2 = v2
    Requests <- MCOneRequest
    Forms <- MCForms
    ReplyForms <- MCForms
    HookForms <- MCForms
    Visitors <- MCOneVisitor
    Writers <- MCOneVisitor
    Addresses <- MCAddresses
    NumChannels = 3
    Own <- MCOwnTwoOfThree
    MaxRows = 1
    MaxFaults = 1
    MaxEdits = 2
CONSTRAINT MCOneQuestion
INVARIANTS
    NoSecondCopy
    SendsToConfirmed
    
    LogsComplete
CHECK_DEADLOCK FALSE
