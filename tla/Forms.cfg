\* Two forms, two overlapping requests: first the verification of two addresses
\* with three tokens, then one channel shared with two ordinary users under the
\* limits 0 and 1.
SPECIFICATION Spec
CONSTANTS
    r1 = r1
    r2 = r2
    u1 = u1
    u2 = u2
    root = root
    ch1 = ch1
    Users <- MCShareUsers
    Admins <- MCAdmins
    PrimaryAdmin = root
    MaxForms = 2
    Emails <- MCTwoEmails
    Channels <- MCChannels
    NoChannel = NoChannel
    Limits <- MCLimits
    Requests <- MCRequests
    MaxTokens = 3
SYMMETRY MCShareSymmetry
CONSTRAINT MCOneQuestion
INVARIANTS
    VerifiedMeansConfirmed
    IInv
PROPERTY BindingAllowed
CHECK_DEADLOCK FALSE
