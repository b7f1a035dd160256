\* Two overlapping edits of one form verify an address whose link nobody opened.
SPECIFICATION Spec
CONSTANTS
    r1 = r1
    r2 = r2
    u1 = u1
    u2 = u2
    root = root
    ch1 = ch1
    Users <- MCAdmins
    Admins <- MCAdmins
    PrimaryAdmin = root
    MaxForms = 1
    Emails <- MCTwoEmails
    Channels <- MCNoChannels
    NoChannel = NoChannel
    Limits <- MCNoLimits
    Requests <- MCRequests
    MaxTokens = 3
SYMMETRY MCSymmetry
INVARIANT RecipientConfirmed
CHECK_DEADLOCK FALSE
