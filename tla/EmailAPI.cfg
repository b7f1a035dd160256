\* The foreign keys alone: two forms, one user, one key and two submissions at
\* once.  Then two calls of one caller over one key, its channel and another
\* user's, one restart, one failed log, one edit of a channel.
SPECIFICATION Spec
CONSTANTS
    r1 = r1
    r2 = r2
    MaxForms = 2
    MaxUsers = 1
    MaxSubmissions = 2
    MaxKeys = 1
    Requests <- MCRequests
    MaxRecycles = 1
    MaxRestarts = 1
    Addresses <- MCAddresses
    ValidAddresses <- MCValid
    Lists <- MCLists
    MaxList = 2
    NumChannels = 2
    OwnerOf <- MCOwnerOf
    MaxCalls = 2
    MaxFaults = 1
    MaxEdits = 1
SYMMETRY MCSymmetry
CONSTRAINT MCOneQuestion
INVARIANTS
    NoOrphansAtFirst
    AnswerTrue
    PatientMailsBounded
PROPERTY ImplementsDelivery
CHECK_DEADLOCK FALSE
