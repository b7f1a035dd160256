\* Two overlapping requests, three users, one restart or failing statement.
SPECIFICATION Spec
CONSTANTS
    r1 = r1
    r2 = r2
    MaxUsers = 3
    Requests <- MCRequests
    MaxFaults = 1
SYMMETRY MCSymmetry
CONSTRAINT MCOneQuestion
PROPERTIES
    LastAdminKept
    ActiveNotRejected
    ImplementsReview
CHECK_DEADLOCK FALSE
