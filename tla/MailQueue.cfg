\* Two workers, two jobs, two attempts, one manual retry, faults at any point;
\* every job is settled under the workers' fairness.
SPECIFICATION FairSpec
CONSTANTS
    w1 = w1
    w2 = w2
    Workers <- MCWorkers
    MaxJobs = 2
    MaxAttempts = 2
    MaxRequeues = 1
    MaxFaults = 2
INVARIANTS
    ExclusiveClaim
    AcknowledgedOnce
    StatusTellsOutcome
    AttemptsBounded
    StrandedByFaultOnly
    IInv
PROPERTIES
    ImplementsMailService
    EventuallySettled
CHECK_DEADLOCK FALSE
