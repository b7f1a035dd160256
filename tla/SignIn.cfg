\* Two handlers at once and one failed statement: one captcha with a limit of
\* three and one challenge; codes bought with the captcha; four codes asked
\* for in four units of time without captchas, or two of them entered.
SPECIFICATION SignSpec
CONSTANTS
    r1 = r1
    r2 = r2
    a = a
    Requests <- MCRequests
    Emails <- MCEmails
    MaxCodes = 4
    MaxTime = 4
    MaxFaults = 1
    Cooldown = 1
    Window = 2
    Lifetime = 0
    EmailMax = 2
    IpMax = 4
    DeviceMax = 4
    MaxAttempts = 2
    Lookback = 2
    FailureLimit = 3
    MaxCaptchas = 1
    MaxTokens = 1
    MaxServed = 2
SYMMETRY MCSymmetry
CONSTRAINT MCOneQuestion
INVARIANTS
    CodesPaidFor
    AcceptedOnceAlone
    FailuresOfTwoBounded
    UsedOnceAlone
    AttemptsCountedAlone
    AccountHadCode
    LimitsUpToOverlap
CHECK_DEADLOCK FALSE
