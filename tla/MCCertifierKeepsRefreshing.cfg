\* Violation: attempts_ is never reset, so the refresher stops after five requests.
SPECIFICATION Spec
CONSTANTS
    Certs <- MCCertsFew
    NoCert = NoCert
    MaxCandidates = 1
    MinDelay = 17
    MaxDelay = 300
    Steps = 100
    SuccessDelay = 3600
    Jitter = 100
    AttemptLimit = 4
\* update() stops the timer for good after more than four requests.
CHECK_DEADLOCK FALSE
PROPERTY KeepsRefreshing
