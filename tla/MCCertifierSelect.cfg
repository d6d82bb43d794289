\* Certificate selection across answers of up to three records, the retry
\* schedule (shortened to 4 steps: selection and the bounds do not depend on
\* its length), and progress of the refresher under the libev loop's fairness.
SPECIFICATION Spec
CONSTANTS
    Certs <- MCCerts
    NoCert = NoCert
    MaxCandidates = 3
    MinDelay = 17
    MaxDelay = 300
    Steps = 4
    SuccessDelay = 3600
    Jitter = 100
    AttemptLimit = 4
INVARIANT TypeOK
INVARIANT ReadyUsesBestCertificate
PROPERTY BackoffBounded
PROPERTY RefreshNeverWedges
\* update() stops the timer for good after more than four requests.
CHECK_DEADLOCK FALSE
