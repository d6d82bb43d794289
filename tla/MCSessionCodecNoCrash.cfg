\* The same exchange: does a corrupted datagram end either process?
CONSTANTS
    r1 = r1
    r2 = r2
    Requests <- MCRequests
    NoAnswer = NoAnswer
    CertCipher = "xsalsa20poly1305"
SPECIFICATION Spec
INVARIANT NoCrash
\* A crashed process, or a client whose requests have all ended, takes no
\* further step.
CHECK_DEADLOCK FALSE
