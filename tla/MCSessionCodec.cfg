\* Corrupted, duplicated, reordered and re-addressed datagrams between a
\* client and a server that agree on the cipher.
CONSTANTS
    r1 = r1
    r2 = r2
    Requests <- MCRequests
    NoAnswer = NoAnswer
    CertCipher = "xsalsa20poly1305"
SPECIFICATION Spec
PROPERTY ImplementsRequestReply
\* A crashed process, or a client whose requests have all ended, takes no
\* further step.
CHECK_DEADLOCK FALSE
