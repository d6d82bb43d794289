\* Padding and length recovery of both directions of a DNSCrypt exchange.
SPECIFICATION EnvSpec
CONSTANTS
    MaxSize = 55535
    MagicSize = 8
    PublicKeySize = 32
    HalfNonceSize = 12
    MacSize = 16
    BlockSize = 64
    MinPadLen = 8
    DnsHeaderSize = 12
    Lengths <- MCEnvLengths
    MsgTails <- MCEnvTails
INVARIANT EnvTypeOK
INVARIANT PaddingShape
INVARIANT PaddedRoundTrip
