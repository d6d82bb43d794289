\* Violation: the server shifts a long answer past the bytes its message reserves.
SPECIFICATION EnvSpec
CONSTANTS
    MaxSize = 55535
    MagicSize = 8
    PublicKeySize = 32
    HalfNonceSize = 12
    MacSize = 16
    BlockSize = 64
    MinPadLen = 8
    DnsHeaderSize = 12
    Lengths <- MCEnvLengths
    MsgTails <- MCEnvTails
INVARIANT ServerEnvelopeFits
