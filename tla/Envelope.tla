------------------------------ MODULE Envelope ------------------------------
(***************************************************************************)
(* The lengths of a DNSCrypt exchange: the client encryptor's curve of a   *)
(* query (src/dns/crypt/srcz/encryptor.cpp), the server's uncurve of it,   *)
(* the server's curve of the answer (server_crypt.cpp) and the client's    *)
(* uncurve of that, with pad_buffer (pad_buffer.cpp) and find_end          *)
(* (message_header.hxx) in between.                                        *)
(*                                                                         *)
(* The AEAD seal and open are taken to be perfect: the receiver opens      *)
(* exactly the padded plaintext the sender sealed.  What is left is the    *)
(* arithmetic of header sizes, padding budgets and buffer bounds, and the  *)
(* byte scan that recovers the plaintext length.                           *)
(*                                                                         *)
(* A buffer is a sequence of runs [byte, count]: a DNS message of 55000    *)
(* bytes is a run of non-zero bytes followed by the few bytes at its end   *)
(* that find_end looks at.  Bytes are 0, 1 (any other non-zero byte) and   *)
(* 128 (0x80, the padding marker).                                         *)
(***************************************************************************)
EXTENDS Integers, Sequences, SequencesExt

CONSTANTS
    MaxSize,        \* query::max_size, the bytes reserved in every message
    MagicSize,      \* dns::crypt::magic_size
    PublicKeySize,  \* crypto_box_PUBLICKEYBYTES
    HalfNonceSize,  \* crypto_box_HALF_NONCEBYTES
    MacSize,        \* crypto_box_MACBYTES
    BlockSize,      \* pad_buffer's block_size
    MinPadLen,      \* pad_buffer's min_pad_len
    DnsHeaderSize,  \* sizeof(dns::message_header)
    Lengths,        \* plaintext lengths of queries and answers
    MsgTails           \* the last bytes of a plaintext message

ASSUME BlockSize > 0 /\ MinPadLen > 0

\* detail::query_header, and query_head_size with the MAC.
QueryHeaderSize == MagicSize + PublicKeySize + HalfNonceSize
QueryHeadSize == QueryHeaderSize + MacSize

\* detail::response_header, and response_head_size with the MAC.
ResponseHeaderSize == MagicSize + 2 * HalfNonceSize
ResponseHeadSize == ResponseHeaderSize + MacSize

Marker == 128

VARIABLES
    stage,      \* where the exchange is
    envWire,       \* the plaintext bytes sealed in the envelope in flight
    wireSize,   \* the envelope's size as set by curve (q.set_size)
    sent,       \* plaintext length of the message in flight
    padded,     \* pad_buffer added padding to the message in flight
    recovered,  \* the length the receiver's find_end recovered
    overflow    \* a memmove wrote beyond the message's reserved bytes

envVars == <<stage, envWire, wireSize, sent, padded, recovered, overflow>>

Stages == {"idle", "query_sealed", "query_opened", "answer_sealed", "done",
           "curve_failed", "rejected"}

-----------------------------------------------------------------------------
(* Run-length buffers.                                                      *)

MinOf(a, b) == IF a < b THEN a ELSE b

RunsOf(bytes) == [i \in 1..Len(bytes) |-> [byte |-> bytes[i], count |-> 1]]

\* A plaintext of len bytes ending with tail.
Message(len, tail) ==
    <<[byte |-> 1, count |-> len - Len(tail)]>> \o RunsOf(tail)

RECURSIVE RunByteAt(_, _)
RunByteAt(b, i) ==
    IF b = <<>> THEN 0
    ELSE IF i < Head(b).count THEN Head(b).byte
    ELSE RunByteAt(Tail(b), i - Head(b).count)

\* The index of the first byte of the run that holds byte i.
RECURSIVE RunStartFrom(_, _, _)
RunStartFrom(b, i, base) ==
    IF i < Head(b).count THEN base
    ELSE RunStartFrom(Tail(b), i - Head(b).count, base + Head(b).count)

\* The first n bytes of b.
RECURSIVE Take(_, _)
Take(b, n) ==
    IF n = 0 \/ b = <<>> THEN <<>>
    ELSE IF n <= Head(b).count THEN <<[Head(b) EXCEPT !.count = n]>>
    ELSE <<Head(b)>> \o Take(Tail(b), n - Head(b).count)

-----------------------------------------------------------------------------
(* pad_buffer and find_end.                                                 *)

\* The values rndfunc(ub) may return, in [0, ub), that give pad_buffer
\* distinct results: it rounds len + MinPadLen + r up past the next block
\* boundary, so the draws up to one block reach two lengths, and the least
\* and the greatest of them reach both; the largest draw reaches the clamp.
\* randombytes_uniform on the client, crypto_random(client_nonce, key) % ub
\* on the server.
Draws(ub) == {0, MinOf(ub - 1, BlockSize), ub - 1}

\* Plausible slips in pad_buffer: no clamp to max_len; the marker written one
\* byte late.
PadBufferUnclamped(b, len, maxLen, r) ==
    IF maxLen < len + MinPadLen
    THEN [buf |-> b, len |-> len]
    ELSE LET p0 == len + MinPadLen + r
             p  == p0 + BlockSize - (p0 % BlockSize)
         IN  [buf |-> Take(b, len) \o <<[byte |-> Marker, count |-> 1]>>
                      \o <<[byte |-> 0, count |-> p - len - 1]>>,
              len |-> p]

PadBufferMarkerLate(b, len, maxLen, r) ==
    IF maxLen < len + MinPadLen
    THEN [buf |-> b, len |-> len]
    ELSE LET p0 == len + MinPadLen + r
             p1 == p0 + BlockSize - (p0 % BlockSize)
             p  == IF p1 > maxLen THEN maxLen ELSE p1
         IN  [buf |-> Take(b, len) \o <<[byte |-> 0, count |-> 1]>>
                      \o <<[byte |-> Marker, count |-> 1]>>
                      \o <<[byte |-> 0, count |-> p - len - 2]>>,
              len |-> p]

\* detail::pad_buffer(buf, len, max_len, rndfunc) with rndfunc returning r:
\* the buffer and the returned length.
PadBuffer(b, len, maxLen, r) ==
    IF maxLen < len + MinPadLen
    THEN [buf |-> b, len |-> len]
    ELSE LET p0 == len + MinPadLen + r
             p1 == p0 + BlockSize - (p0 % BlockSize)
             p  == IF p1 > maxLen THEN maxLen ELSE p1
         IN  [buf |-> Take(b, len) \o <<[byte |-> Marker, count |-> 1]>>
                      \o (IF p - len > 1
                          THEN <<[byte |-> 0, count |-> p - len - 1]>>
                          ELSE <<>>),
              len |-> p]

\* The `while (size > 0 && 0 == buf[--size])' loop, a zero run at a time.
RECURSIVE ScanBack(_, _)
ScanBack(b, size) ==
    IF size = 0 THEN 0
    ELSE IF RunByteAt(b, size - 1) # 0 THEN size - 1
    ELSE ScanBack(b, RunStartFrom(b, size - 1, 0))

NoEnd == -1

\* detail::find_end(buf, size): the offset of the 0x80 marker, or NoEnd
\* where it throws "no end".
FindEnd(b, size) ==
    LET s == ScanBack(b, size) IN IF RunByteAt(b, s) = Marker THEN s ELSE NoEnd

\* encryptor::curve: max_len, and the budget it gives pad_buffer (two bytes
\* kept for the TCP length prefix).
ClientMaxLen(len) == MinOf(3 * (len + QueryHeadSize), MaxSize)
ClientBudget(len) == ClientMaxLen(len) - QueryHeadSize - 2

\* server::encryptor::curve: mxsz, and the budget it gives pad_buffer.
ServerHead == IF ResponseHeadSize > QueryHeadSize
              THEN ResponseHeadSize ELSE QueryHeadSize
ServerBudget(len) == MinOf(MaxSize, (len + ServerHead) * 3) - ServerHead - 2

-----------------------------------------------------------------------------
(* The four steps of an exchange.                                           *)

EnvInit ==
    /\ stage = "idle"
    /\ envWire = <<>>
    /\ wireSize = 0
    /\ sent = 0
    /\ padded = FALSE
    /\ recovered = 0
    /\ overflow = FALSE

\* encryptor::curve(session_nonce, msg) of a query of len bytes.
ClientCurve ==
    /\ stage = "idle"
    /\ \E len \in Lengths, tail \in MsgTails :
         LET maxLen == ClientMaxLen(len)
             budget == ClientBudget(len)
         IN  /\ len >= Len(tail)
             /\ sent' = len
             /\ IF maxLen < len \/ maxLen - len < QueryHeadSize
                THEN /\ stage' = "curve_failed"
                     /\ UNCHANGED <<envWire, wireSize, padded>>
                ELSE \E r \in Draws(budget - len - MinPadLen + 1) :
                       LET p == PadBuffer(Message(len, tail), len, budget, r)
                       IN  /\ envWire' = p.buf
                           /\ padded' = (p.len # len)
                           /\ IF p.len + QueryHeadSize > 65534
                              THEN /\ stage' = "curve_failed"
                                   /\ UNCHANGED wireSize
                              ELSE /\ stage' = "query_sealed"
                                   /\ wireSize' = p.len + QueryHeadSize
    /\ UNCHANGED <<recovered, overflow>>

\* A plausible slip: the result of find_end used unchecked.
UnpadUnchecked(size) ==
    /\ recovered' = FindEnd(envWire, size)
    /\ stage' = IF stage = "query_sealed" THEN "query_opened" ELSE "done"

\* Common tail of both uncurves: find_end over the opened plaintext, then
\* the check that a DNS header is left.
Unpad(size) ==
    LET dec == FindEnd(envWire, size) IN
    IF dec = NoEnd \/ dec < DnsHeaderSize
    THEN /\ stage' = "rejected"
         /\ UNCHANGED recovered
    ELSE /\ recovered' = dec
         /\ stage' = IF stage = "query_sealed" THEN "query_opened" ELSE "done"

\* server::encryptor::uncurve(q).  Its caller, cresponder::process, has already
\* compared the magic (certificate::is_dnscrypt_message); uncurve itself does not.
ServerUncurve ==
    /\ stage = "query_sealed"
    /\ IF wireSize <= QueryHeadSize
       THEN /\ stage' = "rejected"
            /\ UNCHANGED recovered
       ELSE Unpad(wireSize - QueryHeadSize)
    /\ UNCHANGED <<envWire, wireSize, sent, padded, overflow>>

\* server::encryptor::curve(client_nonce, nmkey, q) of an answer of len bytes.
ServerCurve ==
    /\ stage = "query_opened"
    /\ \E len \in Lengths, tail \in MsgTails :
         LET budget == ServerBudget(len)
         IN  /\ len >= Len(tail)
             /\ sent' = len
             /\ overflow' = (overflow \/ ResponseHeadSize + len > MaxSize)
             /\ \E r \in Draws(budget - len - MinPadLen + 1) :
                  LET p == PadBuffer(Message(len, tail), len, budget, r)
                  IN  /\ envWire' = p.buf
                      /\ padded' = (p.len # len)
                      /\ wireSize' = p.len + ResponseHeadSize
    /\ stage' = "answer_sealed"
    /\ UNCHANGED recovered

\* encryptor::uncurve(session_nonce, q) of the answer.
ClientUncurve ==
    /\ stage = "answer_sealed"
    /\ IF wireSize <= ResponseHeaderSize + MacSize
       THEN /\ stage' = "rejected"
            /\ UNCHANGED recovered
       ELSE Unpad(wireSize - ResponseHeaderSize - MacSize)
    /\ UNCHANGED <<envWire, wireSize, sent, padded, overflow>>

\* The exchange is over; the client sends its next query.
NextQuery ==
    /\ stage \in {"done", "curve_failed", "rejected"}
    /\ stage' = "idle"
    /\ UNCHANGED <<envWire, wireSize, sent, padded, recovered, overflow>>

EnvNext == ClientCurve \/ ServerUncurve \/ ServerCurve \/ ClientUncurve \/ NextQuery

EnvSpec == EnvInit /\ [][EnvNext]_envVars

-----------------------------------------------------------------------------
(* Properties.                                                              *)

EnvTypeOK ==
    /\ stage \in Stages
    /\ envWire \in Seq([byte : {0, 1, Marker}, count : Nat])
    /\ {wireSize, sent, recovered} \subseteq Nat
    /\ padded \in BOOLEAN
    /\ overflow \in BOOLEAN

\* pad_buffer, spec 8: padding adds at least min_pad_len bytes, stays within
\* the budget curve gave it, and ends on a 64-byte boundary unless clamped to
\* that budget; the envelope never exceeds the bytes a message reserves.
PaddingShape ==
    LET p      == wireSize - (IF stage = "query_sealed"
                              THEN QueryHeadSize ELSE ResponseHeadSize)
        budget == IF stage = "query_sealed"
                  THEN ClientBudget(sent) ELSE ServerBudget(sent)
    IN  (stage \in {"query_sealed", "answer_sealed"} /\ padded) =>
            /\ sent + MinPadLen <= p
            /\ p <= budget
            /\ p % BlockSize = 0 \/ p = budget
            /\ wireSize <= MaxSize

\* find_end after pad_buffer: a padded query or answer is never rejected by
\* the peer's uncurve, and the peer recovers exactly its plaintext length.
PaddedRoundTrip ==
    (padded /\ stage \in {"query_opened", "done", "rejected"}) =>
        /\ stage # "rejected"
        /\ recovered = sent

\* EnvSpec 8: every message encrypt accepts, the matching decrypt recovers
\* exactly (curve either pads or throws "insufficient padding budget").
RoundTrip ==
    stage \in {"query_opened", "done", "rejected"} =>
        /\ stage # "rejected"
        /\ recovered = sent

\* server::encryptor::curve: shifting the answer behind the response
\* header and MAC (the memmove) stays within the bytes the message reserves.
ServerEnvelopeFits ==
    ~overflow

=============================================================================
