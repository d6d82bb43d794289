------------------------------ MODULE NameCodec ------------------------------
(***************************************************************************)
(* The domain-name codec of dns::query (src/dns/srcz/query.cpp): the       *)
(* constructor query(hostname, type, id) that writes a one-question        *)
(* message, and get_rr_name, which reads an owner name back from a         *)
(* message.  Messages are sequences of byte values; index i of the code is  *)
(* element i + 1 of the sequence.                                          *)
(***************************************************************************)
EXTENDS Naturals, Sequences, SequencesExt

CONSTANTS
    Names,   \* host names given to the constructor (byte sequences)
    Tails    \* what may follow the header of a received message

VARIABLES
    wire,    \* the message last put on the wire: built by a client, or received
    parsed   \* what get_question made of it, or NotParsed

codecVars == <<wire, parsed>>

\* sizeof(message_header) and sizeof(rr_question_header).
HeaderSize == 12
QuestionHeaderSize == 4

\* dns::max_host_name_length.
MaxHostNameLength == 256

DotByte == 46

\* is_dns_char: isalnum in the classic locale, or '-'.
IsDnsChar(b) == b \in (48..57) \cup (65..90) \cup (97..122) \cup {45}

\* pkt[i]; a read past the end yields some byte (0 here) and is recorded.
ByteAt(pkt, i) == IF i < Len(pkt) THEN pkt[i + 1] ELSE 0

-----------------------------------------------------------------------------
(* query::query(hostname, typ, id): the name part.                         *)

Rejected == [ok |-> FALSE, bytes |-> <<>>]

\* buf[i] = v on a copy of buf.
SetByte(buf, i, v) == [p \in DOMAIN buf |-> IF p = i THEN v ELSE buf[p]]

\* The characters at code indices from .. to - 1 copied one byte to the
\* right of their index, or the loop throws at a non-DNS character.
CopyLabel(h, from, to, b) ==
    [q \in DOMAIN b |-> IF q - 2 \in from .. to - 1 THEN h[q - 1] ELSE b[q]]
AllDnsChars(h, from, to) == \A j \in from .. to - 1 : IsDnsChar(h[j + 1])

\* The code index of the first dot at or after i, or Len(h) if none.
NextDot(h, i) == LET ds == {j \in i .. Len(h) - 1 : h[j + 1] = DotByte}
                 IN  IF ds = {} THEN Len(h) ELSE Min(ds)

\* A slip: the next label starts at the dot itself (label_off = i).
RECURSIVE EncodeLabelsSameOff(_, _, _, _)
EncodeLabelsSameOff(h, i, labelOff, b) ==
    LET d == NextDot(h, i)
    IN  IF ~AllDnsChars(h, i, d) THEN <<-1, b>>
        ELSE IF d = Len(h) THEN <<labelOff, CopyLabel(h, i, d, b)>>
        ELSE IF 64 <= d - labelOff THEN <<-1, b>>
        ELSE EncodeLabelsSameOff(h, d + 1, d,
                 SetByte(CopyLabel(h, i, d, b), labelOff + 1, d - labelOff))

\* The loop over the characters before the end-of-name step, taken one
\* label at a time from index i: its DNS characters are copied one byte to
\* the right of their index, the dot that ends it writes its length at
\* label_off, and label_off moves past the dot.  Returns <<label_off,
\* bytes>>, or <<-1, b>> where the code throws (a non-DNS character, a
\* label of 64 or more).
RECURSIVE EncodeLabels(_, _, _, _)
EncodeLabels(h, i, labelOff, b) ==
    LET d == NextDot(h, i)
    IN  IF ~AllDnsChars(h, i, d) THEN <<-1, b>>
        ELSE IF d = Len(h) THEN <<labelOff, CopyLabel(h, i, d, b)>>
        ELSE IF 64 <= d - labelOff THEN <<-1, b>>
        ELSE EncodeLabels(h, d + 1, d + 1,
                 SetByte(CopyLabel(h, i, d, b), labelOff + 1, d - labelOff))

\* The whole name: the length check, the loop, then either the last label
\* and the terminating 0 (no dot at the end) or the 0 at label_off.  The
\* name occupies bytes off .. off + label_off; the question header follows.
Encode(h) ==
    IF Len(h) > MaxHostNameLength THEN Rejected
    ELSE LET r == EncodeLabels(h, 0, 0, [p \in 1..Len(h) + 2 |-> 0])
             labelOff == r[1]
             n == Len(h)
         IN  IF labelOff < 0 THEN Rejected
             ELSE IF labelOff # n
                  THEN IF 64 <= n - labelOff THEN Rejected
                       ELSE [ok |-> TRUE,
                             bytes |-> SetByte(SetByte(r[2], labelOff + 1, n - labelOff), n + 2, 0)]
                  ELSE [ok |-> TRUE,
                        bytes |-> SubSeq(SetByte(r[2], labelOff + 1, 0), 1, labelOff + 1)]

-----------------------------------------------------------------------------
(* query::get_rr_name.                                                      *)

\* A slip: the check that a label ends inside the message dropped.
RECURSIVE DecodeLabelsNoBound(_, _, _, _)
DecodeLabelsNoBound(pkt, offset, owner, reads) ==
    LET labelLen == ByteAt(pkt, offset)
        next == labelLen + offset + 1
        rd == reads \cup {offset}
        Fail(r) == [ok |-> FALSE, owner |-> owner, offset |-> offset, reads |-> r]
    IN  IF labelLen >= 192
        THEN IF offset + 2 > Len(pkt) THEN Fail(rd)
             ELSE [ok |-> TRUE, owner |-> owner, offset |-> offset + 2, reads |-> rd]
        ELSE IF labelLen >= 64 THEN Fail(rd)
        ELSE IF labelLen = 0
             THEN [ok |-> TRUE, owner |-> owner, offset |-> next, reads |-> rd]
        ELSE LET label == [k \in 1..labelLen |-> ByteAt(pkt, offset + k)]
                 rl == rd \cup (offset + 1 .. next - 1)
                 owner2 == owner \o label \o <<DotByte>>
             IN  IF \E k \in 1..labelLen : ~IsDnsChar(label[k]) THEN Fail(rl)
                 ELSE IF Len(owner2) > MaxHostNameLength THEN Fail(rl)
                 ELSE DecodeLabelsNoBound(pkt, next, owner2, rl)

\* The do-while loop over the labels from offset: a length of 192 or more
\* is a compression pointer, skipped (2 bytes) and not followed; 64..191
\* throws; a label must end before the last byte of the message; its
\* characters must be DNS characters and are appended with a dot, up to
\* 256 characters; a zero length ends the name.  reads collects every index
\* read.
RECURSIVE DecodeLabels(_, _, _, _)
DecodeLabels(pkt, offset, owner, reads) ==
    LET labelLen == ByteAt(pkt, offset)
        o == offset + 1
        next == labelLen + o
        rd == reads \cup {offset}
        Fail(r) == [ok |-> FALSE, owner |-> owner, offset |-> offset, reads |-> r]
    IN  IF labelLen >= 192
        THEN IF offset + 2 > Len(pkt) THEN Fail(rd)
             ELSE [ok |-> TRUE, owner |-> owner, offset |-> offset + 2, reads |-> rd]
        ELSE IF labelLen >= 64 THEN Fail(rd)
        ELSE IF next >= Len(pkt) THEN Fail(rd)
        ELSE IF labelLen = 0
             THEN [ok |-> TRUE, owner |-> owner, offset |-> next, reads |-> rd]
        ELSE LET label == [k \in 1..labelLen |-> ByteAt(pkt, o + k - 1)]
                 rl == rd \cup (o .. next - 1)
                 owner2 == owner \o label \o <<DotByte>>
             IN  IF \E k \in 1..labelLen : ~IsDnsChar(label[k]) THEN Fail(rl)
                 ELSE IF Len(owner2) > MaxHostNameLength THEN Fail(rl)
                 ELSE DecodeLabels(pkt, next, owner2, rl)

\* get_rr_name(off, owner): the message must hold a header and two bytes
\* from off.
DecodeName(pkt, off) ==
    IF HeaderSize > Len(pkt) \/ off + 1 >= Len(pkt)
    THEN [ok |-> FALSE, owner |-> <<>>, offset |-> off, reads |-> {}]
    ELSE DecodeLabels(pkt, off, <<>>, {})

\* query::get_rr_question: the name, then the four bytes of the question
\* header must lie inside the message.
QuestionAfter(pkt, r) ==
    IF r.ok /\ r.offset + QuestionHeaderSize <= Len(pkt)
    THEN [r EXCEPT !.offset = r.offset + QuestionHeaderSize,
                   !.reads = @ \cup (r.offset .. r.offset + QuestionHeaderSize - 1)]
    ELSE [r EXCEPT !.ok = FALSE]

GetRrQuestion(pkt, off) == QuestionAfter(pkt, DecodeName(pkt, off))

\* query::get_question: exactly one question (qdcount, network order), read
\* from the end of the header.
GetQuestion(pkt) ==
    IF pkt[5] * 256 + pkt[6] # 1
    THEN [ok |-> FALSE, owner |-> <<>>, offset |-> 0, reads |-> {4, 5}]
    ELSE [GetRrQuestion(pkt, HeaderSize) EXCEPT !.reads = @ \cup {4, 5}]

\* packet::is_dns, the test responder::process makes before parsing.
IsDns(pkt) ==
    /\ Len(pkt) >= 15
    /\ pkt[5] = 0 /\ pkt[6] = 1 /\ pkt[11] = 0 /\ pkt[12] <= 1

\* The header query(hostname, type, id) writes with set_header: all zero
\* but qdcount = 1 (the id is left out).
Header == [i \in 1..HeaderSize |-> IF i = 6 THEN 1 ELSE 0]

\* The message query(hostname, type, id) builds: the header, the name, the
\* question header (type and class, abstracted to non-zero bytes).
QueryMessage(name) == Header \o name \o [i \in 1..QuestionHeaderSize |-> 1]

NotParsed == [ok |-> FALSE, owner |-> <<>>, offset |-> 0, reads |-> {}]
NoMessage == [from |-> "none", name |-> <<>>, ok |-> FALSE, pkt |-> <<>>]

CodecInit ==
    /\ wire = NoMessage
    /\ parsed = NotParsed

\* A client constructs query(hostname, type, id); the constructor either
\* throws or leaves the message on the wire.  Nothing is kept from one
\* message to the next, so the wire holds one at a time (CodecNext).
Build(h) ==
    LET e == Encode(h)
    IN  /\ wire' = [from |-> "client", name |-> h, ok |-> e.ok,
                    pkt |-> IF e.ok THEN QueryMessage(e.bytes) ELSE <<>>]
        /\ parsed' = NotParsed

\* A datagram from anywhere, one question in its header and any bytes
\* after it, that passes is_dns.
Receive(t) ==
    /\ IsDns(Header \o t)
    /\ wire' = [from |-> "peer", name |-> <<>>, ok |-> TRUE, pkt |-> Header \o t]
    /\ parsed' = NotParsed

\* The reader of the message on the wire (responder::pre_filter, the cache)
\* calls get_question on it.
Parse ==
    /\ wire.ok
    /\ parsed = NotParsed
    /\ parsed' = GetQuestion(wire.pkt)
    /\ UNCHANGED wire

\* The message is dropped once handled (a rejected query never existed).
Consume ==
    /\ wire # NoMessage
    /\ wire.ok => parsed # NotParsed
    /\ wire' = NoMessage
    /\ parsed' = NotParsed

CodecNext ==
    \/ /\ wire = NoMessage
       /\ \/ \E h \in Names : Build(h)
          \/ \E t \in Tails : Receive(t)
    \/ Parse
    \/ Consume

-----------------------------------------------------------------------------
(* Reference definitions and properties.                                   *)

\* The labels of a host name, split at its dots.
Labels(h) ==
    LET dots == {i \in 1..Len(h) : h[i] = DotByte}
        starts == {0} \cup dots
        EndOf(s) == CHOOSE e \in (dots \cup {Len(h) + 1}) :
                        e > s /\ \A d \in dots : d > s => e <= d
    IN  {SubSeq(h, s + 1, EndOf(s) - 1) : s \in starts}

\* A name as RFC 1035 allows it in text: labels of 1..63 DNS characters
\* separated by dots, an optional final dot, at most 255 bytes on the wire.
WellFormed(h) ==
    LET body == IF h # <<>> /\ Last(h) = DotByte THEN Front(h) ELSE h
    IN  /\ body # <<>>
        /\ \A l \in Labels(body) : /\ 1 <= Len(l) /\ Len(l) <= 63
                                   /\ \A k \in 1..Len(l) : IsDnsChar(l[k])
        /\ Len(body) + 2 <= 255

WithFinalDot(h) == IF Last(h) = DotByte THEN h ELSE Append(h, DotByte)

\* get_question on whatever datagram passed is_dns: get_rr_name and
\* get_rr_question read only bytes inside the message, and the offset
\* get_question returns is at most its size (its assert).
NameDecodeInBounds ==
    parsed # NotParsed =>
        /\ parsed.reads \subseteq 0 .. Len(wire.pkt) - 1
        /\ parsed.ok => parsed.offset <= Len(wire.pkt)

\* The query constructor and get_question agree: the constructor accepts
\* every well-formed host name, and parsing the message it built gives the
\* name with a final dot and ends exactly at the end of the message.
NameRoundTrip ==
    wire.from = "client" /\ WellFormed(wire.name) =>
        /\ wire.ok
        /\ parsed # NotParsed => /\ parsed.ok
                                 /\ parsed.owner = WithFinalDot(wire.name)
                                 /\ parsed.offset = Len(wire.pkt)

====
