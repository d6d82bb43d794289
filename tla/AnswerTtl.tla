------------------------------ MODULE AnswerTtl ------------------------------
(***************************************************************************)
(* The resource-record walkers of dns::query (src/dns/srcz/query.cpp) on   *)
(* the cache path of the forwarding responder: pass_answer_downstream      *)
(* hands an upstream answer to cache::store, which reads its smallest TTL   *)
(* with answer_min_ttl; a later cache hit (cache::retrieve) copies the      *)
(* stored bytes and rewrites the id and every TTL with adjust_id_and_ttl.   *)
(* Both walk the records with get_rr, which throws runtime_error on a      *)
(* record that does not fit the message; nothing on these paths catches   *)
(* it, so the daemon ends.  One cache key: the answers all answer the same *)
(* question (the key is Forwarder's concern).  A query pre_filter finds in *)
(* the hosts file is answered by query::set_answer and stored the same     *)
(* way.  The asserts on these paths abort a build without NDEBUG and are   *)
(* skipped by one with it; the build is chosen once, at the start.         *)
(***************************************************************************)
EXTENDS NameCodec, CacheFile

CONSTANTS
    Answers,       \* upstream answers (byte sequences) pass_answer_downstream gets
    Queries,       \* client queries (byte sequences) responder::process gets
    HostsIps,      \* addresses the hosts file gives the question's name: [inet, bytes]
    AnsMaxTime     \* bound on the clock

VARIABLES
    entry,     \* the cache entry: [wire, deadline], or NoAnswer
    served,    \* what the step sent from the cache: [pkt, tid, ttl, src], or NoAnswer
    ansClock,  \* std::time (nullptr)
    status,    \* "running", or what ended the daemon: "store", "retrieve", "query",
               \* "info" (an exception there), "assert" (a failed assert), "overflow"
               \* (a stack buffer overrun)
    ndebug     \* the build defines NDEBUG: asserts are skipped

answerVars == <<entry, served, ansClock, status, ndebug>>

NoAnswer == [none |-> TRUE]

\* sizeof(rr_header) and rr_type::opt.
RrHeaderSize == 10
OptType == 41

\* query::max_size: max(tcp_max_size, udp_edns_max_size) - 10000.
QueryMaxSize == 55535

\* ntohs; and ntohl followed by the cast to int32, which reads the four
\* bytes as a two's complement number (a first byte of 128 or more gives a
\* negative TTL).
U16(pkt, i) == ByteAt(pkt, i) * 256 + ByteAt(pkt, i + 1)
Int32At(pkt, i) ==
    LET b0 == ByteAt(pkt, i)
    IN  (IF b0 >= 128 THEN b0 - 256 ELSE b0) * 16777216
        + ByteAt(pkt, i + 1) * 65536 + U16(pkt, i + 2)
Int32Max == 2147483647

\* Bit k of byte i: the header() bit-fields (qr is bit 7 and tc bit 1 of
\* byte 2, rcode the low four bits of byte 3).
Bit(pkt, i, k) == (ByteAt(pkt, i) \div 2^k) % 2 = 1
Qr(pkt) == Bit(pkt, 2, 7)
Tc(pkt) == Bit(pkt, 2, 1)
Rcode(pkt) == ByteAt(pkt, 3) % 16
RecordCount(pkt) == U16(pkt, 6) + U16(pkt, 8) + U16(pkt, 10)

\* Bytes s written at index i (htons, htonl in place).
Overwrite(pkt, i, s) ==
    [p \in DOMAIN pkt |-> IF p - 1 - i \in 0 .. Len(s) - 1 THEN s[p - i] ELSE pkt[p]]
BigEndian(v, n) == [k \in 1..n |-> (v \div 256^(n - k)) % 256]

-----------------------------------------------------------------------------
(* get_rr, answer_min_ttl, adjust_id_and_ttl.                               *)

RrFail == [ok |-> FALSE]

\* query::get_rr: the owner name, then the ten bytes of rr_header and the
\* rdlength bytes of data must lie inside the message.
RrOf(pkt, r, o, rdlength) ==
    IF ~r.ok \/ o > Len(pkt) \/ o + rdlength > Len(pkt) THEN RrFail
    ELSE [ok |-> TRUE, type |-> U16(pkt, r.offset), class |-> U16(pkt, r.offset + 2),
          ttl |-> Int32At(pkt, r.offset + 4), rdlength |-> rdlength,
          end |-> o + rdlength]

RrAfter(pkt, r) == RrOf(pkt, r, r.offset + RrHeaderSize, U16(pkt, r.offset + 8))

GetRr(pkt, off) == RrAfter(pkt, DecodeName(pkt, off))

\* The question the walkers skip, and its class (get_rr_question).
QuestionEnd(pkt) == GetRrQuestion(pkt, HeaderSize)
QuestionClass(pkt) == U16(pkt, QuestionEnd(pkt).offset - 2)

\* The loop over the na records: the smallest TTL of a record that is not
\* OPT, starting from INT32_MAX.
RECURSIVE MinTtlFrom(_, _, _, _), MinTtlStep(_, _, _, _)
MinTtlStep(pkt, r, na, m) ==
    IF ~r.ok THEN RrFail
    ELSE MinTtlFrom(pkt, r.end, na - 1, IF r.type # OptType /\ r.ttl < m THEN r.ttl ELSE m)

MinTtlFrom(pkt, off, na, m) ==
    IF na = 0 THEN [ok |-> TRUE, v |-> m] ELSE MinTtlStep(pkt, GetRr(pkt, off), na, m)

\* The loop after the question q of pkt, or a throw.
MinTtlAfter(pkt, q) ==
    IF ~q.ok THEN RrFail
    ELSE IF QuestionClass(pkt) # 1 THEN [ok |-> TRUE, v |-> 0]
    ELSE MinTtlFrom(pkt, q.offset, RecordCount(pkt), Int32Max)

\* A slip: only the answer section is counted for the early return.
AnswerMinTtlAnCountOnly(pkt) ==
    IF Tc(pkt) \/ Rcode(pkt) \notin {0, 3} \/ ~Qr(pkt) \/ U16(pkt, 6) = 0
    THEN [ok |-> TRUE, v |-> 0]
    ELSE MinTtlAfter(pkt, QuestionEnd(pkt))

\* query::answer_min_ttl: 0 for a truncated message, another rcode than
\* noerror and nxdomain, a message that is not a response, one without
\* records, or a question not of class internet; otherwise the loop.
AnswerMinTtl(pkt) ==
    IF Tc(pkt) \/ Rcode(pkt) \notin {0, 3} \/ ~Qr(pkt) \/ RecordCount(pkt) = 0
    THEN [ok |-> TRUE, v |-> 0]
    ELSE MinTtlAfter(pkt, QuestionEnd(pkt))

\* The loop of adjust_id_and_ttl: for every record that is not OPT, write
\* htonl(ttl) into the rr_header that ends rdlength bytes before the end
\* get_rr returned.
RECURSIVE AdjustFrom(_, _, _, _), AdjustStep(_, _, _, _)
AdjustStep(pkt, r, na, ttl) ==
    IF ~r.ok THEN RrFail
    ELSE AdjustFrom(IF r.type # OptType
                    THEN Overwrite(pkt, r.end - r.rdlength - RrHeaderSize + 4, BigEndian(ttl, 4))
                    ELSE pkt,
                    r.end, na - 1, ttl)

AdjustFrom(pkt, off, na, ttl) ==
    IF na = 0 THEN [ok |-> TRUE, pkt |-> pkt] ELSE AdjustStep(pkt, GetRr(pkt, off), na, ttl)

\* The id rewritten into p, the loop after its question q over na records.
AdjustAfter(p, q, na, ttl) == IF ~q.ok THEN RrFail ELSE AdjustFrom(p, q.offset, na, ttl)

\* A slip: only the answer section is rewritten.
AdjustWithAnswersOnly(p, ttl) == AdjustAfter(p, QuestionEnd(p), U16(p, 6), ttl)
AdjustIdAndTtlAnswersOnly(pkt, tid, ttl) ==
    AdjustWithAnswersOnly(Overwrite(pkt, 0, BigEndian(tid, 2)), ttl)

\* query::adjust_id_and_ttl: the id, then the TTL of every record.
AdjustWith(p, ttl) == AdjustAfter(p, QuestionEnd(p), RecordCount(p), ttl)
AdjustIdAndTtl(pkt, tid, ttl) == AdjustWith(Overwrite(pkt, 0, BigEndian(tid, 2)), ttl)

\* The offset after the question and n records from off (the loops of
\* add_answer), or RrFail where get_rr throws.
RECURSIVE SkipRrs(_, _, _), SkipStep(_, _, _)
SkipStep(pkt, r, n) == IF ~r.ok THEN RrFail ELSE SkipRrs(pkt, r.end, n - 1)
SkipRrs(pkt, off, n) == IF n = 0 THEN [ok |-> TRUE, end |-> off] ELSE SkipStep(pkt, GetRr(pkt, off), n)

\* query::set_answer(owner, ip): address(ip, 0), then add_answer with TTL
\* 10, which asserts an IPv4 address and a message with no authority and no
\* additional record, and copies the four bytes at the sin_addr offset (of
\* a sockaddr_in6 these are sin6_flowinfo, zero).  The new record (a
\* pointer to the question, type A, class internet, the TTL, rdlength 4,
\* the data) is written after the answers, where it overwrites what
\* follows them; ancount is incremented and QR set.  Returns [ok, abort,
\* pkt]: abort for a failed assert, ~ok for a throw.
AnswerWith(q, ip, s) ==
    LET data == IF ip.inet = "ipv4" THEN ip.bytes ELSE <<0, 0, 0, 0>>
        head == Overwrite(Overwrite(q, 6, BigEndian(U16(q, 6) + 1, 2)), 2,
                          <<IF Qr(q) THEN ByteAt(q, 2) ELSE ByteAt(q, 2) + 128>>)
        Abort == [ok |-> FALSE, abort |-> TRUE]
        Throw == [ok |-> FALSE, abort |-> FALSE]
    IN  CASE ~ndebug /\ ip.inet # "ipv4" -> Abort
          [] Len(q) + 16 > QueryMaxSize -> Throw
          [] ~ndebug /\ (U16(q, 8) # 0 \/ U16(q, 10) # 0) -> Abort
          [] ~s.ok -> Throw
          [] OTHER -> [ok |-> TRUE,
                       pkt |-> SubSeq(head, 1, s.end) \o <<192, HeaderSize, 0, 1, 0, 1>>
                               \o BigEndian(10, 4) \o <<0, 4>> \o data]

SetAnswer(q, ip) == AnswerWith(q, ip, SkipRrs(q, QuestionEnd(q).offset, U16(q, 6)))

\* cache::store of message m: nothing for a truncated message or another
\* rcode than noerror and nxdomain, a throw if get_question or
\* answer_min_ttl throws, an abort on answer_min_ttl's assert that the
\* smallest TTL is not negative, nothing for a class other than internet;
\* else the entry, for min(max_ttl, max(answer_min_ttl, min_ttl)) seconds.
\* Returns [to, entry]: to is the status after it.
StoreOf(m, q, t, cls) ==
    CASE Tc(m) \/ Rcode(m) \notin {0, 3} -> [to |-> "running", entry |-> entry]
      [] ~q.ok \/ (cls = 1 /\ ~t.ok) -> [to |-> "store", entry |-> entry]
      [] cls # 1 -> [to |-> "running", entry |-> entry]
      [] ~ndebug /\ t.v < 0 -> [to |-> "assert", entry |-> entry]
      [] OTHER -> [to |-> "running",
                   entry |-> [wire |-> m, deadline |-> ansClock + Lifetime(t.v)]]

CacheStore(m) == StoreOf(m, GetQuestion(m), AnswerMinTtl(m), QuestionClass(m))

\* The entry and the status after cache::store returned s.
Stored(s) == entry' = s.entry /\ status' = s.to

\* The entry cache::retrieve finds for the question: present, and its
\* deadline ahead.
Fresh == entry # NoAnswer /\ ansClock < entry.deadline

-----------------------------------------------------------------------------
(* short_info, for the log line of pass_answer_downstream (its text is     *)
(* left out: only whether it returns, throws or overruns a buffer).        *)

\* The rcodes pkt_rcode_cstr names (noerror to notzone) and the classes
\* rr_class_cstr names (internet, chaos, hesiod, none, any); both throw
\* logic_error for any other.
NamedRcodes == 0..10
NamedClasses == {1, 3, 4, 254, 255}
AaaaType == 28

\* network::address(inet, rdata, 0) for an A or AAAA record of n bytes:
\* logic_error under sizeof(in_addr) or over sizeof(sockaddr_storage);
\* otherwise memcpy of n bytes into sin_addr (4 bytes from the end of a
\* 16-byte sockaddr_in minus 4) or sin6_addr (16 of a 28-byte
\* sockaddr_in6 from offset 8), which overruns the stack structure for
\* more than 12, resp. 20 bytes.
AddressOfData(type, n) ==
    CASE n < 4 \/ n > 128 -> "throw"
      [] (type = 1 /\ n > 12) \/ (type = AaaaType /\ n > 20) -> "overflow"
      [] OTHER -> "ok"

\* What short_info makes of one answer record r: an internet A or AAAA
\* record is printed as an address, another internet record by its type,
\* a record of another class by its class name.
InfoRecord(r) ==
    CASE ~r.ok -> "throw"
      [] r.class = 1 /\ r.type \in {1, AaaaType} -> AddressOfData(r.type, r.rdlength)
      [] r.class = 1 \/ r.class \in NamedClasses -> "ok"
      [] OTHER -> "throw"

\* The question loop: qdcount questions, each read by get_rr_question and
\* its class named.
RECURSIVE InfoQuestions(_, _, _), InfoQuestionStep(_, _, _)
InfoQuestionStep(pkt, q, n) ==
    IF ~q.ok \/ U16(pkt, q.offset - 2) \notin NamedClasses THEN RrFail
    ELSE InfoQuestions(pkt, q.offset, n - 1)
InfoQuestions(pkt, off, n) ==
    IF n = 0 THEN [ok |-> TRUE, offset |-> off] ELSE InfoQuestionStep(pkt, GetRrQuestion(pkt, off), n)

\* The answer loop: ancount records by get_rr.  Returns [ok, ub]: ok for a
\* return, ub when an address overran its structure on the way.
RECURSIVE InfoRrs(_, _, _, _), InfoRrStep(_, _, _, _, _)
InfoRrStep(pkt, r, v, n, ub) ==
    IF v = "throw" THEN [ok |-> FALSE, ub |-> ub]
    ELSE InfoRrs(pkt, r.end, n - 1, ub \/ v = "overflow")
InfoRrs(pkt, off, n, ub) ==
    IF n = 0 THEN [ok |-> TRUE, ub |-> ub]
    ELSE InfoRrStep(pkt, GetRr(pkt, off), InfoRecord(GetRr(pkt, off)), n, ub)

InfoAfter(pkt, q) ==
    IF ~q.ok THEN [ok |-> FALSE, ub |-> FALSE] ELSE InfoRrs(pkt, q.offset, U16(pkt, 6), FALSE)

\* query::short_info: the rcode's name unless noerror, the questions, the
\* answer records.
ShortInfo(pkt) ==
    IF Rcode(pkt) \notin NamedRcodes THEN [ok |-> FALSE, ub |-> FALSE]
    ELSE InfoAfter(pkt, InfoQuestions(pkt, HeaderSize, U16(pkt, 4)))

-----------------------------------------------------------------------------

AnswerInit ==
    /\ entry = NoAnswer
    /\ served = NoAnswer
    /\ ansClock = 0
    /\ status = "running"
    /\ ndebug \in BOOLEAN

\* pass_answer_downstream of the upstream answer a: the log line's
\* short_info, evaluated whatever the log level (its throw ends the
\* daemon; an overrun may go unnoticed or abort it), then, for noerror
\* and nxdomain, responder::store -> cache::store; other rcodes are only
\* responded to (respond is Forwarder's).  i is what short_info did.
Passed(a, i) ==
    IF ~i.ok THEN status' = "info" /\ UNCHANGED entry
    ELSE IF Rcode(a) \in {0, 3} THEN Stored(CacheStore(a))
    ELSE UNCHANGED <<entry, status>>

PassAnswerWith(a, i) ==
    \/ Passed(a, i)
    \/ i.ub /\ status' = "overflow" /\ UNCHANGED entry

PassAnswer(a) ==
    /\ status = "running"
    /\ PassAnswerWith(a, ShortInfo(a))
    /\ served' = NoAnswer
    /\ UNCHANGED <<ansClock, ndebug>>

\* responder::process of a client query q (packet::is_dns holds, the
\* filters pass): pre_filter reads the question (get_question throws on a
\* malformed one); cache::retrieve finds a fresh entry, copies it and
\* adjusts it to q's id and the seconds left.
\* What retrieve sends for a client id tid, ttl seconds left, after
\* adjust_id_and_ttl returned r; or its throw.
Retrieved(tid, ttl, r) ==
    \/ /\ r.ok
       /\ served' = [kind |-> "cache", pkt |-> r.pkt, tid |-> tid,
                     ttl |-> ttl, src |-> entry.wire]
       /\ UNCHANGED status
    \/ /\ ~r.ok
       /\ status' = "retrieve"
       /\ served' = NoAnswer

\* Retrieved, for the query's id and the entry's seconds left.
RetrievedFor(tid, ttl) == Retrieved(tid, ttl, AdjustIdAndTtl(entry.wire, tid, ttl))

HitCache(q) ==
    /\ status = "running"
    /\ IsDns(q)
    /\ \/ /\ ~GetQuestion(q).ok
          /\ status' = "query"
          /\ served' = NoAnswer
       \/ /\ GetQuestion(q).ok
          /\ Fresh
          /\ RetrievedFor(U16(q, 0), entry.deadline - ansClock)
    /\ UNCHANGED <<entry, ansClock, ndebug>>

\* The same, when the cache has no fresh entry and the hosts file maps the
\* name to ip: pre_filter answers with set_answer and returns 2, so
\* process stores the answer (responder::store -> cache::store) and sends
\* it.
\* The hosts answer a of query q, stored as cache::store returned s.
HostsStored(q, a, s) ==
    /\ Stored(s)
    /\ served' = IF s.to = "running" THEN [kind |-> "hosts", pkt |-> a.pkt, query |-> q]
                 ELSE NoAnswer

\* set_answer's result a: its throw or abort, or the store and the send.
HostsReply(q, a) ==
    IF ~a.ok THEN /\ status' = IF a.abort THEN "assert" ELSE "query"
                 /\ UNCHANGED <<entry, served>>
    ELSE HostsStored(q, a, CacheStore(a.pkt))

HostsAnswer(q, ip) ==
    /\ status = "running"
    /\ IsDns(q)
    /\ GetQuestion(q).ok
    /\ ~Fresh
    /\ HostsReply(q, SetAnswer(q, ip))
    /\ UNCHANGED <<ansClock, ndebug>>

AnswerTick ==
    /\ status = "running"
    /\ ansClock < AnsMaxTime
    /\ ansClock' = ansClock + 1
    /\ served' = NoAnswer
    /\ UNCHANGED <<entry, status, ndebug>>

AnswerNext ==
    \/ \E a \in Answers : PassAnswer(a)
    \/ \E q \in Queries : HitCache(q)
    \/ \E q \in Queries, ip \in HostsIps : HostsAnswer(q, ip)
    \/ AnswerTick

-----------------------------------------------------------------------------
(* Properties.                                                              *)

\* The records of a message, as get_rr reads them after the question.
RECURSIVE RecordsFrom(_, _, _), RecordsAt(_, _, _)
RecordsAt(pkt, r, na) == IF ~r.ok THEN <<r>> ELSE <<r>> \o RecordsFrom(pkt, r.end, na - 1)
RecordsFrom(pkt, off, na) == IF na = 0 THEN <<>> ELSE RecordsAt(pkt, GetRr(pkt, off), na)
Records(pkt) == RecordsFrom(pkt, QuestionEnd(pkt).offset, RecordCount(pkt))

\* The data of record r of pkt.
RData(pkt, r) == SubSeq(pkt, r.end - r.rdlength + 1, r.end)

\* The records s sent match the records o stored, with fresh TTLs.
RecordsRefreshed(s, o) ==
    /\ Len(s) = Len(o)
    /\ \A i \in 1..Len(s) :
          /\ s[i].ok /\ o[i].ok
          /\ s[i].type = o[i].type
          /\ s[i].end = o[i].end
          /\ s[i].ttl = IF o[i].type = OptType THEN o[i].ttl ELSE served.ttl

\* A cache hit sends the stored answer with the client's id, the same
\* question and records, every record but OPT (whose TTL field holds the
\* EDNS flags) carrying the seconds left, between 1 and max_ttl, whatever
\* the upstream TTLs were (negative as int32, or only OPT records).
ServedRecordsRefreshed ==
    served # NoAnswer /\ served.kind = "cache" =>
            /\ U16(served.pkt, 0) = served.tid
            /\ served.ttl \in 1..CacheMaxTtl
            /\ Len(served.pkt) = Len(served.src)
            /\ QuestionEnd(served.pkt) = QuestionEnd(served.src)
            /\ RecordsRefreshed(Records(served.pkt), Records(served.src))

\* pre_filter answers a query for a name the hosts file lists (set_answer),
\* and process stores the answer in the cache and sends it: the daemon
\* keeps running, and the client gets a message whose records all lie
\* inside it, the last of them carrying the hosts file's address.  Clients
\* send EDNS queries (an OPT record, which packet::is_dns admits), and a
\* hosts file may list IPv6 addresses.
HostsAnswerServed ==
    [][\A q \in Queries, ip \in HostsIps :
          HostsAnswer(q, ip) =>
              /\ status' = "running"
              /\ LET rs == Records(served'.pkt)
                 IN  /\ Len(rs) > 0
                     /\ \A i \in 1..Len(rs) : rs[i].ok
                     /\ RData(served'.pkt, rs[Len(rs)]) = ip.bytes]_answerVars

\* adjust_id_and_ttl throws on a record that does not fit the message, and
\* nothing on the cache-hit path catches it.  That happens only for an
\* answer store kept without walking its records, one whose QR bit is
\* clear: every other answer store kept went through answer_min_ttl's
\* walk, which throws on the same records (and then store ends the
\* daemon instead).
HitCrashesOnlyOnUnwalkedAnswer ==
    status = "retrieve" => ~Qr(entry.wire)

====
