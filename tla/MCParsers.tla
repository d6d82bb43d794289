----------------------------- MODULE MCParsers -----------------------------
(***************************************************************************)
(* What the daemon reads: the domain filter (Filter, a state machine of    *)
(* reloads and merges), the name codec (NameCodec, a client building       *)
(* queries and a reader parsing them) and the resolvers list               *)
(* (ProviderRegistry, loads at start-up and on SIGHUP), the saved DNS     *)
(* cache (CacheFile, saves, kills and restarts) and the upstream answers   *)
(* the cache stores and serves (AnswerTtl, their record walkers).          *)
(*                                                                         *)
(* Filter words over "a", "b", "." and the star cover each kind of entry,  *)
(* an entry that extends another of its kind ("aa*" after "a*", ".b.a"     *)
(* after ".a"), entries one kind covers for another, a comment, a bare     *)
(* star and the leading-star exact name.  Host names: every string of one  *)
(* to three characters over "a", "b", "c" and ".", so that a name can sort *)
(* between a word and its extension.                                       *)
(*                                                                         *)
(* Names for the codec: every string of up to four characters over "a",    *)
(* "-", "_" and ".", and the boundary cases: labels of 63 and 64           *)
(* characters, names of 253 characters (255 bytes on the wire) and 256.    *)
(* Received bytes: every tail of up to five bytes over label lengths 0, 1, *)
(* 2, 63, 64, 191, a pointer byte 192 and the characters "a" and "_".      *)
(*                                                                         *)
(* The resolvers lists for ProviderRegistry are defined below.             *)
(***************************************************************************)
EXTENDS Filter, NameCodec, ProviderRegistry, CacheFile, AnswerTtl, MCEnvelope,
        ResolversCsv, ResponderReload, Options, TcpStream, CertParse

W(s) == [i \in 1..Len(s) |-> SubSeq(s, i, i)]

MCFiles ==
    { <<W("a*")>>, <<W("aa*")>>, <<W("a.*")>>, <<W(".a")>>, <<W("*.b.a")>>,
      <<W("*b*")>>, <<W("ab")>>, <<W("*ab")>>, <<W("#a"), W("*")>>,
      <<W("b.a"), W("*.a*")>> }

HostChars == {"a", "b", "c", "."}

\* The host names of one to three of these characters.
MCHosts ==
    {<<x>> : x \in HostChars} \cup {<<x, y>> : x, y \in HostChars}
        \cup {<<x, y, z>> : x, y, z \in HostChars}

A(n) == [i \in 1..n |-> 97]
Dotted(s, t) == s \o <<DotByte>> \o t

MCNames ==
    BoundedSeq({97, 45, 46, 95}, 4)
    \cup { A(63), A(64), Dotted(A(63), A(2)), Dotted(A(64), A(1)),
           Dotted(Dotted(Dotted(A(63), A(63)), A(63)), A(61)),
           Append(Dotted(Dotted(Dotted(A(63), A(63)), A(63)), A(61)), DotByte),
           Dotted(Dotted(Dotted(A(63), A(63)), A(63)), A(62)),
           Dotted(A(1), Dotted(Dotted(Dotted(A(63), A(63)), A(63)), A(60))) }

MCTails == BoundedSeq({0, 1, 2, 63, 64, 191, 192, 97, 95}, 5)

\* Resolvers: two IPv4 addresses and one IPv6 address, two identities each,
\* lists of up to two resolvers (a duplicate address, a list that drops an
\* address); a constructor load and two reloads, with and without noipv6.
MCEntries == [addr : {"a4", "b4", "c6"}, ident : {"i1", "i2"}]
MCLists == BoundedSeq(MCEntries, 2)

\* The saved cache: two keys, so that a file can be cut between two whole
\* entries; lifetimes 1 and 2 on a clock of 0..2, so that an entry expires
\* while the daemon is down; a store saves at every second entry.

\* Upstream answers to the question "a" (type A, class internet), id 7,
\* with QR set or clear: up to two records, the last one in the answer or
\* the additional section, each an A record with TTL 5 (above max_ttl) or
\* 2^31 (negative as int32), an OPT record (its TTL field the DO bit), an
\* A record whose rdlength runs past the end, or one with 16 bytes of data
\* (more than short_info's sockaddr_in holds).  Besides, one truncated
\* answer, one to a question of class chaos, which store does not keep,
\* one of class 2 (which rr_class_cstr does not name), and a servfail and
\* an rcode 11 answer without records.
AHeader(f, an, ar) == <<0, 7, f, 0, 0, 1, 0, an, 0, 0, 0, ar>>
AQuestion(cls) == <<1, 97, 0, 0, 1, 0, cls>>
Rr(type, ttl, rdata) == <<192, 12, 0, type, 0, 1>> \o ttl \o <<0, Len(rdata)>> \o rdata
MCRecords ==
    { Rr(1, <<0, 0, 0, 5>>, <<9, 9, 9, 9>>), Rr(1, <<128, 0, 0, 0>>, <<9, 9, 9, 9>>),
      Rr(41, <<0, 0, 128, 0>>, <<>>), <<192, 12, 0, 1, 0, 1, 0, 0, 0, 5, 0, 4, 9>>,
      Rr(1, <<0, 0, 0, 5>>, [i \in 1..16 |-> 9]) }
MCAnswers ==
    { AHeader(f, Len(rs) - inAr, inAr) \o AQuestion(1) \o FlattenSeq(rs) :
        f \in {128, 0}, rs \in BoundedSeq(MCRecords, 2), inAr \in {0, 1} }
    \cup { AHeader(130, 1, 0) \o AQuestion(1) \o Rr(1, <<0, 0, 0, 5>>, <<9, 9, 9, 9>>),
          AHeader(128, 1, 0) \o AQuestion(3) \o Rr(1, <<0, 0, 0, 5>>, <<9, 9, 9, 9>>),
          AHeader(128, 1, 0) \o AQuestion(2) \o Rr(1, <<0, 0, 0, 5>>, <<9, 9, 9, 9>>),
          <<0, 7, 128, 2, 0, 1, 0, 0, 0, 0, 0, 0>> \o AQuestion(1),
          <<0, 7, 128, 11, 0, 1, 0, 0, 0, 0, 0, 0>> \o AQuestion(1) }

\* Client queries for "a" (type A, class internet), id 258, recursion
\* desired, without and with an EDNS OPT record, and one whose question's
\* label runs past the end; the hosts file maps "a" to
\* an IPv4 or to an IPv6 address.
OptRr == <<0, 0, 41, 16, 0, 0, 0, 0, 0, 0, 0>>
MCQueries ==
    { <<1, 2, 1, 0, 0, 1, 0, 0, 0, 0, 0, ar>> \o AQuestion(1)
        \o (IF ar = 1 THEN OptRr ELSE <<>>) : ar \in {0, 1} }
    \cup { <<1, 2, 1, 0, 0, 1, 0, 0, 0, 0, 0, 0, 5, 97, 97>> }
MCHostsIps ==
    { [inet |-> "ipv4", bytes |-> <<10, 0, 0, 1>>],
      [inet |-> "ipv6", bytes |-> [i \in 1..16 |-> IF i = 16 THEN 1 ELSE 0]] }

(* Resolvers files for ResolversCsv.  Headers: "P" (Provider name), "N"    *)
(* (Name), "K" (Provider public key), "A" (Resolver address).  Each table  *)
(* has one header line (three or four of them, two naming the same column, *)
(* or too few) and up to two rows: a complete row, one with a comma inside *)
(* the provider name, one with an empty public key, one field short, and a *)
(* blank line.  Each table is written with every field quoted or only the  *)
(* fields holding a comma, with "\r\n" or "\n" line ends, and with or     *)
(* without a last line end.  Three files by hand hold the errors of        *)
(* parse_line.                                                             *)
MCSep == ","
MCQuote == "Q"
MCCr == "CR"
MCNl == "NL"

\* Port numbers, and the public key: "k" its hex digits, "kc" the same
\* with colons (as bin2hex prints it).
MCDecimal == ("53" :> 53) @@ ("443" :> 443) @@ ("0443" :> 443) @@ ("99999" :> 99999)
MCToDecimal == (53 :> "53") @@ (443 :> "443")
MCPubKeys == ("k" :> "K1") @@ ("kc" :> "K1")
MCKeyHex == "K1" :> "kc"

MCProviderNameHdr == <<"P">>
MCNameHdr == <<"N">>
MCPublicKeyHdr == <<"K">>
MCAddressHdr == <<"A">>

MCHeaders ==
    { [i \in DOMAIN hs |-> <<hs[i]>>] :
        hs \in { <<"P", "K", "A">>, <<"A", "N", "P", "K">>, <<"P", "P", "K", "A">>, <<"P", "K">> } }

FieldFor(h) ==
    CASE h = <<"P">> -> <<"n">> [] h = <<"K">> -> <<"k">> [] h = <<"A">> -> <<"4", ":", "0443">>
      [] OTHER -> <<"m">>

\* A row with field f under header h instead.
WithField(hs, row, h, f) == [i \in DOMAIN hs |-> IF hs[i] = h THEN f ELSE row[i]]

MCRows(hs) ==
    LET full == [i \in DOMAIN hs |-> FieldFor(hs[i])]
    IN  { full, <<>>, Front(full),
          WithField(hs, full, <<"P">>, <<"n", MCSep, "n">>),
          WithField(hs, full, <<"K">>, <<>>),
          WithField(hs, WithField(hs, full, <<"K">>, <<"kc">>), <<"A">>,
                    <<"[", "h", ":", ":", "0", ":", "h", "]">>),
          WithField(hs, full, <<"A">>, <<"4", ":", "99999">>) }

MCTables ==
    UNION { {<<hs>>} \cup {<<hs, r>> : r \in MCRows(hs)} \cup {<<hs, r1, r2>> : r1, r2 \in MCRows(hs)}
            : hs \in MCHeaders }

CsvField(f, quoteAll) ==
    IF quoteAll \/ MCSep \in Range(f) THEN <<MCQuote>> \o f \o <<MCQuote>> ELSE f

WriteRow(fs, quoteAll) ==
    IF fs = <<>> THEN <<>>
    ELSE FoldLeft(LAMBDA acc, f : acc \o <<MCSep>> \o CsvField(f, quoteAll),
                  CsvField(Head(fs), quoteAll), Tail(fs))

WriteTable(t, quoteAll, eol, lastEol) ==
    LET lines == [k \in DOMAIN t |-> WriteRow(t[k], quoteAll)
                                      \o (IF k < Len(t) \/ lastEol THEN eol ELSE <<>>)]
    IN  FoldLeft(LAMBDA acc, l : acc \o l, <<>>, lines)

MCCsvFiles ==
    { [text |-> WriteTable(t, qa, eol, le), table |-> t] :
        t \in MCTables, qa \in BOOLEAN, eol \in {<<MCNl>>, <<MCCr, MCNl>>}, le \in BOOLEAN }
    \cup { [text |-> hand, table |-> NoTable] :
            hand \in { <<"P", MCSep, "K", MCSep, "A", MCNl, "n", MCQuote, "x", MCSep, "k", MCSep, "4">>,
                       <<"P", MCSep, "K", MCSep, "A", MCNl, MCQuote, "n", MCQuote, "x", MCSep, "k", MCSep, "4">>,
                       <<"P", MCSep, "K", MCSep, "A", MCNl, MCQuote, "n", MCSep, "k">> } }

(* resolv.conf and hosts files for ResponderReload, written from tables of *)
(* up to two lines, with a space or a tab and a space between words, "\n" *)
(* or "\r\n" line ends, with or without the last one.  Nameservers: an    *)
(* IPv4 address, an IPv6 one, a bracketed IPv6 one with a port and a word *)
(* after it, and one with a port out of range; besides, a search line, a  *)
(* comment and a blank line.  Hosts lines: an IPv4 address with two       *)
(* names, an IPv6 address naming the first again, an IPv4 address naming *)
(* the second with a comment after it, a line starting with a name, a     *)
(* line with a bad address alone, a comment and a blank line.             *)
V6Text == <<"h", ":", ":", "h">>
MCConfLines ==
    { [kind |-> "nameserver", addr |-> <<"4">>, more |-> <<>>],
      [kind |-> "nameserver", addr |-> V6Text, more |-> <<>>],
      [kind |-> "nameserver", addr |-> <<"[", "h", ":", ":", "0", ":", "h", "]", ":", "53">>,
       more |-> <<"x">>],
      [kind |-> "nameserver", addr |-> <<"4", ":", "99999">>, more |-> <<>>],
      [kind |-> "search", addr |-> <<>>, more |-> <<"x">>],
      [kind |-> "comment", addr |-> <<>>, more |-> <<>>],
      [kind |-> "blank", addr |-> <<>>, more |-> <<>>] }
MCHostsLines ==
    { [ip |-> <<"4">>, names |-> <<<<"n1">>, <<"n2">>>>, comment |-> FALSE],
      [ip |-> V6Text, names |-> <<<<"n1">>>>, comment |-> FALSE],
      [ip |-> <<"4">>, names |-> <<<<"n2">>>>, comment |-> TRUE],
      [ip |-> <<"n1">>, names |-> <<<<"n2">>>>, comment |-> FALSE],
      [ip |-> <<"x">>, names |-> <<>>, comment |-> FALSE],
      [ip |-> <<>>, names |-> <<>>, comment |-> TRUE],
      [ip |-> <<>>, names |-> <<>>, comment |-> FALSE] }

\* Words joined by the white space sp.
Words(ws, sp) == IF ws = <<>> THEN <<>> ELSE FoldLeft(LAMBDA acc, w : acc \o sp \o w, Head(ws), Tail(ws))

ConfLineText(l, sp) ==
    CASE l.kind = "nameserver" -> Words(<<<<"nameserver">>, l.addr>> \o (IF l.more = <<>> THEN <<>> ELSE <<l.more>>), sp)
      [] l.kind = "search" -> Words(<<<<"search">>, l.more>>, sp)
      [] l.kind = "comment" -> Words(<<<<"#", "c">>, <<"c">>>>, sp)
      [] OTHER -> <<>>

HostsLineText(l, sp) ==
    Words(SelectSeq(<<l.ip>>, LAMBDA w : w # <<>>) \o l.names
          \o (IF l.comment THEN <<<<"#", "c">>>> ELSE <<>>), sp)

\* A table written with line text lt, white space sp and line end eol.
WriteLines(t, lt(_, _), sp, eol, lastEol) ==
    FoldLeft(LAMBDA acc, k : acc \o lt(t[k], sp) \o (IF k < Len(t) \/ lastEol THEN eol ELSE <<>>),
             <<>>, [k \in DOMAIN t |-> k])

Tables(lines) == {<<>>} \cup {<<l>> : l \in lines} \cup {<<l1, l2>> : l1, l2 \in lines}

MCFileVariants == [sp : {<<" ">>, <<"\t", " ">>}, eol : {<<"\n">>, <<"\r", "\n">>}, last : BOOLEAN]

MCConfFiles ==
    { [text |-> WriteLines(t, ConfLineText, v.sp, v.eol, v.last), table |-> t] :
        t \in Tables(MCConfLines), v \in MCFileVariants }
MCHostsFiles ==
    { [text |-> WriteLines(t, HostsLineText, v.sp, v.eol, v.last), table |-> t] :
        t \in Tables(MCHostsLines), v \in MCFileVariants }

\* For the start-up and the SIGHUPs: a file with one nameserver, one with
\* an IPv6 and a bracketed one, one with a bad address; two hosts files
\* and one that throws; filter files with no entry and with one; the onion
\* option not given, an address, and not an address.
MCConfFile(t) == [text |-> WriteLines(t, ConfLineText, <<" ">>, <<"\n">>, TRUE), table |-> t]
MCHostsFile(t) == [text |-> WriteLines(t, HostsLineText, <<" ">>, <<"\n">>, TRUE), table |-> t]
MCNs(a) == [kind |-> "nameserver", addr |-> a, more |-> <<>>]
MCReloadConfs ==
    { MCConfFile(<<MCNs(<<"4">>)>>), MCConfFile(<<MCNs(V6Text), MCNs(<<"4", ":", "53">>)>>),
      MCConfFile(<<MCNs(<<"x">>)>>) }
MCReloadHosts ==
    { MCHostsFile(<<[ip |-> <<"4">>, names |-> <<<<"n1">>>>, comment |-> FALSE]>>),
      MCHostsFile(<<[ip |-> V6Text, names |-> <<<<"n1">>, <<"n2">>>>, comment |-> FALSE]>>),
      MCHostsFile(<<[ip |-> <<"x">>, names |-> <<<<"n1">>>>, comment |-> FALSE]>>) }

MCFilterFiles == {{}, {"w"}}
MCOnionTexts == {<<>>, <<"4">>, <<"x">>}

(* Options: settings written to a configuration file and given on a       *)
(* command line, in tables of up to two settings, the file with or        *)
(* without a comment line or a line of 512 characters first.  Names are   *)
(* spelled as the long option, in other cases, or with "_" for the first  *)
(* "-"; switches are given nothing, "0", or an off word; values cover an  *)
(* empty one, a log level past 65535, negative numbers, 0 for             *)
(* max-active-requests, two blacklists, a crypt option, and help.         *)
OptSet(f, name, v) == [flag |-> f, name |-> name, val |-> v]
MCOptSettings ==
    { OptSet("d", <<"daemonize">>, <<>>), OptSet("d", <<"Daemonize">>, <<"n", "o">>),
      OptSet("s", <<"SYSLOG">>, <<"0">>), OptSet("t", <<"tcp", "_", "only">>, <<"o", "f", "f">>),
      OptSet("l", <<"logfile">>, <<"f">>), OptSet("l", <<"LogFile">>, <<>>),
      OptSet("m", <<"loglevel">>, <<"7", "0", "0", "0", "1">>), OptSet("m", <<"loglevel">>, <<"-", "1">>),
      OptSet("M", <<"Min", "-", "TTL">>, <<"-", "1">>),
      OptSet("n", <<"max", "-", "active", "-", "requests">>, <<"0">>),
      OptSet("B", <<"blacklist">>, <<"f">>), OptSet("B", <<"blacklist">>, <<"g">>),
      OptSet("a", <<"local", "_", "address">>, <<"x">>),
      OptSet("D", <<"crypt", "-", "resolvers">>, <<"f">>), OptSet("h", <<"help">>, <<>>) }
MCCaps == "Daemonize" :> "daemonize" @@ "SYSLOG" :> "syslog" @@ "LogFile" :> "logfile"
          @@ "Min" :> "min" @@ "TTL" :> "ttl"
MCNamePieces == UNION {Range(o.name) : o \in Range(CryptFlags)} \cup {"-", "_"} \cup DOMAIN MCCaps
MCOptLower == [p \in MCNamePieces |-> IF p \in DOMAIN MCCaps THEN MCCaps[p] ELSE p]

\* What getopt_long returns for the settings: a switch once, unless the
\* setting says no, off or false (the switch is then not given at all).
MCSwitches == {"d", "s", "x", "t", "6", "V", "h"}
MCOffWords == {<<"n", "o">>, <<"o", "f", "f">>, <<"f", "a", "l", "s", "e">>}
ArgvOf(t) ==
    FoldLeft(LAMBDA acc, s :
               IF s.flag \notin MCSwitches THEN Append(acc, [flag |-> s.flag, arg |-> s.val])
               ELSE IF s.val \in MCOffWords THEN acc
               ELSE Append(acc, [flag |-> s.flag, arg |-> <<>>]),
             <<>>, t)
\* The file: the lines lead, then one "name value" line per setting.
FileOf(lead, t) ==
    lead \o [k \in DOMAIN t |-> <<t[k].name>> \o (IF t[k].val = <<>> THEN <<>> ELSE <<t[k].val>>)]
MCOptTables ==
    {<<>>} \cup {<<s>> : s \in MCOptSettings} \cup {<<s1, s2>> : s1, s2 \in MCOptSettings}
MCOptInputs ==
    { [file |-> FileOf(lead, t), argv |-> ArgvOf(t), table |-> t] :
        t \in MCOptTables, lead \in {<<>>, <<<<<<"#", "c">>>>>>, <<LongLine>>} }

\* What a TCP peer writes at once: a one-byte and a two-byte message
\* framed, a zero length, the largest length (past packet::size_type),
\* and a framed message too long for a buffer of 5 bytes (Reserved).
\* Two writes give pipelined frames; Arrive cuts them anywhere.
MCPeerWrites == {Frame(<<7>>), Frame(<<8, 9>>), <<0, 0>>, <<255, 255>>, Frame(<<1, 2, 3, 4>>)}
\* The daemon's answer or question: one and two bytes.
MCDaemonMessages == {<<6>>, <<6, 6>>}

\* Certificates for CertParse: a signed 0.1 certificate valid in seconds
\* 1 and 2, and one field changed in each of the others.  Seconds run
\* 0 to 2, so each window is met before, inside, at its end and after.
MCCert == [len |-> 124, magic |-> "DNSC", major |-> <<0, 1>>, minor |-> <<0, 0>>,
           signer |-> "pk", plen |-> 52, key |-> "k1", magicQ |-> "m1", serial |-> 1,
           tsBegin |-> 1, tsEnd |-> 2]
MCCertV2 == [MCCert EXCEPT !.major = <<0, 2>>, !.key = "k2", !.magicQ = "m2", !.serial = 0]
MCCerts ==
    {MCCert,
     [MCCert EXCEPT !.serial = 2, !.magicQ = "m3", !.key = "k3", !.tsBegin = 0, !.tsEnd = 1],
     [MCCert EXCEPT !.key = "weak", !.magicQ = "m4", !.tsBegin = 0],
     MCCertV2,
     [MCCertV2 EXCEPT !.signer = "forger"],
     [MCCertV2 EXCEPT !.len = 123],
     [MCCertV2 EXCEPT !.len = 125, !.plen = 53],
     [MCCertV2 EXCEPT !.len = 123, !.plen = 51],
     [MCCertV2 EXCEPT !.magic = "DNSD"],
     [MCCertV2 EXCEPT !.major = <<1, 2>>],
     [MCCertV2 EXCEPT !.tsBegin = 2],
     [MCCertV2 EXCEPT !.len = 7]}

\* Answer records: each certificate as a TXT record of class IN, and the
\* 0.2 certificate in a CHAOS-class TXT record, in an A record, behind a
\* wrong length byte and in a record that runs past the message.
MCTxtRecords ==
    {[type |-> "TXT", class |-> 1, ok |-> TRUE, lenByte |-> c.len, blob |-> c] : c \in MCCerts}
    \cup {[type |-> "TXT", class |-> 3, ok |-> TRUE, lenByte |-> 124, blob |-> MCCertV2],
           [type |-> "A", class |-> 1, ok |-> TRUE, lenByte |-> 124, blob |-> MCCertV2],
           [type |-> "TXT", class |-> 1, ok |-> TRUE, lenByte |-> 0, blob |-> MCCertV2],
           [type |-> "TXT", class |-> 1, ok |-> FALSE, lenByte |-> 124, blob |-> MCCertV2]}

\* TXT records of the three certificates that pass, in the three windows.
MCCoreRecords ==
    {r \in MCTxtRecords : r.type = "TXT" /\ r.class = 1 /\ r.ok /\ r.lenByte = r.blob.len
                          /\ r.blob \in {MCCert, MCCertV2, [MCCert EXCEPT !.serial = 2,
                               !.magicQ = "m3", !.key = "k3", !.tsBegin = 0, !.tsEnd = 1]}}

\* Answers of one question: no record, any one record, any record before
\* or after one of the core records; an answer with no question, and one
\* whose question runs past the message.
MCTxtAnswers ==
    {[qdcount |-> 1, qok |-> TRUE, rrs |-> r] :
        r \in {<<>>} \cup {<<x>> : x \in MCTxtRecords}
               \cup {<<x, y>> : x \in MCCoreRecords, y \in MCTxtRecords}
               \cup {<<y, x>> : x \in MCCoreRecords, y \in MCTxtRecords}}
    \cup {[qdcount |-> 0, qok |-> TRUE,
            rrs |-> <<[type |-> "TXT", class |-> 1, ok |-> TRUE, lenByte |-> 124, blob |-> MCCert]>>],
           [qdcount |-> 1, qok |-> FALSE, rrs |-> <<>>]}

\* The components share no variable and no action reads another's state,
\* so every reachable state of each is checked against the others'
\* initial states: each moves only while the others are where they start
\* (no filter merged, nothing on the wire, the registry not loaded, no
\* cache file, no answer stored, no envelope sealed, the clocks at 0; the
\* build without asserts, the other build is explored by AnswerTtl alone).
\* Their product would repeat each state of one for every state of the
\* others.
AtStart(c) ==
    CASE c = "filter"     -> merged = 0 /\ filter = EmptyFilter
      [] c = "codec"      -> wire = NoMessage
      [] c = "registry"   -> daemon = "init" /\ ~optNoipv6
      [] c = "cache"      -> proc = "down" /\ file = <<>> /\ clock = 0
      [] c = "answer"     -> entry = NoAnswer /\ status = "running" /\ ansClock = 0 /\ ndebug
      [] c = "envelope"   -> stage = "idle" /\ sent = 0
      [] c = "csv"        -> csvStatus = "idle"
      [] c = "reload"     -> rState = "init" /\ rOpts = [noipv6 |-> FALSE, onion |-> <<>>, hosts |-> TRUE]
      [] c = "resolvconf" -> confRead = Idle
      [] c = "hostsfile"  -> hostsLoad = Idle
      [] c = "options"    -> optIn = OptIdle /\ boot = "none"
      [] c = "tcp"        -> tcpRole = "in" /\ tcpConn = "receiving" /\ peerWrites = 0 /\ rx = NoRx
                             /\ inFlight = <<>> /\ rcvBuf = <<>> /\ ~peerFin
      [] c = "cert"       -> certOutcome = "start" /\ certNow = 0 /\ certBuild = "release" /\ ~ephemeral

Components == {"filter", "codec", "registry", "cache", "answer", "envelope", "csv",
               "reload", "resolvconf", "hostsfile", "options", "tcp", "cert"}

OthersAtStart(c) == \A o \in Components \ {c} : AtStart(o)

ParsersInit ==
    Init /\ CodecInit /\ RegInit /\ CacheInit /\ AnswerInit /\ EnvInit /\ CsvInit
    /\ ReloadInit /\ ReadersInit /\ OptInit /\ TcpInit /\ CertInit

ParsersNext ==
    \/ OthersAtStart("filter") /\ Next
       /\ UNCHANGED <<codecVars, regVars, cacheVars, answerVars, envVars, csvVars, reloadVars, readVars, optVars, tcpVars, certVars>>
    \/ OthersAtStart("codec") /\ CodecNext
       /\ UNCHANGED <<vars, regVars, cacheVars, answerVars, envVars, csvVars, reloadVars, readVars, optVars, tcpVars, certVars>>
    \/ OthersAtStart("registry") /\ RegNext
       /\ UNCHANGED <<vars, codecVars, cacheVars, answerVars, envVars, csvVars, reloadVars, readVars, optVars, tcpVars, certVars>>
    \/ OthersAtStart("cache") /\ CacheNext
       /\ UNCHANGED <<vars, codecVars, regVars, answerVars, envVars, csvVars, reloadVars, readVars, optVars, tcpVars, certVars>>
    \/ OthersAtStart("answer") /\ AnswerNext
       /\ UNCHANGED <<vars, codecVars, regVars, cacheVars, envVars, csvVars, reloadVars, readVars, optVars, tcpVars, certVars>>
    \/ OthersAtStart("envelope") /\ EnvNext
       /\ UNCHANGED <<vars, codecVars, regVars, cacheVars, answerVars, csvVars, reloadVars, readVars, optVars, tcpVars, certVars>>
    \/ OthersAtStart("csv") /\ CsvNext
       /\ UNCHANGED <<vars, codecVars, regVars, cacheVars, answerVars, envVars, reloadVars, readVars, optVars, tcpVars, certVars>>
    \/ OthersAtStart("reload") /\ ReloadNext
       /\ UNCHANGED <<vars, codecVars, regVars, cacheVars, answerVars, envVars, csvVars, readVars, optVars, tcpVars, certVars>>
    \/ OthersAtStart("resolvconf") /\ ConfNext
       /\ UNCHANGED <<vars, codecVars, regVars, cacheVars, answerVars, envVars, csvVars, reloadVars, optVars, tcpVars, certVars>>
    \/ OthersAtStart("hostsfile") /\ HostsNext
       /\ UNCHANGED <<vars, codecVars, regVars, cacheVars, answerVars, envVars, csvVars, reloadVars, optVars, tcpVars, certVars>>
    \/ OthersAtStart("options") /\ OptNext
       /\ UNCHANGED <<vars, codecVars, regVars, cacheVars, answerVars, envVars, csvVars, reloadVars, readVars, tcpVars, certVars>>
    \/ OthersAtStart("tcp") /\ TcpNext
       /\ UNCHANGED <<vars, codecVars, regVars, cacheVars, answerVars, envVars, csvVars, reloadVars, readVars, optVars, certVars>>
    \/ OthersAtStart("cert") /\ CertNext
       /\ UNCHANGED <<vars, codecVars, regVars, cacheVars, answerVars, envVars, csvVars, reloadVars, readVars, optVars, tcpVars>>

ParsersSpec ==
    ParsersInit
    /\ [][ParsersNext]_<<vars, codecVars, regVars, cacheVars, answerVars, envVars, csvVars, reloadVars, readVars, optVars, tcpVars, certVars>>

====
