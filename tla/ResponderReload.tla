-------------------------- MODULE ResponderReload --------------------------
(***************************************************************************)
(* What the forwarding responder reads from files, at start-up and again  *)
(* on every SIGHUP: responder::reload (src/dns/srcz/responder.cpp) reading *)
(* resolv.conf with responder::from_file, the white- and blacklist filter  *)
(* files, the onion resolver's address, and the hosts file with the       *)
(* dns::hosts constructor (src/dns/srcz/hosts.cpp); daemon::reload and     *)
(* reload_signal (src/dns/srcz/daemon.cpp) calling it from the event loop. *)
(*                                                                         *)
(* A file is a sequence of characters; the characters that steer the      *)
(* parsers stand for themselves ("\n", "\r", "\t", " ", "#"), the others  *)
(* are tokens as in NetAddress ("nameserver" and a host name are one       *)
(* token each).                                                            *)
(***************************************************************************)
EXTENDS Naturals, Sequences, SequencesExt, NetAddress

CONSTANTS
    ConfFiles,      \* resolv.conf files: [text, table]
    HostsFiles,     \* hosts files: [text, table]
    UnreadableFile, \* a file that cannot be opened
    ReloadConfs,    \* the resolv.conf files a load may read
    ReloadHosts,    \* the hosts files a load may read
    FilterFiles,    \* filter files: the entries each holds
    TooLongEntry,   \* a filter file with an entry longer than a name
    OnionTexts,     \* values of the --onion option (<<>>: none)
    MaxReloads      \* SIGHUPs explored

LineEnd == "\n"
Hash == "#"

\* What the hosts constructor breaks words at, besides "\n" and "#" ("VT"
\* is '\v').
Blanks == {" ", "\t", "\r", "VT"}

\* What operator>> skips: isspace ("FF" is '\f').
ConfSpace == Blanks \cup {LineEnd, "FF"}

\* The end of the file, after its last character.
Eof == "EOF"

\* dns::defaults::port, and the onion resolver's port.
DnsPort == 53
OnionPort == 5353

\* The table of a file written by hand.
HandWritten == "none"

-----------------------------------------------------------------------------
(* responder::from_file                                                    *)

\* The keywords whose lines from_file skips.
ConfKeys == {<<"search">>, <<"domain">>, <<"sortlist">>, <<"options">>}

\* f >> word: skip white space, then read up to the next white space
\* (left in the stream).  An empty word is a failed read.
ReadWord(s) ==
    LET sp(i) == s[i] \in ConfSpace
        from == IF \E i \in DOMAIN s : ~sp(i) THEN Min({i \in DOMAIN s : ~sp(i)}) ELSE Len(s) + 1
        to == IF \E i \in from..Len(s) : sp(i) THEN Min({i \in from..Len(s) : sp(i)}) ELSE Len(s) + 1
    IN  [word |-> SubSeq(s, from, to - 1), rest |-> SubSeq(s, to, Len(s))]

\* f.ignore(n, '\n'): drop everything up to and with the next "\n".
IgnoreLine(s) == IF LineEnd \in Range(s) THEN SubSeq(s, FirstOf(s, LineEnd) + 1, Len(s)) ELSE <<>>

\* from_file, from the stream s on, with the providers acc read so far: a
\* word starting with '#' or a keyword skips its line; "nameserver" reads
\* the next word (on this line or a later one) and skips the rest of the
\* line; the word then read, or any other word, must be an address (port
\* 53 by default) and is kept unless it is IPv6 under noipv6.  An address
\* that does not parse throws.  Returns [ok, list].
RECURSIVE FromFile(_, _, _), FromWord(_, _, _), FromAddr(_, _, _, _), FromParsed(_, _, _, _)

\* The address a parsed from a word, the stream going on at next.
FromParsed(next, a, noipv6, acc) ==
    CASE ~a.ok -> [ok |-> FALSE]
      [] a.a.ipv6 /\ noipv6 -> FromFile(next, noipv6, acc)
      [] OTHER -> FromFile(next, noipv6, Append(acc, a.a))

\* A slip: the rest of a nameserver line read on as more addresses.
FromAddrNoSkip(w2, ns, noipv6, acc) ==
    IF w2.word = <<>> THEN [ok |-> TRUE, list |-> acc]
    ELSE FromParsed(w2.rest, Address(w2.word, DnsPort), noipv6, acc)

\* The word w2 taken as an address, after "nameserver" (ns) or alone; a
\* failed read ends the loop.
FromAddr(w2, ns, noipv6, acc) ==
    IF w2.word = <<>> THEN [ok |-> TRUE, list |-> acc]
    ELSE FromParsed(IF ns THEN IgnoreLine(w2.rest) ELSE w2.rest,
                    Address(w2.word, DnsPort), noipv6, acc)

\* One turn of the while loop on the word w just read.
FromWord(w, noipv6, acc) ==
    CASE w.word = <<>> -> [ok |-> TRUE, list |-> acc]
      [] w.word[1] = Hash \/ w.word \in ConfKeys -> FromFile(IgnoreLine(w.rest), noipv6, acc)
      [] w.word = <<"nameserver">> -> FromAddr(ReadWord(w.rest), TRUE, noipv6, acc)
      [] OTHER -> FromAddr(w, FALSE, noipv6, acc)

FromFile(s, noipv6, acc) == FromWord(ReadWord(s), noipv6, acc)

-----------------------------------------------------------------------------
(* dns::hosts::hosts                                                       *)

\* network::is_ip_address: inet_pton as IPv4, then as IPv6; neither throws.
IsIpAddress(w) ==
    CASE w = <<"4">> -> "ipv4" [] IsV6Text(w) -> "ipv6" [] OTHER -> "invalid"

\* One turn of the constructor's loop, on the character ch (Eof after the
\* last one).  st is [ip, word, map, skip, err]: the line's address, the
\* word being read, host_ip_map_, whether ignore() is skipping to the end
\* of the line, and whether it threw.  "\n", '#' and the end break the line
\* and the word; white space breaks the word.  The first word of a line,
\* when white space ends it, must be an address: an IPv6 one under
\* disable_ipv6 skips the line.  Every later word is a name, mapped to the
\* line's address unless an earlier line mapped it.
\* A slip: a later line's address overwrites a name's mapping.
HostsCharLastWins(noipv6, st, ch) ==
    LET lineBreak == ch \in {LineEnd, Hash, Eof}
        w == st.word
        af == IsIpAddress(w)
        first == w # <<>> /\ st.ip = <<>> /\ ~lineBreak
        ip2 == IF first /\ (af = "ipv4" \/ (af = "ipv6" /\ ~noipv6)) THEN w ELSE st.ip
    IN  CASE st.err -> st
          [] st.skip -> [st EXCEPT !.skip = ch # LineEnd]
          [] ~(lineBreak \/ ch \in Blanks) -> [st EXCEPT !.word = Append(w, ch)]
          [] first /\ af = "invalid" -> [st EXCEPT !.err = TRUE]
          [] OTHER ->
                [st EXCEPT !.word = <<>>,
                           !.ip = IF lineBreak THEN <<>> ELSE ip2,
                           !.map = IF w # <<>> /\ st.ip # <<>>
                                   THEN [n \in DOMAIN st.map \cup {w} |->
                                           IF n = w THEN st.ip ELSE st.map[n]]
                                   ELSE st.map,
                           !.skip = ch = Hash \/ (first /\ af = "ipv6" /\ noipv6)]

HostsChar(noipv6, st, ch) ==
    LET lineBreak == ch \in {LineEnd, Hash, Eof}
        wordBreak == lineBreak \/ ch \in Blanks
        w == st.word
        af == IsIpAddress(w)
        first == w # <<>> /\ st.ip = <<>> /\ ~lineBreak
        name == w # <<>> /\ st.ip # <<>>
        ip2 == CASE first /\ (af = "ipv4" \/ (af = "ipv6" /\ ~noipv6)) -> w
                 [] OTHER -> st.ip
    IN  CASE st.err -> st
          [] st.skip -> [st EXCEPT !.skip = ch # LineEnd]
          [] ~wordBreak -> [st EXCEPT !.word = Append(w, ch)]
          [] first /\ af = "invalid" -> [st EXCEPT !.err = TRUE]
          [] OTHER ->
                [st EXCEPT !.word = <<>>,
                           !.ip = IF lineBreak THEN <<>> ELSE ip2,
                           !.map = IF name /\ w \notin DOMAIN st.map
                                   THEN (w :> st.ip) @@ st.map ELSE st.map,
                           !.skip = ch = Hash \/ (first /\ af = "ipv6" /\ noipv6)]

\* The constructor on a readable file: the map, or err when it threw.
HostsOf(text, noipv6) ==
    FoldLeft(LAMBDA st, ch : HostsChar(noipv6, st, ch),
             [ip |-> <<>>, word |-> <<>>, map |-> <<>>, skip |-> FALSE, err |-> FALSE],
             text \o <<Eof>>)

-----------------------------------------------------------------------------
(* The references: what resolv.conf(5) and hosts(5) say a file written    *)
(* from a table means.                                                      *)

\* A resolv.conf table is a sequence of lines [kind, addr]: a
\* "nameserver" line (with or without more words after the address), or
\* another line ("search", comment, blank); addr the nameserver's address.
\* The providers: the nameservers' addresses, in order, the IPv6 ones left
\* out under noipv6; a nameserver address that is not one spoils the file.
ConfRef(t, noipv6) ==
    LET ns == SelectSeq(t, LAMBDA l : l.kind = "nameserver")
        as == [i \in DOMAIN ns |-> Address(ns[i].addr, DnsPort)]
    IN  IF \E i \in DOMAIN as : ~as[i].ok THEN [ok |-> FALSE]
        ELSE [ok |-> TRUE,
              list |-> SelectSeq([i \in DOMAIN as |-> as[i].a],
                                 LAMBDA a : ~(a.ipv6 /\ noipv6))]

\* A hosts table is a sequence of lines [ip, names]: an address and the
\* names it is given (none: a line with the address alone, or a comment or
\* blank line when ip is empty too).  A line that names hosts must start
\* with an address.  Each name maps to the address of the first line that
\* names it, the IPv6 lines left out under noipv6.  A file is well formed
\* when every line that is not blank or a comment starts with an address,
\* and ill formed when a line with names does not; a line of one word
\* that is not an address is neither.
HostsRefValid(t) ==
    \A i \in DOMAIN t : t[i].ip # <<>> => IsIpAddress(t[i].ip) # "invalid"

HostsRefBad(t) ==
    \E i \in DOMAIN t : t[i].names # <<>> /\ IsIpAddress(t[i].ip) = "invalid"

HostsRef(t, noipv6) ==
    LET use(i) == IsIpAddress(t[i].ip) = "ipv4" \/ (IsIpAddress(t[i].ip) = "ipv6" /\ ~noipv6)
        names == UNION {Range(t[i].names) : i \in {j \in DOMAIN t : use(j)}}
        firstLine(n) == Min({i \in DOMAIN t : use(i) /\ n \in Range(t[i].names)})
    IN  [n \in names |-> t[firstLine(n)].ip]

-----------------------------------------------------------------------------
(* responder::reload, from the responder's constructor and on SIGHUP       *)

\* The onion provider when --onion is not given.
NoOnion == [ipv6 |-> FALSE, ip |-> <<>>, port |-> 0]

VARIABLES
    rState,         \* "init", "running", "failed" (start-up threw), "crashed"
    rOpts,          \* the options: [noipv6, onion, hosts (a hosts file given)]
    dnsProviders,   \* dns_providers_: the addresses
    whitelist,      \* whitelist_ptr_: the entries
    blacklist,      \* blacklist_ptr_
    onionProvider,  \* onion_provider_ptr_
    hostsMap,       \* hosts_ptr_'s map
    reloads,        \* SIGHUPs so far
    goodConf,       \* history: the last resolv.conf from_file read through
    hostsRead       \* history: the hosts file the last load read

reloadVars == <<rState, rOpts, dnsProviders, whitelist, blacklist, onionProvider,
                hostsMap, reloads, goodConf, hostsRead>>

ReloadInit ==
    /\ rState = "init"
    /\ rOpts \in [noipv6 : BOOLEAN, onion : OnionTexts, hosts : BOOLEAN]
    /\ dnsProviders = <<>>
    /\ whitelist = {}
    /\ blacklist = {}
    /\ onionProvider = NoOnion
    /\ hostsMap = <<>>
    /\ reloads = 0
    /\ goodConf = UnreadableFile
    /\ hostsRead = UnreadableFile

\* What reload threw first, given the onion address oa and the hosts
\* file hr as read: the whitelist, the blacklist, the onion address, the
\* hosts file, or nothing.
ThrowOf(wl, bl, oa, hr) ==
    CASE wl = TooLongEntry -> "whitelist"
      [] bl = TooLongEntry -> "blacklist"
      [] ~oa.ok -> "onion"
      [] hr.err -> "hosts"
      [] OTHER -> "none"

\* A slip: the providers cleared before from_file, so a resolv.conf that
\* throws leaves none.
LoadResultClearFirst(to, conf, wl, bl, h, c, oa, hr, throw) ==
    /\ dnsProviders' = IF c.ok THEN c.list ELSE <<>>
    /\ goodConf' = IF c.ok THEN conf ELSE goodConf
    /\ whitelist' = IF wl = TooLongEntry THEN {} ELSE wl
    /\ blacklist' = CASE throw = "whitelist" -> blacklist [] bl = TooLongEntry -> {} [] OTHER -> bl
    /\ onionProvider' = IF throw \in {"whitelist", "blacklist"} \/ ~oa.ok THEN onionProvider ELSE oa.a
    /\ hostsMap' = IF throw = "none" THEN hr.map ELSE hostsMap
    /\ hostsRead' = IF rOpts.hosts /\ throw \in {"none", "hosts"} THEN h ELSE hostsRead
    /\ rState' = IF throw = "none" THEN "running" ELSE to

\* responder::reload with the files as they are now: resolv.conf (an
\* unreadable one reads as empty), whose runtime_error is caught and keeps
\* the providers; then, uncaught, the whitelist and the blacklist (each
\* rebuilt from an empty filter), the onion address and the hosts file (an
\* unreadable one throws).  What throws leaves what was assigned before it
\* and ends the load in state to.  c is what from_file returned, oa the
\* onion address, hr the hosts file read, throw what threw.
LoadResult(to, conf, wl, bl, h, c, oa, hr, throw) ==
    /\ dnsProviders' = IF c.ok THEN c.list ELSE dnsProviders
    /\ goodConf' = IF c.ok THEN conf ELSE goodConf
    /\ whitelist' = IF wl = TooLongEntry THEN {} ELSE wl
    /\ blacklist' = CASE throw = "whitelist" -> blacklist [] bl = TooLongEntry -> {} [] OTHER -> bl
    /\ onionProvider' = IF throw \in {"whitelist", "blacklist"} \/ ~oa.ok THEN onionProvider ELSE oa.a
    /\ hostsMap' = IF throw = "none" THEN hr.map ELSE hostsMap
    /\ hostsRead' = IF rOpts.hosts /\ throw \in {"none", "hosts"} THEN h ELSE hostsRead
    /\ rState' = IF throw = "none" THEN "running" ELSE to

\* The onion provider of the option: none when it is not given.
OnionOf(onion) == IF onion = <<>> THEN [ok |-> TRUE, a |-> NoOnion] ELSE Address(onion, OnionPort)

\* The hosts map, or err: empty without the option, a throw when the file
\* cannot be opened.
HostsLoaded(h, noipv6) ==
    CASE ~rOpts.hosts -> [err |-> FALSE, map |-> <<>>]
      [] h = UnreadableFile -> [err |-> TRUE]
      [] OTHER -> HostsOf(h.text, noipv6)

LoadParsed(to, conf, wl, bl, h, c, oa, hr) ==
    LoadResult(to, conf, wl, bl, h, c, oa, hr, ThrowOf(wl, bl, oa, hr))

LoadFiles(to, conf, wl, bl, h) ==
    LoadParsed(to, conf, wl, bl, h,
               FromFile(IF conf = UnreadableFile THEN <<>> ELSE conf.text, rOpts.noipv6, <<>>),
               OnionOf(rOpts.onion), HostsLoaded(h, rOpts.noipv6))

\* The responder's constructor: a throw aborts start-up.
StartResponder(conf, wl, bl, h) ==
    /\ rState = "init"
    /\ LoadFiles("failed", conf, wl, bl, h)
    /\ UNCHANGED <<rOpts, reloads>>

\* reload_signal -> daemon::reload -> responder::reload: a throw leaves the
\* event loop and ends the process.
Sighup(conf, wl, bl, h) ==
    /\ rState = "running"
    /\ reloads < MaxReloads
    /\ reloads' = reloads + 1
    /\ LoadFiles("crashed", conf, wl, bl, h)
    /\ UNCHANGED rOpts

ReloadNext ==
    \E conf \in ReloadConfs \cup {UnreadableFile}, h \in ReloadHosts \cup {UnreadableFile},
       wl, bl \in FilterFiles \cup {TooLongEntry} :
        StartResponder(conf, wl, bl, h) \/ Sighup(conf, wl, bl, h)

-----------------------------------------------------------------------------
(* The two readers on their own, each on any file of its set once.        *)

VARIABLES
    confRead,    \* <<[file, noipv6]>>: what from_file read, or Idle
    confOut,     \* what from_file returned: [ok, list]
    hostsLoad,   \* <<[file, noipv6]>>: what the hosts constructor read, or Idle
    hostsOut     \* what it built: [map, err, ...]

readVars == <<confRead, confOut, hostsLoad, hostsOut>>

\* No file read yet.
Idle == <<>>

ReadersInit ==
    /\ confRead = Idle
    /\ confOut = [ok |-> TRUE, list |-> <<>>]
    /\ hostsLoad = Idle
    /\ hostsOut = [ip |-> <<>>, word |-> <<>>, map |-> <<>>, skip |-> FALSE, err |-> FALSE]

\* responder::from_file on a readable resolv.conf.
ReadResolvConf(f, noipv6) ==
    /\ confRead = Idle
    /\ confRead' = <<[file |-> f, noipv6 |-> noipv6]>>
    /\ confOut' = FromFile(f.text, noipv6, <<>>)
    /\ UNCHANGED <<hostsLoad, hostsOut>>

\* dns::hosts::hosts on a readable hosts file.
ConstructHosts(f, noipv6) ==
    /\ hostsLoad = Idle
    /\ hostsLoad' = <<[file |-> f, noipv6 |-> noipv6]>>
    /\ hostsOut' = HostsOf(f.text, noipv6)
    /\ UNCHANGED <<confRead, confOut>>

ConfNext == confRead = Idle /\ \E f \in ConfFiles, n \in BOOLEAN : ReadResolvConf(f, n)

HostsNext == hostsLoad = Idle /\ \E f \in HostsFiles, n \in BOOLEAN : ConstructHosts(f, n)

-----------------------------------------------------------------------------
(* Properties                                                              *)

\* from_file reads a resolv.conf written from a table (nameserver lines
\* with IPv4 or IPv6 addresses, with a port or in brackets, with words
\* after the address; search lines, comments, blank lines; spaces or tabs,
\* "\r\n" or "\n", with or without a last line end) as resolv.conf(5)
\* says: it throws exactly when a nameserver address is not one, and
\* otherwise returns the nameservers in order, less the IPv6 ones under
\* noipv6.  It is about the word-by-word reading with operator>>, the
\* ignore() that skips the rest of a line, and address parsing.
ResolvConfAgreesWithTable ==
    confRead # Idle =>
        LET ref == ConfRef(confRead[1].file.table, confRead[1].noipv6)
        IN  /\ confOut.ok = ref.ok
            /\ confOut.ok => confOut.list = ref.list

\* The hosts constructor reads a hosts file written from a table (an
\* address and names per line, an address alone, comments after the names
\* or on a line of their own, blank lines; spaces or tabs, "\r\n" or "\n",
\* with or without a last line end) as hosts(5) says: it throws when a
\* line with names does not start with an address, and on a well-formed
\* file maps each name to the address of the first line naming it, IPv6
\* lines left out under disable_ipv6.  (A line of one word that is not an
\* address throws only when white space follows the word, as with "\r\n"
\* line ends; the property leaves that case open.)  It is about the character loop's word
\* and line breaks, the address kept for the line, ignore() after '#' and
\* after an IPv6 address, and the first mapping winning.
HostsAgreeWithTable ==
    hostsLoad # Idle =>
        LET t == hostsLoad[1].file.table
        IN  /\ HostsRefBad(t) => hostsOut.err
            /\ HostsRefValid(t) =>
                   ~hostsOut.err /\ hostsOut.map = HostsRef(t, hostsLoad[1].noipv6)

\* While the daemon runs, after a start-up and any SIGHUPs with files
\* that changed in between, it forwards to the nameservers of the last
\* resolv.conf that read through (a reload whose resolv.conf has a bad
\* address keeps the providers it had) and answers from the hosts file
\* last read, as the references read them.  It is about responder::reload
\* replacing dns_providers_ only after from_file returned, and rebuilding
\* the hosts map on every load.
ServingFollowsFiles ==
    rState = "running" =>
        /\ dnsProviders = IF goodConf = UnreadableFile THEN <<>>
                          ELSE ConfRef(goodConf.table, rOpts.noipv6).list
        /\ hostsMap = IF ~rOpts.hosts THEN <<>>
                      ELSE HostsRef(hostsRead.table, rOpts.noipv6)

====
