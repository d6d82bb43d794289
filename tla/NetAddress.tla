----------------------------- MODULE NetAddress -----------------------------
(***************************************************************************)
(* network::address made from text and printed back                       *)
(* (src/network/srcz/address.cpp): detail::split of "ip", "ip:port",       *)
(* "[ip]" and "[ip]:port", detail::str2u16 of the port, make_address's     *)
(* inet_pton, and ip_port(), which prints the address with inet_ntop.      *)
(*                                                                         *)
(* Text is a sequence of tokens.  ":", "[", "]" and " " stand for          *)
(* themselves; "4" for a dotted IPv4 literal; "h" for an IPv6 group that   *)
(* is not zero and "0" for one that is; any other token for other text.    *)
(* A run of decimal digits is one token: Decimal gives its value and       *)
(* ToDecimal the token std::to_string prints for a value.                  *)
(***************************************************************************)
EXTENDS Naturals, Sequences, SequencesExt

CONSTANTS
    Decimal,     \* [digit run -> its value]
    ToDecimal    \* [value -> the digit run printed for it]

Colon == ":"
LBr == "["
RBr == "]"
Space == " "

\* 1-based positions of the first and the last t in s (0: none), as
\* std::string::find and rfind.
FirstOf(s, t) == IF t \in Range(s) THEN Min({i \in DOMAIN s : s[i] = t}) ELSE 0
LastOf(s, t) == IF t \in Range(s) THEN Max({i \in DOMAIN s : s[i] = t}) ELSE 0

\* detail::split: the text is IPv6 when it has two colons at different
\* places or starts with '['.  A bracketed IPv6 address ends at the first
\* ']' and has a port when the last colon follows it; an unbracketed one
\* never has a port; an IPv4 address has one after its last colon.  '['
\* without ']', and "[]", throw.  Returns [ok, ip, port, ipv6].
Split(s) ==
    LET nsr == LastOf(s, Colon)
        ns == FirstOf(s, Colon)
        bracket == s[1] = LBr
        ipv6 == (nsr # 0 /\ ns # 0 /\ ns # nsr) \/ bracket
        ne == FirstOf(s, RBr)
    IN  CASE ipv6 /\ bracket /\ ne \in {0, 2} -> [ok |-> FALSE]
          [] ipv6 /\ bracket ->
                [ok |-> TRUE, ip |-> SubSeq(s, 2, ne - 1), ipv6 |-> TRUE,
                 port |-> IF nsr = ne + 1 THEN SubSeq(s, nsr + 1, Len(s)) ELSE <<>>]
          [] ipv6 -> [ok |-> TRUE, ip |-> s, port |-> <<>>, ipv6 |-> TRUE]
          [] nsr # 0 ->
                [ok |-> TRUE, ip |-> SubSeq(s, 1, nsr - 1),
                 port |-> SubSeq(s, nsr + 1, Len(s)), ipv6 |-> FALSE]
          [] OTHER -> [ok |-> TRUE, ip |-> s, port |-> <<>>, ipv6 |-> FALSE]

\* detail::str2u16: strtol skips leading spaces and reads the digits (none:
\* value 0, and the end stays at the start); the rest must be empty or
\* start with a space, and the value lie in 0..65535.  Returns [ok, v].
Str2u16(p) ==
    LET nonSpace == {i \in DOMAIN p : p[i] # Space}
        lead == IF nonSpace = {} THEN Len(p) + 1 ELSE Min(nonSpace)
        num == lead <= Len(p) /\ p[lead] \in DOMAIN Decimal
        v == IF num THEN Decimal[p[lead]] ELSE 0
        end == IF num THEN SubSeq(p, lead + 1, Len(p)) ELSE p
    IN  IF (end # <<>> /\ end[1] # Space) \/ v > 65535 THEN [ok |-> FALSE]
        ELSE [ok |-> TRUE, v |-> v]

\* The "::" of an IPv6 text: the positions of its first colon (empty: none).
DoubleColons(ip) == {i \in 1..Len(ip) - 1 : ip[i] = Colon /\ ip[i + 1] = Colon}

\* The groups of an IPv6 text, in order.
GroupsOf(ip) == SelectSeq(ip, LAMBDA t : t # Colon)

\* inet_pton(AF_INET6): groups separated by single colons, at most one
\* "::" standing for at least one zero group, no lone colon at either end,
\* eight groups in all.
IsV6Text(ip) ==
    LET n == Len(ip)
        dbl == DoubleColons(ip)
        g == Len(GroupsOf(ip))
    IN  /\ n > 0
        /\ Range(ip) \subseteq {"h", "0", Colon}
        /\ \A i \in 1..n - 1 : ip[i] # Colon => ip[i + 1] = Colon
        /\ \A i \in 1..n - 2 : ~(ip[i] = Colon /\ ip[i + 1] = Colon /\ ip[i + 2] = Colon)
        /\ Cardinality(dbl) <= 1
        /\ ip[1] = Colon => 1 \in dbl
        /\ ip[n] = Colon => n - 1 \in dbl
        /\ IF dbl = {} THEN g = 8 ELSE g <= 7

\* The eight groups an IPv6 text stands for.
V6Groups(ip) ==
    IF DoubleColons(ip) = {} THEN GroupsOf(ip)
    ELSE LET d == CHOOSE d \in DoubleColons(ip) : TRUE
             left == GroupsOf(SubSeq(ip, 1, d - 1))
             right == GroupsOf(SubSeq(ip, d + 2, Len(ip)))
         IN  left \o [i \in 1..8 - Len(left) - Len(right) |-> "0"] \o right

\* make_address: inet_pton of the family split chose; 0 from inet_pton is
\* runtime_error.  An address is [ipv6, ip, port], ip the IPv4 literal or
\* the eight IPv6 groups.
MakeAddress(ip, ipv6, port) ==
    IF ipv6 THEN IF IsV6Text(ip) THEN [ok |-> TRUE, a |-> [ipv6 |-> TRUE, ip |-> V6Groups(ip), port |-> port]]
                 ELSE [ok |-> FALSE]
    ELSE IF ip = <<"4">> THEN [ok |-> TRUE, a |-> [ipv6 |-> FALSE, ip |-> ip, port |-> port]]
         ELSE [ok |-> FALSE]

\* The address from split's result sp and the port p str2u16 gave (or the
\* given port): make_address.
AddressFrom(sp, p) ==
    IF sp.ok /\ p.ok THEN MakeAddress(sp.ip, sp.ipv6, p.v) ELSE [ok |-> FALSE]

\* The port of split's result sp: str2u16 of it when the text had one,
\* else the given port.
PortOf(sp, port) ==
    IF sp.ok /\ sp.port # <<>> THEN Str2u16(sp.port) ELSE [ok |-> TRUE, v |-> port]

\* address(ip_port, port): split, str2u16 of the port when the text has
\* one (else the given port), then make_address.  Returns [ok, a].
AddressOfSplit(sp, port) == AddressFrom(sp, PortOf(sp, port))

Address(s, port) == AddressOfSplit(Split(s), port)

\* Groups joined by single colons.
JoinGroups(gs) ==
    IF gs = <<>> THEN <<>>
    ELSE FoldLeft(LAMBDA acc, x : acc \o <<Colon, x>>, <<Head(gs)>>, Tail(gs))

\* inet_ntop(AF_INET6): the longest run of two or more zero groups (the
\* first of equal ones) is printed as "::".
Ntop6(g) ==
    LET runs == {r \in (1..8) \X (1..8) :
                   r[1] < r[2] /\ \A i \in r[1]..r[2] : g[i] = "0"}
        longest == {r \in runs : \A o \in runs : o[2] - o[1] <= r[2] - r[1]}
    IN  IF runs = {} THEN JoinGroups(g)
        ELSE LET r == CHOOSE r \in longest : \A o \in longest : r[1] <= o[1]
             IN  JoinGroups(SubSeq(g, 1, r[1] - 1)) \o <<Colon, Colon>>
                   \o JoinGroups(SubSeq(g, r[2] + 1, 8))

\* A slip: the IPv6 address printed without its brackets.
IpPortNoBrackets(a) ==
    (IF a.ipv6 THEN Ntop6(a.ip) ELSE a.ip) \o <<Colon, ToDecimal[a.port]>>

\* address::ip_port (and operator<<): ip(), in brackets for IPv6, then ':'
\* and the port.
IpPort(a) ==
    (IF a.ipv6 THEN <<LBr>> \o Ntop6(a.ip) \o <<RBr>> ELSE a.ip)
        \o <<Colon, ToDecimal[a.port]>>

====
