-------------------------- MODULE ProviderRegistry --------------------------
(***************************************************************************)
(* The DNSCrypt provider registry of cresponder                            *)
(* (src/dns/crypt/srcz/cresponder.cpp): dnscrypt_providers_, the map from  *)
(* a resolver's ip:port to the certifier that refreshes its certificates,  *)
(* filled by cresponder::load from the resolvers CSV when the responder is *)
(* constructed and again on every SIGHUP (cdaemon::reload).               *)
(*                                                                         *)
(* A resolver of the list is its address and its identity (provider name  *)
(* and public key, which the certifier is built with).  A certifier is     *)
(* its identity and the load that created it.                              *)
(***************************************************************************)
EXTENDS Naturals, Sequences, FiniteSets, Functions, TLC

CONSTANTS
    Addrs,       \* ip:port strings
    V6Addrs,     \* the IPv6 ones
    Idents,      \* provider name and public key
    Lists,       \* resolver lists parse_resolvers_list can return
    Unreadable,  \* a file parse_resolvers_list throws runtime_error on
    MaxLoads     \* loads explored (the constructor's and the reloads)

VARIABLES
    providers,   \* dnscrypt_providers_: address -> [ident, born]
    daemon,      \* "init" (before the constructor), "running", "failed", "crashed"
    loads,       \* loads done so far
    failedOn,    \* history: [list, noipv6] of the load that threw, if any
    lastList,    \* history: the list the last readable load read
    optNoipv6    \* options().noipv6: parsed once, at start-up

regVars == <<providers, daemon, loads, failedOn, lastList, optNoipv6>>

\* The address's family, as network::address::inet reports it.
IsV6(a) == a \in V6Addrs

-----------------------------------------------------------------------------
(* cresponder::load                                                        *)

\* The first loop: for each resolver in order, count it when it is used
\* (not IPv6 under noipv6), create its certifier when used and new, erase
\* the existing one when not used.  Returns <<map, used>>.
RECURSIVE Merge(_, _, _, _, _, _)
Merge(list, i, noipv6, born, m, used) ==
    IF i > Len(list) THEN <<m, used>>
    ELSE LET r == list[i]
             use == ~(noipv6 /\ IsV6(r.addr))
             found == r.addr \in DOMAIN m
             m2 == CASE use /\ ~found -> (r.addr :> [ident |-> r.ident, born |-> born]) @@ m
                     [] ~use /\ found -> Restrict(m, DOMAIN m \ {r.addr})
                     [] OTHER -> m
         IN  Merge(list, i + 1, noipv6, born, m2, used + (IF use THEN 1 ELSE 0))

ListedAddrs(list) == {list[i].addr : i \in 1..Len(list)}

\* A slip: the second loop keeps every entry.
PruneNothing(m, list) == m

\* The second loop: erase every provider whose address the list no longer
\* names.
Prune(m, list) == Restrict(m, DOMAIN m \cap ListedAddrs(list))

\* The whole of load for a readable list: both loops, then the check that
\* throws logic_error when the map's size is not the number of used
\* resolvers.  Returns [map, ok].
Load(list, noipv6, born) ==
    LET r == Merge(list, 1, noipv6, born, providers, 0)
        m == Prune(r[1], list)
    IN  [map |-> m, ok |-> Cardinality(DOMAIN m) = r[2]]

-----------------------------------------------------------------------------

RegInit ==
    /\ providers = <<>>
    /\ daemon = "init"
    /\ loads = 0
    /\ failedOn = [list |-> <<>>, noipv6 |-> FALSE]
    /\ lastList = <<>>
    /\ optNoipv6 \in BOOLEAN

\* The load, from the constructor (from == "init") or from cdaemon::reload
\* (from == "running").  An unreadable file is a runtime_error, caught and
\* logged inside load: the map stays as it was.  The logic_error of the
\* check is rethrown: out of the constructor it aborts start-up, out of the
\* SIGHUP callback it leaves the event loop and the process ends.
LoadAction(from, to, list, noipv6) ==
    /\ daemon = from
    /\ loads < MaxLoads
    /\ loads' = loads + 1
    /\ IF list = Unreadable
       THEN /\ daemon' = "running"
            /\ UNCHANGED <<providers, failedOn, lastList>>
       ELSE LET l == Load(list, noipv6, loads)
            IN  /\ providers' = l.map
                /\ lastList' = list
                /\ daemon' = IF l.ok THEN "running" ELSE to
                /\ failedOn' = IF l.ok THEN failedOn
                                ELSE [list |-> list, noipv6 |-> noipv6]
    /\ UNCHANGED optNoipv6

\* cresponder::cresponder: load into the empty map.
Construct(list, noipv6) == LoadAction("init", "failed", list, noipv6)

\* cdaemon::reload -> cresponder::reload: load into the current map.
ReloadResolvers(list, noipv6) == LoadAction("running", "crashed", list, noipv6)

\* Both pass the options the daemon parsed at start-up; a reload does not
\* parse them again.
RegNext ==
    \E list \in Lists \cup {Unreadable} :
        Construct(list, optNoipv6) \/ ReloadResolvers(list, optNoipv6)

-----------------------------------------------------------------------------
(* Properties.                                                              *)

\* Two used resolvers of one list share an address.
HasDuplicate(list, noipv6) ==
    \E i, j \in 1..Len(list) :
        /\ i < j
        /\ list[i].addr = list[j].addr
        /\ ~(noipv6 /\ IsV6(list[i].addr))

\* load's merge check fails only on a list that names one used address
\* twice: whatever the map held before (entries of earlier lists),
\* reloading any other list leaves the daemon running.
LoadFailsOnlyOnDuplicates ==
    daemon \in {"failed", "crashed"} =>
        HasDuplicate(failedOn.list, failedOn.noipv6)

\* Spec (Refresh State): a provider's refresh state is destroyed on its
\* removal or a reload.  Whenever the daemon runs, each certifier of
\* dnscrypt_providers_ was built with a name and key the resolvers file
\* last read lists for its address.  load creates a certifier only for an
\* address it does not hold yet (cresponder.cpp:79), so a reload that
\* gives a kept address a new provider name or key leaves the old one in
\* use.
ProvidersFollowList ==
    daemon = "running" =>
        \A a \in DOMAIN providers :
            \E i \in 1..Len(lastList) :
                lastList[i].addr = a /\ lastList[i].ident = providers[a].ident

====
