---------------------------- MODULE MCForwarder ----------------------------
(***************************************************************************)
(* Forwarder for TLC: three client datagrams; three keys, one answered      *)
(* upstream, one blacklisted, one in the hosts file.  Times are scaled:    *)
(* min_ttl (60 s) is 1, max_ttl (86400 s) is 2; a hosts answer's 10 s and  *)
(* an upstream TTL of 0 fall below min_ttl, an upstream TTL of 3 above     *)
(* max_ttl, so both clamps of cache::store are taken.                      *)
(***************************************************************************)
EXTENDS Forwarder, TLC

CONSTANTS q1, q2, q3, kUp, kBlack, kHosts

MCQueries == {q1, q2, q3}
MCKeys == {kUp, kBlack, kHosts}
MCBlacklisted == {kBlack}
MCHostsKeys == {kHosts}
MCTtls == {0, 3}

Symmetry == Permutations(MCQueries)

====
