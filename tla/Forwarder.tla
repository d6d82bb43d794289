----------------------------- MODULE Forwarder -----------------------------
(***************************************************************************)
(* The forwarding path of the daemon over UDP: the listener and its        *)
(* incoming requests (src/network/srcz/listener.cpp, incoming.cpp), the     *)
(* responder with its upstream requests (src/dns/srcz/responder.cpp,        *)
(* src/network/srcz/upstream.cpp), the cache (src/dns/srcz/cache.cpp) and   *)
(* the timeouts of both kinds of request (timeout.cpp).                     *)
(*                                                                         *)
(* Ownership follows the shared_ptrs of the code.  An incoming is held by  *)
(* the listener's requests_ and by the upstream request that forwards it   *)
(* (inptr_); an upstream request is held by the responder's                *)
(* upstream_requests_ only.  An object nobody holds is destroyed; its      *)
(* destructor stops its timer and watchers.                                *)
(*                                                                         *)
(* A query is a model value: one client datagram, arriving once.  Its name *)
(* and type are a key; time is a counter of seconds, scaled down together  *)
(* with the TTLs.                                                           *)
(***************************************************************************)
EXTENDS Naturals, Sequences, SequencesExt

CONSTANTS
    Queries,      \* client datagrams
    Keys,         \* (name, type) pairs: the cache key
    Blacklisted,  \* keys the filters refuse (pre_filter)
    HostsKeys,    \* keys the hosts file answers
    HostsTtl,     \* the TTL set_answer gives a hosts answer (10 s)
    Ttls,         \* answer_min_ttl of upstream answers
    MinTtl,       \* cache::min_ttl()
    MaxTtl,       \* cache::defaults::max_ttl()
    MaxTime,      \* the last second explored
    NoEntry

VARIABLES
    lreqs,    \* abs_listener::requests_: queries whose incoming it holds
    inc,      \* state of each query's incoming request
    ureqs,    \* responder::upstream_requests_
    up,       \* state of each query's upstream request
    cache,    \* cache_entries_: per key, the answer (history index) and deadline
    answers,  \* history: every answer made, in order
    replies,  \* history: what each client has been sent
    now,      \* std::time(nullptr)
    lost,     \* history: objects destroyed while still waiting
    asks      \* the key each query asks for (read from its datagram)

vars == <<lreqs, inc, ureqs, up, cache, answers, replies, now, lost, asks>>

Rcodes == {"noerror", "nxdomain", "servfail"}

\* pass_answer_downstream and cache::store keep only these answers.
Cacheable == {"noerror", "nxdomain"}

IncStates == {"none", "open", "closed", "destroyed"}

UpStates == {"none", "sending", "receiving", "closed", "destroyed"}

\* An upstream request is active while its timeout timer runs.
Active == {"sending", "receiving"}

-----------------------------------------------------------------------------
(* The erase-while-iterating loop of responder::collect_garbage and of      *)
(* abs_listener::on_message: an element in dead is reset and erased, which *)
(* moves the next one to index i before ++i steps over it; any other sets  *)
(* last = i + 1; at the end resize(last).  0-based indices as in the code. *)

RECURSIVE CollectFrom(_, _, _, _)
CollectFrom(v, i, last, dead) ==
    IF i >= Len(v) THEN SubSeq(v, 1, last)
    ELSE IF v[i + 1] \in dead
         THEN CollectFrom(RemoveAt(v, i + 1), i + 1, last, dead)
         ELSE CollectFrom(v, i + 1, i + 1, dead)

CollectGarbage(v, dead) == IF v = <<>> THEN v ELSE CollectFrom(v, 0, 0, dead)

-----------------------------------------------------------------------------
(* The cache.                                                               *)

MinOf(a, b) == IF a < b THEN a ELSE b
MaxOf(a, b) == IF a < b THEN b ELSE a

LifetimeUncapped(ttl) == MaxOf(ttl, MinTtl)

\* cache::store: min(max_ttl, max(answer_min_ttl, min_ttl)).
Lifetime(ttl) == MinOf(MaxTtl, MaxOf(ttl, MinTtl))

\* A slip: an existing entry kept, the new answer dropped (insert semantics).
ReplaceEntryKeepOld(c, k, i) ==
    IF answers'[i].rcode \in Cacheable /\ c[k] = NoEntry
    THEN [c EXCEPT ![k] = [ans |-> i, deadline |-> now + Lifetime(answers'[i].ttl)]]
    ELSE c

\* cache::store of the answer at history index i: replace_entry overwrites
\* the entry of its key, or inserts one, with deadline now + lifetime.
\* Only answers of class IN, not truncated, NOERROR or NXDOMAIN are kept.
Store(c, k, i) ==
    IF answers'[i].rcode \in Cacheable
    THEN [c EXCEPT ![k] = [ans |-> i, deadline |-> now + Lifetime(answers'[i].ttl)]]
    ELSE c

\* cache::retrieve: an entry for the key whose deadline is still ahead.
Retrieve(k) == cache[k] # NoEntry /\ now < cache[k].deadline

-----------------------------------------------------------------------------
(* Ownership.                                                               *)

\* After the vectors changed to lr and ur: an upstream request no longer in
\* ur is destroyed; an incoming in neither lr nor (as inptr_) ur is too.
\* Those still waiting are recorded in lost.
Reap(lr, ur, u, i) ==
    LET goneU == {x \in Queries : u[x] \notin {"none", "destroyed"} /\ x \notin ToSet(ur)}
        goneI == {x \in Queries : i[x] \notin {"none", "destroyed"}
                                  /\ x \notin ToSet(lr) /\ x \notin ToSet(ur)}
    IN  /\ lreqs' = lr
        /\ ureqs' = ur
        /\ up' = [x \in Queries |-> IF x \in goneU THEN "destroyed" ELSE u[x]]
        /\ inc' = [x \in Queries |-> IF x \in goneI THEN "destroyed" ELSE i[x]]
        /\ lost' = lost \cup {x \in goneU : u[x] \in Active}
                        \cup {x \in goneI : i[x] = "open"}

\* udp::in::respond: send to the client (a send error is logged), close().
\* The reply repeats the answer at history index a (0 for none).
Respond(q, src, a) ==
    replies' = [replies EXCEPT ![q] = Append(@, [src |-> src, ans |-> a,
                                                 at |-> now, upto |-> Len(answers')])]

NewAnswer(k, rcode, ttl) == [key |-> k, rcode |-> rcode, ttl |-> ttl, at |-> now]

-----------------------------------------------------------------------------

Init ==
    /\ lreqs = <<>>
    /\ inc = [q \in Queries |-> "none"]
    /\ ureqs = <<>>
    /\ up = [q \in Queries |-> "none"]
    /\ cache = [k \in Keys |-> NoEntry]
    /\ answers = <<>>
    /\ replies = [q \in Queries |-> <<>>]
    /\ now = 0
    /\ lost = {}
    /\ asks = [q \in Queries |-> NoEntry]

\* abs_listener::on_message: collect the closed incomings (the loop above);
\* then udplistener::make_incoming reads the datagram into a new udp::in,
\* whose timeout starts, appends it to requests_, and create_response
\* hands it to the responder.
MakeIncoming(q) == Append(CollectGarbage(lreqs, {x \in Queries : inc[x] = "closed"}), q)

\* responder::pre_filter on the query for key k, the listener's vector now
\* lr: refused (whitelist, blacklist, AAAA with noipv6), found in the cache
\* (retrieve), or answered from hosts, which process stores in the cache.
\* Each answer is sent at once and closes the incoming.
PreFilter(q, k, lr) ==
    LET closedQ == [inc EXCEPT ![q] = "closed"]
    IN  \/ /\ k \in Blacklisted
           /\ UNCHANGED <<cache, answers>>
           /\ Reap(lr, ureqs, up, closedQ)
           /\ Respond(q, "refused", 0)
        \/ /\ k \notin Blacklisted
           /\ Retrieve(k)
           /\ UNCHANGED <<cache, answers>>
           /\ Reap(lr, ureqs, up, closedQ)
           /\ Respond(q, "cache", cache[k].ans)
        \/ /\ k \notin Blacklisted
           /\ ~Retrieve(k)
           /\ k \in HostsKeys
           /\ answers' = Append(answers, NewAnswer(k, "noerror", HostsTtl))
           /\ cache' = Store(cache, k, Len(answers'))
           /\ Reap(lr, ureqs, up, closedQ)
           /\ Respond(q, "hosts", Len(answers'))

\* responder::process after pre_filter passed the query on (the resolver
\* list is not empty): collect_garbage, then emplace_back an upstream
\* request holding the incoming, or its constructor throws network::error
\* and the client gets SERVFAIL.
Forward(q, k, lr) ==
    LET ur == CollectGarbage(ureqs, {x \in Queries : up[x] = "closed"})
    IN  /\ UNCHANGED <<cache, answers>>
        /\ \/ /\ Reap(lr, Append(ur, q), [up EXCEPT ![q] = "sending"],
                     [inc EXCEPT ![q] = "open"])
              /\ UNCHANGED replies
           \/ /\ Reap(lr, ur, up, [inc EXCEPT ![q] = "closed"])
              /\ Respond(q, "servfail", 0)

\* A datagram for q, asking for key k, arrives: the listener takes it and
\* responder::process runs to completion.  A datagram that is not DNS is
\* closed without an answer.
Arrive(q, k) ==
    /\ inc[q] = "none"
    /\ asks' = [asks EXCEPT ![q] = k]
    /\ LET lr == MakeIncoming(q)
       IN  \/ /\ Reap(lr, ureqs, up, [inc EXCEPT ![q] = "closed"])
              /\ UNCHANGED <<cache, answers, replies>>
           \/ PreFilter(q, k, lr)
           \/ /\ k \notin Blacklisted
              /\ ~Retrieve(k)
              /\ k \notin HostsKeys
              /\ Forward(q, k, lr)
    /\ UNCHANGED now

\* upstream::pass_failure_downstream: close(); the question, still unsent,
\* is plain DNS, so it is marked SERVFAIL and pass_answer_downstream answers
\* the client without storing it.
PassFailureNoClose(q) ==
    /\ UNCHANGED up
    /\ Respond(q, "servfail", 0)
    /\ inc' = [inc EXCEPT ![q] = "closed"]

PassFailureDownstream(q) ==
    /\ up' = [up EXCEPT ![q] = "closed"]
    /\ Respond(q, "servfail", 0)
    /\ inc' = [inc EXCEPT ![q] = "closed"]

\* upstream::on_send, when the socket is writable: fold and send, then clear
\* the question and start receiving; a net_error passes the failure down.
UpstreamSend(q) ==
    /\ up[q] = "sending"
    /\ UNCHANGED <<lreqs, ureqs, cache, answers, now, lost, asks>>
    /\ \/ /\ up' = [up EXCEPT ![q] = "receiving"]
          /\ UNCHANGED <<inc, replies>>
       \/ PassFailureDownstream(q)

\* upstream::on_receive: clear the question, receive, close(), unfold and
\* pass_answer_downstream: store a NOERROR or NXDOMAIN answer, then
\* respond, whether or not the incoming has timed out meanwhile.  A
\* net_error from the receive passes the failure down, but the question is
\* already cleared (size 0), so only close() runs: the client is not told.
UpstreamReceive(q) ==
    /\ up[q] = "receiving"
    /\ up' = [up EXCEPT ![q] = "closed"]
    /\ \/ \E rcode \in Rcodes, ttl \in Ttls :
             /\ answers' = Append(answers, NewAnswer(asks[q], rcode, ttl))
             /\ cache' = Store(cache, asks[q], Len(answers'))
             /\ Respond(q, "upstream", Len(answers'))
             /\ inc' = [inc EXCEPT ![q] = "closed"]
       \/ UNCHANGED <<cache, answers, replies, inc>>
    /\ UNCHANGED <<lreqs, ureqs, now, lost, asks>>

\* timeout::callback of an upstream request: close() stops its watchers.
UpstreamTimeout(q) ==
    /\ up[q] \in Active
    /\ up' = [up EXCEPT ![q] = "closed"]
    /\ UNCHANGED <<lreqs, inc, ureqs, cache, answers, replies, now, lost, asks>>

\* timeout::callback of an incoming request: is_closed() from now on.
IncomingTimeout(q) ==
    /\ inc[q] = "open"
    /\ inc' = [inc EXCEPT ![q] = "closed"]
    /\ UNCHANGED <<lreqs, ureqs, up, cache, answers, replies, now, lost, asks>>

\* A second of std::time passes.
Tick ==
    /\ now < MaxTime
    /\ now' = now + 1
    /\ UNCHANGED <<lreqs, inc, ureqs, up, cache, answers, replies, lost, asks>>

Next ==
    \/ \E q \in Queries, k \in Keys : Arrive(q, k)
    \/ \E q \in Queries :
          UpstreamSend(q) \/ UpstreamReceive(q) \/ UpstreamTimeout(q) \/ IncomingTimeout(q)
    \/ Tick

Spec == Init /\ [][Next]_vars

-----------------------------------------------------------------------------
(* Properties.                                                              *)

\* Types; a cache deadline is at most max_ttl past the time it was stored.
TypeOK ==
    /\ inc \in [Queries -> IncStates]
    /\ up \in [Queries -> UpStates]
    /\ lreqs \in Seq(Queries) /\ ureqs \in Seq(Queries)
    /\ cache \in [Keys -> {NoEntry} \cup [ans : 1..Len(answers),
                                          deadline : 0..MaxTime + MaxTtl]]
    /\ now \in 0..MaxTime
    /\ lost \subseteq Queries
    /\ asks \in [Queries -> Keys \cup {NoEntry}]

\* udp::in::respond is reached from pre_filter, from the constructor's
\* network::error, from pass_failure_downstream and from
\* pass_answer_downstream: however a send failure, a timeout and an answer
\* interleave, each client datagram gets at most one reply.
RepliesAtMostOnce == \A q \in Queries : Len(replies[q]) <= 1

\* cache::retrieve as used by pre_filter: a reply from the cache repeats a
\* cacheable answer to the same key, made less than its lifetime
\* (min(max_ttl, max(ttl, min_ttl))) before, and no cacheable answer to that
\* key was made after it and before the reply (replace_entry overwrites).
CachedReplyIsFreshLatest ==
    \A q \in Queries : \A n \in 1..Len(replies[q]) :
        LET r == replies[q][n]
            a == answers[r.ans]
        IN  r.src = "cache" =>
              /\ a.key = asks[q]
              /\ a.rcode \in Cacheable
              /\ r.at < a.at + Lifetime(a.ttl)
              /\ \A j \in r.ans + 1 .. r.upto :
                    answers[j].key = asks[q] => answers[j].rcode \notin Cacheable

\* The erase loops of abs_listener::on_message and
\* responder::collect_garbage drop only requests that are done: no incoming
\* still waiting for its answer and no active upstream request is destroyed.
NoLiveRequestDropped == lost = {}

====
