------------------------------ MODULE CacheFile ------------------------------
(***************************************************************************)
(* The persistence of the DNS cache (src/dns/srcz/cache.cpp): save_as      *)
(* writes cache_entries_ to <cachedir>/dnscache.bin; cache::load reads it   *)
(* back when the responder is constructed, and collect_garbage then drops  *)
(* what expired meanwhile.  The file is written by responder::store when   *)
(* the cache's size is a multiple of SaveEvery, by cresponder's statistics *)
(* timer, and by daemon::execute once SIGINT or SIGTERM ends the event     *)
(* loop.  The process may also be killed at any moment, in the middle of a *)
(* save too, leaving on disk a prefix of what save_as was writing.        *)
(*                                                                         *)
(* The file is a sequence of fields, one per read load makes: a 4-character *)
(* key, an int32, a size_t, a time_t, and two length-prefixed blobs (the   *)
(* name with its type, the wire answer), each of which fails the same way  *)
(* when cut.                                                                *)
(***************************************************************************)
EXTENDS Naturals, Sequences, SequencesExt, Functions

CONSTANTS
    CacheKeys,     \* (lower-case name, type) pairs
    Responses,     \* the wire answers stored
    CacheTtls,     \* answer_min_ttl values of the answers stored
    CacheMinTtl,   \* the responder's min_ttl parameter
    CacheMaxTtl,   \* cache::defaults::max_ttl()
    SaveEvery,     \* responder::store saves at every multiple of it (16)
    CacheMaxTime   \* bound on the clock

VARIABLES
    cache,   \* cache_entries_: key -> [resp, deadline]
    file,    \* dnscache.bin: the fields written, in order
    saved,   \* history: [ok, c], the cache last written out completely
    proc,    \* "up" (the daemon runs) or "down"
    clock    \* std::time (nullptr)

cacheVars == <<cache, file, saved, proc, clock>>

Field(t, v) == [t |-> t, v |-> v]
IsKey(f, s) == f.t = "key" /\ f.v = s
Magick == 1023456789

NoCache == <<>>

-----------------------------------------------------------------------------
(* save_as, load, collect_garbage.                                          *)

\* One entry: "entr", the name (its length, its bytes) and type, the
\* deadline, "dns:", the answer (its length, its bytes).
EntryFields(k, e) ==
    << Field("key", "entr"), Field("name", k), Field("time", e.deadline),
       Field("key", "dns:"), Field("dns", e.resp) >>

\* cache::save_as: the header, then every entry in the set's iteration
\* order (some fixed order of the hash table; any one will do).
SaveFields(c) ==
    LET ks == SetToSeq(DOMAIN c)
    IN  << Field("key", "mgck"), Field("int32", Magick),
           Field("key", "size"), Field("size_t", Len(ks)) >>
        \o FoldLeft(LAMBDA acc, k : acc \o EntryFields(k, c[k]), <<>>, ks)

Fail == [ok |-> FALSE, c |-> NoCache]

\* A slip: the loop's end is taken for the end of the file, without the
\* check that nq entries were read.
RECURSIVE LoadEntriesNoCount(_, _, _, _, _)
LoadEntriesNoCount(f, i, n, nq, c) ==
    IF i > Len(f) THEN [ok |-> TRUE, c |-> c]
    ELSE IF ~IsKey(f[i], "entr") \/ i + 4 > Len(f) \/ ~IsKey(f[i + 3], "dns:")
            \/ n + 1 > nq
    THEN Fail
    ELSE LoadEntriesNoCount(f, i + 5, n + 1, nq,
             IF f[i + 1].v \in DOMAIN c THEN c
             ELSE (f[i + 1].v :> [resp |-> f[i + 4].v, deadline |-> f[i + 2].v]) @@ c)

\* The loop of cache::load from field i, n entries read of the nq the
\* header announced.  At the end of the file crd<4> returns with eofbit
\* set and the loop breaks; then fewer entries than nq throw.  Inside an
\* entry a missing key or blob throws ("wrong file" from crd, or the key
\* compare), so does a wrong key and the (n+1)-th entry beyond nq.  An
\* entry whose key is already loaded is not inserted (unordered_set).
RECURSIVE LoadEntries(_, _, _, _, _)
LoadEntries(f, i, n, nq, c) ==
    IF i > Len(f) THEN IF Cardinality(DOMAIN c) < nq THEN Fail
                       ELSE [ok |-> TRUE, c |-> c]
    ELSE IF ~IsKey(f[i], "entr") \/ i + 4 > Len(f) \/ ~IsKey(f[i + 3], "dns:")
            \/ n + 1 > nq
    THEN Fail
    ELSE LoadEntries(f, i + 5, n + 1, nq,
             IF f[i + 1].v \in DOMAIN c THEN c
             ELSE (f[i + 1].v :> [resp |-> f[i + 4].v, deadline |-> f[i + 2].v]) @@ c)

\* cache::load: the header (magick key, byte-order int, size key, count),
\* each failing at the end of the file, then the entries.  A missing file
\* is an empty one.
LoadCache(f) ==
    IF Len(f) < 4 \/ ~IsKey(f[1], "mgck") \/ f[2] # Field("int32", Magick)
       \/ ~IsKey(f[3], "size")
    THEN Fail
    ELSE LoadEntries(f, 5, 0, f[4].v, NoCache)

\* cache::collect_garbage: erase the entries whose deadline is past.
CollectGarbage(c, now) == Restrict(c, {k \in DOMAIN c : ~(c[k].deadline < now)})

\* cache::store: min(max_ttl, max(answer_min_ttl, min_ttl)).
Lifetime(ttl) ==
    LET t == IF ttl < CacheMinTtl THEN CacheMinTtl ELSE ttl
    IN  IF CacheMaxTtl < t THEN CacheMaxTtl ELSE t

\* cache::replace_entry: overwrite the answer and deadline of the key, or
\* insert it.
ReplaceEntry(c, k, r, ttl) ==
    (k :> [resp |-> r, deadline |-> clock + Lifetime(ttl)]) @@ c

-----------------------------------------------------------------------------

CacheInit ==
    /\ cache = NoCache
    /\ file = <<>>
    /\ saved = Fail
    /\ proc = "down"
    /\ clock = 0

\* A complete save_as of the cache c.
WriteOut(c) ==
    /\ file' = SaveFields(c)
    /\ saved' = [ok |-> TRUE, c |-> c]

\* The responder's constructor: load the file; a runtime_error is logged
\* and the cache starts empty; a loaded cache is garbage collected.
Start ==
    /\ proc = "down"
    /\ proc' = "up"
    /\ LET l == LoadCache(file)
       IN  cache' = IF l.ok THEN CollectGarbage(l.c, clock) ELSE NoCache
    /\ UNCHANGED <<file, saved, clock>>

\* responder::store of an answer to key k: cache::store, then save_as when
\* the size is a multiple of SaveEvery.
Store(k, r, ttl) ==
    /\ proc = "up"
    /\ cache' = ReplaceEntry(cache, k, r, ttl)
    /\ IF Cardinality(DOMAIN cache') % SaveEvery = 0
       THEN WriteOut(cache')
       ELSE UNCHANGED <<file, saved>>
    /\ UNCHANGED <<proc, clock>>

\* random_callback, cresponder's periodic timer: save_as.
TimerSave ==
    /\ proc = "up"
    /\ WriteOut(cache)
    /\ UNCHANGED <<cache, proc, clock>>

\* SIGINT or SIGTERM: the loop ends, daemon::execute saves, the process
\* exits.
Stop ==
    /\ proc = "up"
    /\ WriteOut(cache)
    /\ proc' = "down"
    /\ cache' = NoCache
    /\ UNCHANGED clock

\* The process is killed between two steps.
Crash ==
    /\ proc = "up"
    /\ proc' = "down"
    /\ cache' = NoCache
    /\ UNCHANGED <<file, saved, clock>>

\* The process is killed in a save_as (from any caller) after n fields:
\* the ofstream truncated the file and wrote only those.
CrashInSave(n) ==
    /\ proc = "up"
    /\ n < Len(SaveFields(cache))
    /\ file' = SubSeq(SaveFields(cache), 1, n)
    /\ saved' = Fail
    /\ proc' = "down"
    /\ cache' = NoCache
    /\ UNCHANGED clock

Tick ==
    /\ clock < CacheMaxTime
    /\ clock' = clock + 1
    /\ UNCHANGED <<cache, file, saved, proc>>

CacheNext ==
    \/ Start \/ TimerSave \/ Stop \/ Crash \/ Tick
    \/ \E k \in CacheKeys, r \in Responses, ttl \in CacheTtls : Store(k, r, ttl)
    \/ \E n \in 0..(4 + 5 * Cardinality(CacheKeys)) : CrashInSave(n)

-----------------------------------------------------------------------------
(* Properties.                                                              *)

\* The entries of c that a start-up at time now keeps: those not expired.
Unexpired(c, now) == [k \in {x \in DOMAIN c : c[x].deadline >= now} |-> c[k]]

\* cache::load at start-up, after any interleaving of stores, saves and
\* kills (one in the middle of save_as included): the cache is exactly the
\* one the file last held completely, less what expired since; a file cut
\* short at any field gives an empty cache, never a part of one.
RestartRestoresSavedCache ==
    [][proc = "down" /\ proc' = "up" =>
         cache' = IF saved.ok THEN Unexpired(saved.c, clock) ELSE NoCache]_cacheVars

====
