# TLA+ models of cdns

cdns is a caching DNS forwarder. It also serves and consumes DNSCrypt. This
directory holds TLA+ models of the parts of its source whose correctness
depends on:
- the order in which libev callbacks run;
- what the network loses or returns;
- boundary arithmetic.

Each model is checked with TLC.

## The system and how its parts interact

Everything runs on one thread, the libev default loop. Every handler below is
a callback that runs to completion. The hard behaviours are not thread races.
They are:
- the order in which callbacks of one loop iteration run;
- a callback deleting the object whose method is still on the stack;
- timers that fire while a request is still outstanding;
- answers that never come.

| Component | Source | State it keeps | Operations |
|---|---|---|---|
| Certificate | `src/dns/crypt/srcz/certificate.cpp` | version, serial, validity, keys, raw bytes (immutable) | parse and verify, `version`, `is_preferred_over`, `cipher` |
| Certificate refresher (certifier) | `src/dns/crypt/srcz/certifier.cpp` | retry timer, `query_retry_step_`, `attempts_`, `upstream_` (the request in flight) | `start`, `update`, `retry_timer_callback`, `process_response`, the reschedules, `stop` |
| Resolver (provider) | `src/dns/crypt/srcz/resolver.cpp`, `certifier.cpp` (`find_valid_certificate`) | `ready_`, the resolver key, magic, the client encryptor | `find_valid_certificate`, `fold`/`unfold` of a forwarded query |
| Client session codec | `src/dns/crypt/srcz/encryptor.cpp` | magic, cipher, ephemeral or persistent keys, nonce pad | `curve` (encrypt a query), `uncurve` (decrypt the answer), `set_resolver_publickey` |
| Server session codec | `src/dns/crypt/srcz/server_crypt.cpp` | server keys, `es_version` | `uncurve` (decrypt a query), `curve` (encrypt the answer) |
| Padding / envelope layout | `src/dns/crypt/srcz/pad_buffer.cpp`, `src/dns/crypt/message_header.hxx` | none | `pad_buffer`, `find_end`, the header layouts |
| Nonce | `src/crypt/crypt.cpp` | none | `nonce::make_random` |
| Upstream request | `src/network/srcz/upstream.cpp`, `timeout.cpp` | send and receive watchers, timeout timer, the question | `on_send`, `on_receive`, `pass_failure_downstream`, `close`, timeout callback |
| Listener and incoming requests | `src/network/srcz/listener.cpp`, `incoming.cpp` | `requests_` (the open incoming requests) | `on_message` (garbage collection, then accept), `create_response`, `respond` |
| Forwarding responder | `src/dns/srcz/responder.cpp` | `upstream_requests_`, the cache, the filter | `process`, `collect_garbage`, `pass_answer_downstream` |
| DNSCrypt responder | `src/dns/crypt/srcz/cresponder.cpp` | the provider map, the server codec | `load` (merge the providers CSV), `update_certificates`, `process`, `respond`, `select_random_provider` |
| Cache | `src/dns/srcz/cache.cpp` | entries with deadlines | `store`, `retrieve`, `load`, `save`, `collect_garbage` |
| Domain filter | `src/dns/srcz/filter.cpp`, `src/dns/filter.hxx` | `prefix_`, `suffix_` (ordered sets), `substrings_`, `exact_` | the constructor reading a file, `merge`, `optimize`, `match` |
| Query codec | `src/dns/srcz/query.cpp` | message bytes | the `query` constructor, `get_rr_name` and the other answer walkers |
| Responder reload | `src/dns/srcz/responder.cpp`, `src/dns/srcz/daemon.cpp` | `dns_providers_`, the two filters, the onion provider, the hosts map | `reload` (from the constructor and on SIGHUP), `from_file` |
| Hosts file | `src/dns/srcz/hosts.cpp` | `host_ip_map_` | the constructor's character loop, `response` |
| Resolver CSV list | `src/dns/crypt/srcz/csv.cpp`, `resolver.cpp` | the header and column vectors | `csv::parse_line`, `parse_resolver`, `parse_resolvers_list`, `save_resolvers` |
| Network address | `src/network/srcz/address.cpp` | a `sockaddr_storage` | `split`, `str2u16`, the text constructor, `is_ip_address`, `ip_port`, `operator<<` |
| Options and start-up | `src/dns/srcz/options.cpp`, `src/dns/crypt/srcz/crypt_options.cpp`, `src/dns/srcz/daemon.cpp` | the options record | `parse` (command line or file), `apply_option`, `options_apply`, `set_options`, `setup0` |
| Logger | `src/sys/srcz/logger.cpp` | severity, syslog flag | `logger_init`, `println` |
| TCP transport | `src/network/srcz/connection.cpp`, the `tcp` parts of `incoming.cpp` and `upstream.cpp` | the socket's receive buffer | `tcp_send` (2-byte length, one `send`), `tcp_receive` (first `recv`, checks, loop), `tcp::in::on_receive`, `respond` |
| Sockets, backtrace | `src/network/srcz/socket.cpp`, `src/backtrace/src/backtrace.cpp` | none | system calls, stack traces |

How the parts interact:
- At start-up the daemon's `execute` calls `cresponder::update_certificates`,
  which starts the certifier of every provider. Then it runs the loop.
- A certifier sends a TXT query through an upstream request (`request<udp|tcp>`
  in `certifier.cpp`). The request's `pass_answer_downstream` calls back
  `certifier::process_response`.
- `process_response` configures the provider's encryptor through
  `find_valid_certificate` and then deletes the request (`upstream_.reset()`).
- A forwarded client query goes through these steps:
  1. It arrives at a listener.
  2. It becomes an `incoming`.
  3. The responder hands it to an upstream. The upstream `fold`s (encrypts) it
     with the provider's client codec, sends it, receives the answer,
     `unfold`s it and passes it down to the incoming.
- The DNSCrypt responder does the reverse with the server codec.
- At start-up and on every SIGHUP, `responder::reload` re-reads
  resolv.conf (`from_file`), the filter files, the onion address and the
  hosts file with the options parsed once at start-up; `cdaemon::reload`
  then re-reads the resolvers CSV into the provider map. An exception out of
  either ends start-up, or the running daemon.

## Modules

| Module | Models |
|---|---|
| `Certifier` | the certificate refresher, certificate selection and preference, the ready flag, and the parts of the upstream request (`on_send`, `on_receive`, `pass_failure_downstream`, timeout) that call back into the certifier |
| `MCCertifier` | constants for TLC: the retry constants of `certifier.cpp`; a provider publishing four (or two) certificates |
| `Envelope` | the lengths of one DNSCrypt exchange: client `curve` with `pad_buffer`, server `uncurve` with `find_end`, server `curve` with its `memmove`, client `uncurve` |
| `MCEnvelope` | the plaintext lengths at every boundary of the padding budgets, and the message tails that `find_end` can misread |
| `Forwarder` | the forwarding path over UDP: the listener's `requests_` and `on_message`, each `incoming` and its timeout, `responder::process` (`pre_filter`, `collect_garbage`, forward), each upstream request (`on_send`, `on_receive`, `pass_failure_downstream`, timeout), `pass_answer_downstream` and the cache's `store`/`retrieve` |
| `MCForwarder` | three client datagrams, one upstream key, one blacklisted key, one hosts key, TTLs 0 and 3 against the clamp [1, 2] |
| `Filter` | the domain filter: reading a file into its four sets, `words_insert`, `substr_insert`, `merge`, `optimize`, `match`, and `responder::reload` building a list from several files |
| `NameCodec` | the name written by the `query` constructor and read back by `get_rr_name`, over byte sequences |
| `ProviderRegistry` | `cresponder::dnscrypt_providers_`: `load` (its two loops and the merge check) from the constructor and from every SIGHUP reload |
| `CacheFile` | the cache on disk: `save_as` from `responder::store`, from the statistics timer and at exit; `cache::load` and `collect_garbage` in the responder's constructor; kills between steps and inside `save_as` |
| `AnswerTtl` | the record walkers of `query.cpp` on the cache path: `get_rr`, `answer_min_ttl` from `cache::store`, `adjust_id_and_ttl` from `cache::retrieve`; the hosts answer of `responder::process` (`set_answer`, both `add_answer`s, then `store`), in a build with and one without asserts |
| `Options` | `options::parse` of a command line (the pairs `getopt_long` returns) and of a configuration file (`parse_file`: `normalize`, `find_option`, the off words), `apply_option` of both option classes, `options_apply`, and `daemon::set_options` with `setup0` (its asserts, the log file, `logger_init`, `do_daemonize`) |
| `NetAddress` | `network::address` from text (`split`, `str2u16`, `inet_pton`) and back (`ip_port`, `operator<<`, `inet_ntop`'s `::` rule) |
| `ResolversCsv` | `csv::parse_line` character by character, `find_col`, `parse_resolver`, `parse_resolvers_list` and `save_resolvers` |
| `ResponderReload` | `responder::from_file`, the `hosts` constructor, and `responder::reload` from the constructor and on SIGHUP with every throw it can take |
| `CertParse` | what `certifier::process_response` does with an answer: `find_txt_answers` and `get_txt_answer`, the `certificate` constructor's checks, `version`, `is_preferred_over`, `cipher`, and `find_valid_certificate` installing magic, cipher and key in the encryptor |
| `TcpStream` | one TCP connection of the daemon, as a request (`tcp::in`) or an upstream (`tcp::upstream`): `tcp_send`, `tcp_receive`, the handlers that call them, the timeout, and a peer whose bytes arrive in any segments |
| `MCParsers` | filter files and host names for `Filter`; names and received byte tails for `NameCodec`; resolver lists for `ProviderRegistry`; keys, answers and lifetimes for `CacheFile`; upstream answer bytes, client queries (with and without an OPT record, and one malformed) and hosts addresses for `AnswerTtl`; CSV files written from tables of resolver rows for `ResolversCsv`; option settings written both as a configuration file and as a command line for `Options`; resolv.conf and hosts files written from tables of lines, with spaces or tabs, `\n` or `\r\n`, with or without a last line end, for `ResponderReload`; the peer's writes and the daemon's messages for `TcpStream`; it also extends `MCEnvelope` |
| `RequestReply` | the abstract promise of a DNSCrypt exchange: ask, served, answered only if served, or failed |
| `SessionCodec` | a cdns client (`upstream::on_send`/`on_receive`, `resolver::fold`/`unfold`, client `uncurve`'s checks) and a cdns server (`cresponder::process`/`respond`, server `uncurve`) over a network that loses, duplicates, reorders, corrupts and re-addresses datagrams; refines `RequestReply` |
| `MCSessionCodec` | two concurrent client requests |

### Certifier: how state and actions match the code

| Variable | Code |
|---|---|
| `timer` | `certifier::timer_`: `"armed"` while active, `"pending"` once the loop has found it expired and queued its callback (`is_pending()`), `"stopped"` after `stop()` |
| `period` | the repeat interval given to `timer_.set(after, after)` |
| `retryStep`, `attempts` | `query_retry_step_`, `attempts_` |
| `upstream` | `upstream_`: `"none"` (null), `"sending"`/`"receiving"` (`is_active()`), `"closed"` (closed by its timeout or a receive error, not yet deleted) |
| `ready`, `installed` | `resolver::ready_`, and the certificate whose key, magic and cipher the encryptor was given |
| `lastReply`, `lastUpdate`, `outcome` | history: the last answer processed, how the last `update()` ended, and whether the last reschedule was a success or a failure |
| `useAfterFree` | history: a request callback read its object after `process_response` deleted it |

Each action is one callback:
- `Start` is `certifier::start`.
- `TimerCallback` is `retry_timer_callback`.
- `SendOk` and `SendFailure` are the two outcomes of `upstream::on_send`.
- `Receive` and `ReceiveFailure` are the two outcomes of `upstream::on_receive`.
- `UpstreamTimeout` is `timeout::callback`.
- `TimerExpires` is libev marking the repeating timer pending.

The four I/O actions wait while the timer is pending. Every watcher has
the default priority. `ev_run` queues expired timers after the I/O events
of the same iteration, and `ev_invoke_pending` runs the last queued first.
So `retry_timer_callback` runs before any upstream I/O callback of that
iteration, and `process_response` never sees `timer_.is_pending()`. The
`is_pending()` branches of the reschedules are kept as the code has them,
but no state reaches them.

`Update(t)` has one disjunct per exit of `certifier::update`: busy, give up,
new request, or the request constructor throws. `ProcessResponse` is
`process_response` with `find_valid_certificate` inlined. The selection loop is
`FoldLeft(Pick, NoCert, cands)`.

A certificate is a record: its version bytes, serial, whether it verifies, and
a key. The key tells apart certificates whose version and serial are equal.
Signature and time-window checks are abstracted into `valid`. The jitter
`randombytes_uniform(100)` is represented by its two extremes, 0 and 99.

### Envelope

A buffer is a sequence of runs `[byte, count]`, so a 55000-byte message costs
a few records. Bytes are 0, "non-zero" (1) and the padding marker 0x80.
`PadBuffer` is `pad_buffer`. The random pad length is drawn from
`Draws(ub)`: 0, the least of one block and `ub - 1`, and `ub - 1`. `pad_buffer` rounds
`len + 8 + r` up past the next multiple of 64, so every draw up to one block
gives one of two lengths, and the least and the greatest draw give both; the
largest draw decides the clamp to `max_len`. The other draws reach no other
state. `FindEnd` is `find_end`, written as a
recursive backward scan. The actions run one exchange: `ClientCurve`,
`ServerUncurve`, `ServerCurve`, `ClientUncurve`, then `NextQuery` starts the
next one. `stage` records where it failed: `curve_failed`, `rejected` or
`overflow`.

### Forwarder

- `lreqs` is the listener's `requests_`; `ureqs` is the responder's
  `upstream_requests_`. Both are sequences of queries, so the two copies of
  the erase-then-`++i` loop (`CollectFrom`, used by `MakeIncoming` and
  `Forward`) run on them exactly as written, `resize(last)` included.
- `inc[q]` and `up[q]` are the states of query q's incoming and upstream
  request. An object no container and no `inptr_` holds is `"destroyed"`
  (`Reap`); destroying one that still waits is recorded in `lost`.
- `cache[k]` is the entry of key k: an index into `answers` and a deadline.
  `Store` is `cache::store` with its TTL clamp (`Lifetime`), `Retrieve` is
  `cache::retrieve` with its strict deadline test.
- `Arrive(q, k)` is `listener::on_message` followed by `responder::process`:
  a non-DNS datagram closes the incoming; `PreFilter` answers a blacklisted,
  cached or hosts key; otherwise `Forward` collects garbage and starts an
  upstream request, or answers SERVFAIL when it cannot.
- `UpstreamSend`, `UpstreamReceive`, `UpstreamTimeout` and
  `PassFailureDownstream` are the upstream request's callbacks;
  `IncomingTimeout` is the incoming's timer; `Tick` advances the clock.

### Filter

Words and host names are sequences of one-character strings over `a`, `b`,
`c`, `.`, `*` and `#`, compared by ASCII code (`LexLess`, the `comp` and
`rev_comp` orders of `filter.hxx`). The four sets are TLA+ sets; the ordered
lookups `upper_bound`/`prev` of `words_match` and the erase loop of
`words_insert` are written with `Greatest`/`Least` over the order, so the
model keeps the code's reliance on the sets being pruned. `Entry` is the
classification of one word in the constructor, `FilterOf` the whole
constructor with its final `optimize`. The state machine is
`responder::reload`: `Reload` makes a fresh empty filter, `MergeFile` merges
the next file. `entries` records every entry read since the reload; it is
the reference `MatchAgreesWithEntries` compares `match` with.

### NameCodec

A message is a sequence of byte values. `Encode` is the name part of
`query::query(hostname, type, id)`: the length check, the loop over the
characters (taken one label at a time in `EncodeLabels`; every throw of the
per-character loop is a throw there), and the end-of-name step.
`DecodeLabels`/`DecodeName` are `get_rr_name`'s checks and its do-while
loop, and `GetRrQuestion`/`GetQuestion` the callers that read the question
header after it; `reads` collects every index they read.

The state is the message on the wire (`wire`) and what `get_question` made
of it (`parsed`). `Build(h)` is a client constructing a query, `Receive(t)`
a datagram with any bytes after a one-question header that passes
`is_dns` (the test `responder::process` makes first), `Parse` the reader's
`get_question`, `Consume` the message being dropped. Nothing is kept from one
message to the next, so the wire holds one at a time.

### ProviderRegistry

`providers` is `dnscrypt_providers_`: a function from the addresses in the
map to the certifier kept for each, its identity (provider name and key)
and the load that created it. `Merge` is `load`'s first loop over the list,
`Prune` its second loop over the map, `Load` both with the check that throws
`logic_error`. `Construct` is the load in `cresponder`'s constructor,
`ReloadResolvers` the load of `cdaemon::reload` on SIGHUP. An unreadable
file is a `runtime_error` caught inside `load`; the `logic_error` is
rethrown, and ends start-up (`"failed"`) or the running process
(`"crashed"`).

ProviderRegistry's `noipv6` is chosen once in the initial state: options
are parsed once at start-up, and `cdaemon::reload` passes the same ones to
every load. `lastList` is a history variable: the list the last readable
load read. `ProvidersFollowList` compares the map with it.

### NetAddress

Text is a sequence of tokens: `:`, `[`, `]` and blank stand for themselves,
`4` for a dotted IPv4 literal, `h` and `0` for a non-zero and a zero IPv6
group, any other token for other text; a run of digits is one token whose
value `Decimal` gives. `Split` is `detail::split` with its two throws,
`Str2u16` is `str2u16` (leading blanks, a blank or the end after the digits,
the range), `IsV6Text`/`V6Groups` are `inet_pton(AF_INET6)` (at most one
`::`, eight groups), `MakeAddress` is `make_address`, and `Address` the
constructor. `Ntop6` is `inet_ntop`: the longest run of two or more zero
groups, the first of equal ones, printed as `::`. `IpPort` is `ip_port` and
`operator<<`, brackets around an IPv6 address.

### ResolversCsv

`ParseChar` is one turn of `parse_line`'s loop (quote and closing-quote
flags, the separator inside quotes, `\r` dropped, text after a closing
quote or before an opening quote throwing) and `ParseLine` the whole call
with its final `resize`, on the column vector the previous call left
(`CurWord` clears a reused word). The state machine is
`parse_resolvers_list`: `OpenList` opens the file and reads the header line,
`ReadRow` is one turn of the do-while loop (`RowStep`: a blank line adds
nothing, a wrong column count or a missing field throws). `ParseResolver`
is `parse_resolver` with `find_col`, the key (`IsPubKey`, `hex2bin`) and the
address (`Address` with port 443). `SaveResolvers` is `save_resolvers`, and
`ParseResolversList` the whole reader as one function, so that a saved list
can be read back.

### ResponderReload

`FromFile` is `from_file` over the characters of resolv.conf: `ReadWord` is
`operator>>` (blanks, tabs, `\r`, `\v`, `\f` and `\n` separate words) and
`IgnoreLine` is `ignore(n, '\n')`. `HostsChar` is one turn of the `hosts`
constructor's loop and `HostsOf` the whole loop folded over the file.
The lifecycle variables are the responder's members: `dnsProviders`,
`whitelist`, `blacklist`, `onionProvider` and `hostsMap`; `rState` is
`"init"`, `"running"`, `"failed"` (the constructor threw) or `"crashed"`
(a SIGHUP reload threw out of the loop); `goodConf` and `hostsRead` are
history, the files the providers and the map come from. `LoadFiles` is
`reload`: the caught `from_file`, then the filters, the onion address
(`OnionOf`) and the hosts file (`HostsLoaded`), the first that throws
(`ThrowOf`) leaving what was assigned before it (`LoadResult`).
`StartResponder` is the constructor, `Sighup` `reload_signal` with
`daemon::reload`. `ReadResolvConf` and `ConstructHosts` run each reader
once on any file of the bounded sets, for the properties comparing them with
the references `ConfRef` and `HostsRef`: what resolv.conf(5) and hosts(5)
say the table a file was written from means.

### CacheFile

`cache` is `cache_entries_` (key to answer and absolute deadline), `file` the
fields of `dnscache.bin` in the order `cache::load` reads them, `proc` whether
the daemon runs, `clock` the time. `saved` is a history variable: the cache
the file last held completely. `SaveFields` is `save_as`, `LoadCache` and
`LoadEntries` are `cache::load` (every read that hits the end of the file
throws, except the entry key, which ends the loop; then the announced count
is checked). `Start` is the responder's constructor (load, fall back to an
empty cache on `runtime_error`, `collect_garbage`), `Store` is
`responder::store` (`replace_entry`, then `save_as` when the size is a
multiple of 16, `SaveEvery`), `TimerSave` is `random_callback`, `Stop` is
SIGINT/SIGTERM ending the loop and `daemon::execute` saving. `Crash` kills
the process between steps; `CrashInSave(n)` kills it after `n` fields of a
`save_as`, which truncated the file when it opened it.

### AnswerTtl

`entry` is the cache entry of one key (the upstream answer's bytes and its
deadline), `served` what the current step sent from the cache, `ansClock`
the time, `status` whether an uncaught `runtime_error` ended the daemon and
where. `PassAnswer(a)` is `pass_answer_downstream` of a noerror or nxdomain
answer into `cache::store`: not a truncated answer, `get_question`, class
internet only, lifetime from `answer_min_ttl` clamped as `CacheFile`'s
`Lifetime`. `HitCache(tid)` is `cache::retrieve` with `adjust_id_and_ttl`.
`GetRr` is `get_rr`, `MinTtlFrom` and `AdjustFrom` the two loops over the
records; `Int32At` reads a TTL as `ntohl` and the cast to `int32` do.

`ndebug` is the build, chosen once at the start: with asserts (`FALSE`) a
failed `assert` ends the daemon (`status = "assert"`), without them the code
runs on. `HostsAnswer(q, ip)` is `process` for a query whose name the hosts
file holds and that the cache does not: `pre_filter` calls `set_answer`
(`SetAnswer`), which builds an `address` (IPv4 asserted), then `add_answer`
with its size check, its `arcount`/`nscount` asserts, the walk over the
answers (`SkipRrs`) and the A record written there with TTL 10; `fr == 2`
then stores the result (`CacheStore`, shared with `PassAnswer`) and responds.
`served` records what was sent, from the cache or from the hosts file.

`PassAnswer` begins as the code does: the log line of
`pass_answer_downstream` calls `short_info` before the rcode is looked at.
`ShortInfo` walks the questions and the answer records (`InfoQuestions`,
`InfoRrs`) and names the rcode (`NamedRcodes`, `pkt_rcode_cstr`), each
class (`NamedClasses`, `rr_class_cstr`) and each A or AAAA address
(`AddressOfData`, `network::address` from record data). A name it cannot
give is a `logic_error` nothing catches (`status = "info"`). An A record of
more than 12 bytes, or an AAAA record of more than 20, overruns the
`sockaddr` in the address constructor: undefined behaviour, so the daemon
either goes on or ends (`status = "overflow"`).

### Options

`optIn` is the input both parses read: one set of settings written as a
configuration file (a sequence of lines of words) and as the pairs
`getopt_long` returns for the same settings. `fileRes` and `argRes` are what
`parse` made of each (`r` is `"ok"`, `"stop"` for help or version, or
`"throw"`), `boot` is `setup0`'s outcome, `logger` the severity and syslog
flag, `stdio` where the standard streams lead.

- `ParseOptions(in)` is `parse` of both inputs: `ParseArgs` folds
  `ApplyOption` over the pairs, `ParseFile` folds `FileLine` over the lines
  (skipping blank, comment and too-long lines, looking the first word up
  with `Normalize` and `FindOption` in `CryptFlags`, the option table
  `flags::add` builds), and both end with `OptionsApply`.
- `Setup0` is `set_options` with `setup0` for the options of either
  input: the assert against a log file with syslog, `fopen` (which may
  fail), `logger_init` (`LoggerInit`) only without a log file, since the
  call on the log-file path is commented out, and `Daemonize`: the assert
  that a daemon has syslog or a log file, then `do_daemonize`, which may
  fail and which leads the standard streams to /dev/null.

Words are sequences of pieces: name fragments in several cases, the
separators and value characters. `OptLower` is `ascii_tolower` on pieces.
Numbers go through `StrToNum` (`strtol`'s digits and its end pointer) and
`UShort` (the `unsigned short` cast of `loglevel` and `min-ttl`).

### CertParse

`certNow` is `std::time`. `certReady` is `resolver::ready_`, and
`encMagic`, `encCipher` and `encKey` are what the encryptor was given.
`certOutcome` is how the last answer ended: found, none, or crashed.
`lastTxt` and `lastNow` are history, used by the properties. `certBuild`
and `ephemeral` are fixed at the start. A candidate certificate is a
record of the fields the code reads: its length, its magic, the major and
minor bytes, who signed it, the payload length, and the payload fields.

- `ProcessTxt(t)` is `process_response`:
  - `TxtStatus` is `find_txt_answers` with its asserts, and `get_rr`
    throwing on a record that runs past the message.
  - `GetTxtAnswer` keeps the TXT records of class IN.
  - `FindValidCertificate` folds `PickStep` over the candidates.
    `CertificateStatus` is the constructor's checks, in their order.
  - After the loop it handles three failures: a null certificate,
    `PrintInfoAborts` (a debug-build assert), and
    `SetResolverPublicKeyFails` (the "Suspicious public key" throw).
- `CertTick` moves the clock.

The reference is `SpecParses` and `SpecBest`: spec 4.3 stated on the
fields, and spec 4.6's choice of the most preferred candidate, the later
one on a tie.

### TcpStream

`tcpRole` is which end the daemon is: `"in"` (a client's request, which
starts receiving) or `"up"` (an upstream, which starts sending). `tcpConn`
is its state: receiving, responding (the responder holds the request),
timed out, closed, done, failed (the failure passed downstream) or
crashed (an exception no handler catches). The peer's bytes are in
`inFlight` until the kernel moves some into `rcvBuf` (`Arrive`, which may
happen while a callback runs); `rx` holds what `tcp_receive` has read while
its loop is running. `peerWrote` and `toPeer` record the two byte streams.

- `RecvFirst` is the first `::recv` of up to `Reserved` bytes (`Taken`) and
  the checks of `connection.cpp:125-142` (`FirstCheck`, `HeadError`);
  `RecvMore` is one turn of the loop, whose `::recv` on the non-blocking
  socket finds nothing (`net_error`) unless the rest has arrived.
  `Received` is the loop test and the size-mismatch `logic_error`.
  `AfterReceive` is what `tcp::in::on_receive` and `upstream::on_receive`
  do with each outcome: only `net_error` is caught.
- `UpSend` is `upstream::on_send`: `is_connected`, then `tcp_send`, which
  sends `Frame(m)` once; `SendOutcome` is its error checks, a short send
  being `logic_error`. `InRespond` is `tcp::in::respond`, also after the
  timeout, which stops the watchers but leaves the socket open.

A crash is reachable from one write of a client (`<<0, 0>>`, one byte, a
frame longer than the buffer, or two frames at once). This is hazard
`connection.cpp:131`. No run checks it as a violation, because all run
slots are in use. A short `::send` also ends the process, after part of a
frame has gone to the peer (`connection.cpp:111`). No property is stated
about that case, since the code promises nothing about what the peer sees
after the daemon has died.

### MCParsers

`MCParsers` checks `Filter`, `NameCodec`, `ProviderRegistry`, `CacheFile`,
`AnswerTtl`, `Envelope` (through `MCEnvelope`), `ResolversCsv`, `Options`,
`TcpStream`, `CertParse` and `ResponderReload` (its lifecycle and its two readers as separate
components) in one run. They share no
state, so each moves only while the others are where they start (`AtStart`,
`OthersAtStart`): every state of each is checked, without their product.
`AnswerTtl` starts in either build; the others move only beside the build
without asserts, the one a release of the daemon uses.

### SessionCodec

Each client request has its own socket and its own fresh session nonce, so a
request is its port and its nonce. A datagram keeps only what the code's
checks read:
- the port;
- whether the magic is right;
- the client nonce in the header;
- the cipher its box was sealed with, or `"garbage"`.

The network's behaviour is modelled as follows:
- `net` holds every genuine datagram ever sent and is never emptied. That
  models loss, duplication and reordering.
- `Deliverable` adds genuine datagrams re-addressed to another port, and
  corrupted ones.
- Nobody can seal a box without the keys.

Each action is one handler:
- `Send` is `on_send` with `fold`.
- `Receive` is `on_receive` with `unfold`. `Opens` is client `uncurve`'s
  three checks, in the code's order.
- `Abandon` is the timeout.
- `ServerReceive` is `make_incoming`, then `create_response`, then
  `cresponder::process`.
- `ServerRespond` is `cresponder::respond`.

An exception that no handler catches puts its side in `crashed`, and that
process stops: `daemon::execute` runs `dl.run()` with no catch. `AbsStatus`
maps the client's state, and the set of requests the server served, onto
`RequestReply`.

## Runs

| Run | Checks | Shows |
|---|---|---|
| `certifier_select` | `TypeOK`, `ReadyUsesBestCertificate`, `BackoffBounded`, `RefreshNeverWedges` | whenever a provider is ready, its encryptor holds the preferred valid certificate of the last answer, over every answer of up to 3 records drawn from 4 certificates (a tie on version and serial, a newer version with a lower serial, an unverifiable certificate that would otherwise win). No failure delay leaves [17 s, 300 s]. Under the loop's fairness the refresher keeps issuing requests or has stopped; a request that never gets an answer is closed by its timeout. |
| `certifier_keeps_refreshing` (violation) | `KeepsRefreshing` | `attempts_` is never reset. After five requests (`4 < attempts_`), even successful ones, the refresher stops and certificates are never renewed. |
| `certifier_use_after_free` (violation) | `NoUseAfterReset` | a send error on a certificate request runs `process_response`, which deletes the request. `on_send` then reads `this->question()`. |
| `envelope_unpadded` (violation) | `RoundTrip` | a query of 55458 to 55467 bytes leaves room for less than the minimum padding. `curve` sends it unpadded instead of throwing, and the server's `find_end` misreads its length. |
| `envelope_overflow` (violation) | `ServerEnvelopeFits` | server `curve` moves an answer longer than 55487 bytes past the 55535 bytes the message reserves. |
| `forwarder` | `TypeOK`, `RepliesAtMostOnce`, `CachedReplyIsFreshLatest` | with listener, responder, upstream requests, cache and both timeouts interleaved, each client datagram is answered at most once (an upstream failure after a timeout or a late answer does not answer twice), and a cache hit repeats the latest cacheable answer to its key while its clamped lifetime lasts. |
| `forwarder_gc` (violation) | `NoLiveRequestDropped` | `collect_garbage`'s erase-then-`++i` skips the element after an erased one, and `resize(last)` then destroys an active upstream request and with it the incoming it holds: a query arriving after a failed one leaves an earlier client unanswered. |
| `session` | `ImplementsRequestReply` | however datagrams are lost, duplicated, reordered, corrupted or re-addressed between two concurrent requests, the exchange implements the abstract request/reply channel: each client accepts an answer only after the server served its own request. |
| `parsers` | `TypeOK`, `OptTypeOK`, `SetupAssertsHold`, `FileAgreesWithCommandLine`, `MatchAgreesWithEntries`, `NameDecodeInBounds`, `NameRoundTrip`, `LoadFailsOnlyOnDuplicates`, `ServedRecordsRefreshed`, `HitCrashesOnlyOnUnwalkedAnswer`, `RestartRestoresSavedCache`, `EnvTypeOK`, `PaddingShape`, `PaddedRoundTrip`, `CsvTypeOK`, `LoadAgreesWithTable`, `SavedListReloads`, `ResolvConfAgreesWithTable`, `HostsAgreeWithTable`, `ServingFollowsFiles`, `TcpDeliversFirstFrame`, `CertInstallMatchesSpec`, `ReleaseCrashNeedsMalformedOrSigned` | after any sequence of reloads and up to three merged files, the pruned filter matches a host name exactly when some word read since the reload matches it, and no word is empty. `get_rr_name` reads only bytes inside the message whatever follows the header, and reads back, with a final dot, every RFC 1035 name the `query` constructor writes. Loading the resolvers list throws only on a list naming one used address twice, whatever earlier loads and `noipv6` left in the map. After any interleaving of stores, saves, kills (inside `save_as` too) and restarts, the cache loaded at start-up is the one last saved completely less what expired, or empty: never part of a cut file. A cache hit sends the stored upstream answer with the client's id and, in every record but OPT, the seconds left (1 to `max_ttl`, also for negative or OPT-only TTLs); it ends the daemon (an uncaught throw from `adjust_id_and_ttl`) only on an answer stored with QR clear, whose records `answer_min_ttl` never walked. Wherever envelope padding happens (`EnvTypeOK`, `PaddingShape`, `PaddedRoundTrip`), it adds at least 8 bytes, stays in budget, and is block-aligned or clamped, and the peer recovers exactly the plaintext length. The resolvers CSV reads as the table it was written from, quoted fields, blank lines and `\r\n` included, and a list `save_resolvers` wrote reads back to the same resolvers (IPv6 addresses in brackets) unless a provider name holds a comma. `from_file` reads every resolv.conf written from a table of nameserver, search, comment and blank lines as resolv.conf(5) says, and the `hosts` constructor maps each name to the address of the first line naming it (throwing on a line with names and no address); while the daemon runs after a start-up and any SIGHUPs, it forwards to the nameservers of the last resolv.conf that read through (an unreadable one counts, and clears them) and answers from the last hosts file read. The same settings given in a configuration file and on a command line give the same options (names in any case, `_` for the first `-`, off words, valueless options) or both throw, and `setup0`'s two asserts never fail for options `parse` accepted, whatever the order of the settings, because `options_apply` checks them after the last one. A TCP message the daemon accepts, from a client or an upstream, is exactly the first frame the peer wrote, however its bytes were split into segments. After a certificate answer, the provider is ready exactly when some TXT candidate passes spec 4.3 at that second. The encryptor then holds the magic, cipher and key of the most preferred candidate. A release build ends on such an answer only in two cases. One is a record that runs past the message; that is enough to end the daemon, and it needs no signing key. The other is a certificate signed by the provider whose server key `crypto_box_beforenm` refuses. |
| `hosts_answer` (violation) | `HostsAnswerServed` | a name in the hosts file, asked by an EDNS query (one OPT record, which `is_dns` admits), fails `add_answer`'s `0 == arcount` assert: a debug build aborts. A release build writes the A record over the OPT record and keeps `arcount` 1, so `store`'s `answer_min_ttl` walks past the end and its uncaught `runtime_error` ends the daemon. An IPv6 entry aborts a debug build and is answered 0.0.0.0 by a release build. |
| `provider_reload` (violation) | `ProvidersFollowList` | the spec says a provider's refresh state is destroyed on reload. `cresponder::load` creates a certifier only for an address it does not hold yet (`cresponder.cpp:79`). So when the list is loaded with `a4` under provider `i1`, then reloaded with `a4` under `i2`, the old certifier stays, with the old provider name and key. |
| `session_crash` (violation) | `NoCrash` | one datagram with the public query magic and a corrupt body makes server `uncurve` throw `runtime_error`. No handler catches it, and the server process ends. A corrupt answer does the same to the client through `unfold`'s `crypt_failure`. |

Each passing property has a mutant in `PROJECT.json`: a plausible slip in the
mapped code that makes TLC find it violated. Each property is preceded, in
its module, by a comment stating it.

## Bounds

- **Certifier.** The violation runs use the real constants:
  - 17 and 300 for the failure delays;
  - 100 steps;
  - 3600 plus 0..99 after a success;
  - the give-up test `4 < attempts_`.

  `certifier_select` keeps the delays, the jitter and the give-up test but
  shortens the schedule to 4 steps: selection never reads it, the bound
  `BackoffBounded` checks is reached at the first and the last step alike,
  and the states go to answers instead.
- **Envelope.** It uses the real sizes: `query::max_size` 55535, the libsodium
  sizes, block 64 and minimum pad 8. The lengths are the edges of every
  budget:
  - 15 and 300, which are small;
  - 55457 and 55458, around the client's minimum-padding edge;
  - 55465 to 55468, around the client's block and budget edges;
  - 55487 and 55488, around the server's `memmove` edge;
  - 55535.

  The tails are those that make `find_end` stop early or late.
- **Forwarder.** Three queries are enough for an erase to be followed by a
  live request and for two requests to share a key. TTLs 0 and 3 fall below
  and above the clamp [1, 2], and 3 seconds let an entry expire and be
  replaced. Symmetry over the queries is sound: the queries are
  interchangeable model values, and every key is read from `asks`.
- **Filter.** Ten files cover each kind of entry, an extension of a kept
  word, entries one kind covers for another, a comment, a bare star and the
  leading-star exact name. Every host name of one to three characters is
  checked, so a name can sort between a word and its extension. Three merges
  reach both branches of `merge` (swap and insert) for every set.
- **NameCodec.** Every name of up to four characters over `a`, `-`, `_` and
  `.`, plus labels of 63 and 64 characters and names of 253 to 256
  characters. Every tail of up to five bytes over the label lengths 0, 1, 2,
  63, 64, 191, the pointer byte 192 and the characters `a` and `_`.
- **ProviderRegistry.** Two IPv4 addresses and one IPv6 address with two
  identities each; every list of up to two resolvers (a duplicate address, a
  list that drops an address, an IPv6 entry) or an unreadable file; a
  constructor load and two reloads, each with `noipv6` on or off.
- **CacheFile.** Two keys, so that a file can be cut between two whole
  entries (a cut inside the header or an entry fails earlier); two answers,
  so that a replaced entry differs; TTLs 0 and 2 against the clamp [1, 2]
  on a clock of 0..2, so that an entry expires while the daemon is down;
  a save at every second entry, so that `store`'s own save happens.
- **ResolversCsv.** Four header lines (the three needed columns; all four in
  another order; a duplicate provider column; a missing address column),
  and under each every table of up to two rows out of seven (a full row, a
  blank line, a short row, a name holding a comma, an empty key, a
  bracketed IPv6 address with a port and a colon-separated key, a port out
  of range). Each table is written with every field quoted or only the
  fields with a comma, with `\n` or `\r\n`, with or without a last line
  end. Three hand-written files hold `parse_line`'s throws.
- **ResponderReload.** Every resolv.conf of up to two lines out of seven
  (IPv4, IPv6, a bracketed IPv6 address with a port and a word after it,
  a port out of range, `search`, a comment, a blank line), and every hosts file of up to two lines
  out of seven (two names, an IPv6 address, a comment after the names, a bad
  first word, a lone word, comment and blank lines), each written with
  spaces or a tab, `\n` or `\r\n`, with or without a last line end, and read
  with `noipv6` on and off. The lifecycle has a start-up and two SIGHUPs over
  three resolv.conf files (one with a bad address) and an unreadable one,
  three hosts files (one with a bad first word) and an unreadable one, an
  empty and a one-entry filter file and one that throws, and no onion
  option, an onion address and a bad one.
- **AnswerTtl.** Every answer of up to two records, with QR set or clear
  and the last record in the answer or the additional section, over four
  records: TTL above `max_ttl`, TTL 2^31 (negative as int32), OPT, and one
  whose rdlength runs past the end. A truncated answer and a chaos-class
  question show `store`'s refusals. A 16-byte A record, a class-2 question and answers with rcodes 2 and 11 reach `short_info`'s throws and its overrun. Two seconds of clock let an entry be hit
  with one or two seconds left. The client queries are one plain query,
  the same with an OPT record, and one whose label runs past its end; the
  hosts addresses one IPv4 and one IPv6 address. Both builds are initial
  states.
- **Options.** Every table of up to two settings out of fifteen:
  `daemonize`, its file forms `Daemonize no` and `SYSLOG 0`, `tcp_only off`,
  a log file and an empty one, `loglevel` at 70001 (past the `unsigned
  short`) and at -1, a negative `min-ttl`, `max-active-requests 0`, two
  blacklist files, a local address, a crypt option and `help`. Each is
  written as a command line and as a file, alone or after a comment line or
  a line of 512 characters. That reaches every `options_apply` throw, both
  branches of `setup0`, and each off word.
- **TcpStream.** The buffer holds `Reserved` = 5 bytes, so a 4-byte
  message overflows it and a 2-byte one fits with a byte to spare. The peer
  makes up to two writes from the frames of 1, 2 and 4 bytes and the
  heads `<<0, 0>>` and `<<255, 255>>`. Each write may arrive in any number of
  segments. The daemon's messages are 1 and 2 bytes long, and a send may be
  short at any length. Two writes are the fewest that give a pipelined
  second frame and a frame split across writes.
- **CertParse.** The clock runs over seconds 0 to 2. The base certificate
  is signed, has version 0.1, and is valid in seconds 1 to 2. Each other
  candidate changes one thing:
  - a higher serial, valid in seconds 0 to 1;
  - a weak key, valid from second 0;
  - version 0.2, which outranks the others.

  The 0.2 certificate also appears in these broken forms:
  - forged;
  - cut by one byte;
  - with a 53-byte or a 51-byte payload;
  - with magic `DNSD` or major `1.2`;
  - with an empty window;
  - 7 bytes long.

  Records hold each candidate as TXT of class IN. The 0.2 certificate is
  also in a CHAOS-class TXT record, in an A record, behind a wrong length
  byte, and in a record that runs past the message. Answers have up to two
  records; with two, one of them holds one of the three certificates that
  pass, before or after the other. Each window is reached before, inside,
  at its end and after, in both builds and both key modes.
- **SessionCodec.** Two requests are the fewest that let an answer be
  re-addressed to another request's socket. The state space is complete:
  6664 states.

## Fairness

The Certifier runs assume weak fairness on:
- `Start`: `execute` calls it before the loop;
- `TimerExpires` and `TimerCallback`: libev fires an expired timer and runs its
  queued callback;
- `UpstreamTimeout`: every request has a running timeout timer.

Sends, answers and network errors get no fairness, because nothing in the code
forces the network to deliver. The other modules' properties are safety
properties, so their runs assume no fairness.

Deadlock checking is off in these runs:
- **Certifier.** After giving up, the code stops the timer with no request
  outstanding, and nothing ever wakes the certifier again.
- **Forwarder.** Once every datagram has been handled and the clock has
  reached `MaxTime`, nothing remains to do.
- **MCParsers.** A daemon whose start-up or reload threw takes no step, the
  loads are bounded, and so is the cache's clock.
- **SessionCodec.** A crashed process takes no steps, and a client whose
  requests have all ended has nothing left to do.

## Plan for later work

1. `select_random_provider` choosing only ready providers, joining
   `ProviderRegistry` with the readiness `Certifier` models.
2. The cache's unbounded growth (`cache.cpp:13`): `cache_entries_max` is
   never read, which needs unboundedly many keys to show.
3. A `SessionCodec` configuration with a version-2 certificate. It shows the
   server's fixed `es_version` crashing on the first genuine query.
4. Violation runs for the crashes that `CertParse` and `TcpStream` reach
   and that no pass run can show: one malformed record in a certificate
   answer (`query.cpp:288`), and a one-byte or zero-length TCP query
   (`connection.cpp:131`). The spec says neither may end the process.

All twelve run slots are in use, so each of these has to fold into an
existing run or replace a weaker property.

## Not modelled

- The cryptographic primitives (libsodium): assumed perfect.
- Nonce uniqueness (`make_random`: microsecond time and random bits): each
  request is assumed to get a fresh nonce.
- `getopt_long` itself and the usage and version texts: the command line
  is the sequence of pairs `getopt_long` returns. The other models take the
  parsed options as their constants.
- `println`'s routing of log lines (level filter, syslog, stdout or
  stderr): no property is about the text of the log. A finding stands
  without a run. With `--logfile`, `setup0` never calls `logger_init`
  (`daemon.cpp:239`). The level is ignored and the file stays empty, and
  under `--daemonize` every line goes to /dev/null. `Options` keeps the
  default logger on that path.
- The hosts file's 2048-character word limit, the CSV's 32000-character
  column limit and `filter`'s too-long entry beyond the one file that throws:
  length limits of no consequence to any property.
- `filter::write` and the rest of `query.cpp` (`find_txt_answers` and
  `set_txt_answer`, abstracted in `Certifier`; printing and string accessors).
- Backtrace and sockets: I/O. The `sockaddr` constructors from `sockaddr`
  values and the accessors of `address.cpp`: byte layout.
- In `Certifier`, certificate parsing is one boolean, `valid`. `CertParse`
  models the parse itself; the signature is libsodium's, assumed perfect.
  `load_binary_file` is used by the command-line tools only.
- TCP: `tcp_connect` and the accept path (`tcplistener::make_incoming`,
  `accept_new`) are not modelled; `TcpStream` starts from a connected socket
  or from `is_connected`'s outcome. What the responder does with a TCP
  request is the UDP path of `Forwarder`.
