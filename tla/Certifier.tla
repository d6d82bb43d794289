----------------------------- MODULE Certifier -----------------------------
(***************************************************************************)
(* The per-provider certificate refresher dns::crypt::certifier            *)
(* (src/dns/crypt/srcz/certifier.cpp) together with the part of            *)
(* dns::crypt::resolver it drives: find_valid_certificate, the ready flag  *)
(* and the certificate configuration of the client encryptor.              *)
(*                                                                         *)
(* Everything runs on the single libev loop; every action below is one     *)
(* callback run to completion.  The retry timer is an ev::timer with a     *)
(* repeat interval: when it expires the loop marks it pending.  All the   *)
(* watchers have the default priority, and ev_run queues expired timers   *)
(* after the I/O events of the same iteration, while ev_invoke_pending    *)
(* runs the last queued first: the timer's callback runs before any       *)
(* upstream I/O callback, so no I/O callback sees it pending.             *)
(*                                                                         *)
(* A certificate is abstracted to a record: its version bytes, its serial  *)
(* number, whether it parses and verifies (signature, magic, validity      *)
(* window: `valid'), and a key that tells apart two certificates with the  *)
(* same version and serial.                                                *)
(***************************************************************************)
EXTENDS Naturals, Sequences, SequencesExt

CONSTANTS
    Certs,          \* certificates a provider may publish in its TXT answer
    NoCert,         \* no certificate (null unique_ptr / unset encryptor)
    MaxCandidates,  \* longest TXT answer considered
    MinDelay,       \* retry::min_delay
    MaxDelay,       \* retry::max_delay
    Steps,          \* retry::steps
    SuccessDelay,   \* retry::delay_after_success_min_delay
    Jitter,         \* retry::delay_after_success_jitter
    AttemptLimit    \* the literal 4 in `if (4 < this->attempts_)'

ASSUME /\ MinDelay < MaxDelay /\ Steps > 0 /\ Jitter > 0
       /\ NoCert \notin Certs

VARIABLES
    timer,      \* state of timer_: "armed" | "pending" | "stopped"
    period,     \* repeat interval of timer_, in seconds
    retryStep,  \* query_retry_step_
    attempts,   \* attempts_
    upstream,   \* upstream_: "none" | "sending" | "receiving" | "closed"
    ready,      \* resolver::ready_
    installed,  \* certificate whose magic, cipher and key the encryptor holds
    lastReply,  \* history: the candidates of the last answer processed
    lastUpdate, \* history: how the last certifier::update() call ended
    outcome,    \* history: "none" | "success" | "failure", the last reschedule
    started,    \* certifier::start() has run
    useAfterFree \* an upstream callback read its object after it was deleted

vars == <<timer, period, retryStep, attempts, upstream, ready, installed,
          lastReply, lastUpdate, outcome, started, useAfterFree>>

\* An upstream whose timeout timer still runs: upstream::is_active().
Active == {"sending", "receiving"}

\* A plausible slip: treating any existing request object as alive.
IsAliveAnyObject == upstream # "none"

\* `upstream_ && upstream_->is_active()'
IsAlive == upstream \in Active

\* The TXT answers a provider (or the network) may return.
Replies == SeqOf(Certs, MaxCandidates)

-----------------------------------------------------------------------------
(* Certificate operations (certificate.cpp).                                *)

\* certificate::version(): major[0] is always 0 after cert_parse_version.
Version(c) == c.major * 65536 + c.minor

\* A plausible slip: an equal serial keeps the earlier certificate.
IsPreferredOverStrict(c, previous) ==
    \/ Version(previous) < Version(c)
    \/ Version(previous) = Version(c) /\ previous.serial < c.serial

\* certificate::is_preferred_over(previous)
IsPreferredOver(c, previous) ==
    \/ Version(previous) < Version(c)
    \/ Version(previous) = Version(c) /\ ~(previous.serial > c.serial)

\* certificate::cipher(): chosen by the major version byte.
Cipher(c) == CASE c.major = 1 -> "xsalsa20poly1305"
               [] c.major = 2 -> "xchacha20poly1305"
               [] OTHER       -> "undefined"

\* One iteration of the loop in resolver::find_valid_certificate: a
\* candidate that fails to parse throws invalid_certificate and is skipped.
Pick(cert, ci) ==
    IF ci.valid /\ (cert = NoCert \/ IsPreferredOver(ci, cert)) THEN ci ELSE cert

FindValidCertificate(cands) == FoldLeft(Pick, NoCert, cands)

-----------------------------------------------------------------------------
(* Rescheduling (certifier.cpp).  `t' is the state of timer_ at the call.  *)

\* A plausible slip: the parentheses around (max_delay - min_delay) lost.
AfterFailureUnparenthesised(t) ==
    IF t = "pending"
    THEN UNCHANGED <<period, retryStep>>
    ELSE /\ period' = MinDelay + (retryStep * MaxDelay - MinDelay) \div Steps
         /\ retryStep' = IF retryStep < Steps THEN retryStep + 1 ELSE retryStep

\* A plausible slip: query_retry_step_ incremented without the cap.
AfterFailureUncapped(t) ==
    IF t = "pending"
    THEN UNCHANGED <<period, retryStep>>
    ELSE /\ period' = MinDelay + (retryStep * (MaxDelay - MinDelay)) \div Steps
         /\ retryStep' = retryStep + 1

\* certifier::reschedule_query_after_failure
AfterFailure(t) ==
    IF t = "pending"
    THEN UNCHANGED <<period, retryStep>>
    ELSE /\ period' = MinDelay + (retryStep * (MaxDelay - MinDelay)) \div Steps
         /\ retryStep' = IF retryStep < Steps THEN retryStep + 1 ELSE retryStep

\* reset_query_retry_step(); reschedule_query_after_success()
AfterSuccess(t) ==
    /\ retryStep' = 0
    /\ IF t = "pending"
       THEN UNCHANGED period
       ELSE \E j \in {0, Jitter - 1} : period' = SuccessDelay + j

-----------------------------------------------------------------------------------------------------------------------------------------------------
(* certifier::update(), called with timer_ in state t.                      *)

Update(t) ==
    \/ /\ IsAlive                             \* "request is still alive"
       /\ timer' = t
       /\ lastUpdate' = "busy"
       /\ UNCHANGED <<period, retryStep, attempts, upstream, outcome>>
    \/ /\ ~IsAlive                            \* too many requests: stop()
       /\ AttemptLimit < attempts
       /\ upstream' = "none"
       /\ timer' = "stopped"
       /\ lastUpdate' = "gaveup"
       /\ UNCHANGED <<period, retryStep, attempts, outcome>>
    \/ /\ ~IsAlive                            \* a new request replaces the old
       /\ ~(AttemptLimit < attempts)
       /\ upstream' = "sending"
       /\ attempts' = attempts + 1
       /\ timer' = t
       /\ lastUpdate' = "issued"
       /\ UNCHANGED <<period, retryStep, outcome>>
    \/ /\ ~IsAlive                            \* building the request throws
       /\ ~(AttemptLimit < attempts)
       /\ upstream' = "none"
       /\ AfterFailure(t)
       /\ timer' = t
       /\ lastUpdate' = "failed"
       /\ outcome' = "failure"
       /\ UNCHANGED attempts

\* certifier::process_response(q) with the TXT candidates of q, including
\* resolver::find_valid_certificate; ends with upstream_.reset(), which
\* deletes the request whose callback is running.
ProcessResponse(cands) ==
    LET cert == FindValidCertificate(cands) IN
    /\ lastReply' = cands
    /\ upstream' = "none"
    /\ IF cert # NoCert /\ Cipher(cert) # "undefined"
       THEN /\ ready' = TRUE
            /\ installed' = cert
            /\ AfterSuccess(timer)
            /\ outcome' = "success"
       ELSE /\ ready' = FALSE
            /\ UNCHANGED installed
            /\ AfterFailure(timer)
            /\ outcome' = "failure"

-----------------------------------------------------------------------------
(* Actions.                                                                 *)

Init ==
    /\ timer = "armed"               \* constructor: set(min_delay, min_delay)
    /\ period = MinDelay
    /\ retryStep = 0
    /\ attempts = 0
    /\ upstream = "none"
    /\ ready = FALSE
    /\ installed = NoCert
    /\ lastReply = <<>>
    /\ lastUpdate = "none"
    /\ outcome = "none"
    /\ started = FALSE
    /\ useAfterFree = FALSE

\* cresponder::update_certificates() -> certifier::start(), before the
\* event loop runs.
Start ==
    /\ ~started
    /\ started' = TRUE
    /\ Update(timer)
    /\ UNCHANGED <<ready, installed, lastReply, useAfterFree>>

\* The loop finds timer_ expired, re-arms it with its repeat interval and
\* queues its callback: is_pending() holds until the callback runs.
TimerExpires ==
    /\ started
    /\ timer = "armed"
    /\ timer' = "pending"
    /\ UNCHANGED <<period, retryStep, attempts, upstream, ready, installed,
                   lastReply, lastUpdate, outcome, started, useAfterFree>>

\* certifier::retry_timer_callback: libev clears the pending flag before
\* invoking it, so update() sees an active, not pending, timer.
TimerCallback ==
    /\ timer = "pending"
    /\ Update("armed")
    /\ UNCHANGED <<ready, installed, lastReply, started, useAfterFree>>

\* upstream::on_send: fold is a no-op for the plain provider copy; the
\* question is sent, cleared, and receiving starts.
SendOk ==
    /\ upstream = "sending"
    /\ timer # "pending"
    /\ upstream' = "receiving"
    /\ UNCHANGED <<timer, period, retryStep, attempts, ready, installed,
                   lastReply, lastUpdate, outcome, started, useAfterFree>>

\* upstream::on_send, conn.send throws net_error: pass_failure_downstream
\* closes, marks the (still unsent, so DNS) question SERVFAIL and passes it
\* down; get_txt_answer finds no TXT record in it (release build).  The
\* request is deleted by process_response, and on_send then goes on to read
\* this->question() (line 115).
SendFailure ==
    /\ upstream = "sending"
    /\ timer # "pending"
    /\ ProcessResponse(<<>>)
    /\ useAfterFree' = TRUE
    /\ UNCHANGED <<timer, attempts, lastUpdate, started>>

\* upstream::on_receive -> request::pass_answer_downstream -> process_response.
Receive ==
    /\ upstream = "receiving"
    /\ timer # "pending"
    /\ \E cands \in Replies : ProcessResponse(cands)
    /\ UNCHANGED <<timer, attempts, lastUpdate, started, useAfterFree>>

\* upstream::on_receive, conn.receive throws net_error: the question was
\* cleared first, so pass_failure_downstream only closes the request and the
\* certifier is not told.
ReceiveFailure ==
    /\ upstream = "receiving"
    /\ timer # "pending"
    /\ upstream' = "closed"
    /\ UNCHANGED <<timer, period, retryStep, attempts, ready, installed,
                   lastReply, lastUpdate, outcome, started, useAfterFree>>

\* timeout::callback closes the request; the certifier is not told.
UpstreamTimeout ==
    /\ upstream \in Active
    /\ upstream' = "closed"
    /\ UNCHANGED <<timer, period, retryStep, attempts, ready, installed,
                   lastReply, lastUpdate, outcome, started, useAfterFree>>

Next ==
    \/ Start
    \/ TimerExpires
    \/ TimerCallback
    \/ SendOk
    \/ SendFailure
    \/ Receive
    \/ ReceiveFailure
    \/ UpstreamTimeout

\* libev fires expired timers and runs queued callbacks; the request's own
\* timeout timer closes every request that gets no answer.  Nothing forces
\* the provider or the network to answer.
Fairness ==
    /\ WF_vars(Start)
    /\ WF_vars(TimerExpires)
    /\ WF_vars(TimerCallback)
    /\ WF_vars(UpstreamTimeout)

Spec == Init /\ [][Next]_vars /\ Fairness

-----------------------------------------------------------------------------
(* Properties.                                                              *)

TypeOK ==
    /\ timer \in {"armed", "pending", "stopped"}
    /\ period \in Nat
    /\ retryStep \in 0..Steps
    /\ attempts \in 0..(AttemptLimit + 1)
    /\ upstream \in {"none", "sending", "receiving", "closed"}
    /\ ready \in BOOLEAN
    /\ installed \in Certs \cup {NoCert}
    /\ lastReply \in Replies
    /\ lastUpdate \in {"none", "busy", "gaveup", "issued", "failed"}
    /\ outcome \in {"none", "success", "failure"}
    /\ started \in BOOLEAN
    /\ useAfterFree \in BOOLEAN

\* Reference selection, independent of the fold: the valid candidates that
\* no other valid candidate beats on (version, serial), and among those the
\* one that comes last in the answer (spec 4.3: an equal serial supersedes).
Beats(a, b) ==
    \/ Version(a) > Version(b)
    \/ Version(a) = Version(b) /\ a.serial > b.serial

BestOfReply(cands) ==
    LET valid == {i \in 1..Len(cands) : cands[i].valid}
        top   == {i \in valid : \A j \in valid : ~Beats(cands[j], cands[i])}
    IN  IF top = {} THEN NoCert
        ELSE cands[CHOOSE i \in top : \A j \in top : j <= i]

\* find_valid_certificate / process_response: whenever the provider is
\* marked ready, the encryptor holds the most preferred valid certificate of
\* the answer processed last, never one of an older answer or an invalid one.
ReadyUsesBestCertificate ==
    ready => /\ installed # NoCert
             /\ installed = BestOfReply(lastReply)

\* reschedule_query_after_failure: every retry interval set by a failure,
\* however long the run of failures before it, lies in [min_delay,
\* max_delay] (spec 8: from 17s up to 300s across 100 steps, then 300s).
BackoffBounded ==
    [][ (outcome' = "failure" /\ period' # period)
          => MinDelay <= period' /\ period' <= MaxDelay ]_vars

\* certifier::update: unless it has given up, the refresher keeps trying:
\* a request that never gets an answer is closed by its timeout or a
\* receive error, and a later timer tick replaces it.
RefreshNeverWedges ==
    []<>(lastUpdate \in {"issued", "failed"} \/ timer = "stopped")

\* Spec 4.6/5: the refresher gives up only after more than four overlapping
\* outstanding requests; with at most one outstanding at a time it keeps
\* refreshing the certificate for as long as the daemon runs.
KeepsRefreshing ==
    []<>(lastUpdate \in {"issued", "failed"})

\* upstream::on_send: no request callback touches its request object after
\* the certifier's process_response has deleted it.
NoUseAfterReset ==
    ~useAfterFree

=============================================================================
