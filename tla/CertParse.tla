------------------------------ MODULE CertParse ------------------------------
(***************************************************************************)
(* What certifier::process_response (src/dns/crypt/srcz/certifier.cpp)     *)
(* does with the answer to a certificate query, down to the bytes it      *)
(* trusts:                                                                 *)
(*   query::get_txt_answer and find_txt_answers (src/dns/srcz/query.cpp)  *)
(*     take the rdata of every TXT record of class IN and drop its first  *)
(*     byte, the length of the one character-string;                      *)
(*   the certificate constructor (src/dns/crypt/srcz/certificate.cpp)     *)
(*     parses each candidate: length, cert_parse_version, the ed25519     *)
(*     signature under the provider's signing key, the payload length,    *)
(*     the validity window against std::time;                             *)
(*   resolver::find_valid_certificate keeps the most preferred one and    *)
(*     installs its magic, cipher and server key in the encryptor.        *)
(* Certifier abstracts all of this to a `valid' flag; here it is the     *)
(* subject.  The scheduling around it (reschedules, the upstream request) *)
(* is Certifier's.                                                         *)
(*                                                                         *)
(* A candidate is a record of the fields the code reads, not of bytes:    *)
(* its length, the version header (magic "DNSC" or not, major and minor   *)
(* as two bytes each), who signed the rest and how long the signed        *)
(* payload is, and the payload's fields.  libsodium is perfect: the       *)
(* signature opens exactly when the provider's key made it over bytes     *)
(* that are all there.  The answer is its question count, whether its     *)
(* question parses, and its records; a record get_rr rejects (running     *)
(* past the message) has ok = FALSE.  An exception no handler catches, or *)
(* a failed assert, ends the daemon ("crashed"): process_response runs    *)
(* inside upstream::on_receive, which catches only net_error.             *)
(***************************************************************************)
EXTENDS Integers, Sequences, SequencesExt

CONSTANTS
    ProviderSignKey,  \* resolver::public_key(): the provider's signing key
    WeakKeys,         \* server keys crypto_box_beforenm refuses
    TxtAnswers,       \* answers the provider, or anyone on the path, may send
    MaxNow            \* the last second of std::time the model reaches

VARIABLES
    certBuild,     \* "release" (NDEBUG) or "debug"
    ephemeral,     \* the encryptor's ephemeral_keys option
    certNow,       \* std::time(NULL)
    certReady,     \* resolver::ready_
    encMagic,      \* encryptor: data_.magic_query
    encCipher,     \* encryptor: data_.cipher
    encKey,        \* the server key behind data_.nmkey or data_.publickey
    certOutcome,   \* how the last process_response ended
    lastTxt,       \* history: the answer processed last
    lastNow        \* history: the second it was processed in

certVars == <<certBuild, ephemeral, certNow, certReady, encMagic, encCipher, encKey,
              certOutcome, lastTxt, lastNow>>

NoCert == [none |-> TRUE]
NoMagic == "none"

VersionSize == 8        \* sizeof(class version)
SignatureSize == 64     \* crypto_sign_BYTES
CertDataSize == 52      \* sizeof(certificate_data)
MaxCertLen == 65000

\* detail::cert_parse_version: the magic "DNSC" and major 0.1 or 0.2.
CertParseVersion(b) == b.magic = "DNSC" /\ b.major[1] = 0 /\ b.major[2] \in {1, 2}

\* crypto_sign_ed25519_open over the bytes after the version header: it
\* opens when the provider's key signed exactly these bytes, and reports
\* the payload length, or 0 when it fails.
Opens(b) == b.signer = ProviderSignKey /\ b.len = VersionSize + SignatureSize + b.plen
OpenedLength(b) == IF Opens(b) THEN b.plen ELSE 0

\* The certificate constructor's checks in their order: "invalid"
\* (invalid_certificate), "abort" (the assert on the payload length, kept
\* in a debug build) or "ok".  ts() reads ts_begin and ts_end back in host
\* order, so the window compares the numbers the provider wrote.
CertificateStatusEndInclusive(b, now, build) ==
    CASE b.len > MaxCertLen \/ b.len < VersionSize -> "invalid"
      [] ~CertParseVersion(b) -> "invalid"
      [] OpenedLength(b) < CertDataSize -> "invalid"
      [] ~Opens(b) -> "invalid"
      [] build = "debug" /\ OpenedLength(b) # CertDataSize -> "abort"
      [] b.tsEnd <= b.tsBegin \/ now < b.tsBegin \/ now >= b.tsEnd -> "invalid"
      [] OTHER -> "ok"

CertificateStatus(b, now, build) ==
    CASE b.len > MaxCertLen \/ b.len < VersionSize -> "invalid"
      [] ~CertParseVersion(b) -> "invalid"
      [] OpenedLength(b) < CertDataSize -> "invalid"
      [] ~Opens(b) -> "invalid"
      [] build = "debug" /\ OpenedLength(b) # CertDataSize -> "abort"
      [] b.tsEnd <= b.tsBegin \/ now < b.tsBegin \/ now > b.tsEnd -> "invalid"
      [] OTHER -> "ok"

\* certificate::version(): the four version bytes, most significant first.
CertVersion(b) == ((b.major[1] * 256 + b.major[2]) * 256 + b.minor[1]) * 256 + b.minor[2]

\* certificate::is_preferred_over: a higher version wins; on an equal
\* version the previous one is kept only if its serial is higher.
IsPreferredOver(c, previous) ==
    \/ CertVersion(previous) < CertVersion(c)
    \/ CertVersion(previous) = CertVersion(c) /\ ~(previous.serial > c.serial)

\* certificate::cipher(): by the second major byte.
CertCipher(b) == CASE b.major[2] = 1 -> "xsalsa20poly1305"
                   [] b.major[2] = 2 -> "xchacha20poly1305"
                   [] OTHER -> "undefined"

\* One turn of find_valid_certificate's loop: a candidate that throws
\* invalid_certificate is skipped; an assert ends the daemon.
PickStep(acc, b, now, build) ==
    LET s == CertificateStatus(b, now, build) IN
    CASE acc.abort \/ s = "invalid" -> acc
      [] s = "abort" -> [acc EXCEPT !.abort = TRUE]
      [] OTHER -> IF acc.cert = NoCert \/ IsPreferredOver(b, acc.cert)
                  THEN [acc EXCEPT !.cert = b] ELSE acc

FoldCandidates(cands, now, build) ==
    FoldLeft(LAMBDA acc, b : PickStep(acc, b, now, build),
             [cert |-> NoCert, abort |-> FALSE], cands)

\* query::find_txt_answers: its asserts on the counts, get_rr_question and
\* get_rr for every record ("throw" on a record past the message), then
\* get_txt_answer's assert that the rdata is one character-string.
IsTxt(rr) == rr.type = "TXT" /\ rr.class = 1

TxtStatus(t, build) ==
    CASE build = "debug" /\ (Len(t.rrs) < 1 \/ t.qdcount # 1) -> "abort"
      [] t.qdcount > 0 /\ ~t.qok -> "throw"
      [] \E i \in 1..Len(t.rrs) : ~t.rrs[i].ok -> "throw"
      [] build = "debug" /\ \E i \in 1..Len(t.rrs) :
             IsTxt(t.rrs[i]) /\ t.rrs[i].lenByte # t.rrs[i].blob.len -> "abort"
      [] OTHER -> "ok"

GetTxtAnswer(t) == [i \in 1..Len(SelectSeq(t.rrs, IsTxt)) |-> SelectSeq(t.rrs, IsTxt)[i].blob]

\* certificate::print_info's asserts, kept in a debug build: ts_begin > 0
\* (ts_end >= ts_begin holds after the constructor).
PrintInfoAborts(b, build) == build = "debug" /\ b.tsBegin = 0

\* encryptor::set_resolver_publickey: in persistent-key mode
\* crypto_box_beforenm (or its XChaCha20 form) refuses a weak server key;
\* with ephemeral keys it only stores the key.
SetResolverPublicKeyFails(eph, key) == ~eph /\ key \in WeakKeys

\* resolver::find_valid_certificate with what it calls after the loop:
\* "none" when no candidate is left (or its cipher is undefined), "abort"
\* on an assert (the loop's, or print_info's ts_begin > 0), "weak" when
\* set_resolver_publickey fails (only crypto_box_beforenm can, in
\* persistent-key mode) and it throws "Suspicious public key", else "found".
FindValidCertificateNoEmptyCheck(cands, now, build, eph) ==
    LET r == FoldCandidates(cands, now, build) IN
    CASE r.abort -> [status |-> "abort", cert |-> r.cert]
      [] r.cert = NoCert -> [status |-> "abort", cert |-> NoCert]
      [] CertCipher(r.cert) = "undefined" -> [status |-> "none", cert |-> NoCert]
      [] PrintInfoAborts(r.cert, build) -> [status |-> "abort", cert |-> r.cert]
      [] SetResolverPublicKeyFails(eph, r.cert.key) -> [status |-> "weak", cert |-> r.cert]
      [] OTHER -> [status |-> "found", cert |-> r.cert]

FindValidCertificate(cands, now, build, eph) ==
    LET r == FoldCandidates(cands, now, build) IN
    CASE r.abort -> [status |-> "abort", cert |-> r.cert]
      [] r.cert = NoCert -> [status |-> "none", cert |-> NoCert]
      [] CertCipher(r.cert) = "undefined" -> [status |-> "none", cert |-> NoCert]
      [] PrintInfoAborts(r.cert, build) -> [status |-> "abort", cert |-> r.cert]
      [] SetResolverPublicKeyFails(eph, r.cert.key) -> [status |-> "weak", cert |-> r.cert]
      [] OTHER -> [status |-> "found", cert |-> r.cert]

-----------------------------------------------------------------------------

CertInit ==
    /\ certBuild \in {"release", "debug"}
    /\ ephemeral \in BOOLEAN
    /\ certNow = 0
    /\ certReady = FALSE
    /\ encMagic = NoMagic
    /\ encCipher = "undefined"
    /\ encKey = NoMagic
    /\ certOutcome = "start"
    /\ lastTxt = [qdcount |-> 0, qok |-> TRUE, rrs |-> <<>>]
    /\ lastNow = 0

\* The clock moves on between two answers.
CertTick ==
    /\ certOutcome # "crashed"
    /\ certNow < MaxNow
    /\ certNow' = certNow + 1
    /\ UNCHANGED <<certBuild, ephemeral, certReady, encMagic, encCipher, encKey,
                   certOutcome, lastTxt, lastNow>>

\* certifier::process_response(t): get_txt_answer, then
\* find_valid_certificate, which first clears ready_ and, once it has a
\* certificate, sets the encryptor's magic and cipher before its key.
ProcessTxt(t) ==
    /\ certOutcome # "crashed"
    /\ lastTxt' = t
    /\ lastNow' = certNow
    /\ LET f == FindValidCertificate(GetTxtAnswer(t), certNow, certBuild, ephemeral) IN
       IF TxtStatus(t, certBuild) # "ok"
       THEN /\ certOutcome' = "crashed"
            /\ UNCHANGED <<certReady, encMagic, encCipher, encKey>>
       ELSE CASE f.status \in {"none", "abort"} ->
                     /\ certOutcome' = IF f.status = "none" THEN "none" ELSE "crashed"
                     /\ certReady' = FALSE
                     /\ UNCHANGED <<encMagic, encCipher, encKey>>
              [] f.status = "weak" ->
                     /\ certOutcome' = "crashed"
                     /\ certReady' = FALSE
                     /\ encMagic' = f.cert.magicQ
                     /\ encCipher' = CertCipher(f.cert)
                     /\ UNCHANGED encKey
              [] OTHER ->
                     /\ certOutcome' = "found"
                     /\ certReady' = TRUE
                     /\ encMagic' = f.cert.magicQ
                     /\ encCipher' = CertCipher(f.cert)
                     /\ encKey' = f.cert.key
    /\ UNCHANGED <<certBuild, ephemeral, certNow>>

CertNext ==
    \/ CertTick
    \/ \E t \in TxtAnswers : ProcessTxt(t)

CertSpec == CertInit /\ [][CertNext]_certVars

-----------------------------------------------------------------------------

\* Spec 4.3, parse, stated on the candidate's fields: a length in
\* [8, 65000], magic "DNSC", major version 1 or 2, a signature that
\* verifies under the provider's key over a payload of at least 52 bytes,
\* ts_begin < ts_end and the current second inside [ts_begin, ts_end].
SpecParses(b, now) ==
    /\ VersionSize <= b.len /\ b.len <= MaxCertLen
    /\ b.magic = "DNSC"
    /\ b.major[1] * 256 + b.major[2] \in {1, 2}
    /\ Opens(b) /\ b.plen >= CertDataSize
    /\ b.tsBegin < b.tsEnd
    /\ b.tsBegin <= now /\ now <= b.tsEnd

\* Spec 4.3, is_preferred_over: (version, serial) ordered lexicographically.
Outranks(a, b) ==
    \/ CertVersion(a) > CertVersion(b)
    \/ CertVersion(a) = CertVersion(b) /\ a.serial > b.serial

\* Spec 4.6, on_response: the candidates are the TXT data of the answer;
\* among those that parse, the most preferred, the later one on a tie.
SpecBest(t, now) ==
    LET cs  == [i \in 1..Len(SelectSeq(t.rrs, IsTxt)) |-> SelectSeq(t.rrs, IsTxt)[i].blob]
        ok  == {i \in 1..Len(cs) : SpecParses(cs[i], now)}
        top == {i \in ok : \A j \in ok : ~Outranks(cs[j], cs[i])}
    IN  IF top = {} THEN NoCert ELSE cs[Max(top)]

\* find_valid_certificate, after process_response has handled an answer
\* without ending the daemon: the provider is ready exactly when some TXT
\* candidate passes spec 4.3 at that second, and the encryptor then holds
\* the magic, the cipher of the version and the server key of the most
\* preferred one (spec 4.6).
CertInstallMatchesSpec ==
    certOutcome \in {"found", "none"} =>
        /\ certReady = (SpecBest(lastTxt, lastNow) # NoCert)
        /\ certReady => /\ encMagic = SpecBest(lastTxt, lastNow).magicQ
                        /\ encKey = SpecBest(lastTxt, lastNow).key
                        /\ encCipher = CertCipher(SpecBest(lastTxt, lastNow))

\* A release build of the daemon ends on a certificate answer only when a
\* record of it runs past the message (get_rr's runtime_error escapes
\* upstream::on_receive) or when it carries a certificate signed with the
\* provider's key whose server key crypto_box_beforenm refuses: an answer
\* forged without the signing key, but well formed, never ends it.
ReleaseCrashNeedsMalformedOrSigned ==
    certOutcome = "crashed" /\ certBuild = "release" =>
        \/ lastTxt.qdcount > 0 /\ ~lastTxt.qok
        \/ \E i \in 1..Len(lastTxt.rrs) : ~lastTxt.rrs[i].ok
        \/ \E i \in 1..Len(lastTxt.rrs) : Opens(lastTxt.rrs[i].blob)
                                          /\ lastTxt.rrs[i].blob.key \in WeakKeys

=============================================================================
