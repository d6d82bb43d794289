------------------------------- MODULE Options -------------------------------
(***************************************************************************)
(* The daemon's options and its start-up: dns::detail::options            *)
(* (src/dns/srcz/options.cpp) with the options crypt::options adds         *)
(* (src/dns/crypt/srcz/crypt_options.cpp), daemon::setup0                  *)
(* (src/dns/srcz/daemon.cpp) and the logger it sets up                     *)
(* (src/sys/srcz/logger.cpp).                                              *)
(*                                                                         *)
(* parse reads the options from the command line, where getopt_long turns  *)
(* argv into (flag, argument) pairs for apply_option, or, when the only    *)
(* argument does not start with '-', from a configuration file, one       *)
(* "name value" line at a time; both end with options_apply.  getopt_long  *)
(* itself is libc: a command line is the sequence of pairs it returns.     *)
(* The model reads the same settings both ways.                            *)
(*                                                                         *)
(* A word is a sequence of pieces: the lower-case fragments of the long    *)
(* names and their spellings in other cases, the separators "-" and "_",  *)
(* and the characters of values.  ascii_tolower is the constant function   *)
(* OptLower on pieces.  Blanks between words and the text of log lines    *)
(* are left out.                                                           *)
(***************************************************************************)
EXTENDS Integers, Sequences, SequencesExt

CONSTANTS
    OptLower,          \* ascii_tolower, piece by piece
    OptInputs,         \* [file, argv, table]: a configuration file (a sequence of lines,
                       \* a line a sequence of words), the pairs getopt_long returns for
                       \* the same settings, and the settings
    LongLine,          \* a line of 512 characters or more
    DefaultListener,   \* "127.0.0.1:53"
    DefaultResolvers,  \* DEFAULT_RESOLVERS_LIST
    DefaultCryptResolvers, \* DEFAULT_RESOLVERS
    DefaultTimeout     \* 7.5 seconds

VARIABLES
    optIn,    \* <<the input>> both parses read, or OptIdle
    fileRes,  \* what parse made of the file: [r, opts]
    argRes,   \* what parse made of the command line: [r, opts]
    boot,     \* "none" before setup0; "running"; "failed" (an exception ended the
              \* process); "aborted" (a failed assert)
    logger,   \* the logger's severity and syslog flag: [level, syslog]
    stdio     \* where stdout and stderr lead: "console" or "devnull"

optVars == <<optIn, fileRes, argRes, boot, logger, stdio>>

OptIdle == <<>>

\* One entry of struct option: the long name, has_arg, the flag.
LongOpt(name, arg, val) == [name |-> name, arg |-> arg, val |-> val]

\* _long_options_ (the build for POSIX, with daemonize and syslog).
LongOptions ==
    << LongOpt(<<"local", "-", "address">>, 1, "a"), LongOpt(<<"daemonize">>, 0, "d"),
       LongOpt(<<"resolvers", "-", "list">>, 1, "L"), LongOpt(<<"logfile">>, 1, "l"),
       LongOpt(<<"loglevel">>, 1, "m"), LongOpt(<<"exceptions">>, 0, "x"),
       LongOpt(<<"syslog">>, 0, "s"),
       LongOpt(<<"max", "-", "active", "-", "requests">>, 1, "n"),
       LongOpt(<<"user">>, 1, "u"), LongOpt(<<"tcp", "-", "only">>, 0, "t"),
       LongOpt(<<"min", "-", "ttl">>, 1, "M"), LongOpt(<<"onion">>, 1, "O"),
       LongOpt(<<"no", "-", "ipv6">>, 0, "6"), LongOpt(<<"blacklist">>, 1, "B"),
       LongOpt(<<"whitelist">>, 1, "W"), LongOpt(<<"hosts">>, 1, "H"),
       LongOpt(<<"timeout">>, 1, "T"), LongOpt(<<"cachedir">>, 1, "E"),
       LongOpt(<<"version">>, 0, "V"), LongOpt(<<"help">>, 0, "h") >>

\* flags::add: the entry takes the place of the terminating null entry and
\* a new one follows it (the null entry is left out).
FlagsAdd(fl, o) == Append(fl, o)

\* The flags of crypt::options: the five it adds in its constructor.
CryptFlags ==
    FoldLeft(FlagsAdd, LongOptions,
             << LongOpt(<<"crypt", "-", "resolvers">>, 1, "D"),
                LongOpt(<<"server", "-", "pubkey">>, 1, "P"),
                LongOpt(<<"server", "-", "secretkey">>, 1, "S"),
                LongOpt(<<"server", "-", "certificate">>, 1, "C"),
                LongOpt(<<"server", "-", "name">>, 1, "N") >>)

\* A slip: the separator taken out, the case kept.
NormalizeKeepCase(w) ==
    LET i == SelectInSeq(w, LAMBDA p : p \in {"-", "_"})
    IN  IF i = 0 THEN w ELSE RemoveAt(w, i)

\* normalize: the first '-' or '_' taken out, then ascii_tolower.
Normalize(w) ==
    LET i == SelectInSeq(w, LAMBDA p : p \in {"-", "_"})
        v == IF i = 0 THEN w ELSE RemoveAt(w, i)
    IN  [k \in DOMAIN v |-> OptLower[v[k]]]

\* flags::find_option: the index of the first entry whose normalized long
\* name is the word, 0 for nullptr.
FindOption(fl, w) == SelectInSeq(fl, LAMBDA o : Normalize(o.name) = w)

\* options::options and crypt::options::options.
DefaultOptions ==
    [noipv6 |-> FALSE, disable_exceptions |-> FALSE, log_file |-> <<>>,
     max_log_level |-> 6, connections_count_max |-> 250,
     listener_ip |-> DefaultListener, resolvers |-> DefaultResolvers,
     syslog |-> FALSE, daemonize |-> FALSE, net_proto |-> "udp", min_ttl |-> 60,
     timeout |-> DefaultTimeout, user_name |-> <<>>, onion |-> <<>>,
     blacklists |-> {}, whitelists |-> {}, hosts |-> <<>>, cachedir |-> <<>>,
     dnscrypt_resolvers_file |-> DefaultCryptResolvers, server_pubkey_file |-> <<>>,
     server_secretkey_file |-> <<>>, server_certificate_file |-> <<>>,
     server_hostname |-> <<>>]

\* The result of apply_option or parse: "ok", "stop" (apply_option returned
\* false: help or version) or "throw" (runtime_error).
Applied(o) == [r |-> "ok", opts |-> o]
Threw(o) == [r |-> "throw", opts |-> o]

-----------------------------------------------------------------------------
(* Numbers.                                                                 *)

DigitValue ==
    "0" :> 0 @@ "1" :> 1 @@ "2" :> 2 @@ "3" :> 3 @@ "4" :> 4 @@ "5" :> 5
    @@ "6" :> 6 @@ "7" :> 7 @@ "8" :> 8 @@ "9" :> 9

\* The decimal digits of v from i on: their value and the index after them.
RECURSIVE DigitsFrom(_, _, _)
DigitsFrom(v, i, n) ==
    IF i <= Len(v) /\ v[i] \in DOMAIN DigitValue
    THEN DigitsFrom(v, i + 1, 10 * n + DigitValue[v[i]])
    ELSE [n |-> n, end |-> i]

\* strtol (and atoi, atof) in base 10 on a word (no leading blanks): an
\* optional sign and digits; with no digit, 0 and endptr at the start.
\* The values read are far below LONG_MAX, so the clamp is not reached.
StrToNum(v) ==
    LET s == IF Len(v) > 0 /\ v[1] \in {"-", "+"} THEN 2 ELSE 1
        d == DigitsFrom(v, s, 0)
    IN  IF d.end = s THEN [n |-> 0, end |-> 1]
        ELSE [n |-> IF v[1] = "-" THEN -d.n ELSE d.n, end |-> d.end]

\* A slip: the value stored without the cast.
UShortUnwrapped(n) == n

\* static_cast<unsigned short>.
UShort(n) == n % 65536

\* The checks of 'm' and 'n': an empty argument, or one endptr does not
\* reach the end of.
BadNumber(v, p) == v = <<>> \/ p.end <= Len(v)

-----------------------------------------------------------------------------
(* apply_option, parse, options_apply.                                      *)

\* The options that store their argument, and the switches.
StringOption ==
    "a" :> "listener_ip" @@ "l" :> "log_file" @@ "L" :> "resolvers" @@ "u" :> "user_name"
    @@ "O" :> "onion" @@ "H" :> "hosts" @@ "E" :> "cachedir"
    @@ "D" :> "dnscrypt_resolvers_file" @@ "P" :> "server_pubkey_file"
    @@ "S" :> "server_secretkey_file" @@ "C" :> "server_certificate_file"
    @@ "N" :> "server_hostname"
SwitchOption == "d" :> "daemonize" @@ "s" :> "syslog" @@ "x" :> "disable_exceptions" @@ "6" :> "noipv6"

\* 'n' with the result p of strtoul: a negative number wraps to more than
\* UINT_MAX and is refused like 0.
MaxActive(o, arg, p) ==
    IF BadNumber(arg, p) \/ p.n <= 0 THEN Threw(o)
    ELSE Applied([o EXCEPT !.connections_count_max = p.n])

\* 'm' with the result p of strtol.
LogLevel(o, arg, p) ==
    IF BadNumber(arg, p) \/ p.n < 0 THEN Threw(o)
    ELSE Applied([o EXCEPT !.max_log_level = UShort(p.n)])

\* crypt::options::apply_option, falling through to
\* dns::detail::options::apply_option.  The values enumerated for 'T' have
\* no fraction, so atof reads what strtol reads.
ApplyOption(o, f, arg) ==
    CASE f \in DOMAIN StringOption -> Applied([o EXCEPT ![StringOption[f]] = arg])
      [] f \in DOMAIN SwitchOption -> Applied([o EXCEPT ![SwitchOption[f]] = TRUE])
      [] f = "t" -> Applied([o EXCEPT !.net_proto = "tcp"])
      [] f = "B" -> Applied([o EXCEPT !.blacklists = @ \cup {arg}])
      [] f = "W" -> Applied([o EXCEPT !.whitelists = @ \cup {arg}])
      [] f = "m" -> LogLevel(o, arg, StrToNum(arg))
      [] f = "n" -> MaxActive(o, arg, StrToNum(arg))
      [] f = "M" -> Applied([o EXCEPT !.min_ttl = UShort(StrToNum(arg).n)])
      [] f = "T" -> Applied([o EXCEPT !.timeout = StrToNum(arg).n])
      [] f \in {"h", "V"} -> [r |-> "stop", opts |-> o]
      [] OTHER -> Threw(o)

\* options_apply: daemonize without a log file turns syslog on; a log file
\* and syslog together throw.
OptionsApplyTo(o) ==
    IF o.log_file # <<>> /\ o.syslog THEN Threw(o) ELSE Applied(o)
\* A slip: daemonize left without a place to log.
OptionsApplyNoDaemon(o) == OptionsApplyTo(o)

OptionsApply(o) ==
    OptionsApplyTo(IF o.daemonize /\ o.log_file = <<>> THEN [o EXCEPT !.syslog = TRUE] ELSE o)

\* parse's getopt_long loop: each pair applied until apply_option returns
\* false (parse returns false) or throws; then options_apply.
ArgStep(res, p) == IF res.r = "ok" THEN ApplyOption(res.opts, p.flag, p.arg) ELSE res
ParseArgsWith(res) == IF res.r = "ok" THEN OptionsApply(res.opts) ELSE res
ParseArgs(argv) == ParseArgsWith(FoldLeft(ArgStep, Applied(DefaultOptions), argv))

\* The words "no", "off" and "false", which turn a switch off in a file.
OffWords == {<<"n", "o">>, <<"o", "f", "f">>, <<"f", "a", "l", "s", "e">>}

\* The line's option at index i (0: no such option), with the next word
\* arg: skipped when unknown or a switch given an off word; help and
\* version log a warning and the loop goes on.
OptionLine(res, i, arg) ==
    IF i = 0 \/ (CryptFlags[i].arg = 0 /\ arg \in OffWords) THEN res
    ELSE LET a == ApplyOption(res.opts, CryptFlags[i].val, arg)
         IN  IF a.r = "stop" THEN Applied(a.opts) ELSE a

\* One line of parse_file: empty lines, comments and lines of 512
\* characters or more are skipped; the first word is normalized and
\* looked up, the second is its value ("" when there is none).
FileLine(res, l) ==
    IF res.r # "ok" \/ l = LongLine \/ l = <<>> \/ l[1][1] = "#" THEN res
    ELSE OptionLine(res, FindOption(CryptFlags, Normalize(l[1])),
                    IF Len(l) >= 2 THEN l[2] ELSE <<>>)

\* parse of a configuration file: parse_file, then options_apply.
ParseFile(lines) == ParseArgsWith(FoldLeft(FileLine, Applied(DefaultOptions), lines))

-----------------------------------------------------------------------------
(* setup0 and the logger.                                                   *)

\* logger_init: the severity (the log level cast to process::log::severity)
\* and the syslog flag, in both the sys statics and process::log's; syslog
\* is opened when the flag is set.
LoggerInit(loglevel, syslog) == [level |-> loglevel, syslog |-> syslog]

\* The logger before logger_init: info, no syslog.
DefaultLogger == [level |-> 6, syslog |-> FALSE]

\* The end of setup0 with the logger lg: floating-point exceptions (no
\* state here), then, under daemonize, the assert that syslog or a log file
\* was chosen and do_daemonize: fork (the parent exits), setsid, and the
\* descriptors 0, 1 and 2 on /dev/null; fork or setsid may fail and throw.
Daemonize(o, lg) ==
    /\ logger' = lg
    /\ IF ~o.daemonize THEN boot' = "running" /\ UNCHANGED stdio
       ELSE IF ~(o.syslog \/ o.log_file # <<>>) THEN boot' = "aborted" /\ UNCHANGED stdio
       ELSE \/ boot' = "failed" /\ UNCHANGED stdio
            \/ boot' = "running" /\ stdio' = "devnull"

\* daemon::setup0 with the options o: with a log file, the assert that
\* syslog is off and fopen (which may fail and throw), and the logger left
\* as it is (the call to logger_init is commented out); without one,
\* logger_init with the log level and the syslog flag.
Setup0With(o) ==
    IF o.log_file # <<>>
    THEN IF o.syslog THEN boot' = "aborted" /\ UNCHANGED <<logger, stdio>>
         ELSE \/ boot' = "failed" /\ UNCHANGED <<logger, stdio>>
              \/ Daemonize(o, logger)
    ELSE Daemonize(o, LoggerInit(o.max_log_level, o.syslog))

-----------------------------------------------------------------------------

OptInit ==
    /\ optIn = OptIdle
    /\ fileRes = Applied(DefaultOptions)
    /\ argRes = Applied(DefaultOptions)
    /\ boot = "none"
    /\ logger = DefaultLogger
    /\ stdio = "console"

\* parse of the same settings from a file and from a command line.
ParseOptions(in) ==
    /\ optIn = OptIdle
    /\ optIn' = <<in>>
    /\ fileRes' = ParseFile(in.file)
    /\ argRes' = ParseArgs(in.argv)
    /\ UNCHANGED <<boot, logger, stdio>>

\* daemon::set_options: setup0 once parse returned true, for the options
\* of either input.
Setup0 ==
    /\ optIn # OptIdle
    /\ boot = "none"
    /\ \E res \in {fileRes, argRes} : res.r = "ok" /\ Setup0With(res.opts)
    /\ UNCHANGED <<optIn, fileRes, argRes>>

OptNext == (\E in \in OptInputs : ParseOptions(in)) \/ Setup0

OptSpec == OptInit /\ [][OptNext]_optVars

-----------------------------------------------------------------------------
(* Properties.                                                              *)

OptTypeOK ==
    /\ fileRes.r \in {"ok", "throw"}
    /\ argRes.r \in {"ok", "stop", "throw"}
    /\ boot \in {"none", "running", "failed", "aborted"}
    /\ logger.level \in 0..65535 /\ logger.syslog \in BOOLEAN
    /\ stdio \in {"console", "devnull"}

\* setup0 asserts that a log file and syslog are not both chosen, and that
\* a daemon has syslog or a log file to log to (its stdout and stderr go to
\* /dev/null).  Neither assert fails for options parse accepted, from a
\* file or a command line, whatever the order of the settings: that rests
\* on options_apply, run after the last setting.
SetupAssertsHold == boot # "aborted"

\* A configuration file and a command line holding the same settings give
\* the daemon the same options, or both throw.  The file path goes
\* through normalize and find_option (names in any case, "_" for the first
\* "-"), skips switches set to no, off or false, and gives an option
\* without a value the empty string; the command line has getopt_long.
\* Help or version on the command line make parse return false, and the
\* daemon does not start.
FileAgreesWithCommandLine ==
    optIn # OptIdle /\ argRes.r # "stop" =>
        /\ fileRes.r = argRes.r
        /\ argRes.r = "ok" => fileRes.opts = argRes.opts

====
