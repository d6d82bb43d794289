------------------------------- MODULE Filter -------------------------------
(***************************************************************************)
(* The domain filter of src/dns/srcz/filter.cpp: the blacklist and the     *)
(* whitelist the responder consults in pre_filter.                          *)
(*                                                                         *)
(* A filter file is a list of words; each word becomes an entry of one of  *)
(* four kinds: exact "host", suffix ".dom" or "*.dom", prefix "pre*",      *)
(* substring "*sub*".  filter keeps them pruned: prefix_ (ordered by comp) *)
(* and suffix_ (ordered by rev_comp) hold no word that extends another, so  *)
(* that match can test only the greatest word not above the host name      *)
(* (upper_bound and prev); optimize drops entries another kind covers.    *)
(* responder::reload builds an empty filter and merges one file after      *)
(* another into it.                                                        *)
(*                                                                         *)
(* Strings are sequences of one-character strings, compared by their      *)
(* ASCII codes as std::lexicographical_compare does.  Host names are lower  *)
(* case already (ascii_tolower is the identity on this alphabet).          *)
(***************************************************************************)
EXTENDS Naturals, Sequences, SequencesExt, FiniteSetsExt

CONSTANTS
    Files,     \* the filter files reload may merge, each a sequence of words
    Hosts,     \* the host names match is asked about
    MaxFiles   \* the most files merged since the last reload

VARIABLES
    filter,    \* [prefix, suffix, subs, exact]: the four sets of dns::filter
    entries,   \* history: the entries of every word read since the reload
    merged     \* files merged since the last reload

vars == <<filter, entries, merged>>

\* The ASCII code of each character the model uses.
Ord(c) == CASE c = "#" -> 35 [] c = "*" -> 42 [] c = "." -> 46
            [] c = "a" -> 97 [] c = "b" -> 98 [] c = "c" -> 99

Dot == <<".">>

-----------------------------------------------------------------------------
(* Orders and containment.                                                 *)

\* std::lexicographical_compare: comp orders the words of prefix_.
RECURSIVE LexLess(_, _)
LexLess(a, b) ==
    IF b = <<>> THEN FALSE
    ELSE IF a = <<>> THEN TRUE
    ELSE IF a[1] # b[1] THEN Ord(a[1]) < Ord(b[1])
    ELSE LexLess(Tail(a), Tail(b))

\* The two comparators: comp orders the words of prefix_, rev_comp (the same
\* on the reversed strings) those of suffix_.
Less(cmp, a, b) == IF cmp = "comp" THEN LexLess(a, b) ELSE LexLess(Reverse(a), Reverse(b))

\* detail::contains<Cmp>(longer, shorter): a prefix for comp, a suffix for
\* rev_comp.
Extends(cmp, longer, shorter) ==
    IF cmp = "comp" THEN IsPrefix(shorter, longer) ELSE IsSuffix(shorter, longer)

\* str.find(s) != npos, for a non-empty s.
Occurs(s, str) == s \in SubSeqs(str)

Greatest(cmp, S) == CHOOSE x \in S : \A y \in S : ~Less(cmp, x, y)
Least(cmp, S) == CHOOSE x \in S : \A y \in S : ~Less(cmp, y, x)

-----------------------------------------------------------------------------
(* The set operations of namespace dns::detail.                            *)

\* words_match: the word just below upper_bound(str) must be contained in
\* str.
WordsMatch(cmp, words, str) ==
    LET notAbove == {w \in words : ~Less(cmp, str, w)}
    IN  notAbove # {} /\ Extends(cmp, str, Greatest(cmp, notAbove))

\* The erase loop of words_insert: erase the successors of w that contain
\* it, stopping at the first that does not.
RECURSIVE EraseExtensions(_, _, _)
EraseExtensions(cmp, words, w) ==
    LET above == {x \in words : Less(cmp, w, x)}
    IN  IF above = {} THEN words
        ELSE LET n == Least(cmp, above)
             IN  IF Extends(cmp, n, w)
                 THEN EraseExtensions(cmp, words \ {n}, w)
                 ELSE words

\* A slip: the new word is kept but the words extending it are not erased.
WordsInsertKeepLonger(cmp, words, w) ==
    LET below == {x \in words : Less(cmp, x, w)}
    IN  IF w \in words \/ (below # {} /\ Extends(cmp, w, Greatest(cmp, below)))
        THEN words
        ELSE words \cup {w}

\* words_insert: insert w; if it is new and its predecessor is contained in
\* it, erase it again, else erase the words that extend it.
WordsInsert(cmp, words, w) ==
    LET below == {x \in words : Less(cmp, x, w)}
    IN  IF w \in words \/ (below # {} /\ Extends(cmp, w, Greatest(cmp, below)))
        THEN words
        ELSE EraseExtensions(cmp, words \cup {w}, w)

\* substr_match.
SubstrMatch(subs, str) == \E s \in subs : Len(str) >= Len(s) /\ Occurs(s, str)

\* substr_insert: nothing if w contains a kept substring; else the kept
\* substrings that contain w are replaced by w.  (The loop meets them in
\* hash order; since no kept substring contains another, the first one
\* met decides the same way whatever the order.)
SubstrInsert(subs, w) ==
    IF \E i \in subs : Occurs(i, w) THEN subs
    ELSE {i \in subs : ~Occurs(w, i)} \cup {w}

-----------------------------------------------------------------------------
(* dns::filter.                                                            *)

EmptyFilter == [prefix |-> {}, suffix |-> {}, subs |-> {}, exact |-> {}]

LeadDot(s) == IF s # <<>> /\ s[1] = "." THEN s ELSE Dot \o s
TrailDot(s) == IF s # <<>> /\ Last(s) = "." THEN s ELSE s \o Dot
DropLeadDot(s) == IF s # <<>> /\ s[1] = "." THEN Tail(s) ELSE s

\* filter::optimize: drop the suffixes and the prefixes a substring covers,
\* then the exact names a (remaining) suffix, a substring or a prefix
\* covers.
Optimize(f) ==
    LET sfx == {d \in f.suffix : ~SubstrMatch(f.subs, TrailDot(d))}
        pfx == {d \in f.prefix : ~SubstrMatch(f.subs, LeadDot(d))}
        Covered(w) ==
            \/ WordsMatch("rev_comp", sfx, LeadDot(w))
            \/ SubstrMatch(f.subs, TrailDot(LeadDot(w)))
            \/ WordsMatch("comp", pfx, DropLeadDot(TrailDot(LeadDot(w))))
    IN  [prefix |-> pfx, suffix |-> sfx, subs |-> f.subs,
         exact |-> {w \in f.exact : ~Covered(w)}]

\* A slip: a word that is only stars ("*", "**") kept as an empty entry.
EntryKeepEmpty(word) ==
    LET n == Len(word)
        body == IF word[1] = "*" THEN Tail(word) ELSE word
    IN  CASE word[1] = "#" -> [kind |-> "skip", text |-> word]
          [] word[1] = "*" /\ word[n] = "*" ->
                 [kind |-> "substring", text |-> SubSeq(word, 2, n - 1)]
          [] word[n] = "*" -> [kind |-> "prefix", text |-> Front(word)]
          [] body # <<>> /\ body[1] = "." -> [kind |-> "suffix", text |-> body]
          [] OTHER -> [kind |-> "exact", text |-> body]

\* The classification of one word in the constructor's loop.  A comment,
\* and a word that is empty once its stars are taken off, give "skip".
\* A leading star without a following dot ("*ab") leaves an exact name
\* (the assert on it is compiled out of a release build).
Entry(word) ==
    LET n == Len(word)
        body == IF word[1] = "*" THEN Tail(word) ELSE word
        e == CASE word[1] = "#" -> [kind |-> "skip", text |-> word]
               [] word[1] = "*" /\ word[n] = "*" ->
                      [kind |-> "substring", text |-> SubSeq(word, 2, n - 1)]
               [] word[n] = "*" -> [kind |-> "prefix", text |-> Front(word)]
               [] body # <<>> /\ body[1] = "." -> [kind |-> "suffix", text |-> body]
               [] OTHER -> [kind |-> "exact", text |-> body]
    IN  IF e.text = <<>> THEN [kind |-> "skip", text |-> word] ELSE e

\* The insertion of one entry into the filter being read.
Insert(f, e) ==
    CASE e.kind = "exact" -> [f EXCEPT !.exact = @ \cup {e.text}]
      [] e.kind = "suffix" -> [f EXCEPT !.suffix = WordsInsert("rev_comp", @, e.text)]
      [] e.kind = "prefix" -> [f EXCEPT !.prefix = WordsInsert("comp", @, e.text)]
      [] e.kind = "substring" -> [f EXCEPT !.subs = SubstrInsert(@, e.text)]
      [] OTHER -> f

\* filter::filter(istream): read every word, then optimize.
FilterOf(words) ==
    Optimize(FoldLeft(LAMBDA f, w : Insert(f, Entry(w)), EmptyFilter, words))

\* filter::merge: take the other's set where this one's is empty, else
\* insert its words one by one; then optimize.
MergeFilters(f, o) ==
    LET Into(mine, theirs, Add(_, _)) ==
            IF mine = {} THEN theirs ELSE FoldSet(LAMBDA w, acc : Add(acc, w), mine, theirs)
    IN  Optimize([prefix |-> Into(f.prefix, o.prefix,
                                  LAMBDA s, w : WordsInsert("comp", s, w)),
                  suffix |-> Into(f.suffix, o.suffix,
                                  LAMBDA s, w : WordsInsert("rev_comp", s, w)),
                  subs |-> Into(f.subs, o.subs, SubstrInsert),
                  exact |-> f.exact \cup o.exact])

\* filter::match of a non-empty host name (not longer than 1024): drop one
\* trailing dot, try exact; with a leading dot, the suffixes; with a
\* trailing dot too, the substrings; without the leading dot, the prefixes.
Lowered(h) == IF Len(h) > 1 /\ Last(h) = "." THEN Front(h) ELSE h

Match(f, h) ==
    LET low == Lowered(h)
        d == LeadDot(low)
        dd == TrailDot(d)
    IN  \/ low \in f.exact
        \/ WordsMatch("rev_comp", f.suffix, d)
        \/ SubstrMatch(f.subs, dd)
        \/ WordsMatch("comp", f.prefix, DropLeadDot(dd))

-----------------------------------------------------------------------------

Init ==
    /\ filter = EmptyFilter
    /\ entries = {}
    /\ merged = 0

\* responder::reload: a fresh empty filter (make_shared<filter>()).
Reload ==
    /\ merged > 0
    /\ filter' = EmptyFilter
    /\ entries' = {}
    /\ merged' = 0

\* responder::reload: merge(filter(fn)) for the next file fn.
MergeFile(words) ==
    /\ merged < MaxFiles
    /\ filter' = MergeFilters(filter, FilterOf(words))
    /\ entries' = entries \cup {Entry(words[i]) : i \in 1..Len(words)}
    /\ merged' = merged + 1

Next == Reload \/ \E words \in Files : MergeFile(words)

Spec == Init /\ [][Next]_vars

-----------------------------------------------------------------------------
(* Properties.                                                              *)

\* What an entry of a filter file means, on the forms of the host name that
\* match builds, without the pruning and the ordered lookup.
EntryMatches(e, h) ==
    LET low == Lowered(h)
        dd == TrailDot(LeadDot(low))
    IN  CASE e.kind = "exact" -> e.text = low
          [] e.kind = "suffix" -> IsSuffix(e.text, LeadDot(low))
          [] e.kind = "substring" -> Occurs(e.text, dd)
          [] e.kind = "prefix" -> IsPrefix(e.text, DropLeadDot(dd))
          [] OTHER -> FALSE

\* Types; no set of the filter holds an empty word (an empty substring
\* would match every name).
TypeOK ==
    /\ merged \in 0..MaxFiles
    /\ \A k \in {"prefix", "suffix", "subs", "exact"} : \A w \in filter[k] : w # <<>>

\* words_insert, substr_insert, merge and optimize prune the four sets and
\* words_match looks at one word only; still, after any sequence of reloads
\* and merged files, match accepts a host name exactly when some word read
\* since the reload matches it.
MatchAgreesWithEntries ==
    \A h \in Hosts : Match(filter, h) <=> \E e \in entries : EntryMatches(e, h)

====
