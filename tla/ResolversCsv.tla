---------------------------- MODULE ResolversCsv ----------------------------
(***************************************************************************)
(* The resolvers list: parse_resolvers_list                                *)
(* (src/dns/crypt/srcz/resolver.cpp) reading the CSV file line by line     *)
(* with csv::parse_line (src/dns/crypt/srcz/csv.cpp) into one reused       *)
(* vector of columns, and parse_resolver picking each resolver's fields    *)
(* by header name (find_col).                                              *)
(*                                                                         *)
(* A file is a sequence of characters.  The characters that steer the      *)
(* parser (separator, quote, carriage return, new line) are constants; the *)
(* others are tokens: a header word of one token stands for "Provider      *)
(* name", "Name" and the other headers find_col looks for.                 *)
(***************************************************************************)
EXTENDS Naturals, Sequences, SequencesExt, NetAddress

CONSTANTS
    Sep, Quote, Cr, Nl,   \* ',', '"', '\r' and '\n'
    ProviderNameHdr,      \* the header word "Provider name"
    NameHdr,              \* "Name"
    PublicKeyHdr,         \* "Provider public key"
    AddressHdr,           \* "Resolver address"
    PubKeys,              \* [key text -> key]: the texts ::crypt::pubkey accepts
    KeyHex,               \* [key -> text]: the key printed by bin2hex
    CsvFiles,             \* readable files: [text, table]
    UnreadableCsv         \* a file that cannot be opened

\* resolver.cpp: csv_max_columns; resolver.hxx: defaults::port.
CryptPort == 443

CsvMaxColumns == 50

\* The table a readable file was written from, or NoTable for a file
\* written by hand.
NoTable == <<>>

VARIABLES
    csvFile,     \* the file parse_resolvers_list reads
    rest,        \* what is left of it in the stream
    good,        \* the stream's state: no get has failed yet
    headers,     \* the header columns
    cols,        \* the columns vector, reused for every line
    resolvers,   \* the resolvers parsed so far
    csvStatus    \* "idle", "reading", "done", "failed" (runtime_error)

csvVars == <<csvFile, rest, good, headers, cols, resolvers, csvStatus>>

-----------------------------------------------------------------------------
(* csv::parse_line                                                         *)

\* A slip: the reused word is not cleared.
CurWordKeep(words, i) ==
    IF i >= Len(words) THEN Append(words, <<>>) ELSE words

\* cur_word: the word at index i (0-based), appended when i is the size,
\* emptied otherwise.
CurWord(words, i) ==
    IF i >= Len(words) THEN Append(words, <<>>)
    ELSE [words EXCEPT ![i + 1] = <<>>]

\* A slip: '\r' is kept as text.
ParseCharKeepsCr(st, ch) ==
    LET word == st.w[st.i + 1] IN
    CASE st.err -> st
      [] ch \notin {Sep, Quote} \/ (ch = Sep /\ st.q) ->
            [st EXCEPT !.w = [st.w EXCEPT ![st.i + 1] = Append(word, ch)]]
      [] ch = Quote /\ st.q ->
            [st EXCEPT !.q = FALSE, !.cq = TRUE, !.i = st.i + 1,
                       !.w = CurWord(st.w, st.i + 1)]
      [] ch = Quote ->
            IF word # <<>> THEN [st EXCEPT !.err = TRUE]
            ELSE [st EXCEPT !.q = TRUE]
      [] ch = Sep /\ ~st.cq ->
            [st EXCEPT !.i = st.i + 1, !.w = CurWord(st.w, st.i + 1)]
      [] ch = Sep ->
            IF word # <<>> THEN [st EXCEPT !.err = TRUE]
            ELSE [st EXCEPT !.cq = FALSE]
      [] OTHER -> st

\* One character of the loop.  st is [w, i, q, cq, err]: the words, the
\* current index, quote_flag, closing_quote_flag and whether it threw.
ParseChar(st, ch) ==
    LET word == st.w[st.i + 1] IN
    CASE st.err -> st
      [] ch \notin {Sep, Quote, Cr} \/ (ch = Sep /\ st.q) ->
            [st EXCEPT !.w = [st.w EXCEPT ![st.i + 1] = Append(word, ch)]]
      [] ch = Quote /\ st.q ->
            [st EXCEPT !.q = FALSE, !.cq = TRUE, !.i = st.i + 1,
                       !.w = CurWord(st.w, st.i + 1)]
      [] ch = Quote ->
            IF word # <<>> THEN [st EXCEPT !.err = TRUE]
            ELSE [st EXCEPT !.q = TRUE]
      [] ch = Sep /\ ~st.cq ->
            [st EXCEPT !.i = st.i + 1, !.w = CurWord(st.w, st.i + 1)]
      [] ch = Sep ->
            IF word # <<>> THEN [st EXCEPT !.err = TRUE]
            ELSE [st EXCEPT !.cq = FALSE]
      [] OTHER -> st   \* '\r' is dropped

\* parse_line(stream, words) on the characters of one line (without its
\* '\n'), into the vector words as the previous call left it.  Returns
\* [ok, w].
\* After the loop: an open quote throws; the index steps past a last word
\* not closed by a quote, and the vector is cut to it.
EndOfLine(st) ==
    IF st.err \/ st.q THEN [ok |-> FALSE, w |-> st.w]
    ELSE [ok |-> TRUE,
          w |-> SubSeq(st.w, 1, IF ~st.cq /\ (st.i > 0 \/ st.w[1] # <<>>) THEN st.i + 1 ELSE st.i)]

ParseLine(words, line) ==
    EndOfLine(FoldLeft(ParseChar,
                     [w |-> CurWord(words, 0), i |-> 0, q |-> FALSE, cq |-> FALSE, err |-> FALSE],
                     line))

\* The characters parse_line takes from the stream: up to the first '\n',
\* which it consumes; at the end of the file get fails and the stream is
\* no longer good.
NextLine(s) ==
    IF \E k \in 1..Len(s) : s[k] = Nl
    THEN LET k == CHOOSE k \in 1..Len(s) : s[k] = Nl /\ \A j \in 1..k - 1 : s[j] # Nl
         IN  [line |-> SubSeq(s, 1, k - 1), rest |-> SubSeq(s, k + 1, Len(s)), good |-> TRUE]
    ELSE [line |-> s, rest |-> <<>>, good |-> FALSE]

-----------------------------------------------------------------------------
(* parse_resolver                                                          *)

\* find_col: the 1-based index of the first header equal to h, or 0.
FindCol(hs, cs, h) ==
    LET found == {i \in 1..Len(hs) : hs[i] = h /\ \A j \in 1..i - 1 : hs[j] # h}
    IN  IF found = {} THEN 0
        ELSE LET i == CHOOSE i \in found : TRUE IN IF i <= Len(cs) THEN i ELSE 0

\* ::crypt::pubkey(hex): hex2bin of the text must give a key.
IsPubKey(t) == Len(t) = 1 /\ t[1] \in DOMAIN PubKeys

\* parse_resolver: the provider name, public key and resolver address must
\* be present and non-empty; the resolver's name falls back to the provider
\* name; the key must be one and the address parse (port 443 by default).
\* Returns [ok, r].
\* The resolver of the columns cs once its fields are found: the key must
\* be one and the address a parse.
ResolverAt(cs, pn, rn, pk, a) ==
    IF ~IsPubKey(cs[pk]) \/ ~a.ok THEN [ok |-> FALSE]
    ELSE [ok |-> TRUE,
          r |-> [name |-> cs[IF rn = 0 THEN pn ELSE rn], provider |-> cs[pn],
                 key |-> PubKeys[cs[pk][1]], address |-> a.a]]

\* The fields at the columns find_col gave must be there and non-empty.
ResolverFrom(cs, pn, rn, pk, ra) ==
    IF \/ pn = 0 \/ cs[pn] = <<>> \/ pk = 0 \/ cs[pk] = <<>> \/ ra = 0 \/ cs[ra] = <<>>
    THEN [ok |-> FALSE]
    ELSE ResolverAt(cs, pn, rn, pk, Address(cs[ra], CryptPort))

ParseResolver(hs, cs) ==
    ResolverFrom(cs, FindCol(hs, cs, ProviderNameHdr), FindCol(hs, cs, NameHdr),
                 FindCol(hs, cs, PublicKeyHdr), FindCol(hs, cs, AddressHdr))

-----------------------------------------------------------------------------
(* parse_resolvers_list                                                    *)

\* One turn of the do-while loop: parse the next line into the columns
\* vector cs; an empty line adds nothing, a line with another number of
\* columns than the headers hs, or without a resolver, throws (fail).
\* Returns [fail, add, cols, rest, good], add the resolver it adds if any.
\* The turn on line l, parsed into p, whose resolver is r.
RowOf(hs, l, p, r) ==
    [fail |-> ~p.ok \/ (Len(p.w) > 0 /\ (Len(p.w) # Len(hs) \/ ~r.ok)),
     add |-> IF p.ok /\ Len(p.w) > 0 /\ Len(p.w) = Len(hs) /\ r.ok THEN <<r.r>> ELSE <<>>,
     cols |-> p.w, rest |-> l.rest, good |-> l.good]

RowOfLine(hs, l, p) == RowOf(hs, l, p, ParseResolver(hs, p.w))

RowOfText(hs, cs, l) == RowOfLine(hs, l, ParseLine(cs, l.line))

RowStep(hs, cs, s) == RowOfText(hs, cs, NextLine(s))

\* The whole loop over what is left of the file, as one function: the
\* resolvers of the remaining lines, or failure.
RECURSIVE ReadRows(_, _, _, _), RowsAfter(_, _, _)
RowsAfter(hs, st, acc) ==
    CASE st.fail -> [ok |-> FALSE]
      [] st.good -> ReadRows(hs, st.cols, st.rest, acc \o st.add)
      [] OTHER -> [ok |-> TRUE, rs |-> acc \o st.add]

ReadRows(hs, cs, s, acc) == RowsAfter(hs, RowStep(hs, cs, s), acc)

\* parse_resolvers_list of a readable file's text, as one function.
\* After the header line l, parsed into p: 3 to 50 headers, then the rows.
ListAfterHeader(l, p) ==
    IF p.ok /\ 3 <= Len(p.w) /\ Len(p.w) <= CsvMaxColumns
    THEN ReadRows(p.w, <<>>, l.rest, <<>>)
    ELSE [ok |-> FALSE]

ListOfLine(l) == ListAfterHeader(l, ParseLine(<<>>, l.line))

ParseResolversList(text) == ListOfLine(NextLine(text))

\* save_resolvers: the header line, then per resolver its address as
\* operator<< prints it, its provider name and its public key as bin2hex
\* prints it, separated by commas and not quoted.
SaveResolvers(rs) ==
    LET row(r) == IpPort(r.address) \o <<Sep>> \o r.provider \o <<Sep>> \o <<KeyHex[r.key]>> \o <<Nl>>
    IN  FoldLeft(LAMBDA acc, r : acc \o row(r),
                 AddressHdr \o <<Sep>> \o ProviderNameHdr \o <<Sep>> \o PublicKeyHdr \o <<Nl>>, rs)

CsvInit ==
    /\ csvFile = UnreadableCsv
    /\ rest = <<>>
    /\ good = FALSE
    /\ headers = <<>>
    /\ cols = <<>>
    /\ resolvers = <<>>
    /\ csvStatus = "idle"

\* Opening the file and reading the header line: a file that cannot be
\* opened, a malformed header line, or fewer than 3 or more than 50
\* headers throw.
\* The header line l of the file, parsed into p.
HeaderRead(l, p) ==
    /\ headers' = p.w
    /\ rest' = l.rest
    /\ good' = l.good
    /\ csvStatus' = IF p.ok /\ 3 <= Len(p.w) /\ Len(p.w) <= CsvMaxColumns THEN "reading" ELSE "failed"

ReadHeader(l) == HeaderRead(l, ParseLine(<<>>, l.line))

OpenList(f) ==
    /\ csvStatus = "idle"
    /\ csvFile' = f
    /\ cols' = <<>>
    /\ resolvers' = <<>>
    /\ IF f = UnreadableCsv
       THEN /\ csvStatus' = "failed"
            /\ UNCHANGED <<rest, good, headers>>
       ELSE ReadHeader(NextLine(f.text))

\* The columns vector and the stream after one turn st, and whether it
\* threw, added nothing, or appended a resolver.
RowRead(st) ==
    /\ rest' = st.rest
    /\ good' = st.good
    /\ cols' = st.cols
    /\ \/ /\ st.fail
          /\ csvStatus' = "failed"
          /\ UNCHANGED resolvers
       \/ /\ ~st.fail /\ st.add = <<>>
          /\ csvStatus' = IF st.good THEN "reading" ELSE "done"
          /\ UNCHANGED resolvers
       \/ /\ ~st.fail /\ st.add # <<>>
          /\ resolvers' = resolvers \o st.add
          /\ csvStatus' = IF st.good THEN "reading" ELSE "done"

\* One turn of the do-while loop: parse the next line into cols; an empty
\* line is skipped, a line with another number of columns than the headers
\* or without a required field throws; the loop goes on while the stream
\* is good.
ReadRow ==
    /\ csvStatus = "reading"
    /\ RowRead(RowStep(headers, cols, rest))
    /\ UNCHANGED <<csvFile, headers>>

CsvNext ==
    \/ csvStatus = "idle" /\ \E f \in CsvFiles \cup {UnreadableCsv} : OpenList(f)
    \/ ReadRow

CsvSpec == CsvInit /\ [][CsvNext]_csvVars

-----------------------------------------------------------------------------
(* Properties                                                              *)

\* The type of the state; no parsed word holds a line end ('\r' is
\* dropped by parse_line, '\n' ends the line).
CsvTypeOK ==
    /\ csvStatus \in {"idle", "reading", "done", "failed"}
    /\ good \in BOOLEAN
    /\ \A w \in Range(headers) \cup Range(cols) : Cr \notin Range(w) /\ Nl \notin Range(w)
    /\ \A i \in 1..Len(resolvers) :
          DOMAIN resolvers[i] = {"name", "provider", "key", "address"}

(* The reference: the table a file was written from, read by header name. *)

\* The field of a row under the first header equal to h, or NoTable.
RefField(t, row, h) ==
    IF \E i \in DOMAIN t[1] : t[1][i] = h
    THEN row[Min({i \in DOMAIN t[1] : t[1][i] = h})]
    ELSE NoTable

\* The non-empty rows of a table.
DataRows(t) == SelectSeq(Tail(t), LAMBDA row : row # <<>>)

\* A row that yields a resolver: as many fields as headers, and a provider
\* name, public key and address that are present and not empty.
RefRowOK(t, row) ==
    /\ Len(row) = Len(t[1])
    /\ \A h \in {ProviderNameHdr, PublicKeyHdr, AddressHdr} : RefField(t, row, h) # NoTable
    /\ IsPubKey(RefField(t, row, PublicKeyHdr))
    /\ Address(RefField(t, row, AddressHdr), CryptPort).ok

RefValid(t) ==
    /\ 3 <= Len(t[1]) /\ Len(t[1]) <= CsvMaxColumns
    /\ \A k \in DOMAIN DataRows(t) : RefRowOK(t, DataRows(t)[k])

RefResolver(t, row) ==
    [name |-> IF RefField(t, row, NameHdr) # NoTable \/ NameHdr \in Range(t[1])
              THEN RefField(t, row, NameHdr) ELSE RefField(t, row, ProviderNameHdr),
     provider |-> RefField(t, row, ProviderNameHdr),
     key |-> PubKeys[RefField(t, row, PublicKeyHdr)[1]],
     address |-> Address(RefField(t, row, AddressHdr), CryptPort).a]

\* Loading a file written from a table (any field quoted or not, lines
\* ending in "\r\n" or "\n", the last one or not) succeeds exactly when
\* every non-empty row has a field under every header and the required
\* fields are not empty, and then yields one resolver per non-empty row, in
\* order, with the fields named by the headers.  A row's key must be a
\* key and its address parse.  It is about
\* parse_resolvers_list reusing one column vector for every line
\* (csv::parse_line's cur_word and final resize) and parse_resolver's
\* find_col.
LoadAgreesWithTable ==
    csvFile # UnreadableCsv /\ csvFile.table # NoTable =>
        /\ csvStatus = "done" =>
              /\ RefValid(csvFile.table)
              /\ resolvers = [k \in DOMAIN DataRows(csvFile.table) |->
                                RefResolver(csvFile.table, DataRows(csvFile.table)[k])]
        /\ csvStatus = "failed" => ~RefValid(csvFile.table)

\* A loaded list saved with save_resolvers loads back as the same resolvers
\* (the name, which the saved file has no column for, then being the
\* provider name), provided no provider name holds a comma: save_resolvers
\* does not quote.  This is what csv_t1 checks of the real list; it is
\* about operator<< printing an IPv6 address in brackets with its port,
\* inet_ntop's "::" reading back through split and inet_pton, str2u16 of
\* the printed port, and bin2hex printing a key hex2bin reads.
SavedListReloads ==
    csvStatus = "done" /\ (\A j \in DOMAIN resolvers : Sep \notin Range(resolvers[j].provider))
        => ParseResolversList(SaveResolvers(resolvers))
             = [ok |-> TRUE, rs |-> [k \in DOMAIN resolvers |->
                                       [resolvers[k] EXCEPT !.name = resolvers[k].provider]]]

====
