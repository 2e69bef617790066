-------------------------------- MODULE Toml --------------------------------
(***************************************************************************)
(* luna-init's TOML reader.  Values are checked on every text up to a      *)
(* length, documents on every sequence of headers and pairs up to a        *)
(* length, one parse_line per step.                                        *)
(*                                                                         *)
(* A text is a sequence of character classes: the quote, the backslash,    *)
(* "#", the comma, the brackets, a space, "x" for a letter, "7" for a      *)
(* number and "true" for that word.                                        *)
(***************************************************************************)
EXTENDS Integers, Sequences, SequencesExt, FiniteSets

CONSTANTS
  Chars, MaxText,  \* the texts to try: their characters and their length
  StrMax,          \* TOML_MAX_STR_LEN
  ItemsMax,        \* TOML_MAX_ARRAY_ITEMS
  EntriesMax,      \* TOML_MAX_ENTRIES
  TablesMax,       \* TOML_MAX_ARRAY_TABLES
  TomlNames, MaxLines  \* the documents to try: section and key names, lines

VARIABLES
  text,   \* a text
  lines,  \* the lines of a document so far
  doc     \* what the reader has made of them

toml == <<text, lines, doc>>

Quote == "quote"
Backslash == "backslash"

At(s, p) == IF p \in DOMAIN s THEN s[p] ELSE "end"
Error(e) == [error |-> e]
Text(t)  == [error |-> "OK", type |-> "string", value |-> t]

RECURSIVE ScanString(_, _, _)
RECURSIVE SkipString(_, _)
RECURSIVE SkipBlank(_, _)
RECURSIVE ScanItems(_, _, _)
RECURSIVE CommentAt(_, _, _)

\* parse_string_value from behind the opening quote: a backslash before a
\* quote is the one escape.
ScanString(s, p, out) ==
  CASE At(s, p) = Quote -> [error |-> "OK", value |-> out, at |-> p]
    [] At(s, p) = "end" -> Error("INVALID")
    [] Len(out) >= StrMax - 1 -> Error("OVERFLOW")
    [] At(s, p) = Backslash /\ At(s, p + 1) = Quote -> ScanString(s, p + 2, Append(out, Quote))
    [] OTHER -> ScanString(s, p + 1, Append(out, s[p]))

\* The loop of parse_array_value that looks for the end of the item again: here
\* a backslash escapes whatever follows.
SkipString(s, p) ==
  IF At(s, p) \in {Quote, "end"} THEN p
  ELSE SkipString(s, p + (IF s[p] = Backslash THEN 2 ELSE 1))

SkipBlank(s, p) == IF At(s, p) \in {" ", ","} THEN SkipBlank(s, p + 1) ELSE p

\* parse_array_value from behind the bracket or an item.
ScanItems(s, from, items) ==
  LET p == SkipBlank(s, from)
      item == ScanString(s, p + 1, << >>)
      end == SkipString(s, p + 1)
  IN  CASE At(s, p) = "]" ->
             IF \A i \in p + 1..Len(s) : s[i] = " "
             THEN [error |-> "OK", type |-> "array", value |-> items] ELSE Error("INVALID")
        [] At(s, p) = "end" -> Error("INVALID")
        [] At(s, p) # Quote -> Error("UNSUPPORTED")
        [] Len(items) >= ItemsMax -> Error("OVERFLOW")
        [] item.error # "OK" -> item
        [] OTHER -> ScanItems(s, IF At(s, end) = Quote THEN end + 1 ELSE end, Append(items, item.value))

\* parse_value.
ParseValue(s) ==
  CASE At(s, 1) = Quote ->
         LET item == ScanString(s, 2, << >>)
         IN  IF item.error = "OK" THEN Text(item.value) ELSE item
    [] At(s, 1) = "[" -> ScanItems(s, 2, << >>)
    [] At(s, 1) = "true" /\ At(s, 2) \in {"end", " ", "#"} -> [error |-> "OK", type |-> "boolean", value |-> TRUE]
    [] At(s, 1) = "7" -> IF Len(s) = 1 THEN [error |-> "OK", type |-> "integer", value |-> 7] ELSE Error("INVALID")
    [] OTHER -> Error("UNSUPPORTED")

\* Mutant of CommentAt: a quote does not open a string.
CommentAtAnyHash(s, p, in_str) ==
  IF p > Len(s) \/ s[p] = "#" THEN p ELSE CommentAt(s, p + 1, in_str)

\* Where parse_line cuts the value: the first # behind an even number of quotes,
\* escaped ones included.
CommentAt(s, p, in_str) ==
  CASE p > Len(s) -> p
    [] s[p] = "#" /\ ~in_str -> p
    [] OTHER -> CommentAt(s, p + 1, IF s[p] = Quote THEN ~in_str ELSE in_str)

\* str_trim_inplace.
Trim(s) ==
  LET solid == {i \in DOMAIN s : s[i] # " "}
  IN  IF solid = {} THEN << >>
      ELSE SubSeq(s, CHOOSE i \in solid : \A j \in solid : i <= j,
                     CHOOSE i \in solid : \A j \in solid : j <= i)

\* The value of a pair from the text behind its "=".
PairValue(s) ==
  LET t == Trim(s) IN ParseValue(Trim(SubSeq(t, 1, CommentAt(t, 1, FALSE) - 1)))

\* Lines: "[name]", "[[name]]", or "key = value" with a value that parses.
Lines == [kind : {"section", "table"}, name : TomlNames]
           \cup [kind : {"pair"}, name : TomlNames, value : {"one", "two"}]

NoDoc == [entries |-> << >>, tables |-> << >>, section |-> "", index |-> -1, error |-> "OK"]

\* toml_find_array_table_index.
TableIndex(tables, name) == {i \in DOMAIN tables : tables[i].name = name}

\* Mutant of ParseTable: the index is read after the counter was increased.
ParseTableOneLate(d, name) ==
  LET at == TableIndex(d.tables, name)
      tables == IF at = {} THEN Append(d.tables, [name |-> name, count |-> 1])
                ELSE [i \in DOMAIN d.tables |-> IF i \in at THEN [d.tables[i] EXCEPT !.count = @ + 1] ELSE d.tables[i]]
  IN  IF at = {} /\ Len(d.tables) >= TablesMax THEN [d EXCEPT !.error = "OVERFLOW"]
      ELSE [d EXCEPT !.tables = tables, !.section = name,
                     !.index = tables[IF at = {} THEN Len(tables) ELSE CHOOSE i \in at : TRUE].count]

\* toml_get_or_create_array_table and the entry number in parse_line.
ParseTable(d, name) ==
  LET at == TableIndex(d.tables, name)
      before == IF at = {} THEN 0 ELSE d.tables[CHOOSE i \in at : TRUE].count
  IN  IF at = {} /\ Len(d.tables) >= TablesMax THEN [d EXCEPT !.error = "OVERFLOW"]
      ELSE [d EXCEPT !.section = name, !.index = before,
                     !.tables = IF at = {} THEN Append(@, [name |-> name, count |-> 1])
                                ELSE [i \in DOMAIN @ |-> IF i \in at THEN [@[i] EXCEPT !.count = before + 1] ELSE @[i]]]

\* parse_line.
ParseLine(d, line) ==
  CASE line.kind = "table" -> ParseTable(d, line.name)
    [] line.kind = "section" -> [d EXCEPT !.section = line.name, !.index = -1]
    [] Len(d.entries) >= EntriesMax -> [d EXCEPT !.error = "OVERFLOW"]
    [] OTHER -> [d EXCEPT !.entries = Append(@, [section |-> d.section, index |-> d.index,
                                                 key |-> line.name, value |-> line.value])]

\* The first entry that matches: toml_get with index -1 and, with the table's
\* number, toml_array_table_get; toml_array_table_count.
Get(d, section, index, key) ==
  LET match == {i \in DOMAIN d.entries : /\ d.entries[i].section = section /\ d.entries[i].key = key
                                         /\ d.entries[i].index = index}
  IN  IF match = {} THEN "NOT_FOUND"
      ELSE d.entries[CHOOSE i \in match : \A j \in match : i <= j].value
TableCount(d, section) ==
  LET at == TableIndex(d.tables, section)
  IN  IF at = {} THEN 0 ELSE d.tables[CHOOSE i \in at : TRUE].count

TomlInit == text = << >> /\ lines = << >> /\ doc = NoDoc

Type ==
  /\ lines = << >> /\ Len(text) < MaxText
  /\ \E c \in Chars : text' = Append(text, c)
  /\ UNCHANGED <<lines, doc>>

\* One turn of toml_load_buffer; the first bad line ends it, without a document.
LoadLine ==
  /\ text = << >> /\ Len(lines) < MaxLines /\ doc.error = "OK"
  /\ \E line \in Lines : lines' = Append(lines, line) /\ doc' = ParseLine(doc, line)
  /\ UNCHANGED text

TomlNext == Type \/ LoadLine

-----------------------------------------------------------------------------

\* The texts one may write between quotes: no backslash at the end or before a
\* quote, and not both a quote and a "#".
Writable(t) ==
  /\ \A i \in DOMAIN t : t[i] = Backslash => At(t, i + 1) \notin {Quote, "end"}
  /\ ~(Quote \in Range(t) /\ "#" \in Range(t))
Escaped(t) == FlattenSeq([i \in DOMAIN t |-> IF t[i] = Quote THEN <<Backslash, Quote>> ELSE <<t[i]>>])
Quoted(t) == <<Quote>> \o Escaped(t) \o <<Quote>>

\* Whatever of these is written as a string, or twice in an array, is read back
\* as it was, with or without a comment behind it, up to the length a string
\* may have.
ReadsBack ==
  Writable(text) /\ Len(text) < StrMax =>
    \A behind \in {<< >>, <<" ", "#", "x", Quote>>} :
      /\ PairValue(<<" ">> \o Quoted(text) \o behind) = Text(text)
      /\ PairValue(<<"[">> \o Quoted(text) \o <<",", " ">> \o Quoted(text) \o <<"]">> \o behind)
           = [error |-> "OK", type |-> "array", value |-> <<text, text>>]

\* The last header at or before line i, 0 for none, and the table headers of
\* that name up to line h.
HeaderOf(i) ==
  LET above == {j \in 1..i : lines[j].kind # "pair"}
  IN  IF above = {} THEN 0 ELSE CHOOSE j \in above : \A k \in above : k <= j
TablesUpTo(name, h) == {j \in 1..h : lines[j].kind = "table" /\ lines[j].name = name}
Under(section, index, i) ==
  LET h == HeaderOf(i)
  IN  IF h = 0 THEN section = "" /\ index = -1
      ELSE /\ lines[h].name = section
           /\ index = IF lines[h].kind = "section" THEN -1 ELSE Cardinality(TablesUpTo(section, h)) - 1

\* A lookup returns the first value given to the key below the header it asks
\* for: of the n-th [[name]] what stands below that one and no other, whatever
\* headers of the same or another kind come between.
LookupsAgree ==
  doc.error = "OK" =>
    \A s \in TomlNames \cup {""} :
      /\ TableCount(doc, s) = Cardinality(TablesUpTo(s, Len(lines)))
      /\ \A index \in -1..MaxLines, key \in TomlNames :
           LET given == {i \in DOMAIN lines : /\ lines[i].kind = "pair" /\ lines[i].name = key
                                              /\ Under(s, index, i)}
           IN  Get(doc, s, index, key) =
                 IF given = {} THEN "NOT_FOUND"
                 ELSE lines[CHOOSE i \in given : \A j \in given : i <= j].value
=============================================================================
