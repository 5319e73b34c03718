------------------------------ MODULE QueryPath ------------------------------
(***************************************************************************)
(* From a query to a count.  Over HTTP, LogQLParser.parse translates a     *)
(* LogQL query to the engine's syntax, QueryDispatcher::parse_query takes  *)
(* that apart again, and ExecuteQuery scans either a text file or the .agb *)
(* file that convert_json_to_agb made of it; ag-lex gives parse_query a    *)
(* query string of its own and scans the text.  Beside it, the two other   *)
(* readers of the translated query: getMatchingEvents, which lists events, *)
(* and the live tail's TailSubscription.                                   *)
(*                                                                         *)
(* A LogQL query is what the parser's three regular expressions find in    *)
(* it, or None.  A text is a sequence of tokens: characters, "contains(",  *)
(* "==" and the like, without the words status and latency.  A document is *)
(* a line with two numbers, a message and the values of its other fields,  *)
(* in tokens JSON does not escape; a number is its whole part, and whether *)
(* a fraction follows.                                                     *)
(***************************************************************************)
EXTENDS Integers, SequencesExt, FiniteSetsExt

CONSTANTS
    Queries, Files,     \* what is asked in LogQL, and the files it is asked of
    EngineQueries,      \* what is asked of ag-lex
    Chars,              \* the tokens that texts are made of
    None,               \* nothing found
    BenchmarkLogs,      \* what lies at benchmark_logs.json
    Missing,            \* a field that a document does not have, or that is no number
    kIntMax, kUint64Max,    \* Integer.MAX_VALUE, UINT64_MAX
    kBlockRows,         \* rows of a block (64)
    kThreeColumnBytes,  \* the size taken to mean three columns (1996800000)
    kReadLimit, kEventLimit   \* bounds of getMatchingEvents

Text == Seq(Chars)
Condition == [op : {"=", "!=", ">", "<"}, val : Nat]
Numbers == {"status", "latency"}
Doc == [status : Int \cup {Missing}, latency : Int \cup {Missing}, fraction : SUBSET Numbers,
        text : Text \cup {Missing}, other : Text]

ASSUME LimitsAssumption ==
    /\ kIntMax \in Nat /\ kUint64Max \in Nat /\ kIntMax <= kUint64Max
    /\ kBlockRows \in Nat \ {0} /\ kThreeColumnBytes \in Nat
    /\ kReadLimit \in Nat /\ kEventLimit \in Nat \ {0}

ASSUME InputsAssumption ==
    /\ {"quote", "newline"} \subseteq Chars
    /\ None \notin Nat \cup Queries /\ Missing \notin Int \cup Text
    /\ Files \subseteq Seq(Doc) /\ BenchmarkLogs \in Seq(Doc)
    /\ Queries \subseteq [status : Condition \cup {None}, latency : Condition \cup {None},
                          line : Text \cup {None}]
    /\ EngineQueries \subseteq [status : Nat \cup {None}, latency : Nat \cup {None}, text : Text]

VARIABLES
    stage,        \* how far the request is
    query,        \* the LogQL query
    file,         \* the documents of the file
    translated,   \* what parse returned
    parsed,       \* what parse_query returned
    agb,          \* the rows of the exported file
    count, countText,   \* total_matches from the .agb file and from the text
    events,       \* what getMatchingEvents returned
    tailed,       \* positions the live tail would have delivered
    p, occurrences, found, finished   \* the string search

searchVars == <<p, occurrences, found, finished>>
vars == <<stage, query, file, translated, parsed, agb, count, countText, events, tailed,
          searchVars>>

-----------------------------------------------------------------------------
(* LogQLParser.parse                                                        *)

\* Integer.parseInt, with the exception ignored: no value.
parseInt(cond) == IF cond = None \/ cond.val > kIntMax THEN None ELSE cond.val

\* The operators are dropped: status is compared with ==, latency with >.  A
\* line filter counts only when neither was found; without one the
\* translation is the empty string.
parse(q) ==
    LET status == parseInt(q.status)
        latency == parseInt(q.latency)
    IN  [status |-> status, latency |-> latency,
         text |-> IF status = None /\ latency = None /\ q.line # None THEN q.line ELSE <<>>]

-----------------------------------------------------------------------------
(* QueryDispatcher::parse_query                                             *)

isspace(c) == c \in {" ", "tab", "newline"}

trim(s) ==
    LET kept == {i \in DOMAIN s : ~isspace(s[i])}
    IN  IF kept = {} THEN <<>> ELSE SubSeq(s, Min(kept), Max(kept))

Enclosed(s, open, close) == s # <<>> /\ Head(s) = open /\ Last(s) = close

\* substr(1, size - 2), also of a lone quote.
Inner(s) == SubSeq(s, 2, Len(s) - 1)

Unquoted(s) == IF Enclosed(s, "quote", "quote") THEN Inner(s) ELSE s

\* contains(...) and quotes are stripped, and the blanks around them.
string_pattern(q) ==
    IF Enclosed(trim(q), "contains(", ")") THEN Unquoted(trim(Inner(trim(q))))
                                           ELSE Unquoted(trim(q))

\* A string with a comparison anywhere in it is a numerical query.
is_numerical(t) ==
    t.status # None \/ t.latency # None \/ ToSet(t.text) \cap {"==", ">", "<"} # {}

\* A target that is not given stays 0.
Target(v) == IF v = None THEN 0 ELSE v

\* Before parse_query has run.
Unparsed == [type |-> "none", pattern |-> <<>>, status_target |-> 0, latency_target |-> 0]

parse_query(t) ==
    IF is_numerical(t)
      THEN [type |-> "numerical", pattern |-> <<>>,
            status_target |-> Target(t.status), latency_target |-> Target(t.latency)]
      ELSE [type |-> "search", pattern |-> string_pattern(t.text),
            status_target |-> 0, latency_target |-> 0]

-----------------------------------------------------------------------------
(* Files and scans.                                                         *)

\* get_uint64; what it does not take counts as 0.
Uint64(doc, field) ==
    IF field \notin doc.fraction /\ doc[field] \in 0..kUint64Max THEN doc[field] ELSE 0

RowOf(doc) == [status |-> Uint64(doc, "status"), latency |-> Uint64(doc, "latency")]

ZeroRow == [status |-> 0, latency |-> 0]

Padding(n) == (kBlockRows - (n % kBlockRows)) % kBlockRows

\* Mutant: the last block keeps the rows of the block before it.
PadStale(rows) ==
    rows \o [i \in 1..Padding(Len(rows)) |->
               IF Len(rows) > kBlockRows THEN rows[Len(rows) - kBlockRows + i] ELSE ZeroRow]

\* The last block is filled up with zeros.
Pad(rows) == rows \o [i \in 1..Padding(Len(rows)) |-> ZeroRow]

\* convert_json_to_agb
convert_json_to_agb(docs) == Pad([i \in DOMAIN docs |-> RowOf(docs[i])])

\* The expression both scans compile.
Selects(row, q) == row.status = q.status_target /\ row.latency > q.latency_target

\* The size of the file: two columns of eight bytes.
FileBytes(rows) == Len(rows) * 2 * 8

\* A block of the file is a column of statuses and one of latencies.  Read with
\* three columns to a block, the third of which no query looks at, a third of
\* them is lost and in every other block the two are taken for each other.
ThreeColumns(rows) ==
    LET Column(c, j) == LET row == rows[(c \div 2) * kBlockRows + j]
                        IN  IF c % 2 = 0 THEN row.status ELSE row.latency
        blocks == (2 * (Len(rows) \div kBlockRows)) \div 3
    IN  [i \in 1..blocks * kBlockRows |->
           LET b == (i - 1) \div kBlockRows
               j == ((i - 1) % kBlockRows) + 1
           IN  [status |-> Column(3 * b, j), latency |-> Column(3 * b + 1, j)]]

\* The number of columns is guessed from the size of the file.
AsRead(rows) == IF FileBytes(rows) = kThreeColumnBytes THEN ThreeColumns(rows) ELSE rows

\* The .agb path: every row of every block, whatever the type of the query.
ScanAgb(rows, q) == Cardinality({i \in DOMAIN AsRead(rows) : Selects(AsRead(rows)[i], q)})

\* The text path: what Ingester::run_query counts.
ScanJson(docs, q) == Cardinality({i \in DOMAIN docs : Selects(RowOf(docs[i]), q)})

\* The bytes the string search sees: whole lines, not messages.
Said(doc) == IF doc.text = Missing THEN <<>> ELSE doc.text
Line(doc) == <<"quote">> \o doc.other \o <<"quote">> \o Said(doc) \o <<"quote">>
RawLine(doc) == Line(doc) \o <<"newline">>

Bytes(docs) == FlattenSeq([i \in DOMAIN docs |-> RawLine(docs[i])])

Pattern == parsed.pattern

Search == INSTANCE StringSearch WITH text <- Bytes(file), pattern <- Pattern

-----------------------------------------------------------------------------
(* The two Java readers: a document without the field never matches.        *)

\* Number.intValue(): the low bits of a whole number, the nearest int of a
\* fraction's whole part.
Wrapped(n) ==
    IF n \in (-kIntMax - 1)..kIntMax THEN n
    ELSE ((n + kIntMax + 1) % (2 * (kIntMax + 1))) - (kIntMax + 1)

intValue(doc, field) ==
    IF field \notin doc.fraction THEN Wrapped(doc[field])
    ELSE Max({-kIntMax - 1, Min({kIntMax, doc[field]})})

\* Mutant: latency is compared with >=.
HasAtLeast(doc, t) ==
    /\ t.status # None => doc.status # Missing /\ intValue(doc, "status") = t.status
    /\ t.latency # None => doc.latency # Missing /\ intValue(doc, "latency") >= t.latency

Has(doc, t) ==
    /\ t.status # None => doc.status # Missing /\ intValue(doc, "status") = t.status
    /\ t.latency # None => doc.latency # Missing /\ intValue(doc, "latency") > t.latency

\* Mutant: one event more.
RoomLate(listed) == Len(listed) <= kEventLimit

Room(listed) == Len(listed) < kEventLimit

\* The loop of getMatchingEvents: what it has listed after n lines.
Lists(docs, t) ==
    LET listed[n \in 0..Len(docs)] ==
          IF n = 0 THEN <<>>
          ELSE LET before == listed[n - 1]
               IN  IF n <= kReadLimit /\ Room(before) /\ Has(docs[n], t)
                     THEN Append(before, docs[n]) ELSE before
    IN  listed[Len(docs)]

\* TailSubscription keeps the line filter of the original query; without one
\* a text found by the translation would serve as filter.
LineFilter(q, t) == IF q.line # None THEN q.line ELSE t.text

\* String.contains
Places(s, part) == {i \in 1..Len(s) + 1 - Len(part) : SubSeq(s, i, i + Len(part) - 1) = part}
contains(s, part) == Places(s, part) # {}

\* A document without a message is searched as a whole.
Message(doc) == IF doc.text = Missing THEN Line(doc) ELSE doc.text

Delivers(doc, q, t) == Has(doc, t) /\ contains(Message(doc), LineFilter(q, t))

-----------------------------------------------------------------------------
Init ==
    /\ file \in Files
    /\ \/ stage = "asked" /\ query \in Queries /\ translated = None
       \/ stage = "typed" /\ query = None /\ translated \in EngineQueries
    /\ parsed = Unparsed
    /\ agb = <<>> /\ count = 0 /\ countText = 0
    /\ events = [log |-> <<>>, fabricated |-> FALSE, json |-> <<>>] /\ tailed = {}
    /\ p = 1 /\ occurrences = 0 /\ found = {} /\ finished = TRUE

Goto(from, to) == stage = from /\ stage' = to /\ UNCHANGED <<query, file>>

Translate ==
    /\ Goto("asked", "translated")
    /\ translated' = parse(query)
    /\ UNCHANGED <<parsed, agb, count, countText, events, tailed, searchVars>>

\* A subscription translates the same query; every document passes it.
Tail_ ==
    /\ Goto("translated", "tailed")
    /\ tailed' = {i \in DOMAIN file : Delivers(file[i], query, translated)}
    /\ UNCHANGED <<translated, parsed, agb, count, countText, events, searchVars>>

Export ==
    /\ Goto("tailed", "exported")
    /\ agb' = convert_json_to_agb(file)
    /\ UNCHANGED <<translated, parsed, count, countText, events, tailed, searchVars>>

\* ExecuteQuery of the .agb file.
ExecuteAgb ==
    /\ Goto("exported", "scanning")
    /\ parsed' = parse_query(translated)
    /\ count' = ScanAgb(agb, parsed')
    /\ UNCHANGED <<translated, agb, countText, events, tailed, searchVars>>

\* ag-lex parses what was typed.
AgLex ==
    /\ Goto("typed", "scanning")
    /\ parsed' = parse_query(translated)
    /\ UNCHANGED <<translated, agb, count, countText, events, tailed, searchVars>>

\* The text, by ExecuteQuery or ag-lex: the Ingester ...
ExecuteJson ==
    /\ Goto("scanning", "counted") /\ parsed.type = "numerical"
    /\ countText' = ScanJson(file, parsed)
    /\ UNCHANGED <<translated, parsed, agb, count, events, tailed, searchVars>>

\* ... or the string search, turn by turn.
BeginSearch ==
    /\ Goto("scanning", "searching") /\ parsed.type = "search"
    /\ Search!Begin
    /\ UNCHANGED <<translated, parsed, agb, count, countText, events, tailed>>

SearchOn ==
    /\ Goto("searching", "searching")
    /\ Search!Step
    /\ UNCHANGED <<translated, parsed, agb, count, countText, events, tailed>>

EndSearch ==
    /\ Goto("searching", "counted") /\ finished
    /\ countText' = occurrences
    /\ UNCHANGED <<translated, parsed, agb, count, events, tailed, searchVars>>

\* The lines that getMatchingEvents reads: those of the JSON file beside the
\* .agb file, if there is one, or of benchmark_logs.json for a file of that
\* name, as far as they can be read.
Readable == Prefixes(file) \cup Prefixes(BenchmarkLogs)

\* When none of them matches, fifty events are made up.
getMatchingEvents(json) ==
    /\ Goto("counted", "listed") /\ query # None
    /\ events' = [log |-> Lists(json, translated),
                  fabricated |-> Lists(json, translated) = <<>>, json |-> json]
    /\ UNCHANGED <<translated, parsed, agb, count, countText, tailed, searchVars>>

Next ==
    \/ Translate \/ Tail_ \/ Export \/ ExecuteAgb \/ AgLex
    \/ ExecuteJson \/ BeginSearch \/ SearchOn \/ EndSearch
    \/ \E json \in Readable : getMatchingEvents(json)

Spec == Init /\ [][Next]_vars

-----------------------------------------------------------------------------
Counted == stage \in {"counted", "listed"}

\* What LogQL says of a document.
Compares(v, cond) ==
    cond # None =>
        /\ v # Missing
        /\ cond.op = "="  => v = cond.val
        /\ cond.op = "!=" => v # cond.val
        /\ cond.op = ">"  => v > cond.val
        /\ cond.op = "<"  => v < cond.val

Labelled(doc, q) == Compares(doc.status, q.status) /\ Compares(doc.latency, q.latency)
AnswerIn(docs) == {i \in DOMAIN docs : Labelled(docs[i], query)}
Answer == AnswerIn(file)

\* The numbers of the documents are whole, and none is above max.
Whole(docs, max) ==
    \A i \in DOMAIN docs, field \in Numbers :
        docs[i][field] # Missing => docs[i][field] \in 0..max /\ field \notin docs[i].fraction

\* Queries the engine can express: status =, but not 0 if a line has no
\* status, and latency > unless no line it would exclude has latency 0.
Expressible(docs) ==
    /\ query # None /\ query.status # None /\ query.status.op = "="
    /\ parseInt(query.status) # None
    /\ query.status.val = 0 => \A i \in DOMAIN docs : docs[i].status # Missing
    /\ query.latency # None => parseInt(query.latency) # None
    /\ IF query.latency = None THEN \A i \in AnswerIn(docs) : RowOf(docs[i]).latency > 0
                               ELSE query.latency.op = ">"

\* The scan of the .agb file and the scan of the text both count the documents
\* the labels select, if their numbers are unsigned 64-bit ones: translation,
\* packing, padding and blocks change nothing.  The file must not have the one
\* size at which three columns are assumed.
CountsExact ==
    Counted /\ Expressible(file) /\ Whole(file, kUint64Max) =>
        /\ FileBytes(agb) # kThreeColumnBytes => count = Cardinality(Answer)
        /\ countText = Cardinality(Answer)

\* The string search counts every line that contains the pattern at least
\* once, and when no line contains it twice the count is the number of lines.
LinesWith == {i \in DOMAIN file : contains(RawLine(file[i]), Pattern)}
Once ==
    /\ "newline" \notin ToSet(Pattern)
    /\ \A i \in LinesWith : Cardinality(Places(RawLine(file[i]), Pattern)) = 1
SearchCountsLines ==
    Counted /\ parsed.type = "search" /\ Pattern # <<>> =>
        /\ countText >= Cardinality(LinesWith)
        /\ Once => countText = Cardinality(LinesWith)

\* At every turn the search has counted as many disjoint occurrences as
\* there are up to where it stands.
SearchMaximal == stage = "searching" => Search!CountIsMaximal

\* A document is delivered to a live tail exactly when a later query with
\* the same text counts it: for labels, if the numbers are ints and the .agb
\* file has not that one size, and for a line filter without blanks around it
\* that stands only in messages, and in each once.
TailAgreesWithScan ==
    Counted /\ query # None =>
        /\ Expressible(file) /\ Whole(file, kIntMax) /\ FileBytes(agb) # kThreeColumnBytes =>
             /\ Cardinality(tailed) <= count
             /\ query.line = None => Cardinality(tailed) = count
        /\ parsed.type = "search" /\ Once /\ query.line \notin {None, <<>>}
             /\ Pattern = query.line /\ (\A i \in LinesWith : contains(Message(file[i]), Pattern))
           => Cardinality(tailed) = countText

\* The listed events are documents the labels select, of the JSON file that
\* was read and in its order, and never more than the limit; they are made up
\* only when the first lines of it hold none.  The numbers must be ints.
ListedFrom(places) ==
    /\ \A i \in DOMAIN events.log : events.log[i] = events.json[places[i]] /\ places[i] <= kReadLimit
    /\ \A i, j \in DOMAIN events.log : i < j => places[i] < places[j]
EventsAreLogged ==
    stage = "listed" /\ Expressible(events.json) /\ Whole(events.json, kIntMax) =>
        /\ Len(events.log) <= kEventLimit
        /\ \E places \in [DOMAIN events.log -> AnswerIn(events.json)] : ListedFrom(places)
        /\ events.fabricated => \A i \in AnswerIn(events.json) : i > kReadLimit
=============================================================================
