---------------------------- MODULE MCQueryPath ----------------------------
(* Small instances of the query path. *)
EXTENDS QueryPath

MCChars == {"a", "b", " ", ">", "contains(", ")", "quote", "newline"}

Boot == <<"b">>
Log(s, l, fraction, text, other) ==
    [status |-> s, latency |-> l, fraction |-> fraction, text |-> text, other |-> other]

MCDocs ==
    {Log(s, l, {}, Boot, <<>>) : s \in {1, 2, Missing}, l \in {0, 1, 2}}
    \cup {Log(2, Missing, {}, Boot, <<>>), Log(2, 2, {}, <<"a">>, <<>>)}

\* Numbers that are no ints, no unsigned ones, and none at all.
MCNumbers ==
    {Log(2, l, {}, Boot, <<>>) : l \in {-9, -1, 3, 4, 5, 6, 9}}
    \cup {Log(2, l, {"latency"}, Boot, <<>>) : l \in {-5, 1, 5}} \cup {Log(2, 2, {"status"}, Boot, <<>>)}

\* Lines for the string search: all short messages, some with other fields or
\* with no message at all.
MCLines ==
    {Log(1, 1, {}, t, <<>>) : t \in UNION {[1..n -> {"a", "b"}] : n \in 0..3}}
    \cup {Log(1, 1, {}, <<"a", "b">>, o) : o \in {<<"b">>, <<"a", "b">>}}
    \cup {Log(1, 1, {}, <<" ", "a">>, <<>>), Log(1, 1, {}, Missing, <<"a">>)}

\* Files of up to two such documents, and some of three and of five, the last
\* of the size that is taken for three columns.
MCFiles ==
    UNION {[1..n -> MCDocs] : n \in 0..2} \cup UNION {[1..n -> MCLines] : n \in 1..2}
    \cup [1..1 -> MCNumbers]
    \cup UNION {{[i \in 1..n |-> IF i \in S THEN Log(2, 2, {}, Boot, <<>>) ELSE Log(1, 0, {}, Boot, <<>>)] :
                   S \in SUBSET (1..n)} : n \in {3, 5}}

MCBenchmark == <<Log(2, 2, {}, <<"a">>, <<>>)>>

Cond(op, val) == [op |-> op, val |-> val]

Patterns == {<<"a">>, <<"a", "b">>, <<"a", "a">>, <<"a", "b", "a">>, <<" ", "a">>, <<"a", ">">>}

\* Both labels, the status alone, a label with a line filter, a line filter
\* alone, a value that is no int, and nothing at all.
MCQueries ==
    {[status |-> Cond("=", s), latency |-> Cond(">", l), line |-> None] :
        s \in 0..2, l \in 0..2}
    \cup {[status |-> Cond("=", 2), latency |-> None, line |-> t] : t \in {None, <<"a">>}}
    \cup {[status |-> None, latency |-> None, line |-> t] : t \in Patterns \cup {None}}
    \cup {[status |-> Cond("=", 9), latency |-> None, line |-> None]}

Engine(text) == [status |-> None, latency |-> None, text |-> text]

\* What is typed at ag-lex: quoted, inside contains(), and bare.
MCEngineQueries ==
    {[status |-> 2, latency |-> 1, text |-> <<>>],
     Engine(<<"contains(", " ", "quote", "a", "b", "quote", ")">>), Engine(<<"quote", "a", "quote", " ">>),
     Engine(<<"a", "b">>)}
=============================================================================
