---------------------------- MODULE StringSearch ----------------------------
(***************************************************************************)
(* The loop of run_scalar_string_search, in the core service and in        *)
(* ag-lex: memchr finds the next place where the pattern's first character *)
(* stands, strncmp compares, and p moves past the match or one further.    *)
(* One step is one turn of the loop.  Positions count from 1.              *)
(***************************************************************************)
EXTENDS Naturals, Sequences, FiniteSets

CONSTANT Chars

VARIABLES
    text, pattern,   \* the mapped bytes and what is looked for: neither changes
    p, occurrences,
    found,           \* history: where the counted matches begin
    finished

searchVars == <<p, occurrences, found, finished>>

\* strncmp at i finds the pattern, which ends before the file does.
MatchesAt(i) ==
    i + Len(pattern) <= Len(text) + 1 /\ SubSeq(text, i, i + Len(pattern) - 1) = pattern

\* What memchr may return from p on: it returns the first.
Candidates == {i \in p..Len(text) : text[i] = pattern[1]}
IsCandidate(c) == c \in Candidates /\ \A i \in Candidates : c <= i

\* An empty pattern, or an empty file, is not searched.
Nothing == pattern = <<>> \/ text = <<>>

Init ==
    /\ text \in Seq(Chars) /\ pattern \in Seq(Chars)
    /\ p = 1 /\ occurrences = 0 /\ found = {} /\ finished = Nothing

\* The call, by whoever has a text and a pattern.
Begin == p' = 1 /\ occurrences' = 0 /\ found' = {} /\ finished' = Nothing

\* The pattern is too long for what is left, from p or from the candidate on.
Break ==
    /\ ~finished
    /\ \A c \in Candidates : c + Len(pattern) > Len(text) + 1
    /\ finished' = TRUE
    /\ UNCHANGED <<p, occurrences, found>>

\* Mutant: matches may overlap.
InsideMatch(c) == c + 1

AfterMatch(c) == c + Len(pattern)

Match(c) ==
    /\ ~finished /\ IsCandidate(c) /\ MatchesAt(c)
    /\ occurrences' = occurrences + 1
    /\ found' = found \cup {c}
    /\ p' = AfterMatch(c)
    /\ UNCHANGED finished

\* Mutant: a mismatch is passed over as if it were a match.
PastPattern(c) == c + Len(pattern)

AfterMismatch(c) == c + 1

Mismatch(c) ==
    /\ ~finished /\ IsCandidate(c) /\ c + Len(pattern) <= Len(text) + 1 /\ ~MatchesAt(c)
    /\ p' = AfterMismatch(c)
    /\ UNCHANGED <<occurrences, found, finished>>

Step == Break \/ \E c \in p..Len(text) : Match(c) \/ Mismatch(c)

vars == <<text, pattern, searchVars>>

Spec == Init /\ [][(Begin \/ Step) /\ UNCHANGED <<text, pattern>>]_vars

-----------------------------------------------------------------------------
\* Occurrences that do not overlap.
Disjoint(S) == \A i, j \in S : i < j => i + Len(pattern) <= j

\* The scan counts disjoint occurrences, and as many as there can be up to
\* where it has come.
CountIsMaximal ==
    pattern # <<>> =>
    /\ Disjoint(found) /\ \A i \in found : MatchesAt(i)
    /\ occurrences = Cardinality(found)
    /\ \A S \in SUBSET {i \in 1..Len(text) : MatchesAt(i) /\ (finished \/ i < p)} :
          Disjoint(S) => Cardinality(S) <= occurrences
=============================================================================
