------------------------- MODULE MCAdaptiveIngester -------------------------
(* Small instances of the staging path. *)
EXTENDS AdaptiveIngester

CONSTANTS l1, l2, l3, CR, l3CR

MCLines == {l1, l2, l3, l3CR, CR, Blank}
MCChomped == [l \in LogLines |-> CASE l = CR -> Blank [] l = l3CR -> l3 [] OTHER -> l]

\* A batch of two lines, and one that begins with an empty line.
MCBatches == {<<l1, l2>>, <<Blank, l3CR>>}

\* A batch with more lines than a row group has rows.
MCLongBatches == {<<l1, l2, l3>>, <<Blank, l3CR>>}

\* A line that is a carriage return only.
MCReplayed == {<<l1, CR>>, <<l3CR>>}
=============================================================================
