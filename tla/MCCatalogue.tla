----------------------------- MODULE MCCatalogue -----------------------------
EXTENDS Catalogue, TLC

CONSTANTS a1, a2, w, s1, s2, s3

Fine1 == [there |-> TRUE, defines |-> 1, raises |-> "no"]
Fine2 == [there |-> TRUE, defines |-> 2, raises |-> "no"]
Bad == [there |-> TRUE, defines |-> 0, raises |-> "caught"]
Unforeseen == [there |-> TRUE, defines |-> 0, raises |-> "uncaught"]

FileContents == {Absent, Fine1, Fine2, Bad, Unforeseen}

\* The second file is fine, the first missing or broken.
TwoDisks == {<<Absent, Fine1>>, <<Bad, Fine1>>}

\* The same model values name the calls of either part.
Symmetry == Permutations({a1, a2}) \cup Permutations({s1, s2, s3})
=============================================================================
