----------------------------- MODULE MCPosting -----------------------------
EXTENDS Posting, TLC

CONSTANTS p1, p2, i1, i2

MCPostIds == {p1, p2}
MCImages == {i1, i2}

\* Generated document ids, and pictures, are interchangeable.
MCSymmetry == Permutations(MCPostIds) \cup Permutations(MCImages)

=============================================================================
