----------------------------- MODULE MCProfile -----------------------------
EXTENDS Profile, TLC

CONSTANTS e1, e2, s1, s2

MCEditors == {e1, e2}
MCSaves == {s1, s2}

\* Screens are interchangeable, and so are the presses of Done.
MCSymmetry == Permutations(MCEditors) \cup Permutations(MCSaves)

=============================================================================
