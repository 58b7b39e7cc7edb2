--------------------------- MODULE MC_Screenshot ---------------------------
EXTENDS Screenshot, TLC

CONSTANTS b1, b2, b3

MC_Buffers == {b1, b2, b3}

\* The buffers are interchangeable: only their identity matters.
MC_Symmetry == Permutations(MC_Buffers)

=============================================================================
