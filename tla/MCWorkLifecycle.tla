--------------------------- MODULE MCWorkLifecycle ---------------------------
EXTENDS WorkLifecycle, TLC
CONSTANTS e1, w1, w2, a1, a2
Perms == Permutations(AppIds) \cup Permutations(Workers)
=============================================================================
