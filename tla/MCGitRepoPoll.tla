---------------------------- MODULE MCGitRepoPoll ----------------------------
EXTENDS GitRepoPoll, TLC
Symmetry == Permutations(SHAs)
=============================================================================
