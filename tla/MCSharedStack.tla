---------------------------- MODULE MCSharedStack ----------------------------
\* SharedStack for TLC.
EXTENDS SharedStack, TLC

\* Processes that all play the same part are interchangeable.
ProcSymmetry == Permutations(Proc)
=============================================================================
