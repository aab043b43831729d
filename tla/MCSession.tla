----------------------------- MODULE MCSession -----------------------------
EXTENDS Session, TLC

\* The requests differ in nothing; for safety only.
Symmetry == Permutations(Callers)
=============================================================================
