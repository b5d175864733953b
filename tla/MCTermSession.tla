--------------------------- MODULE MCTermSession ---------------------------
(* TLC instances of TermSession.                                            *)
EXTENDS TermSession, TLC

Symmetry == Permutations(Callers)
=============================================================================
