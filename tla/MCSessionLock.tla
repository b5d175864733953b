--------------------------- MODULE MCSessionLock ---------------------------
(* SessionLock on a few commands.                                           *)
EXTENDS SessionLock, TLC

Symmetry == Permutations(Starts) \cup Permutations(Clients)
=============================================================================
