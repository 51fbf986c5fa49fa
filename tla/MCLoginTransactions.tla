------------------------- MODULE MCLoginTransactions -------------------------
(* TLC instance of LoginTransactions: requests and sessions are            *)
(* interchangeable model values, so states equal up to a permutation of    *)
(* them are explored once.  The liveness-free properties allow it.         *)
EXTENDS LoginTransactions, TLC

Symmetry == Permutations(Requests) \cup Permutations(Sids)
=============================================================================
