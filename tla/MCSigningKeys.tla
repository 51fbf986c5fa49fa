--------------------------- MODULE MCSigningKeys ---------------------------
(* TLC instance of SigningKeys.  Pods are interchangeable, and so are keys *)
(* before they are generated.                                              *)
EXTENDS SigningKeys, TLC

Symmetry == Permutations(Pods) \cup Permutations(Kids) \cup Permutations(Operators)
=============================================================================
