------------------------------ MODULE LoginStarts ------------------------------
(* What the login page and the reference application have in common: the   *)
(* login starts of the application, which name its transactions, and the   *)
(* browsers they are made and opened in.                                   *)
EXTENDS Naturals

CONSTANTS Starts,     \* 1..MaxStarts
          Browsers

ASSUME StartsAssumption == Starts \subseteq Nat \ {0}
=============================================================================
