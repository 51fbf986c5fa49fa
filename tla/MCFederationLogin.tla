-------------------------- MODULE MCFederationLogin --------------------------
(* TLC instance of FederationLogin: transactions of two applications and   *)
(* one of the portal.  Requests (and with them sessions), browsers and     *)
(* users are interchangeable in the runs that check no liveness.           *)
EXTENDS FederationLogin, TLC

CONSTANTS t1, t2, tp, rms, ams

MCTxnClient ==
  [t \in Txns |-> CASE t = t1 -> rms [] t = t2 -> ams [] t = tp -> NoClient]

Symmetry == Permutations(Requests) \cup Permutations(Browsers) \cup Permutations(Users)
=============================================================================
