----------------------------- MODULE MCPortalPage -----------------------------
(* TLC instance of PortalPage: one user chooses, the other has one role.   *)
EXTENDS PortalPage

CONSTANTS a, b, core, bu

MCAssignments == {[u \in Users |-> IF u = a THEN {core, bu} ELSE {core}]}
=============================================================================
