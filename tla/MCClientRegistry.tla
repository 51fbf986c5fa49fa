-------------------------- MODULE MCClientRegistry --------------------------
(* TLC instance of ClientRegistry: a client with two origins, the same     *)
(* client with one of them removed, and without a default callback.        *)
EXTENDS ClientRegistry, TLC

CONSTANTS o1, o2, cb

Active == [status |-> "ACTIVE", mode |-> "EMBEDDED_OR_REDIRECT",
           origins |-> {o1, o2}, callbacks |-> {cb}, callback |-> cb]

(* As it is, an origin removed, no default callback.                       *)
MCConfigs ==
  {Active, [Active EXCEPT !.origins = {o1}], [Active EXCEPT !.callback = NoValue]}

MCAsks == {[display |-> "embed", origin |-> o2, callback |-> NoValue]}

Symmetry == Permutations(Requests)
=============================================================================
