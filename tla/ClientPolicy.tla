---------------------------- MODULE ClientPolicy ----------------------------
(***************************************************************************)
(* What a request is allowed to do under one configuration of its client   *)
(* (client-policy.ts, origin.util.ts, LoginService.revalidateClient).      *)
(*                                                                         *)
(* Origins and callbacks are the values the canonical* helpers return: two *)
(* spellings of one origin are one member, and a value they refuse (null)  *)
(* is NoValue where nothing was asked for, an unregistered member where    *)
(* something was.  They are compared by equality only, as in the code.     *)
(***************************************************************************)

CONSTANTS Origins, Callbacks,
          NoValue          \* null: not asked for, or not resolved

ASSUME NoValueAssumption == NoValue \notin Origins \cup Callbacks

Statuses == {"PENDING", "SECURITY_REVIEW", "ACTIVE", "SUSPENDED", "RETIRED"}
Modes == {"EMBEDDED", "REDIRECT", "EMBEDDED_OR_REDIRECT"}
Displays == {"embed", "page"}

(* The members of FederationClientConfig that decide.                      *)
ClientConfig ==
  [status : Statuses, mode : Modes, origins : SUBSET Origins,
   callbacks : SUBSET Callbacks, callback : Callbacks \cup {NoValue}]

(* What a transaction is created with and stays bound to.                  *)
Binding ==
  [display : Displays, origin : Origins \cup {NoValue}, callback : Callbacks]

CanAuthenticate(c, display) ==
  /\ c.status = "ACTIVE"
  /\ ~ (display = "embed" /\ c.mode = "REDIRECT")

(* The origin a request is bound to, none when it is refused: one that is  *)
(* registered, and without asking only if exactly one is.                  *)
ResolvedOrigins(c, asked) ==
  {o \in c.origins : IF asked = NoValue THEN c.origins = {o} ELSE o = asked}

(* Mutant: a missing default callback is not an error.                     *)
ResolvedCallbacksNull(c, asked) ==
  IF asked = NoValue THEN {c.callback} ELSE {asked} \cap c.callbacks

ResolvedCallbacks(c, asked) ==
  IF asked = NoValue THEN {c.callback} \ {NoValue} ELSE {asked} \cap c.callbacks

(* The binding of a new transaction; empty when the page or the API        *)
(* refuses it.                                                             *)
Bindings(c, ask) ==
  IF ~ CanAuthenticate(c, ask.display) THEN {}
  ELSE {[display |-> ask.display, origin |-> o, callback |-> u] :
          o \in IF ask.display = "embed"
                THEN ResolvedOrigins(c, ask.origin) ELSE {NoValue},
          u \in ResolvedCallbacks(c, ask.callback)}

(* Mutant: the sign-in looks at the status of the client only.             *)
StillAllowedByStatus(c, b) == CanAuthenticate(c, b.display)

(* revalidateClient: may a transaction bound to b sign in under c?         *)
StillAllowed(c, b) ==
  /\ CanAuthenticate(c, b.display)
  /\ b.origin # NoValue => b.origin \in c.origins
  /\ b.callback \in c.callbacks
=============================================================================
