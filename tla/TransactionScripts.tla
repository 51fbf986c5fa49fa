------------------------- MODULE TransactionScripts -------------------------
(***************************************************************************)
(* The value Identity keeps in Redis under federation:txn:<id>, and what   *)
(* one Redis command or Lua script of TransactionService does to it.       *)
(*                                                                         *)
(* Each operator takes the value stored under one key (NoTxn when the key  *)
(* is absent) and yields the reply of the command or the value it leaves.  *)
(* The scripts run inside Redis, so a module that uses an operator here    *)
(* uses it in one action.                                                  *)
(*                                                                         *)
(* A transaction keeps: the client (NoClient for a portal page), the other *)
(* parameters of the request that created it (state, display, embed_origin *)
(* and callback_uri, one value of Params), the CSRF token (fresh for every *)
(* transaction, so a counter), the status and the bound session.           *)
(***************************************************************************)
EXTENDS Naturals

CONSTANTS Clients,   \* client_ids of registered applications
          NoClient,  \* client_id = null: a portal transaction
          Params,    \* state + display + embed_origin + callback_uri
          Sids,      \* federation session ids
          NoSid,     \* the transaction is bound to no session
          NoTxn      \* the key does not exist

Status == {"PENDING", "COMPLETED"}

LoginTransaction ==
  [client : Clients \cup {NoClient}, params : Params, csrf : Nat,
   status : Status, sid : Sids \cup {NoSid}]

ASSUME NoTxnAssumption == NoTxn \notin LoginTransaction
ASSUME NoSidAssumption == NoSid \notin Sids
ASSUME NoClientAssumption == NoClient \notin Clients

(* The transaction create() builds: PENDING, unbound, a fresh CSRF token.  *)
NewTxn(client, params, csrf) ==
  [client |-> client, params |-> params, csrf |-> csrf,
   status |-> "PENDING", sid |-> NoSid]

(* The request that finds the key taken may resume what it finds only when *)
(* every parameter is the one it sent itself.                              *)
SameRequest(v, client, params) ==
  v # NoTxn /\ v.client = client /\ v.params = params

(* What create() answers after its GET of an id that was taken.            *)
ResumeReply(v, client, params) ==
  IF SameRequest(v, client, params)
  THEN IF v.status = "PENDING" THEN "resumed" ELSE "used"
  ELSE "conflict"

(* requirePending, then the CSRF comparison its callers make at once.      *)
PendingReply(v, client, csrf) ==
  CASE v = NoTxn -> "invalid"
    [] v # NoTxn /\ v.status # "PENDING" -> "used"
    [] v # NoTxn /\ v.status = "PENDING" /\ v.client # client -> "invalid"
    [] OTHER -> IF v.csrf = csrf THEN "ok" ELSE "csrf"

(* Mutant: the status test of the script is lost.                          *)
CompleteReplyUnchecked(v) == IF v = NoTxn THEN "invalid" ELSE "ok"

(* COMPLETE_SCRIPT: PENDING -> COMPLETED, once.                            *)
CompleteReply(v) ==
  CASE v = NoTxn -> "invalid"
    [] v # NoTxn /\ v.status # "PENDING" -> "used"
    [] OTHER -> "ok"

(* Mutant: the script stores its own reply as the status.                  *)
CompleteValueReply(v) ==
  IF CompleteReply(v) = "ok" THEN [v EXCEPT !.status = "USED"] ELSE v

CompleteValue(v) ==
  IF CompleteReply(v) = "ok" THEN [v EXCEPT !.status = "COMPLETED"] ELSE v

(* Mutant: the script forgets that the transaction is bound already.       *)
BindReplyAnySession(v, sid, overwrite) ==
  IF v = NoTxn THEN "invalid" ELSE "ok"

(* BIND_SESSION_SCRIPT: names the session a portal transaction serves.     *)
BindReply(v, sid, overwrite) ==
  CASE v = NoTxn -> "invalid"
    [] v # NoTxn /\ ~overwrite /\ v.sid \notin {NoSid, sid} -> "mismatch"
    [] OTHER -> "ok"

BindValue(v, sid, overwrite) ==
  IF BindReply(v, sid, overwrite) = "ok" THEN [v EXCEPT !.sid = sid] ELSE v
=============================================================================
