-------------------------- MODULE LoginTransactions --------------------------
(***************************************************************************)
(* TransactionService as requests of any number of pods use it: every      *)
(* action is one Redis command (or one Lua script) of one request, so the  *)
(* requests interleave between their commands as they do at the awaits of  *)
(* the code, and a key may expire between any two commands.                *)
(*                                                                         *)
(* Requests:                                                               *)
(*   application page  GET /embed/login, POST /auth/transaction            *)
(*   portal page       GET /portal                                         *)
(*   sign-in           POST /embed/login, /embed/continue, /portal/login   *)
(*   select-scope      POST /portal/select-scope                           *)
(* Each member of Requests serves one of them and keeps its answer.        *)
(***************************************************************************)
EXTENDS TransactionScripts

CONSTANTS AppIds,      \* ids an application chooses, so they can be repeated
          PortalIds,   \* ids Identity generates: each is used once
          Requests,
          MaxReuse     \* bound: how often one application id may be created

ASSUME IdsAssumption == AppIds \cap PortalIds = {}
ASSUME ReuseAssumption == MaxReuse \in Nat

Ids == AppIds \cup PortalIds

VARIABLES store,       \* store[id]: the value under federation:txn:<id>
          born,        \* born[id]: transactions created under id so far
          sessions,    \* the federation sessions that exist
          req,         \* req[r]: what request r has done and read so far
          assertions   \* history: completions, by whom and of what

vars == <<store, born, sessions, req, assertions>>

PC == {"idle", "reopen", "bindPage", "establish", "complete", "bindSignIn",
       "bindSelect", "done"}

(* How a request ended.  "page" answers carry the CSRF token of the page.  *)
Results == {"none", "page", "used", "conflict", "invalid", "csrf",
            "assertion", "portal", "scope", "mismatch"}

Request ==
  [pc : PC, id : Ids, client : Clients \cup {NoClient}, params : Params,
   csrf : Nat, sid : Sids \cup {NoSid}, result : Results]

Assertion == [id : Ids, epoch : Nat, user : Requests]

(* What a request may be sent with: portal ids go with the null client.    *)
FreshRequests ==
  {[pc |-> "idle", id |-> i, client |-> c, params |-> p, csrf |-> 0,
    sid |-> NoSid, result |-> "none"] :
      i \in AppIds, c \in Clients, p \in Params}
  \cup
  {[pc |-> "idle", id |-> i, client |-> NoClient, params |-> p, csrf |-> 0,
    sid |-> NoSid, result |-> "none"] : i \in PortalIds, p \in Params}

(* Bookkeeping shared by the actions.                                      *)
Becomes(r, q) == req' = [req EXCEPT ![r] = q]
Step(r, pc) == Becomes(r, [req[r] EXCEPT !.pc = pc])
Finish(r, result) ==
  Becomes(r, [req[r] EXCEPT !.pc = "done", !.result = result])

(* The CSRF tokens of the pages browsers hold for an id.                   *)
ServedTokens(id) ==
  {req[r].csrf : r \in {q \in Requests : req[q].id = id /\ req[q].result = "page"}}

-----------------------------------------------------------------------------
Init ==
  /\ store = [id \in Ids |-> NoTxn]
  /\ born = [id \in Ids |-> 0]
  /\ sessions \in SUBSET Sids
  /\ req \in [Requests -> FreshRequests]
  /\ assertions = {}

(* Mutant: SET without NX.                                                 *)
CreateNewOverwrites(r) ==
  LET q == req[r] IN
  /\ q.pc = "idle"
  /\ q.id \in AppIds /\ (store[q.id] = NoTxn => born[q.id] < MaxReuse)
  /\ store' = [store EXCEPT ![q.id] = NewTxn(q.client, q.params, born[q.id] + 1)]
  /\ born' = [born EXCEPT ![q.id] = @ + 1]
  /\ Becomes(r, [q EXCEPT !.pc = "done", !.result = "page",
                          !.csrf = born[q.id] + 1])
  /\ UNCHANGED <<sessions, assertions>>

(* create(): SET key txn EX ttl NX.  The page is served when the key was   *)
(* free; a taken key is read again.  The request's id, client and          *)
(* parameters are what it was sent with.                                   *)
CreateNew(r) ==
  LET q == req[r] IN
  /\ q.pc = "idle"
  /\ q.id \in AppIds /\ (store[q.id] = NoTxn => born[q.id] < MaxReuse)
  /\ IF store[q.id] = NoTxn
     THEN /\ store' = [store EXCEPT ![q.id] =
                         NewTxn(q.client, q.params, born[q.id] + 1)]
          /\ born' = [born EXCEPT ![q.id] = @ + 1]
          /\ Becomes(r, [q EXCEPT !.pc = "done", !.result = "page",
                                  !.csrf = born[q.id] + 1])
     ELSE Step(r, "reopen") /\ UNCHANGED <<store, born>>
  /\ UNCHANGED <<sessions, assertions>>

(* create(), the key being taken: GET it and resume, refuse or conflict.   *)
CreateResume(r) ==
  LET q == req[r]
      v == store[q.id]
      reply == ResumeReply(v, q.client, q.params) IN
  /\ q.pc = "reopen"
  /\ IF reply = "resumed"
     THEN Becomes(r, [q EXCEPT !.pc = "done", !.result = "page",
                               !.csrf = v.csrf])
     ELSE Finish(r, reply)
  /\ UNCHANGED <<store, born, sessions, assertions>>

(* PortalController.page: a transaction under a fresh id ...               *)
PortalPage(r) ==
  LET q == req[r] IN
  /\ q.pc = "idle"
  /\ q.id \in PortalIds /\ born[q.id] = 0 /\ store[q.id] = NoTxn
  /\ store' = [store EXCEPT ![q.id] = NewTxn(NoClient, q.params, 1)]
  /\ born' = [born EXCEPT ![q.id] = 1]
  /\ Becomes(r, [q EXCEPT !.pc = "bindPage", !.csrf = 1])
  /\ UNCHANGED <<sessions, assertions>>

(* ... bound to the browser's session when it has one, then served.        *)
PortalPageBind(r) ==
  LET q == req[r] IN
  /\ q.pc = "bindPage"
  /\ \/ \E s \in sessions :
          /\ store' = [store EXCEPT ![q.id] = BindValue(store[q.id], s, TRUE)]
          /\ Becomes(r, [q EXCEPT !.pc = "done", !.result = "page",
                                  !.sid = s])
     \/ Finish(r, "page") /\ UNCHANGED store
  /\ UNCHANGED <<born, sessions, assertions>>

(* loginWithPassword / continueWithSession up to the checks on the         *)
(* transaction: requirePending and the CSRF comparison.  A portal sign-in  *)
(* (client null) establishes its session next.                             *)
RequirePending(r) ==
  LET q == req[r] IN
  /\ q.pc = "idle"
  /\ \E token \in ServedTokens(q.id) :
       LET reply == PendingReply(store[q.id], q.client, token) IN
       \/ /\ reply # "ok"
          /\ Becomes(r, [q EXCEPT !.pc = "done", !.result = reply,
                                  !.csrf = token])
       \/ /\ reply = "ok"
          /\ Becomes(r, [q EXCEPT
               !.pc = IF q.client = NoClient THEN "establish" ELSE "complete",
               !.csrf = token])
  /\ UNCHANGED <<store, born, sessions, assertions>>

(* establishSession: a sign-in always makes a session of its own.          *)
EstablishSession(r) ==
  /\ req[r].pc = "establish"
  /\ \E s \in Sids \ sessions :
       /\ sessions' = sessions \cup {s}
       /\ Becomes(r, [req[r] EXCEPT !.pc = "complete", !.sid = s])
  /\ UNCHANGED <<store, born, assertions>>

(* complete(): the script decides alone whether this request is the one    *)
(* that is granted; the assertion is issued for what the script returned.  *)
Complete(r) ==
  LET q == req[r]
      v == store[q.id]
      reply == CompleteReply(v) IN
  /\ q.pc = "complete"
  /\ store' = [store EXCEPT ![q.id] = CompleteValue(v)]
  /\ IF reply = "ok"
     THEN /\ assertions' = assertions \cup
                {[id |-> q.id, epoch |-> v.csrf, user |-> r]}
          /\ IF q.client = NoClient THEN Step(r, "bindSignIn")
                                    ELSE Finish(r, "assertion")
     ELSE Finish(r, reply) /\ UNCHANGED assertions
  /\ UNCHANGED <<born, sessions>>

(* Mutant: the sign-in does not overwrite an earlier binding.              *)
BindSignInKeeps(r) ==
  LET q == req[r] IN
  /\ q.pc = "bindSignIn"
  /\ store' = [store EXCEPT ![q.id] = BindValue(store[q.id], q.sid, FALSE)]
  /\ Finish(r, "portal")
  /\ UNCHANGED <<born, sessions, assertions>>

(* bindToSession(..., true) after a portal sign-in; its answer is ignored, *)
(* also when the session has no lifetime left and nothing is written.      *)
BindSignIn(r) ==
  LET q == req[r] IN
  /\ q.pc = "bindSignIn"
  /\ store' = [store EXCEPT ![q.id] = BindValue(store[q.id], q.sid, TRUE)]
  /\ Finish(r, "portal")
  /\ UNCHANGED <<born, sessions, assertions>>

(* selectScope: GET and the CSRF comparison, in any status ...             *)
SelectScope(r) ==
  LET q == req[r]
      v == store[q.id] IN
  /\ q.pc = "idle"
  /\ \E token \in ServedTokens(q.id) :
       LET accepted == v # NoTxn /\ v.client = NoClient /\ v.csrf = token IN
       \/ /\ ~accepted
          /\ Becomes(r, [q EXCEPT !.pc = "done", !.result = "csrf",
                                  !.csrf = token])
       \/ /\ accepted
          /\ Becomes(r, [q EXCEPT !.pc = "bindSelect", !.csrf = token])
  /\ UNCHANGED <<store, born, sessions, assertions>>

(* ... then the session of the cookie must be the bound one, or the first. *)
SelectScopeBind(r) ==
  LET q == req[r] IN
  /\ q.pc = "bindSelect"
  /\ \E s \in sessions :
       LET reply == BindReply(store[q.id], s, FALSE) IN
       /\ store' = [store EXCEPT ![q.id] = BindValue(store[q.id], s, FALSE)]
       /\ Becomes(r, [q EXCEPT !.pc = "done", !.sid = s,
            !.result = IF reply = "ok" THEN "scope" ELSE "mismatch"])
  /\ UNCHANGED <<born, sessions, assertions>>

(* The time to live of a key runs out (Redis, at any moment).              *)
Expire(id) ==
  /\ store[id] # NoTxn
  /\ store' = [store EXCEPT ![id] = NoTxn]
  /\ UNCHANGED <<born, sessions, req, assertions>>

Next ==
  \/ \E r \in Requests :
       \/ CreateNew(r) \/ CreateResume(r)
       \/ PortalPage(r) \/ PortalPageBind(r)
       \/ RequirePending(r) \/ EstablishSession(r)
       \/ Complete(r) \/ BindSignIn(r)
       \/ SelectScope(r) \/ SelectScopeBind(r)
  \/ \E id \in Ids : Expire(id)

Spec == Init /\ [][Next]_vars
-----------------------------------------------------------------------------
(* Every variable keeps its type (the store of TransactionService and the  *)
(* progress of the requests).                                              *)
TypeOK ==
  /\ store \in [Ids -> LoginTransaction \cup {NoTxn}]
  /\ born \in [Ids -> Nat]
  /\ sessions \subseteq Sids
  /\ req \in [Requests -> Request]
  /\ assertions \subseteq Assertion

(* A transaction yields at most one assertion, however many requests of    *)
(* however many pods race for it and however often its id is created again *)
(* after expiring (transaction.service.ts, COMPLETE_SCRIPT).               *)
SingleUse ==
  \A a, b \in assertions : a.id = b.id /\ a.epoch = b.epoch => a = b

(* Once a sign-in has bound a portal transaction, the transaction serves   *)
(* that session and no other until it expires: no later select-scope and   *)
(* no reload of the page moves it (transaction.service.ts, bindToSession). *)
SignedInTransactionKeepsItsSession ==
  \A r \in Requests :
    LET q == req[r]
        v == store[q.id] IN
    q.result = "portal" /\ v # NoTxn => v.sid = q.sid

(* Two select-scope requests answered for one portal transaction and two   *)
(* different sessions need an overwriting bind (a sign-in) of one of those *)
(* sessions: the CSRF token of a page never drifts between sessions        *)
(* (portal-login.service.ts, selectScope).                                 *)
ScopeFollowsSignIn ==
  \A r1, r2 \in Requests :
    /\ req[r1].result = "scope" /\ req[r2].result = "scope"
    /\ req[r1].id = req[r2].id
    /\ req[r1].sid # req[r2].sid
    => \E r3 \in Requests :
         /\ req[r3].result = "portal" /\ req[r3].id = req[r1].id
         /\ req[r3].sid \in {req[r1].sid, req[r2].sid}

(* A used transaction never becomes usable again: a bind writes the whole  *)
(* value back, and expiry is the only way out of COMPLETED.                *)
UsedStaysUsed ==
  [][\A id \in Ids :
       store[id] # NoTxn /\ store[id].status = "COMPLETED"
         => \/ store'[id] = NoTxn
            \/ store'[id].csrf = store[id].csrf
               /\ store'[id].status = "COMPLETED"]_vars

(* The abstract promise, with the history read off this module's state.    *)
Phase(v) ==
  IF v = NoTxn THEN "absent"
  ELSE IF v.status = "PENDING" THEN "pending" ELSE "used"

Promise ==
  INSTANCE SingleUseTransaction
    WITH Users <- Requests,
         phase <- [id \in Ids |-> Phase(store[id])],
         epoch <- born,
         grants <- assertions

(* TransactionService implements SingleUseTransaction: what Redis commands *)
(* do to a key is an opening, one grant or a lapse of one transaction.     *)
ImplementsPromise == Promise!Spec
=============================================================================
