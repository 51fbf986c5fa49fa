--------------------------- MODULE FederationLogin ---------------------------
(***************************************************************************)
(* The central federation session: FederationSessionService over Redis and *)
(* the Authentication DB, driven by the requests that create, use and end  *)
(* sessions (LoginService, LogoutService, their controllers).              *)
(*                                                                         *)
(* An action is one round trip of one request: the code between two awaits *)
(* that touch shared state.  A MULTI is one action.  Requests are served   *)
(* by any number of pods, so their round trips interleave freely.          *)
(*                                                                         *)
(* A session is named by the sign-in request that created it: sid, handle  *)
(* and cookie value correspond one to one, and a request creates at most   *)
(* one.  session:<sid> and session-handle:<hash> are separate keys here as *)
(* in Redis.                                                               *)
(***************************************************************************)
EXTENDS TransactionScripts

CONSTANTS Requests, Users, Browsers, Txns,
          TxnClient,    \* the client each transaction was created for
          NoBrowser,    \* an administrator's API call
          MaxFailures,  \* bound: requests that die or throw half-way
          Kinds,        \* the kinds of request of this instance
          Events        \* what else happens in this instance

AllKinds == {"login", "continue", "endSession", "logout", "forceSid", "forceUser"}

AllEvents == {"idle expiry", "user disabled"}

ASSUME KindsAssumption == Kinds \subseteq AllKinds /\ Events \subseteq AllEvents
ASSUME SidsAssumption == Sids = Requests
ASSUME TxnClientAssumption == TxnClient \in [Txns -> Clients \cup {NoClient}]
ASSUME FailuresAssumption == MaxFailures \in Nat
ASSUME NoBrowserAssumption == NoBrowser \notin Browsers

VARIABLES
  live,        \* live[s]: key session:<s> exists
  handle,      \* handle[s]: key session-handle:<hash of s's handle> exists
  members,     \* members[s]: set session-clients:<s>
  idleTtl,     \* idleTtl[s]: that set expires with the session (touch)
  index,       \* index[u]: set user-sessions:<u>
  row,         \* row[s]: auth_sessions row, with or without revoked_at
  rowClients,  \* rowClients[s]: auth_session_clients rows
  active,      \* active[u]: users.status = 'ACTIVE'
  txn,         \* txn[t]: value of the transaction
  cookie,      \* cookie[b]: session of the browser's handle cookie
  req,         \* req[r]: progress of request r
  delivered,   \* history: assertions that reached an application
  notified,    \* history: <<sid, client>> whose fan-out has begun
  failures     \* requests that have failed half-way

redis == <<live, handle, members, idleTtl, index>>
db == <<row, rowClients, active>>
history == <<delivered, notified>>
vars == <<redis, db, txn, cookie, req, history, failures>>

PC == {"idle", "verify", "getHandle", "getSession", "checkUser", "touch",
       "create", "insertRow", "complete", "addClient", "addClientRow",
       "respond", "userRows", "next", "getRaw", "getRow", "getMembers",
       "getRowClients", "delete", "updateRow", "fanOut", "clear", "done",
       "failed"}

Revocation == [sid : Sids, clients : SUBSET Clients]

Request ==
  [pc : PC, kind : AllKinds \cup {"none"}, browser : Browsers \cup {NoBrowser},
   user : Users, txn : Txns,
   sent : Sids \cup {NoSid},       \* the cookie the request came with
   target : Sids \cup {NoSid},     \* the session it revokes
   raw : BOOLEAN,                  \* what revoke read of session:<target>
   clients : SUBSET Clients,       \* what revoke read of its clients
   queue : SUBSET Sids,            \* what revokeAllForUser has left to do
   revoked : SUBSET Revocation,    \* revocations whose fan-out has not begun
   late : BOOLEAN,                 \* history: user inactive when it started
   reached : SUBSET Sids,          \* history: user's live sessions at start
   known : SUBSET Revocation]      \* history: on record when revoke began

Owner(s) == req[s].user

Becomes(r, q) == req' = [req EXCEPT ![r] = q]
Goes(r, pc) == Becomes(r, [req[r] EXCEPT !.pc = pc])

(* The session a request issues an assertion for: the one it has created,  *)
(* or the one its cookie named.                                            *)
SessionOf(r) == IF req[r].kind = "login" THEN r ELSE req[r].sent

-----------------------------------------------------------------------------
Init ==
  /\ live = [s \in Sids |-> FALSE]
  /\ handle = [s \in Sids |-> FALSE]
  /\ members = [s \in Sids |-> {}]
  /\ idleTtl = [s \in Sids |-> FALSE]
  /\ index = [u \in Users |-> {}]
  /\ row = [s \in Sids |-> "none"]
  /\ rowClients = [s \in Sids |-> {}]
  /\ active = [u \in Users |-> TRUE]
  /\ \E p \in Params : txn = [t \in Txns |-> NewTxn(TxnClient[t], p, 1)]
  /\ cookie = [b \in Browsers |-> NoSid]
  /\ req \in [Requests ->
       {[pc |-> "idle", kind |-> "none", browser |-> NoBrowser, user |-> u,
         txn |-> t, sent |-> NoSid, target |-> NoSid, raw |-> FALSE,
         clients |-> {}, queue |-> {}, revoked |-> {}, late |-> FALSE,
         reached |-> {}, known |-> {}] : u \in Users, t \in Txns}]
  /\ delivered = {} /\ notified = {}
  /\ failures = 0

-----------------------------------------------------------------------------
(* The requests as they arrive.                                            *)

(* POST /embed/login, /portal/login: requirePending accepts, the browser   *)
(* sent its cookie along.                                                  *)
StartLogin(r, b) ==
  LET q == req[r] IN
  /\ q.pc = "idle" /\ "login" \in Kinds
  /\ PendingReply(txn[q.txn], TxnClient[q.txn], txn[q.txn].csrf) = "ok"
  /\ Becomes(r, [q EXCEPT !.pc = "verify", !.kind = "login", !.browser = b,
                          !.sent = cookie[b], !.late = ~active[q.user]])
  /\ UNCHANGED <<redis, db, txn, cookie, history, failures>>

(* POST /embed/continue; the cookie names the session and so the user.     *)
StartContinue(r, b) ==
  LET q == req[r] IN
  /\ q.pc = "idle" /\ "continue" \in Kinds
  /\ TxnClient[q.txn] # NoClient
  /\ PendingReply(txn[q.txn], TxnClient[q.txn], txn[q.txn].csrf) = "ok"
  /\ cookie[b] # NoSid /\ q.user = Owner(cookie[b])
  /\ Becomes(r, [q EXCEPT !.pc = "getHandle", !.kind = "continue", !.browser = b,
                          !.sent = cookie[b], !.late = ~active[q.user]])
  /\ UNCHANGED <<redis, db, txn, cookie, history, failures>>

(* POST /embed/logout, /portal/logout (endBrowserSession), and the logouts *)
(* that fan out: /federation/logout by the browser, "sign out everywhere". *)
StartSignOut(r, b, kind) ==
  LET q == req[r] IN
  /\ q.pc = "idle" /\ kind \in Kinds
  /\ cookie[b] # NoSid /\ q.user = Owner(cookie[b])
  /\ Becomes(r, [q EXCEPT !.pc = "getHandle", !.kind = kind, !.browser = b,
                          !.sent = cookie[b]])
  /\ UNCHANGED <<redis, db, txn, cookie, history, failures>>

(* POST /federation/logout by an administrator, for one sid an application *)
(* was given ...                                                           *)
StartForceSid(r, s) ==
  LET q == req[r] IN
  /\ q.pc = "idle" /\ "forceSid" \in Kinds
  /\ row[s] # "none" /\ q.user = Owner(s)
  /\ Becomes(r, [q EXCEPT !.pc = "getRaw", !.kind = "forceSid", !.target = s])
  /\ UNCHANGED <<redis, db, txn, cookie, history, failures>>

(* ... or for a user: revokeAllForUser starts with SMEMBERS.               *)
StartForceUser(r) ==
  LET q == req[r] IN
  /\ q.pc = "idle" /\ "forceUser" \in Kinds
  /\ Becomes(r, [q EXCEPT !.pc = "userRows", !.kind = "forceUser",
                   !.queue = index[q.user],
                   !.reached = {s \in Sids : handle[s] /\ Owner(s) = q.user}])
  /\ UNCHANGED <<redis, db, txn, cookie, history, failures>>

-----------------------------------------------------------------------------
(* Signing in and continuing.                                              *)

(* CredentialService.verify reads the user's row.                          *)
Verify(r) ==
  /\ req[r].pc = "verify"
  /\ Goes(r, IF active[req[r].user] THEN "getHandle" ELSE "done")
  /\ UNCHANGED <<redis, db, txn, cookie, history, failures>>

(* getByHandle is two GETs; between them the session may go.  Each kind of *)
(* request goes on in its own way when there is no session.                *)
WithoutSession(kind) ==
  CASE kind = "login" -> "create"
    [] kind \in {"continue", "endSession", "logout"} -> "clear"

WithSession(kind) == IF kind = "continue" THEN "checkUser" ELSE "getRaw"

GetHandle(r) ==
  LET q == req[r] IN
  /\ q.pc = "getHandle"
  /\ Goes(r, IF q.sent # NoSid /\ handle[q.sent] THEN "getSession"
             ELSE WithoutSession(q.kind))
  /\ UNCHANGED <<redis, db, txn, cookie, history, failures>>

GetSession(r) ==
  LET q == req[r] IN
  /\ q.pc = "getSession"
  /\ IF live[q.sent]
     THEN Becomes(r, [q EXCEPT !.pc = WithSession(q.kind), !.target = q.sent])
     ELSE Goes(r, WithoutSession(q.kind))
  /\ UNCHANGED <<redis, db, txn, cookie, history, failures>>

(* Mutant: an inactive user is logged out, and goes on all the same.       *)
CheckUserGoesOn(r) ==
  /\ req[r].pc = "checkUser"
  /\ Goes(r, "touch")
  /\ UNCHANGED <<redis, db, txn, cookie, history, failures>>

(* continueWithSession: getActiveUser; an inactive user is logged out.     *)
CheckUser(r) ==
  /\ req[r].pc = "checkUser"
  /\ Goes(r, IF active[req[r].user] THEN "touch" ELSE "getRaw")
  /\ UNCHANGED <<redis, db, txn, cookie, history, failures>>

(* Mutant: the handle key is written again instead of prolonged.           *)
TouchSetsHandle(r) ==
  LET s == SessionOf(r) IN
  /\ req[r].pc = "touch"
  /\ live' = [live EXCEPT ![s] = TRUE]
  /\ handle' = [handle EXCEPT ![s] = TRUE]
  /\ idleTtl' = [idleTtl EXCEPT ![s] = members[s] # {}]
  /\ Goes(r, "complete")
  /\ UNCHANGED <<members, index, db, txn, cookie, history, failures>>

(* touch: SET session EX (creates the key if it has gone), EXPIRE handle   *)
(* (does not), EXPIRE session-clients.                                     *)
Touch(r) ==
  LET s == SessionOf(r) IN
  /\ req[r].pc = "touch"
  /\ live' = [live EXCEPT ![s] = TRUE]
  /\ idleTtl' = [idleTtl EXCEPT ![s] = members[s] # {}]
  /\ Goes(r, "complete")
  /\ UNCHANGED <<handle, members, index, db, txn, cookie, history, failures>>

(* Mutant: the session is not entered into user-sessions:<its_id>.         *)
CreateUnindexed(r) ==
  /\ req[r].pc = "create"
  /\ live' = [live EXCEPT ![r] = TRUE]
  /\ handle' = [handle EXCEPT ![r] = TRUE]
  /\ Goes(r, "insertRow")
  /\ UNCHANGED <<members, idleTtl, index, db, txn, cookie, history, failures>>

(* create: one MULTI for the three keys, then the row.                     *)
Create(r) ==
  /\ req[r].pc = "create"
  /\ live' = [live EXCEPT ![r] = TRUE]
  /\ handle' = [handle EXCEPT ![r] = TRUE]
  /\ index' = [index EXCEPT ![req[r].user] = @ \cup {r}]
  /\ Goes(r, "insertRow")
  /\ UNCHANGED <<members, idleTtl, db, txn, cookie, history, failures>>

InsertRow(r) ==
  /\ req[r].pc = "insertRow"
  /\ row' = [row EXCEPT ![r] = "open"]
  /\ Goes(r, "complete")
  /\ UNCHANGED <<redis, rowClients, active, txn, cookie, history, failures>>

(* transactions.complete; the loser of a race answers without a cookie.    *)
Complete(r) ==
  LET t == req[r].txn
      reply == CompleteReply(txn[t]) IN
  /\ req[r].pc = "complete"
  /\ txn' = [txn EXCEPT ![t] = CompleteValue(txn[t])]
  /\ Goes(r, CASE reply # "ok" -> "done"
               [] reply = "ok" /\ TxnClient[t] = NoClient -> "respond"
               [] OTHER -> "addClient")
  /\ UNCHANGED <<redis, db, cookie, history, failures>>

(* addClient: SADD + EXPIRE to the absolute lifetime, then the row, which  *)
(* needs the session's row (foreign key).                                  *)
AddClient(r) ==
  LET s == SessionOf(r) IN
  /\ req[r].pc = "addClient"
  /\ members' = [members EXCEPT ![s] = @ \cup {TxnClient[req[r].txn]}]
  /\ idleTtl' = [idleTtl EXCEPT ![s] = FALSE]
  /\ Goes(r, "addClientRow")
  /\ UNCHANGED <<live, handle, index, db, txn, cookie, history, failures>>

AddClientRow(r) ==
  LET s == SessionOf(r) IN
  /\ req[r].pc = "addClientRow"
  /\ IF row[s] = "none"
     THEN Goes(r, "done") /\ UNCHANGED rowClients
     ELSE /\ rowClients' = [rowClients EXCEPT ![s] = @ \cup {TxnClient[req[r].txn]}]
          /\ Goes(r, "respond")
  /\ UNCHANGED <<redis, row, active, txn, cookie, history, failures>>

(* The response: the cookie is set (a continuation sets the one it came    *)
(* with), and the assertion goes through the browser to the application.   *)
Respond(r) ==
  LET q == req[r]
      s == SessionOf(r)
      c == TxnClient[q.txn] IN
  /\ q.pc = "respond"
  /\ cookie' = [cookie EXCEPT ![q.browser] = s]
  /\ delivered' = IF c = NoClient THEN delivered
                  ELSE delivered \cup {[sid |-> s, client |-> c, by |-> r]}
  /\ Goes(r, "done")
  /\ UNCHANGED <<redis, db, txn, notified, failures>>

(* The response of a sign-out, or SESSION_REQUIRED: the cookie is cleared. *)
Clear(r) ==
  /\ req[r].pc = "clear"
  /\ cookie' = [cookie EXCEPT ![req[r].browser] = NoSid]
  /\ Goes(r, "done")
  /\ UNCHANGED <<redis, db, txn, history, failures>>

-----------------------------------------------------------------------------
(* Mutant: the table alone decides which sessions the user has.            *)
UserRowsOnly(r) ==
  LET q == req[r] IN
  /\ q.pc = "userRows"
  /\ Becomes(r, [q EXCEPT !.pc = "next",
       !.queue = {s \in Sids : row[s] = "open" /\ Owner(s) = q.user}])
  /\ UNCHANGED <<redis, db, txn, cookie, history, failures>>

(* revokeAllForUser: the sids of the index and of the table, one by one.   *)
UserRows(r) ==
  LET q == req[r] IN
  /\ q.pc = "userRows"
  /\ Becomes(r, [q EXCEPT !.pc = "next",
       !.queue = @ \cup {s \in Sids : row[s] = "open" /\ Owner(s) = q.user}])
  /\ UNCHANGED <<redis, db, txn, cookie, history, failures>>

NextOfUser(r) ==
  LET q == req[r] IN
  /\ q.pc = "next"
  /\ \/ \E s \in q.queue :
          Becomes(r, [q EXCEPT !.pc = "getRaw", !.target = s, !.queue = @ \ {s}])
     \/ /\ q.queue = {}
        /\ Goes(r, IF q.revoked = {} THEN "done" ELSE "fanOut")
  /\ UNCHANGED <<redis, db, txn, cookie, history, failures>>

(* revoke, one round trip after the other.                                 *)
AfterRevoke(kind) ==
  CASE kind = "login" -> "create"
    [] kind \in {"continue", "endSession", "logout"} -> "clear"
    [] kind = "forceSid" -> "done"
    [] kind = "forceUser" -> "next"

GetRaw(r) ==
  LET q == req[r] IN
  /\ q.pc = "getRaw"
  /\ Becomes(r, [q EXCEPT !.pc = "getRow", !.raw = live[q.target]])
  /\ UNCHANGED <<redis, db, txn, cookie, history, failures>>

GetRow(r) ==
  LET q == req[r] IN
  /\ q.pc = "getRow"
  /\ IF ~q.raw /\ row[q.target] # "open"
     THEN Goes(r, AfterRevoke(q.kind))
     ELSE Becomes(r, [q EXCEPT !.pc = "getMembers",
            !.known = @ \cup {[sid |-> q.target, clients |-> rowClients[q.target]]}])
  /\ UNCHANGED <<redis, db, txn, cookie, history, failures>>

(* clients(): the Redis set, or the rows when there is none.               *)
GetMembers(r) ==
  LET q == req[r] IN
  /\ q.pc = "getMembers"
  /\ Becomes(r, [q EXCEPT !.clients = members[q.target],
       !.pc = IF members[q.target] # {} THEN "delete" ELSE "getRowClients"])
  /\ UNCHANGED <<redis, db, txn, cookie, history, failures>>

GetRowClients(r) ==
  LET q == req[r] IN
  /\ q.pc = "getRowClients"
  /\ Becomes(r, [q EXCEPT !.pc = "delete", !.clients = rowClients[q.target]])
  /\ UNCHANGED <<redis, db, txn, cookie, history, failures>>

(* Mutant: the handle key is left to expire.                               *)
DeleteKeepsHandle(r) ==
  LET s == req[r].target IN
  /\ req[r].pc = "delete"
  /\ live' = [live EXCEPT ![s] = FALSE]
  /\ members' = [members EXCEPT ![s] = {}]
  /\ idleTtl' = [idleTtl EXCEPT ![s] = FALSE]
  /\ index' = [index EXCEPT ![Owner(s)] = @ \ {s}]
  /\ Goes(r, "updateRow")
  /\ UNCHANGED <<handle, db, txn, cookie, history, failures>>

(* One MULTI; the handle key is known only from the session value.         *)
Delete(r) ==
  LET q == req[r]
      s == q.target IN
  /\ q.pc = "delete"
  /\ live' = [live EXCEPT ![s] = FALSE]
  /\ members' = [members EXCEPT ![s] = {}]
  /\ idleTtl' = [idleTtl EXCEPT ![s] = FALSE]
  /\ index' = [index EXCEPT ![Owner(s)] = @ \ {s}]
  /\ handle' = [handle EXCEPT ![s] = @ /\ ~q.raw]
  /\ Goes(r, "updateRow")
  /\ UNCHANGED <<db, txn, cookie, history, failures>>

(* Mutant: signing out everywhere ends the session and tells nobody.       *)
UpdateRowSilent(r) ==
  LET q == req[r]
      result == [sid |-> q.target, clients |-> q.clients] IN
  /\ q.pc = "updateRow"
  /\ row' = [row EXCEPT ![q.target] = IF @ = "open" THEN "revoked" ELSE @]
  /\ IF q.kind \in {"endSession", "logout"}
     THEN Goes(r, "clear")
     ELSE Becomes(r, [q EXCEPT !.revoked = @ \cup {result},
               !.pc = IF q.kind = "forceUser" THEN "next" ELSE "fanOut"])
  /\ UNCHANGED <<redis, rowClients, active, txn, cookie, history, failures>>

(* UPDATE ... WHERE revoked_at IS NULL, and revoke returns.  LoginService  *)
(* ends a browser session without a fan-out; revokeAllForUser collects.    *)
UpdateRow(r) ==
  LET q == req[r]
      result == [sid |-> q.target, clients |-> q.clients] IN
  /\ q.pc = "updateRow"
  /\ row' = [row EXCEPT ![q.target] = IF @ = "open" THEN "revoked" ELSE @]
  /\ IF q.kind = "endSession"
     THEN Goes(r, "clear")
     ELSE Becomes(r, [q EXCEPT !.revoked = @ \cup {result},
               !.pc = IF q.kind = "forceUser" THEN "next" ELSE "fanOut"])
  /\ UNCHANGED <<redis, rowClients, active, txn, cookie, history, failures>>

(* After the audit record, track(fanOut(...)) for one revocation.          *)
FanOut(r) ==
  LET q == req[r] IN
  /\ q.pc = "fanOut"
  /\ \E v \in q.revoked :
       /\ notified' = notified \cup ({v.sid} \X v.clients)
       /\ Becomes(r, [q EXCEPT !.revoked = @ \ {v},
            !.pc = CASE q.revoked # {v} -> "fanOut"
                     [] q.revoked = {v} /\ q.kind = "forceUser" -> "done"
                     [] OTHER -> AfterRevoke(q.kind)])
  /\ UNCHANGED <<redis, db, txn, cookie, delivered, failures>>

-----------------------------------------------------------------------------
(* The pod dies or a call to Redis or the DB throws: the rest of the       *)
(* request does not happen.                                                *)
Fail(r) ==
  /\ req[r].pc \notin {"idle", "done", "failed"}
  /\ failures < MaxFailures
  /\ failures' = failures + 1
  /\ Goes(r, "failed")
  /\ UNCHANGED <<redis, db, txn, cookie, history>>

(* The idle TTL of a session's keys runs out: session and handle were      *)
(* given the same one; the clients' set has it only after a touch.         *)
ExpireIdle(s) ==
  /\ "idle expiry" \in Events /\ live[s]
  /\ live' = [live EXCEPT ![s] = FALSE]
  /\ handle' = [handle EXCEPT ![s] = FALSE]
  /\ members' = [members EXCEPT ![s] = IF idleTtl[s] THEN {} ELSE @]
  /\ idleTtl' = [idleTtl EXCEPT ![s] = FALSE]
  /\ UNCHANGED <<index, db, txn, cookie, req, history, failures>>

(* User administration sets users.status.                                  *)
Disable(u) ==
  /\ "user disabled" \in Events /\ active[u]
  /\ active' = [active EXCEPT ![u] = FALSE]
  /\ UNCHANGED <<redis, row, rowClients, txn, cookie, req, history, failures>>

Start(r) ==
  \/ \E b \in Browsers :
       \/ StartLogin(r, b) \/ StartContinue(r, b)
       \/ \E kind \in {"endSession", "logout"} : StartSignOut(r, b, kind)
  \/ \E s \in Sids : StartForceSid(r, s)
  \/ StartForceUser(r)

Proceed(r) ==
  \/ Verify(r) \/ GetHandle(r) \/ GetSession(r) \/ CheckUser(r)
  \/ Touch(r) \/ Create(r) \/ InsertRow(r) \/ Complete(r)
  \/ AddClient(r) \/ AddClientRow(r) \/ Respond(r) \/ Clear(r)
  \/ UserRows(r) \/ NextOfUser(r)
  \/ GetRaw(r) \/ GetRow(r) \/ GetMembers(r) \/ GetRowClients(r)
  \/ Delete(r) \/ UpdateRow(r) \/ FanOut(r)

Next ==
  \/ \E r \in Requests : Start(r) \/ Proceed(r) \/ Fail(r)
  \/ \E s \in Sids : ExpireIdle(s)
  \/ \E u \in Users : Disable(u)

Spec == Init /\ [][Next]_vars

(* Redis, the DB and the network answer or fail: a request that was        *)
(* started goes on.  Nothing obliges anybody to start one.                 *)
FairSpec == Spec /\ \A r \in Requests : WF_vars(Proceed(r))
-----------------------------------------------------------------------------
(* Every variable keeps its type (the Redis keys, the rows, the requests). *)
TypeOK ==
  /\ live \in [Sids -> BOOLEAN] /\ handle \in [Sids -> BOOLEAN]
  /\ members \in [Sids -> SUBSET Clients] /\ idleTtl \in [Sids -> BOOLEAN]
  /\ index \in [Users -> SUBSET Sids]
  /\ row \in [Sids -> {"none", "open", "revoked"}]
  /\ rowClients \in [Sids -> SUBSET Clients]
  /\ active \in [Users -> BOOLEAN]
  /\ txn \in [Txns -> LoginTransaction]
  /\ cookie \in [Browsers -> Sids \cup {NoSid}]
  /\ req \in [Requests -> Request]
  /\ delivered \subseteq [sid : Sids, client : Clients, by : Requests]
  /\ notified \subseteq Sids \X Clients
  /\ failures \in 0..MaxFailures

(* No handle that a browser may still hold opens a session the DB calls    *)
(* revoked, although a continuation that read the session before may still *)
(* be about to touch it (revoke, touch).                                   *)
RevokedStaysUnreachable ==
  \A s \in Sids : row[s] = "revoked" => ~handle[s]

(* Every session a browser can use is found by way of its user, even when  *)
(* its row was never written because the DB failed after the MULTI.        *)
EveryReachableSessionIsIndexed ==
  \A s \in Sids : handle[s] => live[s] /\ s \in index[Owner(s)]

(* When a force logout of a user has ended, no session that the user could *)
(* use when it began can be used, whatever other requests did meanwhile.   *)
ForceLogoutIsComplete ==
  \A r \in Requests :
    req[r].kind = "forceUser" /\ req[r].pc = "done"
      => \A s \in req[r].reached : ~handle[s]

(* A request that began when its user was disabled delivers no assertion,  *)
(* by password or by the session that the user still has.                  *)
DisabledUserGetsNoNewAssertion ==
  \A d \in delivered : ~req[d.by].late

(* A sign-in that found a session under the browser's cookie makes its own *)
(* only after that handle has stopped working (session fixation, and the   *)
(* previous user of the browser).                                          *)
ReauthenticationRetiresOldSession ==
  \A r \in Requests :
    LET q == req[r] IN
    /\ q.kind = "login" /\ q.target # NoSid
    /\ q.pc \in {"create", "insertRow", "complete", "addClient",
                 "addClientRow", "respond"}
    => ~handle[q.target]

(* The applications on record for a session when its revocation began have *)
(* been notified by the revocation, or by another one of the session.      *)
Answered(r) ==
  \A k \in req[r].known : {k.sid} \X k.clients \subseteq notified

Rivals(r1, r2) ==
  \E k1 \in req[r1].known, k2 \in req[r2].known : k1.sid = k2.sid

(* A revocation with a fan-out notifies the applications on record in the  *)
(* end, although assertions are being issued for the session meanwhile, if *)
(* nobody else revokes the session (without failures and idle expiry; of   *)
(* two revocations, the second may find a set that was begun anew).        *)
RecordedApplicationsAreNotified ==
  \A r \in Requests :
    req[r].known # {} /\ req[r].kind # "endSession"
      ~> Answered(r) \/ \E r2 \in Requests \ {r} : Rivals(r, r2)

(* Sessions whose keys are written or whose request will never write them. *)
PastCreate == {"insertRow", "complete", "addClient", "addClientRow", "respond",
               "done", "failed"}
Created == {s \in Sids : req[s].kind = "login" /\ req[s].pc \in PastCreate}

Phase(s) ==
  IF handle[s] THEN "open" ELSE IF s \in Created THEN "closed" ELSE "absent"

Promise ==
  INSTANCE FederationSession
    WITH Sessions <- Sids,
         phase <- [s \in Sids |-> Phase(s)],
         issued <- {<<d.sid, d.client>> : d \in delivered},
         told <- notified

(* The steps of all requests, failures and expiries implement the promise: *)
(* no touch opens a closed session again, and no fan-out (LogoutService)   *)
(* runs ahead of the MULTI that deletes the handle.                        *)
ImplementsSession == Promise!Spec
=============================================================================
