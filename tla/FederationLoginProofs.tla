------------------------ MODULE FederationLoginProofs ------------------------
(***************************************************************************)
(* For every set of requests, users, browsers and transactions, and every  *)
(* number of failures: types, and the invariants about revoked sessions    *)
(* and force logout.  They rest on what each request knows of the session  *)
(* it works on (ReqInv) while the others change it.                        *)
(***************************************************************************)
EXTENDS FederationLogin, TLAPS

Revoking == {"getRaw", "getRow", "getMembers", "getRowClients", "delete"}

(* The way of each kind of request through the actions.                    *)
PathOK(q) ==
  /\ q.kind = "none" => q.pc = "idle"
  /\ q.pc = "idle" => q.kind = "none"
  /\ q.pc = "verify" \/ q.pc = "create" \/ q.pc = "insertRow" => q.kind = "login"
  /\ q.pc \in {"complete", "addClient", "addClientRow", "respond"}
       => q.kind \in {"login", "continue"}
  /\ q.pc \in {"checkUser", "touch"} => q.kind = "continue"
  /\ q.pc \in {"getHandle", "getSession"}
       => q.kind \in {"login", "continue", "endSession", "logout"}
  /\ q.pc \in {"userRows", "next"} => q.kind = "forceUser"
  /\ q.pc = "clear" => q.kind \in {"continue", "endSession", "logout"}
  /\ q.pc \in {"addClient", "addClientRow"} => TxnClient[q.txn] # NoClient

(* The sessions a request names exist.                                     *)
NamesCreated(q) ==
  /\ q.sent # NoSid => q.sent \in Created
  /\ q.target # NoSid => q.target \in Created
  /\ q.queue \subseteq Created
  /\ q.reached \subseteq Created
  /\ q.kind = "continue" \/ q.pc = "getSession" => q.sent # NoSid
  /\ q.pc \in Revoking \cup {"updateRow", "checkUser"} => q.target # NoSid

(* A revocation that found no session value finds no handle either.        *)
KnowsHandle(q) ==
  /\ q.pc \in Revoking \ {"getRaw"} /\ handle[q.target] => q.raw
  /\ q.pc = "updateRow" => ~handle[q.target]

(* A force logout has not lost any session it set out to revoke.           *)
KnowsQueue(q) ==
  q.kind = "forceUser" =>
    /\ q.pc \in {"fanOut", "done"} => q.queue = {}
    /\ q.pc # "failed" =>
         \A s \in q.reached :
           handle[s] => s \in q.queue \/ (s = q.target /\ q.pc \in Revoking)

ReqInv(q) == PathOK(q) /\ NamesCreated(q) /\ KnowsHandle(q) /\ KnowsQueue(q)

(* What holds of the keys, the rows and the cookies.                       *)
NothingBeforeCreate ==
  \A s \in Sids \ Created :
    /\ ~live[s] /\ ~handle[s] /\ row[s] = "none"
    /\ \A u \in Users : s \notin index[u]

CookiesNameCreated == \A b \in Browsers : cookie[b] # NoSid => cookie[b] \in Created

KeysInv ==
  /\ NothingBeforeCreate
  /\ CookiesNameCreated
  /\ EveryReachableSessionIsIndexed
  /\ RevokedStaysUnreachable

(* The inductive invariant.                                                *)
IInv == TypeOK /\ KeysInv /\ \A r \in Requests : ReqInv(req[r])

-----------------------------------------------------------------------------
(* What TypeOK says of one request.                                        *)
LEMMA RequestFacts ==
  ASSUME TypeOK, NEW r \in Requests
  PROVE  /\ req[r] \in Request
         /\ req[r].user \in Users /\ req[r].txn \in Txns
         /\ req[r].sent \in Sids \cup {NoSid}
         /\ req[r].target \in Sids \cup {NoSid}
         /\ req[r].queue \in SUBSET Sids /\ req[r].reached \in SUBSET Sids
         /\ txn[req[r].txn] \in LoginTransaction
         /\ TxnClient[req[r].txn] \in Clients \cup {NoClient}
         /\ r \in Sids
  BY TxnClientAssumption, SidsAssumption DEF TypeOK, Request

LEMMA BecomesType ==
  ASSUME TypeOK, NEW r \in Requests, NEW n \in Request, Becomes(r, n)
  PROVE  req' \in [Requests -> Request]
  BY DEF TypeOK, Becomes

LEMMA GoesType ==
  ASSUME TypeOK, NEW r \in Requests, NEW pc \in PC, Goes(r, pc)
  PROVE  req' \in [Requests -> Request]
  <1>1. [req[r] EXCEPT !.pc = pc] \in Request
    BY RequestFacts DEF Request
  <1> QED
    BY <1>1, BecomesType DEF Goes

(* A request that starts with a browser's cookie.                          *)
LEMMA StartedType ==
  ASSUME NEW q \in Request, NEW pc \in PC, NEW kind \in AllKinds \cup {"none"},
         NEW b \in Browsers \cup {NoBrowser}, NEW s \in Sids \cup {NoSid}
  PROVE  [q EXCEPT !.pc = pc, !.kind = kind, !.browser = b, !.sent = s] \in Request
  <1>1. PICK q1 : q1 = [q EXCEPT !.pc = pc, !.kind = kind]
    OBVIOUS
  <1>2. q1 \in Request
    BY <1>1 DEF Request
  <1>3. [q1 EXCEPT !.browser = b, !.sent = s] \in Request
    BY <1>2 DEF Request
  <1>4. [q1 EXCEPT !.browser = b, !.sent = s]
          = [q EXCEPT !.pc = pc, !.kind = kind, !.browser = b, !.sent = s]
    BY <1>1
  <1> QED
    BY <1>3, <1>4

(* A request of an administrator, for all the sessions of a user.          *)
LEMMA ForcedType ==
  ASSUME NEW q \in Request, NEW pc \in PC, NEW kind \in AllKinds,
         NEW queue \in SUBSET Sids, NEW reached \in SUBSET Sids
  PROVE  [q EXCEPT !.pc = pc, !.kind = kind, !.queue = queue, !.reached = reached]
           \in Request
  <1>1. PICK q1 : q1 = [q EXCEPT !.pc = pc, !.kind = kind]
    OBVIOUS
  <1>2. q1 \in Request
    BY <1>1 DEF Request
  <1>3. [q1 EXCEPT !.queue = queue, !.reached = reached] \in Request
    BY <1>2 DEF Request
  <1>4. [q1 EXCEPT !.queue = queue, !.reached = reached]
          = [q EXCEPT !.pc = pc, !.kind = kind, !.queue = queue, !.reached = reached]
    BY <1>1
  <1> QED
    BY <1>3, <1>4

LEMMA InitType == Init => TypeOK
  <1> SUFFICES ASSUME Init PROVE TypeOK
    OBVIOUS
  <1>1. txn \in [Txns -> LoginTransaction]
    <2>1. PICK p \in Params : txn = [t \in Txns |-> NewTxn(TxnClient[t], p, 1)]
      BY DEF Init
    <2> QED
      BY <2>1, TxnClientAssumption DEF NewTxn, LoginTransaction, Status
  <1>2. req \in [Requests -> Request]
    <2>1. \A u \in Users, t \in Txns :
            [pc |-> "idle", kind |-> "none", browser |-> NoBrowser, user |-> u,
             txn |-> t, sent |-> NoSid, target |-> NoSid, raw |-> FALSE,
             clients |-> {}, queue |-> {}, revoked |-> {}, late |-> FALSE,
             reached |-> {}, known |-> {}] \in Request
      <3>1. "idle" \in PC
        BY DEF PC
      <3> QED
        BY <3>1 DEF Request
    <2> QED
      BY <2>1 DEF Init
  <1> QED
    BY <1>1, <1>2, FailuresAssumption DEF Init, TypeOK

-----------------------------------------------------------------------------
(* Type correctness: one step per action.                                  *)
LEMMA StartType ==
  ASSUME TypeOK, NEW r \in Requests, Start(r) PROVE TypeOK'
  <1> "verify" \in PC /\ "getHandle" \in PC /\ "getRaw" \in PC /\ "userRows" \in PC
    BY DEF PC
  <1> \A kind \in {"login", "continue", "endSession", "logout", "forceSid",
                  "forceUser"} : kind \in AllKinds \cup {"none"}
    BY DEF AllKinds
  <1> cookie \in [Browsers -> Sids \cup {NoSid}] /\ index[req[r].user] \in SUBSET Sids
    BY RequestFacts DEF TypeOK
  <1>1. ASSUME NEW b \in Browsers, StartLogin(r, b) PROVE TypeOK'
    <2>1. PICK n : n = [req[r] EXCEPT !.pc = "verify", !.kind = "login",
                                     !.browser = b, !.sent = cookie[b]]
      OBVIOUS
    <2>2. n \in Request
      <3>1. cookie[b] \in Sids \cup {NoSid} /\ b \in Browsers \cup {NoBrowser}
        OBVIOUS
      <3>2. req[r] \in Request /\ "login" \in AllKinds \cup {"none"}
        BY RequestFacts
      <3>3. [req[r] EXCEPT !.pc = "verify", !.kind = "login", !.browser = b,
               !.sent = cookie[b]] \in Request
        BY Zenon, StartedType, <3>1, <3>2
      <3> QED
        BY <2>1, <3>3
    <2>3. PICK late \in BOOLEAN : late = ~active[req[r].user]
      OBVIOUS
    <2>4. [n EXCEPT !.late = late] \in Request
      BY <2>2, <2>3 DEF Request
    <2>5. [n EXCEPT !.late = late]
            = [req[r] EXCEPT !.pc = "verify", !.kind = "login", !.browser = b,
                             !.sent = cookie[b], !.late = late]
      BY <2>1
    <2> QED
      BY <1>1, <2>3, <2>4, <2>5, BecomesType DEF StartLogin, TypeOK, redis, db, history
  <1>2. ASSUME NEW b \in Browsers, StartContinue(r, b) PROVE TypeOK'
    <2>1. PICK n : n = [req[r] EXCEPT !.pc = "getHandle", !.kind = "continue",
                                     !.browser = b, !.sent = cookie[b]]
      OBVIOUS
    <2>2. n \in Request
      <3>1. cookie[b] \in Sids \cup {NoSid} /\ b \in Browsers \cup {NoBrowser}
        OBVIOUS
      <3>2. req[r] \in Request /\ "continue" \in AllKinds \cup {"none"}
        BY RequestFacts
      <3>3. [req[r] EXCEPT !.pc = "getHandle", !.kind = "continue", !.browser = b,
               !.sent = cookie[b]] \in Request
        BY Zenon, StartedType, <3>1, <3>2
      <3> QED
        BY <2>1, <3>3
    <2>3. PICK late \in BOOLEAN : late = ~active[req[r].user]
      OBVIOUS
    <2>4. [n EXCEPT !.late = late] \in Request
      BY <2>2, <2>3 DEF Request
    <2>5. [n EXCEPT !.late = late]
            = [req[r] EXCEPT !.pc = "getHandle", !.kind = "continue", !.browser = b,
                             !.sent = cookie[b], !.late = late]
      BY <2>1
    <2> QED
      BY <1>2, <2>3, <2>4, <2>5, BecomesType DEF StartContinue, TypeOK, redis, db, history
  <1>3. ASSUME NEW b \in Browsers, NEW kind \in {"endSession", "logout"},
               StartSignOut(r, b, kind)
        PROVE TypeOK'
    <2>c. cookie[b] \in Sids \cup {NoSid} /\ b \in Browsers \cup {NoBrowser}
      OBVIOUS
    <2>d. req[r] \in Request /\ kind \in AllKinds \cup {"none"}
      BY RequestFacts
    <2>1. [req[r] EXCEPT !.pc = "getHandle", !.kind = kind, !.browser = b,
             !.sent = cookie[b]] \in Request
      BY Zenon, StartedType, <2>c, <2>d
    <2> QED
      BY <1>3, <2>1, BecomesType DEF StartSignOut, TypeOK, redis, db, history
  <1>4. ASSUME NEW s \in Sids, StartForceSid(r, s) PROVE TypeOK'
    <2>1. PICK n : n = [req[r] EXCEPT !.pc = "getRaw", !.kind = "forceSid"]
      OBVIOUS
    <2>2. n \in Request
      <3>1. req[r] \in Request
        BY RequestFacts
      <3>2. PICK pc \in PC, kind \in AllKinds \cup {"none"} :
              pc = "getRaw" /\ kind = "forceSid"
        OBVIOUS
      <3>3. n = [req[r] EXCEPT !.pc = pc, !.kind = kind]
        BY <2>1, <3>2
      <3> QED
        BY <3>1, <3>3 DEF Request
    <2>3. [n EXCEPT !.target = s] \in Request
      BY <2>2 DEF Request
    <2>4. [n EXCEPT !.target = s]
            = [req[r] EXCEPT !.pc = "getRaw", !.kind = "forceSid", !.target = s]
      BY <2>1
    <2> QED
      BY <1>4, <2>3, <2>4, BecomesType DEF StartForceSid, TypeOK, redis, db, history
  <1>5. ASSUME StartForceUser(r) PROVE TypeOK'
    <2> DEFINE reached == {s \in Sids : handle[s] /\ Owner(s) = req[r].user}
    <2>1. reached \in SUBSET Sids /\ "forceUser" \in AllKinds
      BY DEF AllKinds
    <2>d. req[r] \in Request
      BY RequestFacts
    <2> HIDE DEF reached
    <2>2. [req[r] EXCEPT !.pc = "userRows", !.kind = "forceUser",
             !.queue = index[req[r].user], !.reached = reached] \in Request
      BY Zenon, <2>1, <2>d, ForcedType
    <2> QED
      BY <1>5, <2>2, BecomesType DEF StartForceUser, TypeOK, reached, redis, db, history
  <1> QED
    BY <1>1, <1>2, <1>3, <1>4, <1>5 DEF Start

LEMMA SignInType ==
  ASSUME TypeOK, NEW r \in Requests,
         \/ Verify(r) \/ GetHandle(r) \/ GetSession(r) \/ CheckUser(r) \/ Touch(r)
         \/ Create(r) \/ InsertRow(r) \/ Complete(r) \/ AddClient(r)
         \/ AddClientRow(r) \/ Respond(r) \/ Clear(r),
         PathOK(req[r]), NamesCreated(req[r])
  PROVE  TypeOK'
  <1>1. ASSUME Verify(r) PROVE TypeOK'
    <2>1. PICK pc \in PC : Goes(r, pc)
      BY <1>1, RequestFacts DEF Verify, PC
    <2> QED
      BY <1>1, <2>1, GoesType, RequestFacts DEF Verify, TypeOK, redis, db, history
  <1>2. ASSUME GetHandle(r) PROVE TypeOK'
    <2>1. PICK pc \in PC : Goes(r, pc)
      BY <1>2, RequestFacts DEF GetHandle, PC, WithoutSession, PathOK
    <2> QED
      BY <1>2, <2>1, GoesType, RequestFacts DEF GetHandle, TypeOK, redis, db, history
  <1>3. ASSUME GetSession(r) PROVE TypeOK'
    <2>1. CASE live[req[r].sent]
      <3>1. WithSession(req[r].kind) \in PC
        BY DEF WithSession, PC
      <3>2. [req[r] EXCEPT !.pc = WithSession(req[r].kind), !.target = req[r].sent]
              \in Request
        BY <3>1, RequestFacts DEF Request
      <3> QED
        BY <1>3, <2>1, <3>2, BecomesType DEF GetSession, TypeOK, redis, db, history
    <2>2. CASE ~live[req[r].sent]
      <3>1. WithoutSession(req[r].kind) \in PC
        BY <1>3 DEF GetSession, PathOK, WithoutSession, PC
      <3> QED
        BY <1>3, <2>2, <3>1, GoesType DEF GetSession, TypeOK, redis, db, history
    <2> QED
      BY <2>1, <2>2
  <1>4. ASSUME CheckUser(r) PROVE TypeOK'
    <2>1. PICK pc \in PC : Goes(r, pc)
      BY <1>4, RequestFacts DEF CheckUser, PC
    <2> QED
      BY <1>4, <2>1, GoesType, RequestFacts DEF CheckUser, TypeOK, redis, db, history
  <1>5. ASSUME Touch(r) PROVE TypeOK'
    <2>1. PICK pc \in PC : Goes(r, pc)
      BY <1>5, RequestFacts DEF Touch, PC
    <2> QED
      BY <1>5, <2>1, GoesType, RequestFacts DEF Touch, TypeOK, redis, db, history
  <1>6. ASSUME Create(r) PROVE TypeOK'
    <2>1. PICK pc \in PC : Goes(r, pc)
      BY <1>6, RequestFacts DEF Create, PC
    <2> QED
      BY <1>6, <2>1, GoesType, RequestFacts DEF Create, TypeOK, redis, db, history
  <1>7. ASSUME InsertRow(r) PROVE TypeOK'
    <2>1. PICK pc \in PC : Goes(r, pc)
      BY <1>7, RequestFacts DEF InsertRow, PC
    <2> QED
      BY <1>7, <2>1, GoesType, RequestFacts DEF InsertRow, TypeOK, redis, db, history
  <1>8. ASSUME Complete(r) PROVE TypeOK'
    <2>1. PICK pc \in PC : Goes(r, pc)
      BY <1>8 DEF Complete, PC
    <2>2. CompleteValue(txn[req[r].txn]) \in LoginTransaction
      BY RequestFacts, NoTxnAssumption
         DEF CompleteValue, CompleteReply, LoginTransaction, Status
    <2> QED
      BY <1>8, <2>1, <2>2, GoesType, RequestFacts
         DEF Complete, TypeOK, redis, db, history
  <1>9. ASSUME AddClient(r) PROVE TypeOK'
    <2>1. PICK pc \in PC : Goes(r, pc)
      BY <1>9, RequestFacts DEF AddClient, PC
    <2>2. SessionOf(r) \in Sids
      BY <1>9, RequestFacts DEF AddClient, SessionOf, PathOK, NamesCreated
    <2>3. TxnClient[req[r].txn] \in Clients
      BY <1>9, RequestFacts DEF AddClient, PathOK
    <2> QED
      BY <1>9, <2>1, <2>2, <2>3, GoesType, RequestFacts
         DEF AddClient, TypeOK, redis, db, history
  <1>10. ASSUME AddClientRow(r) PROVE TypeOK'
    <2>1. PICK pc \in PC : Goes(r, pc)
      BY <1>10, RequestFacts DEF AddClientRow, PC
    <2>2. SessionOf(r) \in Sids
      BY <1>10, RequestFacts DEF AddClientRow, SessionOf, PathOK, NamesCreated
    <2>3. TxnClient[req[r].txn] \in Clients
      BY <1>10, RequestFacts DEF AddClientRow, PathOK
    <2> QED
      BY <1>10, <2>1, <2>2, <2>3, GoesType, RequestFacts
         DEF AddClientRow, TypeOK, redis, db, history
  <1>11. ASSUME Respond(r) PROVE TypeOK'
    <2>1. PICK pc \in PC : Goes(r, pc)
      BY <1>11, RequestFacts DEF Respond, PC
    <2>2. SessionOf(r) \in Sids
      BY <1>11, RequestFacts DEF Respond, SessionOf, PathOK, NamesCreated
    <2>3. TxnClient[req[r].txn] # NoClient => TxnClient[req[r].txn] \in Clients
      BY <1>11, RequestFacts DEF Respond, PathOK
    <2>4. cookie' \in [Browsers -> Sids \cup {NoSid}]
      BY <1>11, <2>2 DEF Respond, TypeOK
    <2>5. delivered' \subseteq [sid : Sids, client : Clients, by : Requests]
      BY <1>11, <2>2, <2>3 DEF Respond, TypeOK
    <2>6. req' \in [Requests -> Request]
      BY <2>1, GoesType
    <2> QED
      BY <1>11, <2>4, <2>5, <2>6 DEF Respond, TypeOK, redis, db, history
  <1>12. ASSUME Clear(r) PROVE TypeOK'
    <2>1. PICK pc \in PC : Goes(r, pc)
      BY <1>12, RequestFacts DEF Clear, PC
    <2> QED
      BY <1>12, <2>1, GoesType, RequestFacts DEF Clear, TypeOK, redis, db, history
  <1> QED
    BY <1>1, <1>2, <1>3, <1>4, <1>5, <1>6, <1>7, <1>8, <1>9, <1>10, <1>11, <1>12

LEMMA RevocationType ==
  ASSUME TypeOK, NEW r \in Requests,
         \/ UserRows(r) \/ NextOfUser(r) \/ GetRaw(r) \/ GetRow(r)
         \/ GetMembers(r) \/ GetRowClients(r) \/ Delete(r) \/ UpdateRow(r)
         \/ FanOut(r),
         PathOK(req[r]), NamesCreated(req[r])
  PROVE  TypeOK'
  <1> DEFINE q == req[r]
             s == q.target
  <1> q \in Request
    BY RequestFacts
  <1>1. ASSUME UserRows(r) PROVE TypeOK'
    <2>1. [q EXCEPT !.pc = "next", !.queue = q.queue \cup
             {t \in Sids : row[t] = "open" /\ Owner(t) = q.user}] \in Request
      <3>1. "next" \in PC
        BY DEF PC
      <3> QED
        BY <3>1 DEF Request
    <2>2. Becomes(r, [q EXCEPT !.pc = "next", !.queue = q.queue \cup
             {t \in Sids : row[t] = "open" /\ Owner(t) = q.user}])
      BY <1>1 DEF UserRows
    <2> QED
      BY <1>1, <2>1, <2>2, BecomesType DEF UserRows, TypeOK, redis, db, history
  <1>2. ASSUME NextOfUser(r) PROVE TypeOK'
    <2>1. CASE \E t \in q.queue :
                 Becomes(r, [q EXCEPT !.pc = "getRaw", !.target = t,
                                      !.queue = q.queue \ {t}])
      <3>1. PICK t \in q.queue :
              Becomes(r, [q EXCEPT !.pc = "getRaw", !.target = t,
                                   !.queue = q.queue \ {t}])
        BY <2>1
      <3>2. "getRaw" \in PC /\ t \in Sids
        BY RequestFacts DEF PC
      <3>3. [q EXCEPT !.pc = "getRaw", !.target = t, !.queue = q.queue \ {t}]
              \in Request
        BY <3>2 DEF Request
      <3> QED
        BY <1>2, <3>1, <3>3, BecomesType DEF NextOfUser, TypeOK, redis, db, history
    <2>2. CASE \E pc \in PC : Goes(r, pc)
      BY <1>2, <2>2, GoesType DEF NextOfUser, TypeOK, redis, db, history
    <2> QED
      BY <1>2, <2>1, <2>2 DEF NextOfUser, PC
  <1>3. ASSUME GetRaw(r) PROVE TypeOK'
    <2>1. live[s] \in BOOLEAN
      BY <1>3, RequestFacts DEF GetRaw, NamesCreated, Revoking, TypeOK
    <2>2. "getRow" \in PC
      BY DEF PC
    <2>3. [q EXCEPT !.pc = "getRow", !.raw = live[s]] \in Request
      BY <2>1, <2>2 DEF Request
    <2> QED
      BY <1>3, <2>3, BecomesType DEF GetRaw, TypeOK, redis, db, history
  <1>4. ASSUME GetRow(r) PROVE TypeOK'
    <2>1. CASE ~q.raw /\ row[s] # "open"
      <3>1. AfterRevoke(q.kind) \in PC
        BY <1>4, RequestFacts DEF GetRow, PathOK, AfterRevoke, PC, Request, AllKinds
      <3> QED
        BY <1>4, <2>1, <3>1, GoesType DEF GetRow, TypeOK, redis, db, history
    <2>2. CASE ~(~q.raw /\ row[s] # "open")
      <3> DEFINE k == [sid |-> s, clients |-> rowClients[s]]
      <3>1. s \in Sids
        BY <1>4, RequestFacts DEF GetRow, NamesCreated, Revoking
      <3>2. k \in Revocation
        BY <3>1 DEF Revocation, TypeOK
      <3>3. "getMembers" \in PC
        BY DEF PC
      <3> HIDE DEF k
      <3>4. [q EXCEPT !.pc = "getMembers", !.known = q.known \cup {k}] \in Request
        BY <3>2, <3>3 DEF Request
      <3>5. Becomes(r, [q EXCEPT !.pc = "getMembers", !.known = q.known \cup {k}])
        BY <1>4, <2>2 DEF GetRow, k
      <3> QED
        BY <1>4, <3>4, <3>5, BecomesType DEF GetRow, TypeOK, redis, db, history
    <2> QED
      BY <2>1, <2>2
  <1>5. ASSUME GetMembers(r) PROVE TypeOK'
    <2> DEFINE pc == IF members[s] # {} THEN "delete" ELSE "getRowClients"
    <2>1. pc \in PC
      BY DEF PC
    <2>2. members[s] \in SUBSET Clients
      BY <1>5, RequestFacts DEF GetMembers, NamesCreated, Revoking, TypeOK
    <2>3. Becomes(r, [q EXCEPT !.clients = members[s], !.pc = pc])
      BY <1>5 DEF GetMembers
    <2> HIDE DEF pc
    <2>4. [q EXCEPT !.clients = members[s], !.pc = pc] \in Request
      BY <2>1, <2>2 DEF Request
    <2> QED
      BY <1>5, <2>3, <2>4, BecomesType DEF GetMembers, TypeOK, redis, db, history
  <1>6. ASSUME GetRowClients(r) PROVE TypeOK'
    <2>1. "delete" \in PC
      BY DEF PC
    <2>2. rowClients[s] \in SUBSET Clients
      BY <1>6, RequestFacts DEF GetRowClients, NamesCreated, Revoking, TypeOK
    <2>3. [q EXCEPT !.pc = "delete", !.clients = rowClients[s]] \in Request
      BY <2>1, <2>2 DEF Request
    <2> QED
      BY <1>6, <2>3, BecomesType DEF GetRowClients, TypeOK, redis, db, history
  <1>7. ASSUME Delete(r) PROVE TypeOK'
    <2>1. PICK pc \in PC : Goes(r, pc)
      BY <1>7, RequestFacts DEF Delete, PC
    <2> QED
      BY <1>7, <2>1, GoesType, RequestFacts DEF Delete, TypeOK, redis, db, history
  <1>8. ASSUME UpdateRow(r) PROVE TypeOK'
    <2> DEFINE result == [sid |-> s, clients |-> q.clients]
               pc == IF q.kind = "forceUser" THEN "next" ELSE "fanOut"
    <2>1. s \in Sids
      BY <1>8, RequestFacts DEF UpdateRow, NamesCreated, Revoking
    <2>2. result \in Revocation
      BY <2>1 DEF Revocation, Request
    <2>3. pc \in PC /\ "clear" \in PC
      BY DEF PC
    <2>4. \/ Goes(r, "clear")
          \/ Becomes(r, [q EXCEPT !.revoked = q.revoked \cup {result}, !.pc = pc])
      BY <1>8 DEF UpdateRow
    <2> HIDE DEF result, pc
    <2>5. [q EXCEPT !.revoked = q.revoked \cup {result}, !.pc = pc] \in Request
      BY <2>2, <2>3 DEF Request
    <2>6. req' \in [Requests -> Request]
      BY <2>3, <2>4, <2>5, BecomesType, GoesType
    <2> QED
      BY <1>8, <2>1, <2>6 DEF UpdateRow, TypeOK, redis, db, history
  <1>9. ASSUME FanOut(r) PROVE TypeOK'
    <2> DEFINE pc(v) == CASE q.revoked # {v} -> "fanOut"
                          [] q.revoked = {v} /\ q.kind = "forceUser" -> "done"
                          [] OTHER -> AfterRevoke(q.kind)
    <2>1. PICK v \in q.revoked :
            /\ notified' = notified \cup ({v.sid} \X v.clients)
            /\ Becomes(r, [q EXCEPT !.revoked = q.revoked \ {v}, !.pc = pc(v)])
      BY <1>9 DEF FanOut
    <2>2. v \in Revocation
      BY DEF Request
    <2>3. pc(v) \in PC
      BY <1>9 DEF FanOut, PathOK, AfterRevoke, PC, Request, AllKinds
    <2> HIDE DEF pc
    <2>4. [q EXCEPT !.revoked = q.revoked \ {v}, !.pc = pc(v)] \in Request
      BY <2>3 DEF Request
    <2>5. notified' \subseteq Sids \X Clients
      BY <2>1, <2>2 DEF Revocation, TypeOK
    <2> QED
      BY <1>9, <2>1, <2>4, <2>5, BecomesType DEF FanOut, TypeOK, redis, db, history
  <1> QED
    BY <1>1, <1>2, <1>3, <1>4, <1>5, <1>6, <1>7, <1>8, <1>9

(* A failure, an expiry and a disabled user.                               *)
LEMMA EventType ==
  ASSUME TypeOK,
         \/ \E r \in Requests : Fail(r)
         \/ \E s \in Sids : ExpireIdle(s)
         \/ \E u \in Users : Disable(u)
  PROVE  TypeOK'
  <1>1. ASSUME NEW r \in Requests, Fail(r) PROVE TypeOK'
    <2>1. "failed" \in PC
      BY DEF PC
    <2>2. failures' \in 0..MaxFailures
      BY <1>1, FailuresAssumption DEF Fail, TypeOK
    <2> QED
      BY <1>1, <2>1, <2>2, GoesType DEF Fail, TypeOK, redis, db, history
  <1>2. ASSUME NEW s \in Sids, ExpireIdle(s) PROVE TypeOK'
    BY <1>2 DEF ExpireIdle, TypeOK, db, history
  <1>3. ASSUME NEW u \in Users, Disable(u) PROVE TypeOK'
    BY <1>3 DEF Disable, TypeOK, redis, history
  <1> QED
    BY <1>1, <1>2, <1>3

LEMMA TypeStep ==
  ASSUME IInv, [Next]_vars PROVE TypeOK'
  <1>1. TypeOK /\ \A r \in Requests : PathOK(req[r]) /\ NamesCreated(req[r])
    BY DEF IInv, ReqInv
  <1>2. ASSUME UNCHANGED vars PROVE TypeOK'
    BY <1>1, <1>2 DEF TypeOK, vars, redis, db, history
  <1>3. ASSUME NEW r \in Requests, Proceed(r) PROVE TypeOK'
    BY <1>1, <1>3, SignInType, RevocationType DEF Proceed
  <1> QED
    BY <1>1, <1>2, <1>3, StartType, EventType DEF Next

-----------------------------------------------------------------------------
(* How the inductive invariant survives a step.                            *)
(* A request that goes on keeps its user, and stays past create.           *)
Advances(r, n) ==
  /\ n.user = req[r].user
  /\ r \in Created => n.kind = "login" /\ n.pc \in PastCreate

LEMMA CreatedGrows ==
  ASSUME TypeOK, NEW r \in Requests, NEW n, Becomes(r, n), Advances(r, n)
  PROVE  /\ Created \subseteq Created'
         /\ \A s \in Created' : s \in Created \/ s = r
         /\ \A s \in Sids : Owner(s)' = Owner(s)
  BY SidsAssumption DEF Created, Advances, Becomes, Owner, TypeOK

(* What a request knows stays true while handles only disappear.           *)
LEMMA StillKnows ==
  ASSUME NEW q \in Request, ReqInv(q), Created \subseteq Created',
         \A s \in Created : handle'[s] => handle[s]
  PROVE  ReqInv(q)'
  <1>1. PathOK(q)'
    BY DEF ReqInv, PathOK
  <1>2. NamesCreated(q)'
    BY DEF ReqInv, NamesCreated
  <1>3. KnowsHandle(q)'
    BY DEF ReqInv, KnowsHandle, NamesCreated
  <1>4. KnowsQueue(q)'
    BY DEF ReqInv, KnowsQueue, NamesCreated
  <1> QED
    BY <1>1, <1>2, <1>3, <1>4 DEF ReqInv

(* ... so only the request that acts needs a look.                         *)
LEMMA AllKnow ==
  ASSUME IInv, NEW r \in Requests, NEW n, Becomes(r, n), Advances(r, n),
         ReqInv(n)', \A s \in Created : handle'[s] => handle[s]
  PROVE  \A r2 \in Requests : ReqInv(req[r2])'
  <1> SUFFICES ASSUME NEW r2 \in Requests PROVE ReqInv(req[r2])'
    OBVIOUS
  <1>1. TypeOK /\ ReqInv(req[r2])
    BY DEF IInv
  <1>2. Created \subseteq Created'
    BY <1>1, CreatedGrows
  <1>3. CASE r2 = r
    <2>1. req'[r2] = n
      BY <1>1, <1>3 DEF Becomes, TypeOK
    <2> QED
      BY <2>1
  <1>4. CASE r2 # r
    <2>1. PICK q \in Request : q = req[r2]
      BY <1>1, RequestFacts
    <2>2. req'[r2] = q
      BY <1>1, <1>4, <2>1 DEF Becomes, TypeOK
    <2>3. ReqInv(q)'
      BY <1>1, <1>2, <2>1, StillKnows
    <2> QED
      BY <2>2, <2>3
  <1> QED
    BY <1>3, <1>4

(* A step that leaves the keys and the rows alone.                         *)
LEMMA QuietKeeps ==
  ASSUME IInv, TypeOK', NEW r \in Requests, NEW n \in Request, Becomes(r, n),
         Advances(r, n), ReqInv(n), UNCHANGED <<live, handle, index, row>>,
         \A b \in Browsers :
           cookie'[b] = cookie[b] \/ cookie'[b] \in Created \cup {NoSid}
  PROVE  IInv'
  <1>1. TypeOK /\ KeysInv
    BY DEF IInv
  <1>2. /\ Created \subseteq Created'
        /\ \A s \in Sids : Owner(s)' = Owner(s)
    BY <1>1, CreatedGrows
  <1>3. ReqInv(n)'
    BY <1>2, StillKnows
  <1>4. \A r2 \in Requests : ReqInv(req[r2])'
    BY <1>3, AllKnow
  <1>5. NothingBeforeCreate'
    BY <1>1, <1>2 DEF KeysInv, NothingBeforeCreate
  <1>6. CookiesNameCreated'
    BY <1>1, <1>2 DEF KeysInv, CookiesNameCreated
  <1>7. EveryReachableSessionIsIndexed' /\ RevokedStaysUnreachable'
    BY <1>1, <1>2 DEF KeysInv, EveryReachableSessionIsIndexed,
                      RevokedStaysUnreachable
  <1> QED
    BY <1>4, <1>5, <1>6, <1>7 DEF IInv, KeysInv

-----------------------------------------------------------------------------
(* The invariant, one step per action.                                     *)
LEMMA BecomesIs ==
  ASSUME TypeOK, TypeOK', NEW r \in Requests, NEW n, Becomes(r, n)
  PROVE  n \in Request
  BY DEF TypeOK, Becomes

LEMMA StartStep ==
  ASSUME IInv, TypeOK', NEW r \in Requests, Start(r) PROVE IInv'
  <1> TypeOK /\ KeysInv /\ ReqInv(req[r])
    BY DEF IInv
  <1> USE DEF ReqInv
  <1>1. ASSUME NEW b \in Browsers, StartLogin(r, b) PROVE IInv'
    <2>1. PICK n : n = [req[r] EXCEPT !.pc = "verify", !.kind = "login",
               !.browser = b, !.sent = cookie[b], !.late = ~active[req[r].user]]
      OBVIOUS
    <2>2. Becomes(r, n)
      BY <1>1, <2>1 DEF StartLogin
    <2>3. n \in Request
      BY <2>2, BecomesIs
    <2>4. Advances(r, n)
      BY <1>1, <2>1, RequestFacts DEF StartLogin, Advances, Created, PastCreate, PathOK, Request
    <2>5. ReqInv(n)
      BY <1>1, <2>1, RequestFacts
         DEF StartLogin, ReqInv, PathOK, NamesCreated, KnowsHandle, KnowsQueue, Revoking,
             Request, KeysInv, CookiesNameCreated
    <2> QED
      BY <1>1, <2>2, <2>3, <2>4, <2>5, QuietKeeps, RequestFacts DEF StartLogin, redis, db
  <1>2. ASSUME NEW b \in Browsers, StartContinue(r, b) PROVE IInv'
    <2>1. PICK n : n = [req[r] EXCEPT !.pc = "getHandle", !.kind = "continue",
               !.browser = b, !.sent = cookie[b], !.late = ~active[req[r].user]]
      OBVIOUS
    <2>2. Becomes(r, n)
      BY <1>2, <2>1 DEF StartContinue
    <2>3. n \in Request
      BY <2>2, BecomesIs
    <2>4. Advances(r, n)
      BY <1>2, <2>1, RequestFacts DEF StartContinue, Advances, Created, PastCreate, PathOK, Request
    <2>5. ReqInv(n)
      BY <1>2, <2>1, RequestFacts
         DEF StartContinue, ReqInv, PathOK, NamesCreated, KnowsHandle, KnowsQueue, Revoking,
             Request, KeysInv, CookiesNameCreated
    <2> QED
      BY <1>2, <2>2, <2>3, <2>4, <2>5, QuietKeeps, RequestFacts DEF StartContinue, redis, db
  <1>3. ASSUME NEW b \in Browsers, NEW kind \in {"endSession", "logout"},
               StartSignOut(r, b, kind) PROVE IInv'
    <2>1. PICK n : n = [req[r] EXCEPT !.pc = "getHandle", !.kind = kind,
               !.browser = b, !.sent = cookie[b]]
      OBVIOUS
    <2>2. Becomes(r, n)
      BY <1>3, <2>1 DEF StartSignOut
    <2>3. n \in Request
      BY <2>2, BecomesIs
    <2>4. Advances(r, n)
      BY <1>3, <2>1, RequestFacts DEF StartSignOut, Advances, Created, PastCreate, PathOK, Request
    <2>5. ReqInv(n)
      BY <1>3, <2>1, RequestFacts
         DEF StartSignOut, ReqInv, PathOK, NamesCreated, KnowsHandle, KnowsQueue, Revoking,
             Request, KeysInv, CookiesNameCreated
    <2> QED
      BY <1>3, <2>2, <2>3, <2>4, <2>5, QuietKeeps, RequestFacts DEF StartSignOut, redis, db
  <1>4. ASSUME NEW s \in Sids, StartForceSid(r, s) PROVE IInv'
    <2>1. PICK n : n = [req[r] EXCEPT !.pc = "getRaw", !.kind = "forceSid",
               !.target = s]
      OBVIOUS
    <2>2. Becomes(r, n)
      BY <1>4, <2>1 DEF StartForceSid
    <2>3. n \in Request
      BY <2>2, BecomesIs
    <2>4. Advances(r, n)
      BY <1>4, <2>1, RequestFacts DEF StartForceSid, Advances, Created, PastCreate, PathOK, Request
    <2>5. ReqInv(n)
      BY <1>4, <2>1, RequestFacts, NoSidAssumption
         DEF StartForceSid, ReqInv, PathOK, NamesCreated, KnowsHandle, KnowsQueue, Revoking,
             Request, KeysInv, NothingBeforeCreate
    <2> QED
      BY <1>4, <2>2, <2>3, <2>4, <2>5, QuietKeeps, RequestFacts DEF StartForceSid, redis, db
  <1>5. ASSUME StartForceUser(r) PROVE IInv'
    <2>1. PICK n : n = [req[r] EXCEPT !.pc = "userRows", !.kind = "forceUser",
               !.queue = index[req[r].user],
               !.reached = {s \in Sids : handle[s] /\ Owner(s) = req[r].user}]
      OBVIOUS
    <2>2. Becomes(r, n)
      BY <1>5, <2>1 DEF StartForceUser
    <2>3. n \in Request
      BY <2>2, BecomesIs
    <2>4. Advances(r, n)
      BY <1>5, <2>1, RequestFacts DEF StartForceUser, Advances, Created, PastCreate, PathOK, Request
    <2>5. ReqInv(n)
      BY <1>5, <2>1, RequestFacts
         DEF StartForceUser, ReqInv, PathOK, NamesCreated, KnowsHandle, KnowsQueue, Revoking,
             Request, KeysInv, NothingBeforeCreate,
             EveryReachableSessionIsIndexed, TypeOK
    <2> QED
      BY <1>5, <2>2, <2>3, <2>4, <2>5, QuietKeeps, RequestFacts DEF StartForceUser, redis, db
  <1> QED
    BY <1>1, <1>2, <1>3, <1>4, <1>5 DEF Start

LEMMA SignInQuietStep ==
  ASSUME IInv, TypeOK', NEW r \in Requests,
         \/ Verify(r) \/ GetHandle(r) \/ GetSession(r) \/ CheckUser(r)
         \/ Complete(r) \/ AddClient(r) \/ AddClientRow(r) \/ Respond(r) \/ Clear(r)
  PROVE  IInv'
  <1> TypeOK /\ KeysInv /\ ReqInv(req[r])
    BY DEF IInv
  <1> USE DEF ReqInv
  <1>1. ASSUME Verify(r) PROVE IInv'
    <2>1. PICK n : n = [req[r] EXCEPT !.pc = IF active[req[r].user] THEN "getHandle" ELSE "done"]
      OBVIOUS
    <2>2. Becomes(r, n)
      BY <1>1, <2>1 DEF Verify, Goes
    <2>3. n \in Request
      BY <2>2, BecomesIs
    <2>4. Advances(r, n)
      BY <1>1, <2>1, RequestFacts DEF Verify, Advances, Created, PastCreate, PathOK, Request
    <2>5. ReqInv(n)
      BY <1>1, <2>1, RequestFacts
         DEF Verify, ReqInv, PathOK, NamesCreated, KnowsHandle, KnowsQueue, Revoking,
             Request
    <2> QED
      BY <1>1, <2>2, <2>3, <2>4, <2>5, QuietKeeps, RequestFacts DEF Verify, redis, db
  <1>2. ASSUME GetHandle(r) PROVE IInv'
    <2>1. PICK n : n = [req[r] EXCEPT !.pc = IF req[r].sent # NoSid /\ handle[req[r].sent]
                                        THEN "getSession"
                                        ELSE WithoutSession(req[r].kind)]
      OBVIOUS
    <2>2. Becomes(r, n)
      BY <1>2, <2>1 DEF GetHandle, Goes
    <2>3. n \in Request
      BY <2>2, BecomesIs
    <2>4. Advances(r, n)
      BY <1>2, <2>1, RequestFacts DEF GetHandle, Advances, Created, PastCreate, PathOK, Request
    <2>5. ReqInv(n)
      BY <1>2, <2>1, RequestFacts
         DEF GetHandle, ReqInv, PathOK, NamesCreated, KnowsHandle, KnowsQueue, Revoking,
             Request, WithoutSession
    <2> QED
      BY <1>2, <2>2, <2>3, <2>4, <2>5, QuietKeeps, RequestFacts DEF GetHandle, redis, db
  <1>3. ASSUME GetSession(r) PROVE IInv'
    <2>1. PICK n : n = IF live[req[r].sent]
                       THEN [req[r] EXCEPT !.pc = WithSession(req[r].kind),
                                           !.target = req[r].sent]
                       ELSE [req[r] EXCEPT !.pc = WithoutSession(req[r].kind)]
      OBVIOUS
    <2>2. Becomes(r, n)
      BY <1>3, <2>1 DEF GetSession, Goes
    <2>3. n \in Request
      BY <2>2, BecomesIs
    <2>4. Advances(r, n)
      BY <1>3, <2>1, RequestFacts DEF GetSession, Advances, Created, PastCreate, PathOK, Request
    <2>5. ReqInv(n)
      BY <1>3, <2>1, RequestFacts
         DEF GetSession, ReqInv, PathOK, NamesCreated, KnowsHandle, KnowsQueue, Revoking,
             Request, WithSession, WithoutSession
    <2> QED
      BY <1>3, <2>2, <2>3, <2>4, <2>5, QuietKeeps, RequestFacts DEF GetSession, redis, db
  <1>4. ASSUME CheckUser(r) PROVE IInv'
    <2>1. PICK n : n = [req[r] EXCEPT !.pc = IF active[req[r].user] THEN "touch" ELSE "getRaw"]
      OBVIOUS
    <2>2. Becomes(r, n)
      BY <1>4, <2>1 DEF CheckUser, Goes
    <2>3. n \in Request
      BY <2>2, BecomesIs
    <2>4. Advances(r, n)
      BY <1>4, <2>1, RequestFacts DEF CheckUser, Advances, Created, PastCreate, PathOK, Request
    <2>5. ReqInv(n)
      BY <1>4, <2>1, RequestFacts
         DEF CheckUser, ReqInv, PathOK, NamesCreated, KnowsHandle, KnowsQueue, Revoking,
             Request
    <2> QED
      BY <1>4, <2>2, <2>3, <2>4, <2>5, QuietKeeps, RequestFacts DEF CheckUser, redis, db
  <1>5. ASSUME Complete(r) PROVE IInv'
    <2>1. PICK n : n = [req[r] EXCEPT !.pc = CASE CompleteReply(txn[req[r].txn]) # "ok" -> "done"
                 [] CompleteReply(txn[req[r].txn]) = "ok"
                      /\ TxnClient[req[r].txn] = NoClient -> "respond"
                 [] OTHER -> "addClient"]
      OBVIOUS
    <2>2. Becomes(r, n)
      BY <1>5, <2>1 DEF Complete, Goes
    <2>3. n \in Request
      BY <2>2, BecomesIs
    <2>4. Advances(r, n)
      BY <1>5, <2>1, RequestFacts DEF Complete, Advances, Created, PastCreate, PathOK, Request
    <2>5. ReqInv(n)
      BY <1>5, <2>1, RequestFacts
         DEF Complete, ReqInv, PathOK, NamesCreated, KnowsHandle, KnowsQueue, Revoking,
             Request
    <2> QED
      BY <1>5, <2>2, <2>3, <2>4, <2>5, QuietKeeps, RequestFacts DEF Complete, redis, db
  <1>6. ASSUME AddClient(r) PROVE IInv'
    <2>1. PICK n : n = [req[r] EXCEPT !.pc = "addClientRow"]
      OBVIOUS
    <2>2. Becomes(r, n)
      BY <1>6, <2>1 DEF AddClient, Goes
    <2>3. n \in Request
      BY <2>2, BecomesIs
    <2>4. Advances(r, n)
      BY <1>6, <2>1, RequestFacts DEF AddClient, Advances, Created, PastCreate, PathOK, Request
    <2>5. ReqInv(n)
      BY <1>6, <2>1, RequestFacts
         DEF AddClient, ReqInv, PathOK, NamesCreated, KnowsHandle, KnowsQueue, Revoking,
             Request
    <2> QED
      BY <1>6, <2>2, <2>3, <2>4, <2>5, QuietKeeps, RequestFacts DEF AddClient, redis, db
  <1>7. ASSUME AddClientRow(r) PROVE IInv'
    <2>1. PICK n : n = [req[r] EXCEPT !.pc = IF row[SessionOf(r)] = "none" THEN "done"
                                        ELSE "respond"]
      OBVIOUS
    <2>2. Becomes(r, n)
      BY <1>7, <2>1 DEF AddClientRow, Goes
    <2>3. n \in Request
      BY <2>2, BecomesIs
    <2>4. Advances(r, n)
      BY <1>7, <2>1, RequestFacts DEF AddClientRow, Advances, Created, PastCreate, PathOK, Request
    <2>5. ReqInv(n)
      BY <1>7, <2>1, RequestFacts
         DEF AddClientRow, ReqInv, PathOK, NamesCreated, KnowsHandle, KnowsQueue, Revoking,
             Request
    <2> QED
      BY <1>7, <2>2, <2>3, <2>4, <2>5, QuietKeeps, RequestFacts DEF AddClientRow, redis, db
  <1>8. ASSUME Respond(r) PROVE IInv'
    <2>1. PICK n : n = [req[r] EXCEPT !.pc = "done"]
      OBVIOUS
    <2>2. Becomes(r, n)
      BY <1>8, <2>1 DEF Respond, Goes
    <2>3. n \in Request
      BY <2>2, BecomesIs
    <2>4. Advances(r, n)
      BY <1>8, <2>1, RequestFacts DEF Respond, Advances, Created, PastCreate, PathOK, Request
    <2>5. ReqInv(n)
      BY <1>8, <2>1, RequestFacts
         DEF Respond, ReqInv, PathOK, NamesCreated, KnowsHandle, KnowsQueue, Revoking,
             Request, SessionOf
    <2> QED
      BY <1>8, <2>2, <2>3, <2>4, <2>5, QuietKeeps, RequestFacts
         DEF Respond, SessionOf, Created, PathOK, NamesCreated, PastCreate, redis, db, TypeOK, Owner
  <1>9. ASSUME Clear(r) PROVE IInv'
    <2>1. PICK n : n = [req[r] EXCEPT !.pc = "done"]
      OBVIOUS
    <2>2. Becomes(r, n)
      BY <1>9, <2>1 DEF Clear, Goes
    <2>3. n \in Request
      BY <2>2, BecomesIs
    <2>4. Advances(r, n)
      BY <1>9, <2>1, RequestFacts DEF Clear, Advances, Created, PastCreate, PathOK, Request
    <2>5. ReqInv(n)
      BY <1>9, <2>1, RequestFacts
         DEF Clear, ReqInv, PathOK, NamesCreated, KnowsHandle, KnowsQueue, Revoking,
             Request
    <2> QED
      BY <1>9, <2>2, <2>3, <2>4, <2>5, QuietKeeps, RequestFacts
         DEF Clear, redis, db, TypeOK
  <1> QED
    BY <1>1, <1>2, <1>3, <1>4, <1>5, <1>6, <1>7, <1>8, <1>9

LEMMA RevocationQuietStep ==
  ASSUME IInv, TypeOK', NEW r \in Requests,
         \/ UserRows(r) \/ NextOfUser(r) \/ GetRaw(r) \/ GetRow(r)
         \/ GetMembers(r) \/ GetRowClients(r) \/ FanOut(r)
  PROVE  IInv'
  <1> TypeOK /\ KeysInv /\ ReqInv(req[r])
    BY DEF IInv
  <1> USE DEF ReqInv
  <1>1. ASSUME UserRows(r) PROVE IInv'
    <2>1. PICK n : n = [req[r] EXCEPT !.pc = "next", !.queue = req[r].queue \cup
               {s \in Sids : row[s] = "open" /\ Owner(s) = req[r].user}]
      OBVIOUS
    <2>2. Becomes(r, n)
      BY <1>1, <2>1 DEF UserRows
    <2>3. n \in Request
      BY <2>2, BecomesIs
    <2>4. Advances(r, n)
      BY <1>1, <2>1, RequestFacts DEF UserRows, Advances, Created, PastCreate, PathOK, Request
    <2>5. ReqInv(n)
      BY <1>1, <2>1, RequestFacts
         DEF UserRows, ReqInv, PathOK, NamesCreated, KnowsHandle, KnowsQueue, Revoking,
             Request, KeysInv, NothingBeforeCreate
    <2> QED
      BY <1>1, <2>2, <2>3, <2>4, <2>5, QuietKeeps, RequestFacts DEF UserRows, redis, db
  <1>2. ASSUME NextOfUser(r) PROVE IInv'
    <2>1. PICK n :
            /\ Becomes(r, n)
            /\ \/ \E s \in req[r].queue :
                    n = [req[r] EXCEPT !.pc = "getRaw", !.target = s,
                                       !.queue = req[r].queue \ {s}]
               \/ /\ req[r].queue = {}
                  /\ n = [req[r] EXCEPT !.pc = IF req[r].revoked = {} THEN "done"
                                                                ELSE "fanOut"]
      BY <1>2 DEF NextOfUser, Goes
    <2>2. n \in Request
      BY <2>1, BecomesIs
    <2>3. Advances(r, n)
      BY <1>2, <2>1, RequestFacts
         DEF NextOfUser, Advances, Created, PastCreate, PathOK, Request
    <2>4. ReqInv(n)
      <3>1. CASE req[r].queue = {} /\ n.queue = {} /\ n.pc \in {"done", "fanOut"}
        BY <1>2, <2>1, <3>1, RequestFacts
           DEF NextOfUser, PathOK, NamesCreated, KnowsHandle, KnowsQueue, Revoking, Request
      <3>2. ASSUME NEW s \in req[r].queue,
                   n = [req[r] EXCEPT !.pc = "getRaw", !.target = s,
                                      !.queue = req[r].queue \ {s}]
            PROVE  ReqInv(n)
        <4>1. n.kind = "forceUser" /\ PathOK(n)
          BY <1>2, <3>2, RequestFacts DEF NextOfUser, PathOK, Request
        <4>2. NamesCreated(n)
          <5>1. s \in Created /\ s # NoSid /\ req[r].queue \ {s} \subseteq Created
            BY RequestFacts, NoSidAssumption DEF NamesCreated
          <5>2. n.target = s /\ n.queue = req[r].queue \ {s} /\ n.pc = "getRaw"
            BY <3>2, RequestFacts DEF Request
          <5>3. n.sent = req[r].sent /\ n.reached = req[r].reached
            BY <3>2, RequestFacts DEF Request
          <5> QED
            BY <4>1, <5>1, <5>2, <5>3 DEF NamesCreated
        <4>3. KnowsHandle(n)
          BY <3>2, RequestFacts DEF KnowsHandle, Revoking, Request
        <4>4. KnowsQueue(n)
          <5>1. req[r].pc = "next" /\ req[r].kind = "forceUser"
            BY <1>2, RequestFacts DEF NextOfUser, PathOK, Request
          <5>2. /\ n.target = s /\ n.queue = req[r].queue \ {s} /\ n.pc = "getRaw"
                /\ n.reached = req[r].reached
            BY <3>2, RequestFacts DEF Request
          <5>3. \A t \in req[r].reached : handle[t] => t \in req[r].queue
            BY <5>1 DEF KnowsQueue, Revoking
          <5> QED
            BY <5>2, <5>3 DEF KnowsQueue, Revoking
        <4> QED
          BY <4>1, <4>2, <4>3, <4>4
      <3> QED
        BY <2>1, <3>1, <3>2, RequestFacts DEF Request
    <2> QED
      BY <1>2, <2>1, <2>2, <2>3, <2>4, QuietKeeps, RequestFacts DEF NextOfUser, redis, db
  <1>3. ASSUME GetRaw(r) PROVE IInv'
    <2>1. PICK n : n = [req[r] EXCEPT !.pc = "getRow", !.raw = live[req[r].target]]
      OBVIOUS
    <2>2. Becomes(r, n)
      BY <1>3, <2>1 DEF GetRaw
    <2>3. n \in Request
      BY <2>2, BecomesIs
    <2>4. Advances(r, n)
      BY <1>3, <2>1, RequestFacts DEF GetRaw, Advances, Created, PastCreate, PathOK, Request
    <2>5. ReqInv(n)
      BY <1>3, <2>1, RequestFacts
         DEF GetRaw, ReqInv, PathOK, NamesCreated, KnowsHandle, KnowsQueue, Revoking,
             Request, KeysInv,
             EveryReachableSessionIsIndexed, Created
    <2> QED
      BY <1>3, <2>2, <2>3, <2>4, <2>5, QuietKeeps, RequestFacts DEF GetRaw, redis, db
  <1>4. ASSUME GetRow(r) PROVE IInv'
    <2>1. PICK n :
            n = IF ~req[r].raw /\ row[req[r].target] # "open"
                THEN [req[r] EXCEPT !.pc = AfterRevoke(req[r].kind)]
                ELSE [req[r] EXCEPT !.pc = "getMembers",
                        !.known = req[r].known \cup
                          {[sid |-> req[r].target,
                            clients |-> rowClients[req[r].target]]}]
      OBVIOUS
    <2>2. Becomes(r, n)
      BY <1>4, <2>1 DEF GetRow, Goes
    <2>3. n \in Request
      BY <2>2, BecomesIs
    <2>4. Advances(r, n)
      BY <1>4, <2>1, RequestFacts
         DEF GetRow, Advances, Created, PastCreate, PathOK, Request
    <2>5. CASE ~req[r].raw /\ row[req[r].target] # "open"
      <3>1. ReqInv(n)
        BY <1>4, <2>1, <2>5, RequestFacts
           DEF GetRow, PathOK, NamesCreated, KnowsHandle, KnowsQueue, Revoking,
               Request, AfterRevoke, AllKinds
      <3> QED
        BY <1>4, <2>2, <2>3, <2>4, <3>1, QuietKeeps, RequestFacts DEF GetRow, redis, db
    <2>6. CASE ~(~req[r].raw /\ row[req[r].target] # "open")
      <3>1. ReqInv(n)
        BY <1>4, <2>1, <2>6, RequestFacts
           DEF GetRow, PathOK, NamesCreated, KnowsHandle, KnowsQueue, Revoking, Request
      <3> QED
        BY <1>4, <2>2, <2>3, <2>4, <3>1, QuietKeeps, RequestFacts DEF GetRow, redis, db
    <2> QED
      BY <2>5, <2>6
  <1>5. ASSUME GetMembers(r) PROVE IInv'
    <2>1. PICK n : n = [req[r] EXCEPT !.clients = members[req[r].target],
               !.pc = IF members[req[r].target] # {} THEN "delete"
                                                     ELSE "getRowClients"]
      OBVIOUS
    <2>2. Becomes(r, n)
      BY <1>5, <2>1 DEF GetMembers
    <2>3. n \in Request
      BY <2>2, BecomesIs
    <2>4. Advances(r, n)
      BY <1>5, <2>1, RequestFacts DEF GetMembers, Advances, Created, PastCreate, PathOK, Request
    <2>5. ReqInv(n)
      BY <1>5, <2>1, RequestFacts
         DEF GetMembers, ReqInv, PathOK, NamesCreated, KnowsHandle, KnowsQueue, Revoking,
             Request
    <2> QED
      BY <1>5, <2>2, <2>3, <2>4, <2>5, QuietKeeps, RequestFacts DEF GetMembers, redis, db
  <1>6. ASSUME GetRowClients(r) PROVE IInv'
    <2>1. PICK n : n = [req[r] EXCEPT !.pc = "delete",
               !.clients = rowClients[req[r].target]]
      OBVIOUS
    <2>2. Becomes(r, n)
      BY <1>6, <2>1 DEF GetRowClients
    <2>3. n \in Request
      BY <2>2, BecomesIs
    <2>4. Advances(r, n)
      BY <1>6, <2>1, RequestFacts DEF GetRowClients, Advances, Created, PastCreate, PathOK, Request
    <2>5. ReqInv(n)
      BY <1>6, <2>1, RequestFacts
         DEF GetRowClients, ReqInv, PathOK, NamesCreated, KnowsHandle, KnowsQueue, Revoking,
             Request
    <2> QED
      BY <1>6, <2>2, <2>3, <2>4, <2>5, QuietKeeps, RequestFacts DEF GetRowClients, redis, db
  <1>7. ASSUME FanOut(r) PROVE IInv'
    <2>0. PICK v \in req[r].revoked :
            Becomes(r, [req[r] EXCEPT !.revoked = req[r].revoked \ {v},
                     !.pc = CASE req[r].revoked # {v} -> "fanOut"
                              [] req[r].revoked = {v} /\ req[r].kind = "forceUser"
                                   -> "done"
                              [] OTHER -> AfterRevoke(req[r].kind)])
      BY <1>7 DEF FanOut
    <2>1. PICK n :
            /\ Becomes(r, n)
            /\ n = [req[r] EXCEPT !.revoked = req[r].revoked \ {v},
                     !.pc = CASE req[r].revoked # {v} -> "fanOut"
                              [] req[r].revoked = {v} /\ req[r].kind = "forceUser"
                                   -> "done"
                              [] OTHER -> AfterRevoke(req[r].kind)]
      BY <2>0
    <2>2. n \in Request
      BY <2>1, BecomesIs
    <2>3. Advances(r, n)
      BY <1>7, <2>1, RequestFacts
         DEF FanOut, Advances, Created, PastCreate, PathOK, Request
    <2>4. ReqInv(n)
      <3> DEFINE pc == CASE req[r].revoked # {v} -> "fanOut"
                         [] req[r].revoked = {v} /\ req[r].kind = "forceUser" -> "done"
                         [] OTHER -> AfterRevoke(req[r].kind)
      <3>1. /\ req[r].kind \in {"login", "continue", "endSession", "logout",
                                "forceSid", "forceUser"}
            /\ req[r].pc = "fanOut"
        BY <1>7, RequestFacts DEF FanOut, PathOK, Request, AllKinds
      <3>2. /\ pc \in {"fanOut", "done", "create", "clear"}
            /\ pc = "create" => req[r].kind = "login"
            /\ pc = "clear" => req[r].kind \in {"continue", "endSession", "logout"}
        <4>1. CASE req[r].kind = "forceUser"
          BY <4>1
        <4>2. CASE req[r].kind # "forceUser"
          BY <3>1, <4>2 DEF AfterRevoke
        <4> QED
          BY <4>1, <4>2
      <3>3. n = [req[r] EXCEPT !.revoked = req[r].revoked \ {v}, !.pc = pc]
        BY <2>1
      <3> HIDE DEF pc
      <3>4. PathOK(n)
        BY <3>1, <3>2, <3>3, RequestFacts DEF PathOK, Request
      <3>5. NamesCreated(n)
        BY <3>1, <3>2, <3>3, RequestFacts DEF NamesCreated, Revoking, Request
      <3>6. KnowsHandle(n)
        BY <3>2, <3>3, RequestFacts DEF KnowsHandle, Revoking, Request
      <3>7. KnowsQueue(n)
        BY <3>1, <3>2, <3>3, RequestFacts DEF KnowsQueue, Revoking, Request
      <3> QED
        BY <3>4, <3>5, <3>6, <3>7
    <2> QED
      BY <1>7, <2>1, <2>2, <2>3, <2>4, QuietKeeps, RequestFacts DEF FanOut, redis, db
  <1> QED
    BY <1>1, <1>2, <1>3, <1>4, <1>5, <1>6, <1>7

(* The steps that write keys or rows.                                      *)
LEMMA KeyStep ==
  ASSUME IInv, TypeOK', NEW r \in Requests,
         Touch(r) \/ Create(r) \/ InsertRow(r) \/ Delete(r) \/ UpdateRow(r)
  PROVE  IInv'
  <1> TypeOK /\ KeysInv /\ ReqInv(req[r])
    BY DEF IInv
  <1> USE DEF ReqInv
  <1>1. ASSUME Touch(r) PROVE IInv'
    <2>1. PICK n : n = [req[r] EXCEPT !.pc = "complete"]
      OBVIOUS
    <2>2. Becomes(r, n)
      BY <1>1, <2>1 DEF Touch, Goes
    <2>3. n \in Request
      BY <2>2, BecomesIs
    <2>4. Advances(r, n)
      BY <1>1, <2>1, RequestFacts
         DEF Touch, Advances, Created, PastCreate, PathOK, Request
    <2>5. /\ Created \subseteq Created'
          /\ \A s \in Created' : s \in Created \/ s = r
          /\ \A s \in Sids : Owner(s)' = Owner(s)
      BY <2>2, <2>4, CreatedGrows
    <2>6. \A s \in Created : handle'[s] => handle[s]
      BY <1>1 DEF Touch
    <2>7. ReqInv(n)'
      <3>1. ReqInv(n)
        BY <1>1, <2>1, RequestFacts
           DEF Touch, PathOK, NamesCreated, KnowsHandle, KnowsQueue, Revoking, Request
      <3> QED
        BY <2>3, <2>5, <2>6, <3>1, StillKnows
    <2>8. \A r2 \in Requests : ReqInv(req[r2])'
      BY <2>2, <2>4, <2>6, <2>7, AllKnow
    <2>9. KeysInv'
      <3>1. SessionOf(r) \in Created
        BY <1>1, RequestFacts DEF Touch, SessionOf, PathOK, NamesCreated
      <3> QED
        BY <1>1, <2>5, <3>1 DEF Touch, db, TypeOK, Created, KeysInv, NothingBeforeCreate, CookiesNameCreated,
             EveryReachableSessionIsIndexed, RevokedStaysUnreachable
    <2> QED
      BY <2>8, <2>9 DEF IInv
  <1>2. ASSUME Create(r) PROVE IInv'
    <2>1. PICK n : n = [req[r] EXCEPT !.pc = "insertRow"]
      OBVIOUS
    <2>2. Becomes(r, n)
      BY <1>2, <2>1 DEF Create, Goes
    <2>3. n \in Request
      BY <2>2, BecomesIs
    <2>4. Advances(r, n)
      BY <1>2, <2>1, RequestFacts
         DEF Create, Advances, Created, PastCreate, PathOK, Request
    <2>5. /\ Created \subseteq Created'
          /\ \A s \in Created' : s \in Created \/ s = r
          /\ \A s \in Sids : Owner(s)' = Owner(s)
      BY <2>2, <2>4, CreatedGrows
    <2>6. \A s \in Created : handle'[s] => handle[s]
      BY <1>2 DEF Create, Created, PastCreate, TypeOK
    <2>7. ReqInv(n)'
      <3>1. ReqInv(n)
        BY <1>2, <2>1, RequestFacts
           DEF Create, PathOK, NamesCreated, KnowsHandle, KnowsQueue, Revoking, Request
      <3> QED
        BY <2>3, <2>5, <2>6, <3>1, StillKnows
    <2>8. \A r2 \in Requests : ReqInv(req[r2])'
      BY <2>2, <2>4, <2>6, <2>7, AllKnow
    <2>9. KeysInv'
      <3>1. r \notin Created
        BY <1>2 DEF Create, Created, PastCreate
      <3>2. r \in Created'
        BY <1>2, <2>1, <2>2, SidsAssumption
           DEF Create, Created, PastCreate, Becomes, TypeOK, PathOK
      <3>3. r \in Sids /\ Owner(r) = req[r].user
        BY SidsAssumption DEF Owner
      <3> QED
        BY <1>2, <2>5, <3>1, <3>2, <3>3 DEF Create, db, TypeOK, KeysInv, NothingBeforeCreate, CookiesNameCreated,
             EveryReachableSessionIsIndexed, RevokedStaysUnreachable
    <2> QED
      BY <2>8, <2>9 DEF IInv
  <1>3. ASSUME InsertRow(r) PROVE IInv'
    <2>1. PICK n : n = [req[r] EXCEPT !.pc = "complete"]
      OBVIOUS
    <2>2. Becomes(r, n)
      BY <1>3, <2>1 DEF InsertRow, Goes
    <2>3. n \in Request
      BY <2>2, BecomesIs
    <2>4. Advances(r, n)
      BY <1>3, <2>1, RequestFacts
         DEF InsertRow, Advances, Created, PastCreate, PathOK, Request
    <2>5. /\ Created \subseteq Created'
          /\ \A s \in Created' : s \in Created \/ s = r
          /\ \A s \in Sids : Owner(s)' = Owner(s)
      BY <2>2, <2>4, CreatedGrows
    <2>6. \A s \in Created : handle'[s] => handle[s]
      BY <1>3 DEF InsertRow, redis
    <2>7. ReqInv(n)'
      <3>1. ReqInv(n)
        BY <1>3, <2>1, RequestFacts
           DEF InsertRow, PathOK, NamesCreated, KnowsHandle, KnowsQueue, Revoking, Request
      <3> QED
        BY <2>3, <2>5, <2>6, <3>1, StillKnows
    <2>8. \A r2 \in Requests : ReqInv(req[r2])'
      BY <2>2, <2>4, <2>6, <2>7, AllKnow
    <2>9. KeysInv'
      <3>1. r \in Created
        BY <1>3, SidsAssumption DEF InsertRow, Created, PastCreate, PathOK
      <3> QED
        BY <1>3, <2>5, <3>1 DEF InsertRow, redis, TypeOK, KeysInv, NothingBeforeCreate, CookiesNameCreated,
             EveryReachableSessionIsIndexed, RevokedStaysUnreachable
    <2> QED
      BY <2>8, <2>9 DEF IInv
  <1>4. ASSUME Delete(r) PROVE IInv'
    <2>1. PICK n : n = [req[r] EXCEPT !.pc = "updateRow"]
      OBVIOUS
    <2>2. Becomes(r, n)
      BY <1>4, <2>1 DEF Delete, Goes
    <2>3. n \in Request
      BY <2>2, BecomesIs
    <2>4. Advances(r, n)
      BY <1>4, <2>1, RequestFacts
         DEF Delete, Advances, Created, PastCreate, PathOK, Request
    <2>5. /\ Created \subseteq Created'
          /\ \A s \in Created' : s \in Created \/ s = r
          /\ \A s \in Sids : Owner(s)' = Owner(s)
      BY <2>2, <2>4, CreatedGrows
    <2>6. \A s \in Created : handle'[s] => handle[s]
      BY <1>4 DEF Delete, Created, TypeOK
    <2>7. ReqInv(n)'
      <3>1. PathOK(n)'
        BY <1>4, <2>1, RequestFacts DEF Delete, PathOK, Request
      <3>2. NamesCreated(n)'
        BY <1>4, <2>1, <2>5, RequestFacts
           DEF Delete, NamesCreated, PathOK, Revoking, Request
      <3>3. ~handle'[req[r].target]
        BY <1>4, RequestFacts
           DEF Delete, KnowsHandle, NamesCreated, Revoking, TypeOK
      <3>4. KnowsHandle(n)'
        BY <2>1, <3>3, RequestFacts DEF KnowsHandle, Revoking, Request
      <3>5. KnowsQueue(n)'
        BY <1>4, <2>1, <2>6, <3>3, RequestFacts
           DEF Delete, KnowsQueue, NamesCreated, Revoking, Request
      <3> QED
        BY <3>1, <3>2, <3>4, <3>5
    <2>8. \A r2 \in Requests : ReqInv(req[r2])'
      BY <2>2, <2>4, <2>6, <2>7, AllKnow
    <2>9. KeysInv'
      <3>1. req[r].target \in Sids /\ req[r].target \in Created
        BY <1>4, RequestFacts DEF Delete, NamesCreated, Revoking
      <3>2. ~handle'[req[r].target]
        BY <1>4, <3>1 DEF Delete, KnowsHandle, Revoking, TypeOK
      <3>3. NothingBeforeCreate' /\ CookiesNameCreated' /\ RevokedStaysUnreachable'
        BY <1>4, <2>5, <3>1 DEF Delete, db, TypeOK, KeysInv, NothingBeforeCreate, CookiesNameCreated,
             EveryReachableSessionIsIndexed, RevokedStaysUnreachable
      <3>4. EveryReachableSessionIsIndexed'
        BY <1>4, <2>5, <3>1, <3>2
           DEF Delete, db, TypeOK, KeysInv, EveryReachableSessionIsIndexed
      <3> QED
        BY <3>3, <3>4 DEF KeysInv
    <2> QED
      BY <2>8, <2>9 DEF IInv
  <1>5. ASSUME UpdateRow(r) PROVE IInv'
    <2>1. PICK n :
            /\ Becomes(r, n)
            /\ \/ n = [req[r] EXCEPT !.pc = "clear"] /\ req[r].kind = "endSession"
               \/ n = [req[r] EXCEPT
                         !.revoked = req[r].revoked \cup
                           {[sid |-> req[r].target, clients |-> req[r].clients]},
                         !.pc = IF req[r].kind = "forceUser" THEN "next" ELSE "fanOut"]
                  /\ req[r].kind # "endSession"
      BY <1>5 DEF UpdateRow, Goes
    <2>2. Becomes(r, n)
      BY <2>1
    <2>3. n \in Request
      BY <2>2, BecomesIs
    <2>4. Advances(r, n)
      BY <1>5, <2>1, RequestFacts
         DEF UpdateRow, Advances, Created, PastCreate, PathOK, Request
    <2>5. /\ Created \subseteq Created'
          /\ \A s \in Created' : s \in Created \/ s = r
          /\ \A s \in Sids : Owner(s)' = Owner(s)
      BY <2>2, <2>4, CreatedGrows
    <2>6. \A s \in Created : handle'[s] => handle[s]
      BY <1>5 DEF UpdateRow, redis
    <2>7. ReqInv(n)'
      <3>1. PathOK(n)
        <4>1. /\ n.pc = "clear" => req[r].kind = "endSession"
              /\ n.pc = "next" => req[r].kind = "forceUser"
              /\ n.pc \in {"clear", "next", "fanOut"} /\ n.kind = req[r].kind
              /\ req[r].kind # "none"
          BY <1>5, <2>1, RequestFacts DEF UpdateRow, PathOK, Request
        <4> QED
          BY <4>1 DEF PathOK
      <3>2. NamesCreated(n)
        BY <1>5, <2>1, RequestFacts
           DEF UpdateRow, NamesCreated, PathOK, Revoking, Request
      <3>3. KnowsHandle(n)
        BY <2>1, RequestFacts DEF KnowsHandle, Revoking, Request
      <3>4. KnowsQueue(n)
        BY <1>5, <2>1, RequestFacts
           DEF UpdateRow, KnowsQueue, PathOK, Revoking, Request
      <3>5. ReqInv(n)
        BY <3>1, <3>2, <3>3, <3>4
      <3> QED
        BY <2>3, <2>5, <2>6, <3>5, StillKnows
    <2>8. \A r2 \in Requests : ReqInv(req[r2])'
      BY <2>2, <2>4, <2>6, <2>7, AllKnow
    <2>9. KeysInv'
      <3>1. req[r].target \in Created /\ ~handle[req[r].target]
        BY <1>5, RequestFacts DEF UpdateRow, NamesCreated, KnowsHandle
      <3> QED
        BY <1>5, <2>5, <3>1 DEF UpdateRow, redis, TypeOK, Created, KeysInv, NothingBeforeCreate, CookiesNameCreated,
             EveryReachableSessionIsIndexed, RevokedStaysUnreachable
    <2> QED
      BY <2>8, <2>9 DEF IInv
  <1> QED
    BY <1>1, <1>2, <1>3, <1>4, <1>5

(* A failure, an expiry, a disabled user: the invariant.                  *)
LEMMA EventStep ==
  ASSUME IInv, TypeOK',
         \/ \E r \in Requests : Fail(r)
         \/ \E s \in Sids : ExpireIdle(s)
         \/ \E u \in Users : Disable(u)
         \/ UNCHANGED vars
  PROVE  IInv'
  <1> TypeOK /\ KeysInv /\ \A r \in Requests : ReqInv(req[r])
    BY DEF IInv
  <1>1. ASSUME NEW r \in Requests, Fail(r) PROVE IInv'
    <2>1. PICK n : n = [req[r] EXCEPT !.pc = "failed"]
      OBVIOUS
    <2>2. Becomes(r, n)
      BY <1>1, <2>1 DEF Fail, Goes
    <2>3. n \in Request
      BY <2>2, BecomesIs
    <2>4. Advances(r, n)
      BY <2>1, RequestFacts DEF Advances, Created, PastCreate, Request
    <2>5. ReqInv(n)
      BY <1>1, <2>1, RequestFacts
         DEF Fail, ReqInv, PathOK, NamesCreated, KnowsHandle, KnowsQueue, Revoking,
             Request
    <2> QED
      BY <1>1, <2>2, <2>3, <2>4, <2>5, QuietKeeps DEF Fail, redis, db
  <1>2. ASSUME UNCHANGED req, \A s \in Sids : handle'[s] => handle[s], KeysInv'
        PROVE IInv'
    <2>1. Created' = Created
      BY <1>2 DEF Created
    <2>2. \A r \in Requests : ReqInv(req[r])'
      <3> SUFFICES ASSUME NEW r \in Requests PROVE ReqInv(req[r])'
        OBVIOUS
      <3>1. PICK q \in Request : q = req[r]
        BY RequestFacts
      <3>2. ReqInv(q)'
        BY <1>2, <2>1, <3>1, StillKnows DEF Created
      <3> QED
        BY <1>2, <3>1, <3>2
    <2> QED
      BY <1>2, <2>2 DEF IInv
  <1>3. ASSUME NEW s \in Sids, ExpireIdle(s) PROVE IInv'
    <2>1. \A s2 \in Sids : handle'[s2] => handle[s2]
      BY <1>3 DEF ExpireIdle, TypeOK
    <2>2. /\ Created' = Created /\ UNCHANGED <<index, row, cookie>>
          /\ \A s2 \in Sids : live'[s2] = (live[s2] /\ s2 # s)
          /\ \A s2 \in Sids : handle'[s2] = (handle[s2] /\ s2 # s)
          /\ \A s2 \in Sids : Owner(s2)' = Owner(s2)
      BY <1>3 DEF ExpireIdle, db, TypeOK, Created, Owner
    <2>3. NothingBeforeCreate' /\ CookiesNameCreated'
      BY <2>2 DEF KeysInv, NothingBeforeCreate, CookiesNameCreated
    <2>4. EveryReachableSessionIsIndexed' /\ RevokedStaysUnreachable'
      BY <2>2 DEF KeysInv, EveryReachableSessionIsIndexed, RevokedStaysUnreachable
    <2> QED
      BY <1>2, <1>3, <2>1, <2>3, <2>4 DEF ExpireIdle, KeysInv
  <1>4. ASSUME UNCHANGED <<live, handle, index, row, cookie, req>> PROVE IInv'
    <2>1. KeysInv'
      BY <1>4 DEF KeysInv, Created, Owner, NothingBeforeCreate, CookiesNameCreated,
                  EveryReachableSessionIsIndexed, RevokedStaysUnreachable
    <2> QED
      BY <1>2, <1>4, <2>1
  <1> QED
    BY <1>1, <1>3, <1>4 DEF Disable, vars, redis, db

LEMMA InitIInv == Init => IInv
  <1> SUFFICES ASSUME Init PROVE IInv
    OBVIOUS
  <1>1. TypeOK
    BY InitType
  <1>2. \A r \in Requests :
          /\ req[r].pc = "idle" /\ req[r].kind = "none"
          /\ req[r].sent = NoSid /\ req[r].target = NoSid
          /\ req[r].queue = {} /\ req[r].reached = {}
    BY DEF Init
  <1>3. KeysInv
    BY DEF Init, KeysInv, NothingBeforeCreate, CookiesNameCreated,
           EveryReachableSessionIsIndexed, RevokedStaysUnreachable
  <1>4. \A r \in Requests : ReqInv(req[r])
    BY <1>2 DEF ReqInv, PathOK, NamesCreated, KnowsHandle, KnowsQueue, Revoking
  <1> QED
    BY <1>1, <1>3, <1>4 DEF IInv

LEMMA InvStep == IInv /\ [Next]_vars => IInv'
  <1> SUFFICES ASSUME IInv, [Next]_vars PROVE IInv'
    OBVIOUS
  <1>1. TypeOK'
    BY TypeStep
  <1>2. ASSUME NEW r \in Requests, Proceed(r) PROVE IInv'
    BY <1>1, <1>2, SignInQuietStep, RevocationQuietStep, KeyStep DEF Proceed
  <1> QED
    BY <1>1, <1>2, StartStep, EventStep DEF Next

LEMMA Inductive == Spec => []IInv
  BY InitIInv, InvStep, PTL DEF Spec

-----------------------------------------------------------------------------
(* The keys, the rows and what requests have read keep their types.        *)
THEOREM TypeCorrect == Spec => []TypeOK
  <1>1. IInv => TypeOK
    BY DEF IInv
  <1> QED
    BY <1>1, Inductive, PTL

(* No handle opens a session that the DB calls revoked.                    *)
THEOREM RevocationIsFinal == Spec => []RevokedStaysUnreachable
  <1>1. IInv => RevokedStaysUnreachable
    BY DEF IInv, KeysInv
  <1> QED
    BY <1>1, Inductive, PTL

(* A force logout finds every session of its user that can be used.        *)
THEOREM SessionsAreIndexed == Spec => []EveryReachableSessionIsIndexed
  <1>1. IInv => EveryReachableSessionIsIndexed
    BY DEF IInv, KeysInv
  <1> QED
    BY <1>1, Inductive, PTL

(* A force logout that has ended has left none of them usable.             *)
THEOREM ForceLogoutHolds == Spec => []ForceLogoutIsComplete
  <1>1. IInv => ForceLogoutIsComplete
    <2> SUFFICES ASSUME IInv, NEW r \in Requests,
                        req[r].kind = "forceUser", req[r].pc = "done",
                        NEW s \in req[r].reached
                 PROVE  ~handle[s]
      BY DEF ForceLogoutIsComplete
    <2>1. KnowsQueue(req[r])
      BY DEF IInv, ReqInv
    <2> QED
      BY <2>1 DEF KnowsQueue, Revoking
  <1> QED
    BY <1>1, Inductive, PTL
-----------------------------------------------------------------------------
(* Disabled users and sign-ins over an old session.  What a request may    *)
(* still do: one that began when its user was disabled never gets as far   *)
(* as an assertion, and a sign-in that goes on to its own session has left *)
(* no handle of the one it found.                                          *)
Assertive == {"touch", "complete", "addClient", "addClientRow", "respond"}
Retiring == {"fanOut", "create", "insertRow", "complete", "addClient",
             "addClientRow", "respond"}

WayOK(q) ==
  /\ q.pc = "idle" => q.target = NoSid /\ ~q.late
  /\ q.kind = "login" /\ q.pc \in {"verify", "getHandle", "getSession"}
       => q.target = NoSid
  /\ q.late => /\ ~active[q.user] /\ q.pc \notin Assertive
               /\ q.kind = "login" => q.pc \in {"verify", "done", "failed"}
  /\ q.kind = "login" /\ q.pc \in Retiring /\ q.target # NoSid
       => ~handle[q.target]

DeliveredInv ==
  \A d \in delivered : req[d.by].pc = "done" /\ ~req[d.by].late

WayInv == IInv /\ DeliveredInv /\ \A r \in Requests : WayOK(req[r])

(* The next state of the request that acts, under the old keys and rows.   *)
Moves(r, n) ==
  /\ Becomes(r, n) /\ WayOK(n)
  /\ n.target # NoSid => n.target \in Created
  /\ req[r].pc # "done"

LEMMA StartMoves ==
  ASSUME WayInv, NEW r \in Requests, Start(r)
  PROVE  /\ \E n : Moves(r, n)
         /\ UNCHANGED <<handle, active, delivered>>
  <1>1. TypeOK /\ KeysInv /\ ReqInv(req[r]) /\ WayOK(req[r]) /\ req[r] \in Request
    BY RequestFacts DEF WayInv, IInv
  <1>2. ASSUME NEW b \in Browsers, StartLogin(r, b) PROVE \E n : Moves(r, n)
    <2>1. PICK n : n = [req[r] EXCEPT !.pc = "verify", !.kind = "login",
               !.browser = b, !.sent = cookie[b], !.late = ~active[req[r].user]]
      OBVIOUS
    <2>2. WayOK(n)
      BY <1>1, <1>2, <2>1 DEF StartLogin, WayOK, Assertive, Retiring, Request
    <2> QED
      BY <1>1, <1>2, <2>1, <2>2 DEF StartLogin, Moves, WayOK, Request
  <1>3. ASSUME NEW b \in Browsers, StartContinue(r, b) PROVE \E n : Moves(r, n)
    <2>1. PICK n : n = [req[r] EXCEPT !.pc = "getHandle", !.kind = "continue",
               !.browser = b, !.sent = cookie[b], !.late = ~active[req[r].user]]
      OBVIOUS
    <2>2. WayOK(n)
      BY <1>1, <1>3, <2>1 DEF StartContinue, WayOK, Assertive, Retiring, Request
    <2> QED
      BY <1>1, <1>3, <2>1, <2>2 DEF StartContinue, Moves, WayOK, Request
  <1>4. ASSUME NEW b \in Browsers, NEW kind \in {"endSession", "logout"},
               StartSignOut(r, b, kind) PROVE \E n : Moves(r, n)
    <2>1. PICK n : n = [req[r] EXCEPT !.pc = "getHandle", !.kind = kind,
               !.browser = b, !.sent = cookie[b]]
      OBVIOUS
    <2>2. WayOK(n)
      BY <1>1, <1>4, <2>1 DEF StartSignOut, WayOK, Assertive, Retiring, Request
    <2> QED
      BY <1>1, <1>4, <2>1, <2>2 DEF StartSignOut, Moves, WayOK, Request
  <1>5. ASSUME NEW s \in Sids, StartForceSid(r, s) PROVE \E n : Moves(r, n)
    <2>1. PICK n : n = [req[r] EXCEPT !.pc = "getRaw", !.kind = "forceSid",
               !.target = s]
      OBVIOUS
    <2>2. WayOK(n)
      BY <1>1, <1>5, <2>1 DEF StartForceSid, WayOK, Assertive, Retiring, Request
    <2>3. s \in Created
      BY <1>1, <1>5 DEF StartForceSid, KeysInv, NothingBeforeCreate
    <2> QED
      BY <1>1, <1>5, <2>1, <2>2, <2>3 DEF StartForceSid, Moves, Request
  <1>6. ASSUME StartForceUser(r) PROVE \E n : Moves(r, n)
    <2>1. PICK n : n = [req[r] EXCEPT !.pc = "userRows", !.kind = "forceUser",
               !.queue = index[req[r].user],
               !.reached = {s \in Sids : handle[s] /\ Owner(s) = req[r].user}]
      OBVIOUS
    <2>2. WayOK(n)
      BY <1>1, <1>6, <2>1 DEF StartForceUser, WayOK, Assertive, Retiring, Request
    <2> QED
      BY <1>1, <1>6, <2>1, <2>2 DEF StartForceUser, Moves, WayOK, Request
  <1>7. UNCHANGED <<handle, active, delivered>>
    BY DEF Start, StartLogin, StartContinue, StartSignOut, StartForceSid,
           StartForceUser, redis, db, history
  <1> QED
    BY <1>2, <1>3, <1>4, <1>5, <1>6, <1>7 DEF Start

(* Most round trips move the program counter only.                         *)
LEMMA GoesMoves ==
  ASSUME TypeOK, NEW r \in Requests, NEW pc, Goes(r, pc), WayOK(req[r]),
         NamesCreated(req[r]), req[r].pc # "done", pc # "idle",
         req[r].kind = "login" => pc \notin {"verify", "getHandle", "getSession"}
                                  \/ req[r].target = NoSid,
         req[r].late => /\ pc \notin Assertive
                        /\ req[r].kind = "login" => pc \in {"verify", "done", "failed"},
         req[r].kind = "login" /\ pc \in Retiring /\ req[r].target # NoSid
           => ~handle[req[r].target]
  PROVE  Moves(r, [req[r] EXCEPT !.pc = pc])
  <1>1. req[r] \in Request
    BY RequestFacts
  <1>2. WayOK([req[r] EXCEPT !.pc = pc])
    BY <1>1 DEF WayOK, Request
  <1> QED
    BY <1>1, <1>2 DEF Goes, Moves, NamesCreated, Request

LEMMA SignInMoves ==
  ASSUME WayInv, NEW r \in Requests,
         \/ Verify(r) \/ GetHandle(r) \/ GetSession(r) \/ CheckUser(r) \/ Touch(r)
         \/ Create(r) \/ InsertRow(r) \/ Complete(r) \/ AddClient(r)
         \/ AddClientRow(r) \/ Respond(r) \/ Clear(r)
  PROVE  \E n : Moves(r, n)
  <1>1. /\ TypeOK /\ PathOK(req[r]) /\ NamesCreated(req[r]) /\ WayOK(req[r])
        /\ req[r] \in Request
    BY RequestFacts DEF WayInv, IInv, ReqInv
  <1> USE DEF Assertive, Retiring, PathOK, WayOK
  <1>2. ASSUME Verify(r) PROVE \E n : Moves(r, n)
    BY <1>1, <1>2, GoesMoves DEF Verify
  <1>3. ASSUME GetHandle(r) PROVE \E n : Moves(r, n)
    BY <1>1, <1>3, GoesMoves DEF GetHandle, WithoutSession
  <1>4. ASSUME GetSession(r) PROVE \E n : Moves(r, n)
    <2>1. CASE live[req[r].sent]
      <3>1. PICK n : n = [req[r] EXCEPT !.pc = WithSession(req[r].kind),
                                        !.target = req[r].sent]
        OBVIOUS
      <3>2. WayOK(n)
        BY <1>1, <1>4, <3>1 DEF GetSession, WithSession, Request
      <3> QED
        BY <1>1, <1>4, <2>1, <3>1, <3>2 DEF GetSession, Moves, NamesCreated, Request
    <2>2. CASE ~live[req[r].sent]
      BY <1>1, <1>4, <2>2, GoesMoves DEF GetSession, WithoutSession
    <2> QED
      BY <2>1, <2>2
  <1>5. ASSUME CheckUser(r) PROVE \E n : Moves(r, n)
    BY <1>1, <1>5, GoesMoves DEF CheckUser
  <1>6. ASSUME Touch(r) PROVE \E n : Moves(r, n)
    BY <1>1, <1>6, GoesMoves DEF Touch
  <1>7. ASSUME Create(r) PROVE \E n : Moves(r, n)
    BY <1>1, <1>7, GoesMoves DEF Create
  <1>8. ASSUME InsertRow(r) PROVE \E n : Moves(r, n)
    BY <1>1, <1>8, GoesMoves DEF InsertRow
  <1>9. ASSUME Complete(r) PROVE \E n : Moves(r, n)
    <2>1. PICK pc \in {"done", "respond", "addClient"} : Goes(r, pc)
      BY <1>9 DEF Complete
    <2> QED
      BY <1>1, <1>9, <2>1, GoesMoves DEF Complete
  <1>10. ASSUME AddClient(r) PROVE \E n : Moves(r, n)
    BY <1>1, <1>10, GoesMoves DEF AddClient
  <1>11. ASSUME AddClientRow(r) PROVE \E n : Moves(r, n)
    BY <1>1, <1>11, GoesMoves DEF AddClientRow
  <1>12. ASSUME Respond(r) PROVE \E n : Moves(r, n)
    BY <1>1, <1>12, GoesMoves DEF Respond
  <1>13. ASSUME Clear(r) PROVE \E n : Moves(r, n)
    BY <1>1, <1>13, GoesMoves DEF Clear
  <1> QED
    BY <1>2, <1>3, <1>4, <1>5, <1>6, <1>7, <1>8, <1>9, <1>10, <1>11, <1>12, <1>13

LEMMA RevocationMoves ==
  ASSUME WayInv, NEW r \in Requests,
         \/ UserRows(r) \/ NextOfUser(r) \/ GetRaw(r) \/ GetRow(r)
         \/ GetMembers(r) \/ GetRowClients(r) \/ Delete(r) \/ UpdateRow(r)
         \/ FanOut(r)
  PROVE  \E n : Moves(r, n)
  <1>1. /\ TypeOK /\ PathOK(req[r]) /\ NamesCreated(req[r]) /\ WayOK(req[r])
        /\ KnowsHandle(req[r]) /\ req[r] \in Request
    BY RequestFacts DEF WayInv, IInv, ReqInv
  <1> USE DEF Assertive, Retiring, PathOK, WayOK
  <1>2. ASSUME UserRows(r) PROVE \E n : Moves(r, n)
    <2>1. PICK n : n = [req[r] EXCEPT !.pc = "next", !.queue = req[r].queue \cup
               {s \in Sids : row[s] = "open" /\ Owner(s) = req[r].user}]
      OBVIOUS
    <2>2. WayOK(n)
      BY <1>1, <1>2, <2>1 DEF UserRows, Request
    <2> QED
      BY <1>1, <1>2, <2>1, <2>2 DEF UserRows, Moves, NamesCreated, Request
  <1>3. ASSUME NextOfUser(r) PROVE \E n : Moves(r, n)
    <2>1. ASSUME NEW s \in req[r].queue,
                 Becomes(r, [req[r] EXCEPT !.pc = "getRaw", !.target = s,
                                           !.queue = req[r].queue \ {s}])
          PROVE \E n : Moves(r, n)
      <3>1. PICK n : n = [req[r] EXCEPT !.pc = "getRaw", !.target = s,
                                        !.queue = req[r].queue \ {s}]
        OBVIOUS
      <3>2. WayOK(n)
        BY <1>1, <1>3, <3>1 DEF NextOfUser, Request
      <3> QED
        BY <1>1, <1>3, <2>1, <3>1, <3>2 DEF NextOfUser, Moves, NamesCreated, Request
    <2>2. CASE Goes(r, IF req[r].revoked = {} THEN "done" ELSE "fanOut")
      BY <1>1, <1>3, <2>2, GoesMoves DEF NextOfUser
    <2> QED
      BY <1>3, <2>1, <2>2 DEF NextOfUser
  <1>4. ASSUME GetRaw(r) PROVE \E n : Moves(r, n)
    <2>1. PICK n : n = [req[r] EXCEPT !.pc = "getRow", !.raw = live[req[r].target]]
      OBVIOUS
    <2>2. WayOK(n)
      BY <1>1, <1>4, <2>1 DEF GetRaw, Request
    <2> QED
      BY <1>1, <1>4, <2>1, <2>2 DEF GetRaw, Moves, NamesCreated, Request
  <1>5. ASSUME GetRow(r) PROVE \E n : Moves(r, n)
    <2>1. CASE ~req[r].raw /\ row[req[r].target] # "open"
      <3>1. ~handle[req[r].target]
        BY <1>1, <1>5, <2>1 DEF GetRow, KnowsHandle, Revoking
      <3>2. /\ AfterRevoke(req[r].kind) \in {"create", "clear", "done", "next"}
            /\ req[r].kind \in {"continue", "endSession", "logout"}
                 => AfterRevoke(req[r].kind) = "clear"
        BY <1>1, <1>5 DEF GetRow, AfterRevoke, Request, AllKinds
      <3> QED
        BY <1>1, <1>5, <2>1, <3>1, <3>2, GoesMoves DEF GetRow
    <2>2. CASE ~(~req[r].raw /\ row[req[r].target] # "open")
      <3>1. PICK n : n = [req[r] EXCEPT !.pc = "getMembers",
               !.known = req[r].known \cup {[sid |-> req[r].target,
                                             clients |-> rowClients[req[r].target]]}]
        OBVIOUS
      <3>2. WayOK(n)
        BY <1>1, <1>5, <3>1 DEF GetRow, Request
      <3> QED
        BY <1>1, <1>5, <2>2, <3>1, <3>2 DEF GetRow, Moves, NamesCreated, Request
    <2> QED
      BY <2>1, <2>2
  <1>6. ASSUME GetMembers(r) PROVE \E n : Moves(r, n)
    <2>1. PICK n : n = [req[r] EXCEPT !.clients = members[req[r].target],
               !.pc = IF members[req[r].target] # {} THEN "delete" ELSE "getRowClients"]
      OBVIOUS
    <2>2. WayOK(n)
      BY <1>1, <1>6, <2>1 DEF GetMembers, Request
    <2> QED
      BY <1>1, <1>6, <2>1, <2>2 DEF GetMembers, Moves, NamesCreated, Request
  <1>7. ASSUME GetRowClients(r) PROVE \E n : Moves(r, n)
    <2>1. PICK n : n = [req[r] EXCEPT !.pc = "delete",
                                      !.clients = rowClients[req[r].target]]
      OBVIOUS
    <2>2. WayOK(n)
      BY <1>1, <1>7, <2>1 DEF GetRowClients, Request
    <2> QED
      BY <1>1, <1>7, <2>1, <2>2 DEF GetRowClients, Moves, NamesCreated, Request
  <1>8. ASSUME Delete(r) PROVE \E n : Moves(r, n)
    BY <1>1, <1>8, GoesMoves DEF Delete
  <1>9. ASSUME UpdateRow(r) PROVE \E n : Moves(r, n)
    <2>1. CASE req[r].kind = "endSession"
      BY <1>1, <1>9, <2>1, GoesMoves DEF UpdateRow
    <2>2. CASE req[r].kind # "endSession"
      <3>1. PICK n : n = [req[r] EXCEPT !.revoked = req[r].revoked \cup
                 {[sid |-> req[r].target, clients |-> req[r].clients]},
               !.pc = IF req[r].kind = "forceUser" THEN "next" ELSE "fanOut"]
        OBVIOUS
      <3>2. WayOK(n)
        BY <1>1, <1>9, <3>1 DEF UpdateRow, KnowsHandle, Request
      <3> QED
        BY <1>1, <1>9, <2>2, <3>1, <3>2 DEF UpdateRow, Moves, NamesCreated, Request
    <2> QED
      BY <2>1, <2>2
  <1>10. ASSUME FanOut(r) PROVE \E n : Moves(r, n)
    <2> DEFINE next(v) == CASE req[r].revoked # {v} -> "fanOut"
                            [] req[r].revoked = {v} /\ req[r].kind = "forceUser" -> "done"
                            [] OTHER -> AfterRevoke(req[r].kind)
    <2>1. PICK v \in req[r].revoked :
             Becomes(r, [req[r] EXCEPT !.revoked = req[r].revoked \ {v}, !.pc = next(v)])
      BY <1>10 DEF FanOut
    <2>2. /\ next(v) \in {"fanOut", "create", "clear", "done", "next"}
          /\ req[r].kind \in {"continue", "endSession", "logout"}
               => next(v) \in {"fanOut", "clear"}
      BY <1>1, <1>10 DEF FanOut, AfterRevoke, Request, AllKinds
    <2> HIDE DEF next
    <2>3. PICK n : n = [req[r] EXCEPT !.revoked = req[r].revoked \ {v}, !.pc = next(v)]
      OBVIOUS
    <2>4. WayOK(n)
      BY <1>1, <1>10, <2>2, <2>3 DEF FanOut, Request
    <2>5. n.target = req[r].target
      BY <1>1, <2>3 DEF Request
    <2>6. Becomes(r, n)
      BY <2>1, <2>3
    <2>7. req[r].pc # "done"
      BY <1>10 DEF FanOut
    <2> QED
      BY <1>1, <2>4, <2>5, <2>6, <2>7 DEF Moves, NamesCreated
  <1> QED
    BY <1>2, <1>3, <1>4, <1>5, <1>6, <1>7, <1>8, <1>9, <1>10

(* Handles of created sessions and active users only disappear.            *)
LEMMA OnlyDisappear ==
  ASSUME IInv, [Next]_vars
  PROVE  /\ \A s \in Created : handle'[s] => handle[s]
         /\ \A u \in Users : active'[u] => active[u]
  <1>1. TypeOK /\ \A r \in Requests : r \in Sids /\ PathOK(req[r]) /\ NamesCreated(req[r])
    BY SidsAssumption DEF IInv, ReqInv
  <1>2. ASSUME NEW r \in Requests, Create(r)
        PROVE  \A s \in Created : handle'[s] = handle[s]
    <2>1. r \notin Created
      BY <1>2 DEF Create, Created, PastCreate
    <2> QED
      BY <1>1, <1>2, <2>1 DEF Create, TypeOK, Created
  <1>3. ASSUME NEW r \in Requests, Delete(r)
        PROVE  \A s \in Sids : handle'[s] => handle[s]
    BY <1>1, <1>3 DEF Delete, TypeOK
  <1>4. ASSUME NEW r \in Sids, ExpireIdle(r)
        PROVE  \A s \in Sids : handle'[s] => handle[s]
    BY <1>1, <1>4 DEF ExpireIdle, TypeOK
  <1>5. ASSUME NEW u \in Users, Disable(u)
        PROVE  UNCHANGED handle /\ \A v \in Users : active'[v] => active[v]
    BY <1>1, <1>5 DEF Disable, TypeOK, redis
  <1>6. ASSUME NEW r \in Requests, Start(r) \/ Fail(r)
        PROVE  UNCHANGED handle /\ UNCHANGED active
    BY <1>6 DEF Start, StartLogin, StartContinue, StartSignOut, StartForceSid,
           StartForceUser, Fail, redis, db
  <1>7. ASSUME NEW r \in Requests, Proceed(r)
        PROVE  /\ UNCHANGED handle \/ Create(r) \/ Delete(r)
               /\ UNCHANGED active
    <2>1. CASE \/ Verify(r) \/ GetHandle(r) \/ GetSession(r) \/ CheckUser(r)
               \/ Touch(r) \/ InsertRow(r) \/ Complete(r) \/ AddClient(r)
               \/ AddClientRow(r) \/ Respond(r) \/ Clear(r)
      BY <2>1 DEF Verify, GetHandle, GetSession, CheckUser, Touch, InsertRow,
           Complete, AddClient, AddClientRow, Respond, Clear, redis, db
    <2>2. CASE \/ UserRows(r) \/ NextOfUser(r) \/ GetRaw(r) \/ GetRow(r)
               \/ GetMembers(r) \/ GetRowClients(r) \/ UpdateRow(r) \/ FanOut(r)
      BY <2>2 DEF UserRows, NextOfUser, GetRaw, GetRow, GetMembers, GetRowClients,
           UpdateRow, FanOut, redis, db
    <2>3. CASE Create(r) \/ Delete(r)
      BY <2>3 DEF Create, Delete, db
    <2> QED
      BY <1>7, <2>1, <2>2, <2>3 DEF Proceed
  <1>8. ASSUME NEW s \in Sids, ExpireIdle(s) PROVE UNCHANGED active
    BY <1>8 DEF ExpireIdle, db
  <1>9. /\ UNCHANGED handle \/ (\E r \in Requests : Create(r) \/ Delete(r))
           \/ (\E s \in Sids : ExpireIdle(s))
        /\ UNCHANGED active \/ \E u \in Users : Disable(u)
    BY <1>5, <1>6, <1>7, <1>8 DEF Next, vars, redis, db
  <1> QED
    BY <1>2, <1>3, <1>4, <1>5, <1>9 DEF Created

LEMMA WayStays ==
  ASSUME NEW q, WayOK(q), q.user \in Users, q.target # NoSid => q.target \in Created,
         \A s \in Created : handle'[s] => handle[s],
         \A u \in Users : active'[u] => active[u]
  PROVE  WayOK(q)'
  BY DEF WayOK

(* Only a response delivers, and what has delivered is done.               *)
LEMMA DeliveredStep ==
  ASSUME WayInv, NEW r \in Requests, NEW n, Moves(r, n),
         \/ UNCHANGED delivered
         \/ Respond(r)
  PROVE  DeliveredInv'
  <1>1. TypeOK /\ req[r] \in Request /\ WayOK(req[r])
    BY RequestFacts DEF WayInv, IInv
  <1>2. \A p \in Requests : p # r => req'[p] = req[p]
    BY <1>1 DEF Moves, Becomes, TypeOK
  <1>3. \A d \in delivered : d.by \in Requests
    BY <1>1 DEF TypeOK
  <1>4. CASE UNCHANGED delivered
    BY <1>2, <1>3, <1>4 DEF Moves, WayInv, DeliveredInv
  <1>5. CASE Respond(r)
    <2>1. req'[r].pc = "done" /\ ~req'[r].late
      BY <1>1, <1>5 DEF Respond, Goes, Becomes, WayOK, Assertive, TypeOK, Request
    <2>2. \A d \in delivered' : d \in delivered \/ d.by = r
      BY <1>5 DEF Respond
    <2> QED
      BY <1>2, <1>3, <2>1, <2>2 DEF Moves, WayInv, DeliveredInv
  <1> QED
    BY <1>4, <1>5

LEMMA MovesKeep ==
  ASSUME WayInv, [Next]_vars, NEW r \in Requests, NEW n, Moves(r, n),
         UNCHANGED delivered \/ Respond(r)
  PROVE  WayInv'
  <1>1. IInv /\ IInv' /\ TypeOK /\ TypeOK'
    BY InvStep DEF WayInv, IInv
  <1>2. \A p \in Requests : /\ WayOK(req[p]) /\ req[p].user \in Users
                            /\ req[p].target # NoSid => req[p].target \in Created
    BY <1>1, RequestFacts DEF WayInv, IInv, ReqInv, NamesCreated
  <1>3. n \in Request
    BY <1>1, BecomesIs DEF Moves
  <1>4. WayOK(n)'
    BY <1>1, <1>3, OnlyDisappear, WayStays DEF Moves, Request
  <1>5. ASSUME NEW p \in Requests PROVE WayOK(req[p])'
    <2>1. CASE p = r
      <3>1. req'[p] = n
        BY <1>1, <2>1 DEF Moves, Becomes, TypeOK
      <3> QED
        BY <1>4, <3>1
    <2>2. CASE p # r
      <3>1. PICK q : q = req[p]
        OBVIOUS
      <3>2. req'[p] = q
        BY <1>1, <2>2, <3>1 DEF Moves, Becomes, TypeOK
      <3>3. WayOK(q)'
        BY <1>1, <1>2, <3>1, OnlyDisappear, WayStays
      <3> QED
        BY <3>2, <3>3
    <2> QED
      BY <2>1, <2>2
  <1> QED
    BY <1>1, <1>5, DeliveredStep DEF WayInv

LEMMA WayStep == WayInv /\ [Next]_vars => WayInv'
  <1> SUFFICES ASSUME WayInv, [Next]_vars PROVE WayInv'
    OBVIOUS
  <1>1. IInv /\ IInv' /\ TypeOK
    BY InvStep DEF WayInv, IInv
  <1>2. ASSUME NEW r \in Requests, Start(r) PROVE WayInv'
    BY <1>2, StartMoves, MovesKeep
  <1>3. ASSUME NEW r \in Requests, Proceed(r) PROVE WayInv'
    <2>1. \E n : Moves(r, n)
      BY <1>3, SignInMoves, RevocationMoves DEF Proceed
    <2>2. UNCHANGED delivered \/ Respond(r)
      BY <1>3 DEF Proceed, Verify, GetHandle, GetSession, CheckUser, Touch,
           Create, InsertRow, Complete, AddClient, AddClientRow, Clear,
           UserRows, NextOfUser, GetRaw, GetRow, GetMembers, GetRowClients, Delete,
           UpdateRow, FanOut, history
    <2> QED
      BY <2>1, <2>2, MovesKeep
  <1>4. ASSUME NEW r \in Requests, Fail(r) PROVE WayInv'
    <2>1. Moves(r, [req[r] EXCEPT !.pc = "failed"])
      <3>1. WayOK(req[r]) /\ NamesCreated(req[r])
        BY DEF WayInv, IInv, ReqInv
      <3> QED
        BY <1>1, <1>4, <3>1, GoesMoves DEF Fail, Assertive, Retiring
    <2> QED
      BY <1>4, <2>1, MovesKeep DEF Fail, history
  <1>5. ASSUME UNCHANGED <<req, delivered>> PROVE WayInv'
    <2>1. ASSUME NEW p \in Requests PROVE WayOK(req[p])'
      <3>1. PICK q : q = req[p]
        OBVIOUS
      <3>2. /\ WayOK(q) /\ q.user \in Users
            /\ q.target # NoSid => q.target \in Created
        BY <1>1, <3>1, RequestFacts DEF WayInv, IInv, ReqInv, NamesCreated
      <3>3. WayOK(q)'
        BY <1>1, <3>2, OnlyDisappear, WayStays
      <3> QED
        BY <1>5, <3>1, <3>3
    <2> QED
      BY <1>1, <1>5, <2>1 DEF WayInv, DeliveredInv
  <1> QED
    BY <1>2, <1>3, <1>4, <1>5 DEF Next, ExpireIdle, Disable, history, vars

LEMMA WayHolds == Spec => []WayInv
  <1>1. Init => WayInv
    <2> SUFFICES ASSUME Init PROVE WayInv
      OBVIOUS
    <2>1. \A r \in Requests : /\ req[r].pc = "idle" /\ req[r].kind = "none"
                              /\ req[r].target = NoSid /\ req[r].late = FALSE
      BY DEF Init
    <2>2. \A r \in Requests : WayOK(req[r])
      BY <2>1 DEF WayOK
    <2> QED
      BY <2>2, InitIInv DEF WayInv, DeliveredInv, Init
  <1> QED
    BY <1>1, WayStep, PTL DEF Spec

(* DisabledUserGetsNoNewAssertion: whatever changes between the steps of a *)
(* request, one that began for a disabled user delivers nothing.           *)
THEOREM DisabledUsersGetNothing == Spec => []DisabledUserGetsNoNewAssertion
  <1>1. WayInv => DisabledUserGetsNoNewAssertion
    BY DEF WayInv, DeliveredInv, DisabledUserGetsNoNewAssertion
  <1> QED
    BY <1>1, WayHolds, PTL

(* ReauthenticationRetiresOldSession: a sign-in creates its session only   *)
(* when the handle it came with is gone for good.                          *)
THEOREM ReauthenticationRetires == Spec => []ReauthenticationRetiresOldSession
  <1>1. WayInv => ReauthenticationRetiresOldSession
    BY DEF WayInv, WayOK, Retiring, ReauthenticationRetiresOldSession
  <1> QED
    BY <1>1, WayHolds, PTL
-----------------------------------------------------------------------------
(* The promise.  Whom a revocation will notify is of a session that nobody *)
(* can use any more.                                                       *)
Ends(q) == \A v \in q.revoked : v.sid \in Created /\ ~handle[v.sid]
TellInv == IInv /\ \A r \in Requests : Ends(req[r])

(* The next state of the request that acts, and the revocations it adds.   *)
Collects(r, n) ==
  /\ Becomes(r, n)
  /\ \A v \in n.revoked :
       \/ v \in req[r].revoked
       \/ v.sid = req[r].target /\ req[r].pc = "updateRow"
  /\ r \in Created => n.kind = "login" /\ n.pc \in PastCreate

LEMMA GoesCollects ==
  ASSUME TypeOK, NEW r \in Requests, NEW pc, Goes(r, pc),
         r \in Created => pc \in PastCreate
  PROVE  Collects(r, [req[r] EXCEPT !.pc = pc])
  <1>1. req[r] \in Request
    BY RequestFacts
  <1> QED
    BY <1>1 DEF Goes, Collects, Created, Request

LEMMA OtherCollects ==
  ASSUME TypeOK, NEW r \in Requests, NEW n, Becomes(r, n), r \notin Created,
         n.revoked = req[r].revoked
  PROVE  \E m : Collects(r, m)
  BY DEF Collects

LEMMA StartCollects ==
  ASSUME IInv, NEW r \in Requests, Start(r)
  PROVE  \E n : Collects(r, n)
  <1>1. TypeOK /\ PathOK(req[r]) /\ req[r] \in Request
    BY RequestFacts DEF IInv, ReqInv
  <1>2. r \notin Created
    <2>1. ASSUME NEW b \in Browsers, StartLogin(r, b) \/ StartContinue(r, b)
          PROVE  req[r].pc = "idle"
      BY <2>1 DEF StartLogin, StartContinue
    <2>2. ASSUME NEW b \in Browsers, NEW kind \in {"endSession", "logout"},
                 StartSignOut(r, b, kind)
          PROVE  req[r].pc = "idle"
      BY <2>2 DEF StartSignOut
    <2>3. ASSUME NEW s \in Sids, StartForceSid(r, s) PROVE req[r].pc = "idle"
      BY <2>3 DEF StartForceSid
    <2>4. StartForceUser(r) => req[r].pc = "idle"
      BY Zenon DEF StartForceUser
    <2>5. req[r].pc = "idle"
      BY <2>1, <2>2, <2>3, <2>4 DEF Start
    <2> QED
      BY <1>1, <2>5 DEF Created, PathOK
  <1>3. ASSUME NEW b \in Browsers, StartLogin(r, b) PROVE \E n : Collects(r, n)
    <2>1. PICK n : n = [req[r] EXCEPT !.pc = "verify", !.kind = "login",
               !.browser = b, !.sent = cookie[b], !.late = ~active[req[r].user]]
      OBVIOUS
    <2> QED
      BY <1>1, <1>2, <1>3, <2>1, OtherCollects DEF StartLogin, Request
  <1>4. ASSUME NEW b \in Browsers, StartContinue(r, b) PROVE \E n : Collects(r, n)
    <2>1. PICK n : n = [req[r] EXCEPT !.pc = "getHandle", !.kind = "continue",
               !.browser = b, !.sent = cookie[b], !.late = ~active[req[r].user]]
      OBVIOUS
    <2> QED
      BY <1>1, <1>2, <1>4, <2>1, OtherCollects DEF StartContinue, Request
  <1>5. ASSUME NEW b \in Browsers, NEW kind \in {"endSession", "logout"},
               StartSignOut(r, b, kind) PROVE \E n : Collects(r, n)
    <2>1. PICK n : n = [req[r] EXCEPT !.pc = "getHandle", !.kind = kind,
               !.browser = b, !.sent = cookie[b]]
      OBVIOUS
    <2> QED
      BY <1>1, <1>2, <1>5, <2>1, OtherCollects DEF StartSignOut, Request
  <1>6. ASSUME NEW s \in Sids, StartForceSid(r, s) PROVE \E n : Collects(r, n)
    <2>1. PICK n : n = [req[r] EXCEPT !.pc = "getRaw", !.kind = "forceSid",
               !.target = s]
      OBVIOUS
    <2> QED
      BY <1>1, <1>2, <1>6, <2>1, OtherCollects DEF StartForceSid, Request
  <1>7. ASSUME StartForceUser(r) PROVE \E n : Collects(r, n)
    <2>1. PICK n : n = [req[r] EXCEPT !.pc = "userRows", !.kind = "forceUser",
               !.queue = index[req[r].user],
               !.reached = {s \in Sids : handle[s] /\ Owner(s) = req[r].user}]
      BY Zenon
    <2>2. Becomes(r, n)
      BY <1>7, <2>1, Zenon DEF StartForceUser
    <2>3. n.revoked = req[r].revoked
      BY <1>1, <2>1 DEF Request
    <2> QED
      BY <1>1, <1>2, <2>2, <2>3, OtherCollects
  <1> QED
    BY <1>3, <1>4, <1>5, <1>6, <1>7 DEF Start

LEMMA SignInCollects ==
  ASSUME IInv, NEW r \in Requests,
         \/ Verify(r) \/ GetHandle(r) \/ GetSession(r) \/ CheckUser(r) \/ Touch(r)
         \/ Create(r) \/ InsertRow(r) \/ Complete(r) \/ AddClient(r)
         \/ AddClientRow(r) \/ Respond(r) \/ Clear(r)
  PROVE  \E n : Collects(r, n)
  <1>1. TypeOK /\ PathOK(req[r]) /\ req[r] \in Request
    BY RequestFacts DEF IInv, ReqInv
  <1> USE DEF PastCreate, Created
  <1>2. ASSUME NEW pc, Goes(r, pc), r \in Created => pc \in PastCreate
        PROVE  \E n : Collects(r, n)
    BY <1>1, <1>2, GoesCollects
  <1>3. ASSUME Verify(r) \/ GetHandle(r) \/ CheckUser(r) \/ Touch(r) \/ Clear(r)
        PROVE  \E n : Collects(r, n)
    BY <1>2, <1>3 DEF Verify, GetHandle, CheckUser, Touch, Clear
  <1>4. ASSUME GetSession(r) PROVE \E n : Collects(r, n)
    <2>1. CASE live[req[r].sent]
      <3>1. PICK n : n = [req[r] EXCEPT !.pc = WithSession(req[r].kind),
                                        !.target = req[r].sent]
        OBVIOUS
      <3> QED
        BY <1>1, <1>4, <2>1, <3>1, OtherCollects DEF GetSession, Request
    <2>2. CASE ~live[req[r].sent]
      BY <1>2, <1>4, <2>2 DEF GetSession
    <2> QED
      BY <2>1, <2>2
  <1>5. ASSUME Complete(r) PROVE \E n : Collects(r, n)
    <2>1. PICK pc \in {"done", "respond", "addClient"} : Goes(r, pc)
      BY <1>5 DEF Complete
    <2> QED
      BY <1>2, <2>1
  <1>6. ASSUME \/ Create(r) \/ InsertRow(r) \/ AddClient(r) \/ AddClientRow(r)
               \/ Respond(r)
        PROVE  \E n : Collects(r, n)
    BY <1>2, <1>6 DEF Create, InsertRow, AddClient, AddClientRow, Respond
  <1> QED
    BY <1>3, <1>4, <1>5, <1>6

LEMMA RevocationCollects ==
  ASSUME IInv, NEW r \in Requests,
         \/ UserRows(r) \/ NextOfUser(r) \/ GetRaw(r) \/ GetRow(r)
         \/ GetMembers(r) \/ GetRowClients(r) \/ Delete(r) \/ UpdateRow(r)
         \/ FanOut(r)
  PROVE  \E n : Collects(r, n)
  <1>1. TypeOK /\ PathOK(req[r]) /\ req[r] \in Request
    BY RequestFacts DEF IInv, ReqInv
  <1>2. r \notin Created
    <2>1. UserRows(r) => req[r].pc = "userRows"
      BY Zenon DEF UserRows
    <2>2. NextOfUser(r) \/ GetRaw(r) \/ GetRow(r)
            => req[r].pc \in {"next", "getRaw", "getRow"}
      BY Zenon DEF NextOfUser, GetRaw, GetRow
    <2>3. GetMembers(r) \/ GetRowClients(r)
            => req[r].pc \in {"getMembers", "getRowClients"}
      BY DEF GetMembers, GetRowClients
    <2>4. Delete(r) \/ UpdateRow(r) \/ FanOut(r)
            => req[r].pc \in {"delete", "updateRow", "fanOut"}
      BY Zenon DEF Delete, UpdateRow, FanOut
    <2>5. req[r].pc \notin PastCreate
      BY <2>1, <2>2, <2>3, <2>4 DEF PastCreate
    <2> QED
      BY <2>5 DEF Created
  <1>3. ASSUME NEW pc, Goes(r, pc) PROVE \E n : Collects(r, n)
    BY <1>1, <1>2, <1>3, GoesCollects
  <1>4. ASSUME UserRows(r) PROVE \E n : Collects(r, n)
    <2>1. PICK n : n = [req[r] EXCEPT !.pc = "next", !.queue = req[r].queue \cup
               {s \in Sids : row[s] = "open" /\ Owner(s) = req[r].user}]
      BY Zenon
    <2>2. Becomes(r, n)
      BY <1>4, <2>1, Zenon DEF UserRows
    <2>3. n.revoked = req[r].revoked
      BY <1>1, <2>1 DEF Request
    <2> QED
      BY <1>1, <1>2, <2>2, <2>3, OtherCollects
  <1>5. ASSUME NextOfUser(r) PROVE \E n : Collects(r, n)
    <2>1. ASSUME NEW s \in req[r].queue,
                 Becomes(r, [req[r] EXCEPT !.pc = "getRaw", !.target = s,
                                           !.queue = req[r].queue \ {s}])
          PROVE \E n : Collects(r, n)
      <3>1. PICK n : n = [req[r] EXCEPT !.pc = "getRaw", !.target = s,
                                        !.queue = req[r].queue \ {s}]
        OBVIOUS
      <3> QED
        BY <1>1, <1>2, <2>1, <3>1, OtherCollects DEF Request
    <2>2. CASE \E s \in req[r].queue :
                 Becomes(r, [req[r] EXCEPT !.pc = "getRaw", !.target = s,
                                           !.queue = req[r].queue \ {s}])
      BY <2>1, <2>2, Zenon
    <2>3. CASE Goes(r, IF req[r].revoked = {} THEN "done" ELSE "fanOut")
      BY <1>3, <2>3
    <2> QED
      BY <1>5, <2>2, <2>3, Zenon DEF NextOfUser
  <1>6. ASSUME GetRaw(r) PROVE \E n : Collects(r, n)
    <2>1. PICK n : n = [req[r] EXCEPT !.pc = "getRow", !.raw = live[req[r].target]]
      OBVIOUS
    <2> QED
      BY <1>1, <1>2, <1>6, <2>1, OtherCollects DEF GetRaw, Request
  <1>7. ASSUME GetRow(r) PROVE \E n : Collects(r, n)
    <2>1. PICK n : n = [req[r] EXCEPT !.pc = "getMembers",
               !.known = req[r].known \cup {[sid |-> req[r].target,
                                             clients |-> rowClients[req[r].target]]}]
      OBVIOUS
    <2>2. n.revoked = req[r].revoked
      BY <1>1, <2>1 DEF Request
    <2>3. Becomes(r, n) \/ Goes(r, AfterRevoke(req[r].kind))
      BY <1>7, <2>1 DEF GetRow
    <2> QED
      BY <1>1, <1>2, <1>3, <2>2, <2>3, OtherCollects
  <1>8. ASSUME GetMembers(r) PROVE \E n : Collects(r, n)
    <2>1. PICK n : n = [req[r] EXCEPT !.clients = members[req[r].target],
               !.pc = IF members[req[r].target] # {} THEN "delete" ELSE "getRowClients"]
      BY Zenon
    <2> QED
      BY <1>1, <1>2, <1>8, <2>1, OtherCollects DEF GetMembers, Request
  <1>9. ASSUME GetRowClients(r) PROVE \E n : Collects(r, n)
    <2>1. PICK n : n = [req[r] EXCEPT !.pc = "delete",
                                      !.clients = rowClients[req[r].target]]
      OBVIOUS
    <2> QED
      BY <1>1, <1>2, <1>9, <2>1, OtherCollects DEF GetRowClients, Request
  <1>10. ASSUME Delete(r) PROVE \E n : Collects(r, n)
    BY <1>3, <1>10 DEF Delete
  <1>11. ASSUME UpdateRow(r) PROVE \E n : Collects(r, n)
    <2>1. CASE req[r].kind = "endSession"
      BY <1>3, <1>11, <2>1 DEF UpdateRow
    <2>2. CASE req[r].kind # "endSession"
      <3>1. PICK v : v = [sid |-> req[r].target, clients |-> req[r].clients]
        OBVIOUS
      <3>2. PICK n : n = [req[r] EXCEPT !.revoked = req[r].revoked \cup {v},
               !.pc = IF req[r].kind = "forceUser" THEN "next" ELSE "fanOut"]
        OBVIOUS
      <3>3. Becomes(r, n) /\ req[r].pc = "updateRow"
        BY <1>11, <2>2, <3>1, <3>2 DEF UpdateRow
      <3>4. n.revoked = req[r].revoked \cup {v} /\ v.sid = req[r].target
        BY <1>1, <3>1, <3>2 DEF Request
      <3> QED
        BY <1>2, <3>3, <3>4 DEF Collects
    <2> QED
      BY <2>1, <2>2
  <1>12. ASSUME FanOut(r) PROVE \E n : Collects(r, n)
    <2> DEFINE left(w) == [req[r] EXCEPT !.revoked = req[r].revoked \ {w},
                 !.pc = CASE req[r].revoked # {w} -> "fanOut"
                          [] req[r].revoked = {w} /\ req[r].kind = "forceUser" -> "done"
                          [] OTHER -> AfterRevoke(req[r].kind)]
    <2>1. PICK v \in req[r].revoked : Becomes(r, left(v))
      BY <1>12, Zenon DEF FanOut
    <2>2. left(v).revoked = req[r].revoked \ {v}
      BY <1>1 DEF Request
    <2> QED
      BY <1>2, <2>1, <2>2 DEF Collects
  <1> QED
    BY <1>4, <1>5, <1>6, <1>7, <1>8, <1>9, <1>10, <1>11, <1>12

LEMMA NextCollects ==
  ASSUME IInv, [Next]_vars
  PROVE  \/ \E r \in Requests : \E n : Collects(r, n)
         \/ UNCHANGED req
  <1>1. ASSUME NEW r \in Requests, Proceed(r) PROVE \E n : Collects(r, n)
    BY <1>1, SignInCollects, RevocationCollects DEF Proceed
  <1>2. ASSUME NEW r \in Requests, Fail(r) PROVE \E n : Collects(r, n)
    BY <1>2, GoesCollects DEF Fail, PastCreate, IInv
  <1>3. ASSUME NEW r \in Requests, Start(r) PROVE \E n : Collects(r, n)
    BY <1>3, StartCollects
  <1>4. ASSUME NEW s \in Sids, ExpireIdle(s) PROVE UNCHANGED req
    BY <1>4, Zenon DEF ExpireIdle
  <1>5. ASSUME NEW u \in Users, Disable(u) PROVE UNCHANGED req
    BY <1>5, Zenon DEF Disable
  <1>6. CASE UNCHANGED vars
    BY <1>6 DEF vars
  <1> QED
    BY <1>1, <1>2, <1>3, <1>4, <1>5, <1>6 DEF Next

(* What a step of r leaves of the sessions that have begun.                *)
LEMMA CollectsCreated ==
  ASSUME TypeOK, NEW r \in Requests, NEW n, Collects(r, n)
  PROVE  /\ Created \subseteq Created' /\ Created' \subseteq Created \cup {r}
         /\ req'[r] = n /\ \A p \in Requests : p # r => req'[p] = req[p]
  BY SidsAssumption DEF Collects, Created, Becomes, TypeOK

LEMMA TellStep == TellInv /\ [Next]_vars => TellInv'
  <1> SUFFICES ASSUME TellInv, [Next]_vars PROVE TellInv'
    OBVIOUS
  <1>1. IInv /\ IInv' /\ TypeOK
    BY InvStep DEF TellInv, IInv
  <1>2. \A s \in Created : handle'[s] => handle[s]
    BY <1>1, OnlyDisappear
  <1>3. CASE UNCHANGED req
    <2>1. Created' = Created
      BY <1>3 DEF Created
    <2> QED
      BY <1>1, <1>2, <1>3, <2>1 DEF TellInv, Ends
  <1>4. ASSUME NEW r \in Requests, NEW n, Collects(r, n)
        PROVE  TellInv'
    <2>1. /\ Created \subseteq Created' /\ req'[r] = n
          /\ \A p \in Requests : p # r => req'[p] = req[p]
      BY <1>1, <1>4, CollectsCreated
    <2>2. req[r].pc = "updateRow" =>
            req[r].target \in Created /\ ~handle[req[r].target]
      BY <1>1 DEF IInv, ReqInv, NamesCreated, KnowsHandle
    <2>3. \A v \in n.revoked : v.sid \in Created /\ ~handle[v.sid]
      BY <1>4, <2>2 DEF Collects, TellInv, Ends
    <2>4. ASSUME NEW p \in Requests
          PROVE  Ends(req[p])'
      <3>1. \A v \in req'[p].revoked : v.sid \in Created /\ ~handle[v.sid]
        BY <2>1, <2>3 DEF TellInv, Ends
      <3> QED
        BY <1>2, <2>1, <3>1 DEF Ends
    <2> QED
      BY <1>1, <2>4 DEF TellInv
  <1> QED
    BY <1>1, <1>3, <1>4, NextCollects

LEMMA TellHolds == Spec => []TellInv
  <1>1. Init => TellInv
    BY InitIInv DEF Init, TellInv, Ends
  <1> QED
    BY <1>1, TellStep, PTL DEF Spec

LEMMA SessionInit == Init => Promise!Init
  <1> SUFFICES ASSUME Init PROVE Promise!Init
    OBVIOUS
  <1>1. \A s \in Sids : ~handle[s] /\ req[s].pc = "idle"
    BY InitIInv, SidsAssumption DEF IInv, KeysInv, NothingBeforeCreate, Init
  <1>2. \A s \in Sids : Phase(s) = "absent"
    BY <1>1 DEF Phase, Created, PastCreate
  <1>3. delivered = {} /\ notified = {}
    BY DEF Init
  <1> QED
    BY <1>2, <1>3 DEF Promise!Init

LEMMA SessionStep == TellInv /\ [Next]_vars => [Promise!Next]_(Promise!vars)
  <1> SUFFICES ASSUME TellInv, [Next]_vars
               PROVE  [Promise!Next]_(Promise!vars)
    OBVIOUS
  <1>1. IInv /\ TypeOK /\ NothingBeforeCreate
    BY DEF TellInv, IInv, KeysInv
  <1> DEFINE phase == [s \in Sids |-> Phase(s)]
             phasep == [s \in Sids |-> Phase(s)']
             issued == {<<d.sid, d.client>> : d \in delivered}
  <1>2. ASSUME UNCHANGED <<handle, delivered, notified>>, Created' = Created
        PROVE  UNCHANGED Promise!vars
    <2>1. \A s \in Sids : Phase(s)' = Phase(s)
      BY <1>2 DEF Phase
    <2> QED
      BY <1>2, <2>1 DEF Promise!vars
  <1>3. ASSUME NEW s \in Sids, \A p \in Sids \ {s} : Phase(p)' = Phase(p),
               Phase(s)' = "closed", Phase(s) # "closed",
               UNCHANGED <<delivered, notified>>
        PROVE  Promise!Close(s)
    <2>1. phasep = [phase EXCEPT ![s] = "closed"]
      BY <1>3
    <2> QED
      BY <1>3, <2>1 DEF Promise!Close
  (* Between two actions on the handle a request may give up.              *)
  <1>4. ASSUME NEW r \in Requests, NEW n, Collects(r, n),
               UNCHANGED <<handle, delivered, notified>>
        PROVE  [Promise!Next]_(Promise!vars)
    <2>1. Created' = Created \/ (Created' = Created \cup {r} /\ r \notin Created)
      BY <1>1, <1>4, CollectsCreated
    <2>2. CASE Created' = Created \cup {r} /\ r \notin Created
      <3>1. r \in Sids /\ ~handle[r]
        BY <1>1, <2>2, SidsAssumption DEF NothingBeforeCreate
      <3>2. \A p \in Sids \ {r} : Phase(p)' = Phase(p)
        BY <1>4, <2>2 DEF Phase
      <3>3. Phase(r) = "absent" /\ Phase(r)' = "closed"
        BY <1>4, <2>2, <3>1 DEF Phase
      <3> QED
        BY <1>3, <1>4, <3>1, <3>2, <3>3 DEF Promise!Next
    <2> QED
      BY <1>2, <1>4, <2>1, <2>2
  <1>5. ASSUME NEW r \in Requests, Create(r)
        PROVE  Promise!Open(r)
    <2>1. r \in Sids /\ r \notin Created /\ ~handle[r]
      BY <1>1, <1>5, SidsAssumption DEF Create, Created, PastCreate,
        NothingBeforeCreate
    <2>2. PICK n : Collects(r, n)
      BY <1>1, <1>5, SignInCollects
    <2>3. Created \subseteq Created' /\ Created' \subseteq Created \cup {r}
      BY <1>1, <2>2, CollectsCreated
    <2>4. handle'[r] /\ \A s \in Sids \ {r} : handle'[s] = handle[s]
      BY <1>1, <1>5, <2>1 DEF Create, TypeOK
    <2>5. Phase(r) = "absent" /\ Phase(r)' = "open"
      BY <2>1, <2>4 DEF Phase
    <2>6. \A s \in Sids \ {r} : Phase(s)' = Phase(s)
      BY <2>3, <2>4 DEF Phase
    <2>7. phasep = [phase EXCEPT ![r] = "open"]
      BY <2>5, <2>6
    <2>8. UNCHANGED <<delivered, notified>>
      BY <1>5 DEF Create, history
    <2> QED
      BY <2>1, <2>5, <2>7, <2>8 DEF Promise!Open
  <1>6. ASSUME NEW s \in Sids, Created' = Created,
               \A p \in Sids \ {s} : handle'[p] = handle[p],
               handle'[s] => handle[s], handle' \in [Sids -> BOOLEAN],
               UNCHANGED <<delivered, notified>>
        PROVE  [Promise!Next]_(Promise!vars)
    <2>1. \A p \in Sids \ {s} : Phase(p)' = Phase(p)
      BY <1>6 DEF Phase
    <2>2. CASE handle[s] /\ ~handle'[s]
      <3>1. s \in Created
        BY <1>1, <2>2 DEF NothingBeforeCreate
      <3>2. Phase(s) = "open" /\ Phase(s)' = "closed"
        BY <1>6, <2>2, <3>1 DEF Phase
      <3> QED
        BY <1>3, <1>6, <2>1, <3>2 DEF Promise!Next
    <2>3. CASE handle'[s] = handle[s]
      <3>1. \A p \in Sids : Phase(p)' = Phase(p)
        BY <1>6, <2>1, <2>3 DEF Phase
      <3> QED
        BY <1>6, <3>1 DEF Promise!vars
    <2> QED
      BY <1>1, <1>6, <2>2, <2>3 DEF TypeOK
  <1>7. ASSUME NEW r \in Requests, Delete(r)
        PROVE  [Promise!Next]_(Promise!vars)
    <2>1. /\ req[r].target \in Sids /\ req'[r].pc = "updateRow"
          /\ req[r].pc = "delete"
      <3>1. NamesCreated(req[r]) /\ req[r] \in Request
        BY <1>1, RequestFacts DEF IInv, ReqInv
      <3> QED
        BY <1>1, <1>7, <3>1 DEF Delete, Goes, Becomes, NamesCreated, Created,
          TypeOK, Revoking, Request
    <2>2. Created' = Created
      <3>1. PICK n : Collects(r, n)
        BY <1>1, <1>7, RevocationCollects
      <3>2. r \notin Created'
        BY <2>1 DEF Created, PastCreate
      <3> QED
        BY <1>1, <3>1, <3>2, CollectsCreated
    <2> QED
      BY <1>1, <1>6, <1>7, <2>1, <2>2 DEF Delete, TypeOK, history
  <1>8. ASSUME NEW s \in Sids, ExpireIdle(s)
        PROVE  [Promise!Next]_(Promise!vars)
    <2>1. Created' = Created
      <3>1. req' = req
        BY <1>8, Zenon DEF ExpireIdle
      <3> QED
        BY <3>1 DEF Created
    <2>2. /\ handle' = [handle EXCEPT ![s] = FALSE]
          /\ UNCHANGED <<delivered, notified>>
      BY <1>8, Zenon DEF ExpireIdle, history
    <2>3. /\ handle' \in [Sids -> BOOLEAN] /\ ~handle'[s]
          /\ \A p \in Sids \ {s} : handle'[p] = handle[p]
      BY <1>1, <2>2 DEF TypeOK
    <2> QED
      BY <1>6, <2>1, <2>2, <2>3
  <1>9. ASSUME NEW r \in Requests, Respond(r)
        PROVE  [Promise!Next]_(Promise!vars)
    <2>1. PICK s \in Sids : s = SessionOf(r) /\ s \in Created
      <3>1. PathOK(req[r]) /\ NamesCreated(req[r]) /\ r \in Sids
        BY <1>1, SidsAssumption DEF IInv, ReqInv
      <3> QED
        BY <1>9, <3>1 DEF Respond, SessionOf, PathOK, NamesCreated, Created,
          PastCreate
    <2>2. Created' = Created /\ handle' = handle /\ notified' = notified
      <3>1. PICK n : Collects(r, n)
        BY <1>1, <1>9, SignInCollects
      <3>2. r \in Created' => r \in Created
        <4>1. req[r].pc = "respond" /\ req'[r].kind = req[r].kind
          BY <1>1, <1>9, RequestFacts DEF Respond, Goes, Becomes, TypeOK, Request
        <4> QED
          BY <4>1 DEF Created, PastCreate
      <3> QED
        BY <1>1, <1>9, <3>1, <3>2, CollectsCreated DEF Respond, redis
    <2>3. \A p \in Sids : Phase(p)' = Phase(p)
      BY <2>2 DEF Phase
    <2>4. phase[s] # "absent"
      BY <2>1 DEF Phase
    <2>5. CASE delivered' = delivered
      BY <1>2, <2>2, <2>5
    <2>6. ASSUME NEW c \in Clients,
                 delivered' = delivered \cup {[sid |-> s, client |-> c, by |-> r]}
          PROVE  Promise!Issue(s, c)
      <3>1. issued' = issued \cup {<<s, c>>}
        <4> DEFINE e == [sid |-> s, client |-> c, by |-> r]
        <4>1. issued' = {<<d.sid, d.client>> : d \in delivered \cup {e}}
          BY <2>6
        <4>2. <<e.sid, e.client>> = <<s, c>>
          OBVIOUS
        <4> HIDE DEF e
        <4> QED
          BY <4>1, <4>2
      <3> QED
        BY <2>2, <2>3, <2>4, <3>1 DEF Promise!Issue
    <2>7. TxnClient[req[r].txn] \in Clients \cup {NoClient}
      BY <1>1, RequestFacts
    <2> QED
      BY <1>9, <2>1, <2>5, <2>6, <2>7 DEF Respond, Promise!Next
  <1>10. ASSUME NEW r \in Requests, FanOut(r)
         PROVE  [Promise!Next]_(Promise!vars)
    <2>1. PICK v \in req[r].revoked :
            notified' = notified \cup ({v.sid} \X v.clients)
      BY <1>10 DEF FanOut
    <2>2. v.sid \in Created /\ ~handle[v.sid] /\ v.sid \in Sids
      BY <2>1 DEF TellInv, Ends, Created
    <2>3. v.clients \in SUBSET Clients
      BY <1>1, <2>1 DEF TypeOK, Request, Revocation
    <2>4. Created' = Created /\ handle' = handle /\ delivered' = delivered
      <3>1. PICK n : Collects(r, n)
        BY <1>1, <1>10, RevocationCollects
      <3>2. r \in Created' => r \in Created
        <4>1. req'[r].kind = req[r].kind /\ req[r].kind \in AllKinds \cup {"none"}
              /\ (req[r].kind = "login" => req'[r].pc \in {"fanOut", "create"})
          <5> DEFINE next(w) == CASE req[r].revoked # {w} -> "fanOut"
                 [] req[r].revoked = {w} /\ req[r].kind = "forceUser" -> "done"
                 [] OTHER -> AfterRevoke(req[r].kind)
          <5>1. req[r] \in Request
            BY <1>1, RequestFacts
          <5>2. PICK w : Becomes(r, [req[r] EXCEPT !.revoked = req[r].revoked \ {w},
                                                   !.pc = next(w)])
            BY <1>10, Zenon DEF FanOut
          <5>3. req[r].kind = "login" => next(w) \in {"fanOut", "create"}
            BY DEF AfterRevoke
          <5> HIDE DEF next
          <5> QED
            BY <1>1, <5>1, <5>2, <5>3 DEF Becomes, TypeOK, Request
        <4> QED
          BY <4>1 DEF Created, PastCreate
      <3> QED
        BY <1>1, <1>10, <3>1, <3>2, CollectsCreated DEF FanOut, redis
    <2>5. \A p \in Sids : Phase(p)' = Phase(p)
      BY <2>4 DEF Phase
    <2>6. Phase(v.sid) = "closed"
      BY <2>2 DEF Phase
    <2>7. Promise!Tell(v.sid, v.clients)
      BY <2>1, <2>2, <2>4, <2>5, <2>6 DEF Promise!Tell
    <2> QED
      BY <2>2, <2>3, <2>7 DEF Promise!Next
  <1>11. ASSUME NEW r \in Requests, Proceed(r)
         PROVE  [Promise!Next]_(Promise!vars)
    <2>1. PICK n : Collects(r, n)
      BY <1>1, <1>11, SignInCollects, RevocationCollects DEF Proceed
    <2>2. CASE \/ Verify(r) \/ GetHandle(r) \/ GetSession(r) \/ CheckUser(r)
               \/ Touch(r) \/ InsertRow(r) \/ Complete(r) \/ AddClient(r)
               \/ AddClientRow(r) \/ Clear(r)
      <3>1. UNCHANGED <<handle, delivered, notified>>
        BY <2>2 DEF Verify, GetHandle, GetSession, CheckUser, Touch, InsertRow,
          Complete, AddClient, AddClientRow, Clear, redis, history
      <3> QED
        BY <1>4, <2>1, <3>1
    <2>3. CASE \/ UserRows(r) \/ NextOfUser(r) \/ GetRaw(r) \/ GetRow(r)
               \/ GetMembers(r) \/ GetRowClients(r) \/ UpdateRow(r)
      <3>1. UNCHANGED <<handle, delivered, notified>>
        <4>1. CASE UserRows(r)
          BY <4>1, Zenon DEF UserRows, redis, history
        <4>2. CASE NextOfUser(r) \/ GetRaw(r) \/ GetRow(r) \/ GetMembers(r)
          BY <4>2, Zenon DEF NextOfUser, GetRaw, GetRow, GetMembers, redis, history
        <4>3. CASE GetRowClients(r) \/ UpdateRow(r)
          BY <4>3 DEF GetRowClients, UpdateRow, redis, history
        <4> QED
          BY <2>3, <4>1, <4>2, <4>3
      <3> QED
        BY <1>4, <2>1, <3>1
    <2>4. CASE Create(r)
      <3>1. r \in Sids
        BY SidsAssumption
      <3> QED
        BY <1>5, <2>4, <3>1 DEF Promise!Next
    <2> QED
      BY <1>7, <1>9, <1>10, <1>11, <2>2, <2>3, <2>4 DEF Proceed
  <1>12. ASSUME NEW r \in Requests, Start(r) \/ Fail(r)
         PROVE  [Promise!Next]_(Promise!vars)
    <2>1. \E n : Collects(r, n)
      <3>1. CASE Start(r)
        BY <1>1, <3>1, StartCollects
      <3>2. CASE Fail(r)
        <4>1. Goes(r, "failed") /\ "failed" \in PastCreate
          BY <3>2 DEF Fail, PastCreate
        <4> QED
          BY <1>1, <4>1, GoesCollects
      <3> QED
        BY <1>12, <3>1, <3>2
    <2>2. UNCHANGED <<handle, delivered, notified>>
      <3>1. ASSUME NEW b \in Browsers, StartLogin(r, b) \/ StartContinue(r, b)
            PROVE  UNCHANGED <<redis, history>>
        BY <3>1 DEF StartLogin, StartContinue
      <3>2. ASSUME NEW b \in Browsers, NEW kind \in {"endSession", "logout"},
                   StartSignOut(r, b, kind)
            PROVE  UNCHANGED <<redis, history>>
        BY <3>2 DEF StartSignOut
      <3>3. ASSUME NEW s \in Sids, StartForceSid(r, s)
            PROVE  UNCHANGED <<redis, history>>
        BY <3>3 DEF StartForceSid
      <3>4. CASE StartForceUser(r)
        BY <3>4, Zenon DEF StartForceUser, redis, history
      <3>5. CASE Fail(r)
        BY <3>5 DEF Fail, redis, history
      <3>6. ASSUME UNCHANGED <<redis, history>>
            PROVE  UNCHANGED <<handle, delivered, notified>>
        BY <3>6 DEF redis, history
      <3> QED
        BY <1>12, <3>1, <3>2, <3>3, <3>4, <3>5, <3>6 DEF Start
    <2> QED
      BY <1>4, <2>1, <2>2
  <1>13. ASSUME UNCHANGED <<handle, delivered, notified, req>>
         PROVE  UNCHANGED Promise!vars
    <2>1. Created' = Created
      BY <1>13 DEF Created
    <2> QED
      BY <1>2, <1>13, <2>1
  <1>14. ASSUME NEW u \in Users, Disable(u)
         PROVE  UNCHANGED <<handle, delivered, notified, req>>
    BY <1>14, Zenon DEF Disable, redis, history
  <1>15. CASE UNCHANGED vars
    <2>1. UNCHANGED <<handle, delivered, notified, req>>
      BY <1>15 DEF vars, redis, history
    <2> QED
      BY <1>13, <2>1
  <1> QED
    BY <1>8, <1>11, <1>12, <1>13, <1>14, <1>15 DEF Next

(* The requests, their round trips, failures and expiries implement the    *)
(* promise of a session (FederationSessionService, LogoutService).         *)
THEOREM ImplementsASession == Spec => ImplementsSession
  <1> QED
    BY TellHolds, SessionInit, SessionStep, PTL
       DEF Spec, ImplementsSession, Promise!Spec
=============================================================================
