----------------------- MODULE LoginTransactionsProofs -----------------------
(***************************************************************************)
(* For every set of requests, ids, clients and sessions, and every bound   *)
(* on the reuse of ids: the types, that a transaction yields at most one   *)
(* assertion, that LoginTransactions implements SingleUseTransaction, and  *)
(* which session a portal transaction serves (PortalInv).                  *)
(***************************************************************************)
EXTENDS LoginTransactions, TLAPS

-----------------------------------------------------------------------------
(* What the Redis commands and scripts of TransactionService leave under a *)
(* key, for every value they may find there.                               *)

(* A new transaction is PENDING under its own CSRF token.                  *)
LEMMA NewTxnType ==
  ASSUME NEW c \in Clients \cup {NoClient}, NEW p \in Params, NEW n \in Nat
  PROVE  /\ NewTxn(c, p, n) \in LoginTransaction
         /\ NewTxn(c, p, n) # NoTxn
         /\ NewTxn(c, p, n).csrf = n
         /\ NewTxn(c, p, n).status = "PENDING"
  BY NoTxnAssumption DEF NewTxn, LoginTransaction, Status

(* The completion script keeps the transaction and its token.              *)
LEMMA CompleteValueFacts ==
  ASSUME NEW v \in LoginTransaction \cup {NoTxn}
  PROVE  /\ CompleteValue(v) \in LoginTransaction \cup {NoTxn}
         /\ CompleteValue(v) = NoTxn <=> v = NoTxn
         /\ v # NoTxn => /\ CompleteValue(v).csrf = v.csrf
                         /\ CompleteValue(v).status = "COMPLETED"
         /\ CompleteReply(v) # "ok" => CompleteValue(v) = v
         /\ CompleteReply(v) = "ok" => v # NoTxn /\ v.status = "PENDING"
  BY NoTxnAssumption
     DEF CompleteValue, CompleteReply, LoginTransaction, Status

(* The binding script changes the bound session and nothing else.          *)
LEMMA BindValueFacts ==
  ASSUME NEW v \in LoginTransaction \cup {NoTxn},
         NEW s \in Sids \cup {NoSid},
         NEW overwrite \in BOOLEAN
  PROVE  /\ BindValue(v, s, overwrite) \in LoginTransaction \cup {NoTxn}
         /\ BindValue(v, s, overwrite) = NoTxn <=> v = NoTxn
         /\ v # NoTxn => /\ BindValue(v, s, overwrite).csrf = v.csrf
                         /\ BindValue(v, s, overwrite).status = v.status
  BY NoTxnAssumption DEF BindValue, BindReply, LoginTransaction, Status

(* Which session is bound afterwards, and what neither script touches.     *)
LEMMA BindValueBinds ==
  ASSUME NEW v \in LoginTransaction \cup {NoTxn}, v # NoTxn,
         NEW s \in Sids \cup {NoSid},
         NEW overwrite \in BOOLEAN
  PROVE  /\ BindValue(v, s, overwrite).client = v.client
         /\ overwrite => BindValue(v, s, overwrite).sid = s
         /\ ~overwrite => \/ /\ BindReply(v, s, overwrite) = "ok"
                             /\ v.sid \in {NoSid, s}
                             /\ BindValue(v, s, overwrite).sid = s
                          \/ /\ BindReply(v, s, overwrite) # "ok"
                             /\ BindValue(v, s, overwrite) = v
  BY NoTxnAssumption DEF BindValue, BindReply, LoginTransaction, Status

LEMMA CompleteValueKeeps ==
  ASSUME NEW v \in LoginTransaction, v # NoTxn
  PROVE  CompleteValue(v).client = v.client /\ CompleteValue(v).sid = v.sid
  BY DEF CompleteValue, LoginTransaction

-----------------------------------------------------------------------------

(* The value under a key belongs to the latest transaction of the id.      *)
StoreIsLatest ==
  \A id \in Ids : store[id] # NoTxn => store[id].csrf = born[id]

(* Whoever was granted something was granted a transaction that existed,   *)
(* and if it is the latest one and still there, it is COMPLETED.           *)
GrantsAreUsed ==
  \A a \in assertions :
    /\ a.epoch <= born[a.id]
    /\ a.epoch = born[a.id] /\ store[a.id] # NoTxn
         => store[a.id].status = "COMPLETED"

(* The inductive invariant.                                                *)
IInv == TypeOK /\ StoreIsLatest /\ GrantsAreUsed /\ SingleUse

-----------------------------------------------------------------------------
LEMMA InitIInv == Init => IInv
  <1> SUFFICES ASSUME Init PROVE IInv
    OBVIOUS
  <1>1. FreshRequests \subseteq Request
    BY DEF FreshRequests, Request, PC, Results, Ids
  <1>2. TypeOK
    BY <1>1 DEF Init, TypeOK, Assertion
  <1>3. StoreIsLatest /\ GrantsAreUsed /\ SingleUse
    BY DEF Init, StoreIsLatest, GrantsAreUsed, SingleUse
  <1> QED
    BY <1>2, <1>3 DEF IInv

(* What TypeOK says of one request and of the key it works on.             *)
LEMMA RequestFacts ==
  ASSUME TypeOK, NEW r \in Requests
  PROVE  /\ req[r] \in Request
         /\ req[r].id \in Ids
         /\ req[r].client \in Clients \cup {NoClient}
         /\ req[r].params \in Params
         /\ req[r].csrf \in Nat
         /\ req[r].sid \in Sids \cup {NoSid}
         /\ store[req[r].id] \in LoginTransaction \cup {NoTxn}
         /\ born[req[r].id] \in Nat
         /\ store[req[r].id] # NoTxn => store[req[r].id].csrf \in Nat
  BY DEF TypeOK, Request, LoginTransaction

(* The two ways an action changes req and the store, as type facts.        *)
LEMMA BecomesType ==
  ASSUME TypeOK, NEW r \in Requests, NEW q \in Request, Becomes(r, q)
  PROVE  req' \in [Requests -> Request]
  BY DEF TypeOK, Becomes

LEMMA StoreType ==
  ASSUME TypeOK, NEW r \in Requests, NEW v \in LoginTransaction \cup {NoTxn},
         store' = [store EXCEPT ![req[r].id] = v]
  PROVE  store' \in [Ids -> LoginTransaction \cup {NoTxn}]
  BY RequestFacts DEF TypeOK

(* Type correctness is inductive on its own; one step per action.          *)
LEMMA TypeStep == TypeOK /\ [Next]_vars => TypeOK'
  <1> SUFFICES ASSUME TypeOK, [Next]_vars PROVE TypeOK'
    OBVIOUS
  <1> USE DEF TypeOK
  <1>1. ASSUME NEW r \in Requests, CreateNew(r) PROVE TypeOK'
    <2> DEFINE new == NewTxn(req[r].client, req[r].params, born[req[r].id] + 1)
    <2>1. new \in LoginTransaction \cup {NoTxn}
      BY NewTxnType, RequestFacts
    <2>2. req' \in [Requests -> Request]
      <3>1. \A n \in Nat : [req[r] EXCEPT !.pc = "done", !.result = "page",
                                          !.csrf = n] \in Request
        BY RequestFacts DEF Request, PC, Results
      <3>2. [req[r] EXCEPT !.pc = "reopen"] \in Request
        BY RequestFacts DEF Request, PC
      <3>3. [req[r] EXCEPT !.pc = "done", !.result = "page",
                           !.csrf = born[req[r].id] + 1] \in Request
        <4>1. born[req[r].id] + 1 \in Nat
          BY RequestFacts
        <4> QED
          BY <3>1, <4>1
      <3> QED
        BY <1>1, <3>2, <3>3, BecomesType DEF CreateNew, Step
    <2>3. store' \in [Ids -> LoginTransaction \cup {NoTxn}]
      BY <1>1, <2>1, StoreType DEF CreateNew
    <2>4. born' \in [Ids -> Nat]
      BY <1>1, RequestFacts DEF CreateNew
    <2> QED
      BY <1>1, <2>2, <2>3, <2>4 DEF CreateNew
  <1>2. ASSUME NEW r \in Requests, CreateResume(r) PROVE TypeOK'
    <2> DEFINE reply == ResumeReply(store[req[r].id], req[r].client, req[r].params)
    <2>1. reply \in {"resumed", "used", "conflict"}
      BY DEF ResumeReply
    <2>2. reply = "resumed" => store[req[r].id].csrf \in Nat
      BY RequestFacts DEF ResumeReply, SameRequest
    <2>3. req' \in [Requests -> Request]
      <3>1. reply = "resumed" =>
              [req[r] EXCEPT !.pc = "done", !.result = "page",
                             !.csrf = store[req[r].id].csrf] \in Request
        BY <2>2, RequestFacts DEF Request, PC, Results
      <3>2. reply # "resumed" =>
              [req[r] EXCEPT !.pc = "done", !.result = reply] \in Request
        BY <2>1, RequestFacts DEF Request, PC, Results
      <3> QED
        BY <1>2, <3>1, <3>2, BecomesType DEF CreateResume, Finish
    <2> QED
      BY <1>2, <2>3 DEF CreateResume
  <1>3. ASSUME NEW r \in Requests, PortalPage(r) PROVE TypeOK'
    <2>1. NewTxn(NoClient, req[r].params, 1) \in LoginTransaction \cup {NoTxn}
      BY NewTxnType, RequestFacts
    <2>2. req' \in [Requests -> Request]
      <3>1. [req[r] EXCEPT !.pc = "bindPage", !.csrf = 1] \in Request
        BY RequestFacts DEF Request, PC
      <3> QED
        BY <1>3, <3>1, BecomesType DEF PortalPage
    <2>3. store' \in [Ids -> LoginTransaction \cup {NoTxn}]
      BY <1>3, <2>1, StoreType DEF PortalPage
    <2>4. born' \in [Ids -> Nat]
      BY <1>3, RequestFacts DEF PortalPage
    <2> QED
      BY <1>3, <2>2, <2>3, <2>4 DEF PortalPage
  <1>4. ASSUME NEW r \in Requests, PortalPageBind(r) PROVE TypeOK'
    <2>1. \A s \in sessions : BindValue(store[req[r].id], s, TRUE)
                                \in LoginTransaction \cup {NoTxn}
      BY BindValueFacts, RequestFacts
    <2>2. store' \in [Ids -> LoginTransaction \cup {NoTxn}]
      BY <1>4, <2>1, StoreType DEF PortalPageBind
    <2>3. [req[r] EXCEPT !.pc = "done", !.result = "page"] \in Request
      BY RequestFacts DEF Request, PC, Results
    <2>4. \A s \in sessions :
            [req[r] EXCEPT !.pc = "done", !.result = "page", !.sid = s] \in Request
      BY RequestFacts DEF Request, PC, Results
    <2>5. req' \in [Requests -> Request]
      BY <1>4, <2>3, <2>4, BecomesType DEF PortalPageBind, Finish
    <2> QED
      BY <1>4, <2>2, <2>5 DEF PortalPageBind
  <1>5. ASSUME NEW r \in Requests, RequirePending(r) PROVE TypeOK'
    <2>1. \A token \in ServedTokens(req[r].id) : token \in Nat
      BY RequestFacts DEF ServedTokens
    <2>2. \A token : PendingReply(store[req[r].id], req[r].client, token)
                       \in {"invalid", "used", "ok", "csrf"}
      BY DEF PendingReply
    <2>3. req' \in [Requests -> Request]
      <3>1. \A n \in Nat, res \in {"invalid", "used", "csrf"} :
              [req[r] EXCEPT !.pc = "done", !.result = res, !.csrf = n] \in Request
        BY RequestFacts DEF Request, PC, Results
      <3>2. \A n \in Nat, pc \in {"establish", "complete"} :
              [req[r] EXCEPT !.pc = pc, !.csrf = n] \in Request
        BY RequestFacts DEF Request, PC
      <3>3. PICK q \in Request : Becomes(r, q)
        BY <1>5, <2>1, <2>2, <3>1, <3>2 DEF RequirePending
      <3> QED
        BY <3>3, BecomesType
    <2> QED
      BY <1>5, <2>3 DEF RequirePending
  <1>6. ASSUME NEW r \in Requests, EstablishSession(r) PROVE TypeOK'
    <2>1. req' \in [Requests -> Request]
      <3>1. \A s \in Sids :
              [req[r] EXCEPT !.pc = "complete", !.sid = s] \in Request
        BY RequestFacts DEF Request, PC
      <3> QED
        BY <1>6, <3>1, BecomesType DEF EstablishSession
    <2> QED
      BY <1>6, <2>1 DEF EstablishSession
  <1>7. ASSUME NEW r \in Requests, Complete(r) PROVE TypeOK'
    <2>1. store' \in [Ids -> LoginTransaction \cup {NoTxn}]
      BY <1>7, CompleteValueFacts, RequestFacts, StoreType DEF Complete
    <2>2. CompleteReply(store[req[r].id]) \in {"invalid", "used", "ok"}
      BY DEF CompleteReply
    <2>3. CompleteReply(store[req[r].id]) = "ok" => store[req[r].id].csrf \in Nat
      BY CompleteValueFacts, RequestFacts
    <2>4. req' \in [Requests -> Request]
      <3>1. [req[r] EXCEPT !.pc = "bindSignIn"] \in Request
        BY RequestFacts DEF Request, PC
      <3>2. \A res \in {"invalid", "used", "assertion"} :
              [req[r] EXCEPT !.pc = "done", !.result = res] \in Request
        BY RequestFacts DEF Request, PC, Results
      <3> QED
        BY <1>7, <2>2, <3>1, <3>2, BecomesType DEF Complete, Step, Finish
    <2>5. assertions' \subseteq Assertion
      BY <1>7, <2>3, RequestFacts DEF Complete, Assertion
    <2> QED
      BY <1>7, <2>1, <2>4, <2>5 DEF Complete
  <1>8. ASSUME NEW r \in Requests, BindSignIn(r) PROVE TypeOK'
    <2>1. store' \in [Ids -> LoginTransaction \cup {NoTxn}]
      BY <1>8, BindValueFacts, RequestFacts, StoreType DEF BindSignIn
    <2>2. req' \in [Requests -> Request]
      <3>1. [req[r] EXCEPT !.pc = "done", !.result = "portal"] \in Request
        BY RequestFacts DEF Request, PC, Results
      <3> QED
        BY <1>8, <3>1, BecomesType DEF BindSignIn, Finish
    <2> QED
      BY <1>8, <2>1, <2>2 DEF BindSignIn
  <1>9. ASSUME NEW r \in Requests, SelectScope(r) PROVE TypeOK'
    <2>1. \A token \in ServedTokens(req[r].id) : token \in Nat
      BY RequestFacts DEF ServedTokens
    <2>2. req' \in [Requests -> Request]
      <3>1. \A n \in Nat :
              [req[r] EXCEPT !.pc = "done", !.result = "csrf", !.csrf = n] \in Request
        BY RequestFacts DEF Request, PC, Results
      <3>2. \A n \in Nat : [req[r] EXCEPT !.pc = "bindSelect", !.csrf = n] \in Request
        BY RequestFacts DEF Request, PC
      <3> QED
        BY <1>9, <2>1, <3>1, <3>2, BecomesType DEF SelectScope
    <2> QED
      BY <1>9, <2>2 DEF SelectScope
  <1>10. ASSUME NEW r \in Requests, SelectScopeBind(r) PROVE TypeOK'
    <2>1. PICK s \in sessions :
            /\ store' = [store EXCEPT ![req[r].id] =
                           BindValue(store[req[r].id], s, FALSE)]
            /\ \E res \in {"scope", "mismatch"} :
                 Becomes(r, [req[r] EXCEPT !.pc = "done", !.sid = s,
                                           !.result = res])
      BY <1>10 DEF SelectScopeBind
    <2>2. store' \in [Ids -> LoginTransaction \cup {NoTxn}]
      BY <2>1, BindValueFacts, RequestFacts, StoreType
    <2>3. req' \in [Requests -> Request]
      <3>1. \A res \in {"scope", "mismatch"} :
              [req[r] EXCEPT !.pc = "done", !.sid = s, !.result = res] \in Request
        BY RequestFacts DEF Request, PC, Results
      <3> QED
        BY <2>1, <3>1, BecomesType
    <2> QED
      BY <1>10, <2>2, <2>3 DEF SelectScopeBind
  <1>11. ASSUME NEW id \in Ids, Expire(id) PROVE TypeOK'
    BY <1>11 DEF Expire
  <1>12. CASE UNCHANGED vars
    BY <1>12 DEF vars
  <1> QED
    BY <1>1, <1>2, <1>3, <1>4, <1>5, <1>6, <1>7, <1>8, <1>9, <1>10, <1>11,
       <1>12 DEF Next

(* LoginTransactions keeps its types.                                      *)
THEOREM TypeCorrect == Spec => []TypeOK
  <1>1. Init => TypeOK
    BY InitIInv DEF IInv
  <1> QED
    BY <1>1, TypeStep, PTL DEF Spec

-----------------------------------------------------------------------------
(* What an action may do to the keys: make a transaction under a free key, *)
(* complete one, write one back with the same token and status, or drop    *)
(* it.  Every action of Next is one of these; the proofs below need no     *)
(* more than this of the actions.                                          *)
OpensKey(id) ==
  /\ store[id] = NoTxn
  /\ \E c \in Clients \cup {NoClient}, p \in Params :
       store' = [store EXCEPT ![id] = NewTxn(c, p, born[id] + 1)]
  /\ born' = [born EXCEPT ![id] = @ + 1]
  /\ UNCHANGED assertions

GrantsKey(id, r) ==
  /\ CompleteReply(store[id]) = "ok"
  /\ store' = [store EXCEPT ![id] = CompleteValue(store[id])]
  /\ assertions' = assertions \cup
       {[id |-> id, epoch |-> store[id].csrf, user |-> r]}
  /\ UNCHANGED born

KeepsKeys ==
  /\ \A id \in Ids :
       /\ store'[id] = NoTxn <=> store[id] = NoTxn
       /\ store[id] # NoTxn => /\ store'[id].csrf = store[id].csrf
                               /\ store'[id].status = store[id].status
  /\ UNCHANGED <<born, assertions>>

DropsKey(id) ==
  /\ store[id] # NoTxn
  /\ store' = [store EXCEPT ![id] = NoTxn]
  /\ UNCHANGED <<born, assertions>>

LEMMA KeyStep ==
  ASSUME TypeOK, [Next]_vars
  PROVE  \/ \E id \in Ids : OpensKey(id) \/ DropsKey(id)
         \/ \E id \in Ids, r \in Requests : GrantsKey(id, r)
         \/ KeepsKeys
  <1> DEFINE G == \/ \E id \in Ids : OpensKey(id) \/ DropsKey(id)
                  \/ \E id \in Ids, r \in Requests : GrantsKey(id, r)
                  \/ KeepsKeys
  <1>0. ASSUME UNCHANGED <<store, born, assertions>> PROVE KeepsKeys
    BY <1>0 DEF KeepsKeys
  <1>b. ASSUME NEW r \in Requests, NEW s \in Sids \cup {NoSid},
               NEW o \in BOOLEAN, UNCHANGED <<born, assertions>>,
               store' = [store EXCEPT ![req[r].id] =
                           BindValue(store[req[r].id], s, o)]
        PROVE  KeepsKeys
    <2> DEFINE v == store[req[r].id]
    <2>1. v \in LoginTransaction \cup {NoTxn}
      BY RequestFacts
    <2>2. /\ BindValue(v, s, o) = NoTxn <=> v = NoTxn
          /\ v # NoTxn => /\ BindValue(v, s, o).csrf = v.csrf
                          /\ BindValue(v, s, o).status = v.status
      BY <2>1, BindValueFacts
    <2>3. \A id \in Ids :
            store'[id] = IF id = req[r].id THEN BindValue(v, s, o) ELSE store[id]
      BY <1>b DEF TypeOK
    <2> QED
      BY <1>b, <2>2, <2>3 DEF KeepsKeys
  <1>1. ASSUME NEW r \in Requests, CreateNew(r) PROVE G
    <2>1. CASE store[req[r].id] = NoTxn
      BY <1>1, <2>1, RequestFacts DEF CreateNew, OpensKey
    <2>2. CASE store[req[r].id] # NoTxn
      BY <1>1, <2>2, <1>0 DEF CreateNew
    <2> QED
      BY <2>1, <2>2
  <1>2. ASSUME NEW r \in Requests, CreateResume(r) PROVE G
    BY <1>2, <1>0 DEF CreateResume
  <1>3. ASSUME NEW r \in Requests, PortalPage(r) PROVE G
    <2>1. /\ store' = [store EXCEPT ![req[r].id] =
                         NewTxn(NoClient, req[r].params, born[req[r].id] + 1)]
          /\ born' = [born EXCEPT ![req[r].id] = @ + 1]
          /\ store[req[r].id] = NoTxn
      BY <1>3, RequestFacts DEF PortalPage, TypeOK
    <2> QED
      BY <1>3, <2>1, RequestFacts DEF PortalPage, OpensKey
  <1>4. ASSUME NEW r \in Requests, PortalPageBind(r) PROVE G
    <2>1. CASE UNCHANGED store
      BY <1>4, <2>1, <1>0 DEF PortalPageBind
    <2>2. ASSUME NEW s \in sessions,
                 store' = [store EXCEPT ![req[r].id] =
                             BindValue(store[req[r].id], s, TRUE)]
          PROVE  G
      BY <1>4, <2>2, <1>b DEF PortalPageBind, TypeOK
    <2> QED
      BY <1>4, <2>1, <2>2 DEF PortalPageBind
  <1>5. ASSUME NEW r \in Requests, RequirePending(r) \/ EstablishSession(r)
                                     \/ SelectScope(r)
        PROVE  G
    BY <1>5, <1>0 DEF RequirePending, EstablishSession, SelectScope
  <1>7. ASSUME NEW r \in Requests, Complete(r) PROVE G
    <2>1. CASE CompleteReply(store[req[r].id]) = "ok"
      BY <1>7, <2>1, RequestFacts DEF Complete, GrantsKey
    <2>2. CASE CompleteReply(store[req[r].id]) # "ok"
      <3>1. CompleteValue(store[req[r].id]) = store[req[r].id]
        BY <2>2, CompleteValueFacts, RequestFacts
      <3>2. store' = store
        BY <1>7, <3>1, RequestFacts DEF Complete, TypeOK
      <3> QED
        BY <1>7, <2>2, <3>2, <1>0 DEF Complete
    <2> QED
      BY <2>1, <2>2
  <1>8. ASSUME NEW r \in Requests, BindSignIn(r) PROVE G
    BY <1>8, <1>b, RequestFacts DEF BindSignIn
  <1>10. ASSUME NEW r \in Requests, SelectScopeBind(r) PROVE G
    <2>1. PICK s \in sessions :
            store' = [store EXCEPT ![req[r].id] =
                        BindValue(store[req[r].id], s, FALSE)]
      BY <1>10 DEF SelectScopeBind
    <2> QED
      BY <1>10, <2>1, <1>b DEF SelectScopeBind, TypeOK
  <1>11. ASSUME NEW id \in Ids, Expire(id) PROVE G
    BY <1>11 DEF Expire, DropsKey
  <1>12. CASE UNCHANGED vars
    BY <1>12, <1>0 DEF vars
  <1> QED
    BY <1>1, <1>2, <1>3, <1>4, <1>5, <1>7, <1>8, <1>10, <1>11, <1>12 DEF Next

(* The invariant beyond types, from the effect on keys alone.              *)
LEMMA InvStep == IInv /\ [Next]_vars => IInv'
  <1> SUFFICES ASSUME IInv, [Next]_vars PROVE IInv'
    OBVIOUS
  <1>1. TypeOK /\ TypeOK'
    BY TypeStep DEF IInv
  <1> USE DEF IInv
  <1> DEFINE Rest == StoreIsLatest /\ GrantsAreUsed /\ SingleUse
  <1>2. ASSUME NEW id \in Ids, OpensKey(id) PROVE Rest'
    <2>1. PICK c \in Clients \cup {NoClient}, p \in Params :
            store' = [store EXCEPT ![id] = NewTxn(c, p, born[id] + 1)]
      BY <1>2 DEF OpensKey
    <2>2. born[id] \in Nat /\ born[id] + 1 \in Nat
      BY <1>1 DEF TypeOK
    <2>3. NewTxn(c, p, born[id] + 1).csrf = born[id] + 1
      BY <2>2, NewTxnType
    <2>4. StoreIsLatest'
      BY <1>1, <1>2, <2>1, <2>3 DEF StoreIsLatest, OpensKey, TypeOK
    <2>5. GrantsAreUsed'
      BY <1>1, <1>2, <2>1, <2>2 DEF GrantsAreUsed, OpensKey, TypeOK, Assertion
    <2> QED
      BY <1>2, <2>4, <2>5 DEF OpensKey, SingleUse
  <1>3. ASSUME NEW id \in Ids, NEW r \in Requests, GrantsKey(id, r) PROVE Rest'
    <2> DEFINE v == store[id]
    <2>1. /\ v # NoTxn /\ v.status = "PENDING"
          /\ CompleteValue(v).csrf = v.csrf
          /\ CompleteValue(v).status = "COMPLETED"
      BY <1>1, <1>3, CompleteValueFacts DEF GrantsKey, TypeOK
    <2>2. v.csrf = born[id]
      BY <2>1 DEF StoreIsLatest
    <2>3. \A i \in Ids :
            store'[i] = IF i = id THEN CompleteValue(v) ELSE store[i]
      BY <1>1, <1>3 DEF GrantsKey, TypeOK
    <2>4. \A a \in assertions' : a \in assertions \/
             (a.id = id /\ a.epoch = born[id] /\ a.user = r)
      BY <1>3, <2>2 DEF GrantsKey
    <2>5. \A a \in assertions : ~(a.id = id /\ a.epoch = born[id])
      BY <2>1 DEF GrantsAreUsed
    <2>6. StoreIsLatest'
      BY <1>3, <2>1, <2>3 DEF StoreIsLatest, GrantsKey
    <2>7. GrantsAreUsed'
      BY <1>1, <1>3, <2>1, <2>3, <2>4
         DEF GrantsAreUsed, GrantsKey, TypeOK, Assertion
    <2>8. SingleUse'
      BY <1>3, <2>2, <2>5 DEF SingleUse, GrantsKey
    <2> QED
      BY <2>6, <2>7, <2>8
  <1>4. CASE KeepsKeys
    BY <1>1, <1>4
       DEF KeepsKeys, StoreIsLatest, GrantsAreUsed, SingleUse, TypeOK, Assertion
  <1>5. ASSUME NEW id \in Ids, DropsKey(id) PROVE Rest'
    <2>1. \A i \in Ids : store'[i] = IF i = id THEN NoTxn ELSE store[i]
      BY <1>1, <1>5 DEF DropsKey, TypeOK
    <2> QED
      BY <1>1, <1>5, <2>1
         DEF DropsKey, StoreIsLatest, GrantsAreUsed, SingleUse, TypeOK, Assertion
  <1> QED
    BY <1>1, <1>2, <1>3, <1>4, <1>5, KeyStep

(* A transaction yields at most one assertion: transaction.service.ts      *)
(* relies on the script for it, whatever the requests read before.         *)
THEOREM SingleUseHolds == Spec => []SingleUse
  <1>1. IInv => SingleUse
    BY DEF IInv
  <1> QED
    BY <1>1, InitIInv, InvStep, PTL DEF Spec

-----------------------------------------------------------------------------
(* TransactionService implements SingleUseTransaction.                     *)
LEMMA InitMaps == Init => Promise!Init
  BY DEF Init, Promise!Init, Phase

LEMMA StepMaps == IInv /\ [Next]_vars => [Promise!Next]_(Promise!vars)
  <1> SUFFICES ASSUME IInv, [Next]_vars PROVE [Promise!Next]_(Promise!vars)
    OBVIOUS
  <1>1. TypeOK /\ TypeOK'
    BY TypeStep DEF IInv
  <1> DEFINE phase == [id \in Ids |-> Phase(store[id])]
             phasep == [id \in Ids |-> Phase(store'[id])]
  <1>2. ASSUME NEW id \in Ids, OpensKey(id) PROVE Promise!Open(id)
    <2>1. PICK c \in Clients \cup {NoClient}, p \in Params :
            store' = [store EXCEPT ![id] = NewTxn(c, p, born[id] + 1)]
      BY <1>2 DEF OpensKey
    <2>2. Phase(NewTxn(c, p, born[id] + 1)) = "pending"
      BY <1>1, NewTxnType DEF Phase, TypeOK
    <2>3. phasep = [phase EXCEPT ![id] = "pending"]
      BY <1>1, <2>1, <2>2 DEF TypeOK
    <2>4. phase[id] = "absent"
      BY <1>2 DEF OpensKey, Phase
    <2> QED
      BY <1>2, <2>3, <2>4 DEF Promise!Open, OpensKey
  <1>3. ASSUME NEW id \in Ids, NEW r \in Requests, GrantsKey(id, r)
        PROVE  Promise!Grant(id, r)
    <2>1. /\ store[id] # NoTxn /\ store[id].status = "PENDING"
          /\ CompleteValue(store[id]) # NoTxn
          /\ CompleteValue(store[id]).status = "COMPLETED"
      BY <1>1, <1>3, CompleteValueFacts DEF GrantsKey, TypeOK
    <2>2. store[id].csrf = born[id]
      BY <2>1 DEF IInv, StoreIsLatest
    <2>3. phase[id] = "pending" /\ Phase(CompleteValue(store[id])) = "used"
      BY <2>1 DEF Phase
    <2>4. phasep = [phase EXCEPT ![id] = "used"]
      BY <1>1, <1>3, <2>3 DEF TypeOK, GrantsKey
    <2> QED
      BY <1>3, <2>2, <2>3, <2>4 DEF Promise!Grant, GrantsKey
  <1>4. ASSUME KeepsKeys PROVE UNCHANGED Promise!vars
    <2>1. \A id \in Ids : Phase(store'[id]) = Phase(store[id])
      BY <1>4 DEF KeepsKeys, Phase
    <2> QED
      BY <1>4, <2>1 DEF KeepsKeys, Promise!vars
  <1>5. ASSUME NEW id \in Ids, DropsKey(id) PROVE Promise!Lapse(id)
    <2>1. phase[id] # "absent"
      BY <1>5 DEF DropsKey, Phase
    <2>2. phasep = [phase EXCEPT ![id] = "absent"]
      BY <1>1, <1>5 DEF DropsKey, Phase, TypeOK
    <2> QED
      BY <1>5, <2>1, <2>2 DEF DropsKey, Promise!Lapse
  <1> QED
    BY <1>1, <1>2, <1>3, <1>4, <1>5, KeyStep DEF Promise!Next

(* Every behaviour of the service over Redis is one of the promise.        *)
THEOREM Implements == Spec => ImplementsPromise
  <1> QED
    BY InitIInv, InvStep, InitMaps, StepMaps, PTL DEF Spec, ImplementsPromise, Promise!Spec

(* UsedStaysUsed: whatever an action does to the value of a used           *)
(* transaction, short of dropping it, it stays used.                       *)
THEOREM UsedStays == Spec => UsedStaysUsed
  <1> DEFINE Kept == \A id \in Ids :
               store[id] # NoTxn /\ store[id].status = "COMPLETED"
                 => \/ store'[id] = NoTxn
                    \/ store'[id].csrf = store[id].csrf
                       /\ store'[id].status = "COMPLETED"
  <1>1. TypeOK /\ [Next]_vars => Kept
    <2> SUFFICES ASSUME TypeOK, [Next]_vars PROVE Kept
      OBVIOUS
    <2>1. ASSUME NEW id \in Ids, OpensKey(id) \/ DropsKey(id) PROVE Kept
      BY <2>1 DEF OpensKey, DropsKey, TypeOK
    <2>2. ASSUME NEW id \in Ids, NEW r \in Requests, GrantsKey(id, r) PROVE Kept
      <3>1. store[id].status = "PENDING"
        BY <2>2, CompleteValueFacts DEF GrantsKey, TypeOK
      <3> QED
        BY <2>2, <3>1 DEF GrantsKey, TypeOK
    <2>3. CASE KeepsKeys
      BY <2>3 DEF KeepsKeys
    <2> QED
      BY <2>1, <2>2, <2>3, KeyStep
  <1>2. TypeOK /\ [Next]_vars => [Kept]_vars
    BY <1>1
  <1> QED
    BY <1>2, TypeCorrect, PTL DEF Spec, UsedStaysUsed

-----------------------------------------------------------------------------
(* Portal transactions.  What a request of a portal page has got so far: a *)
(* sign-in that reached its bind was granted the one transaction of the id.*)
RequestInv ==
  \A r \in Requests :
    LET q == req[r] IN
    /\ q.id \in PortalIds <=> q.client = NoClient
    /\ q.result # "none" => q.pc = "done"
    /\ \/ q.pc \in {"bindPage", "establish", "bindSignIn", "bindSelect"}
       \/ q.result \in {"portal", "scope"}
       => q.id \in PortalIds
    /\ q.pc = "reopen" => q.id \in AppIds
    /\ \/ q.pc = "complete" /\ q.id \in PortalIds
       \/ q.pc = "bindSignIn" \/ q.result \in {"portal", "scope"}
       => q.sid \in Sids
    /\ q.pc = "bindSignIn" \/ q.result = "portal"
       => [id |-> q.id, epoch |-> 1, user |-> r] \in assertions

(* A portal id is created once, and until its page is bound and served     *)
(* nobody has its CSRF token.                                              *)
PageInv ==
  \A id \in PortalIds :
    /\ born[id] \in {0, 1}
    /\ born[id] = 0 => \A r \in Requests : req[r].id = id => req[r].pc = "idle"
    /\ \A r, p \in Requests :
         req[p].id = id /\ req[p].pc = "bindPage" /\ req[r].id = id
           => r = p \/ req[r].pc = "idle"

(* Only portal transactions have the null client.                          *)
NullClientInv ==
  \A id \in Ids :
    store[id] # NoTxn /\ store[id].client = NoClient => id \in PortalIds

(* A session that was let through is still the bound one, unless a sign-in *)
(* has bound the transaction anew.                                         *)
BoundInv ==
  \A r \in Requests :
    LET v == store[req[r].id] IN
    req[r].result = "scope" /\ v # NoTxn =>
      \/ v.sid = req[r].sid
      \/ \E p \in Requests : /\ req[p].result = "portal" /\ req[p].id = req[r].id
                             /\ req[p].sid = v.sid

PortalInv ==
  /\ RequestInv /\ PageInv /\ NullClientInv /\ BoundInv
  /\ SignedInTransactionKeepsItsSession /\ ScopeFollowsSignIn

LEMMA InitPortal == Init => PortalInv
  <1> SUFFICES ASSUME Init PROVE PortalInv
    OBVIOUS
  <1>1. \A r \in Requests :
          /\ req[r].pc = "idle" /\ req[r].result = "none"
          /\ req[r].id \in PortalIds <=> req[r].client = NoClient
    BY IdsAssumption, NoClientAssumption DEF Init, FreshRequests
  <1>2. RequestInv
    BY <1>1 DEF RequestInv
  <1>3. PageInv
    BY <1>1 DEF Init, PageInv, Ids
  <1>4. NullClientInv
    BY DEF Init, NullClientInv
  <1>5. BoundInv /\ SignedInTransactionKeepsItsSession /\ ScopeFollowsSignIn
    BY <1>1 DEF BoundInv, SignedInTransactionKeepsItsSession, ScopeFollowsSignIn
  <1> QED
    BY <1>2, <1>3, <1>4, <1>5 DEF PortalInv

(* A step moves one request, which was not done, or none.                  *)
Moves(r, q) ==
  /\ req[r].pc # "done"
  /\ q.id = req[r].id /\ q.client = req[r].client
  /\ req'[r] = q
  /\ \A p \in Requests \ {r} : req'[p] = req[p]

LEMMA BecomesMoves ==
  ASSUME TypeOK, NEW r \in Requests, NEW q, Becomes(r, q), req[r].pc # "done",
         q.id = req[r].id, q.client = req[r].client
  PROVE  Moves(r, q)
  BY DEF TypeOK, Becomes, Moves

(* The value under a key after a step that writes one.                     *)
LEMMA StoreMoves ==
  ASSUME TypeOK, NEW r \in Requests, NEW v,
         store' = [store EXCEPT ![req[r].id] = v]
  PROVE  \A i \in Ids : store'[i] = IF i = req[r].id THEN v ELSE store[i]
  BY DEF TypeOK

(* What RequestInv says of one request.                                    *)
RequestOK(q, r, granted) ==
  /\ q.id \in PortalIds <=> q.client = NoClient
  /\ q.result # "none" => q.pc = "done"
  /\ \/ q.pc \in {"bindPage", "establish", "bindSignIn", "bindSelect"}
     \/ q.result \in {"portal", "scope"}
     => q.id \in PortalIds
  /\ q.pc = "reopen" => q.id \in AppIds
  /\ \/ q.pc = "complete" /\ q.id \in PortalIds
     \/ q.pc = "bindSignIn" \/ q.result \in {"portal", "scope"}
     => q.sid \in Sids
  /\ q.pc = "bindSignIn" \/ q.result = "portal"
     => [id |-> q.id, epoch |-> 1, user |-> r] \in granted

LEMMA RequestInvIs == RequestInv <=> \A r \in Requests : RequestOK(req[r], r, assertions)
  BY DEF RequestInv, RequestOK

LEMMA RequestMoves ==
  ASSUME TypeOK, RequestInv, NEW r \in Requests, NEW q, Moves(r, q),
         assertions \subseteq assertions', RequestOK(q, r, assertions')
  PROVE  RequestInv'
  <1>1. \A p \in Requests : RequestOK(req[p], p, assertions)
    BY RequestInvIs
  <1> SUFFICES ASSUME NEW p \in Requests PROVE RequestOK(req'[p], p, assertions')
    BY DEF RequestInv, RequestOK
  <1>2. CASE p = r
    BY <1>2 DEF Moves, RequestOK
  <1>3. CASE p # r
    BY <1>1, <1>3 DEF Moves, RequestOK
  <1> QED
    BY <1>2, <1>3

LEMMA RequestInvStep ==
  ASSUME IInv, PortalInv, [Next]_vars
  PROVE  RequestInv'
  <1>1. TypeOK /\ RequestInv /\ \A r \in Requests : RequestOK(req[r], r, assertions)
    BY RequestInvIs DEF IInv, PortalInv
  <1>2. ASSUME NEW r \in Requests, NEW q, Becomes(r, q), req[r].pc # "done",
               q.id = req[r].id, q.client = req[r].client,
               assertions \subseteq assertions', RequestOK(q, r, assertions')
        PROVE  RequestInv'
    BY <1>1, <1>2, BecomesMoves, RequestMoves
  <1>3. ASSUME NEW r \in Requests, CreateNew(r) \/ CreateResume(r)
        PROVE  RequestInv'
    <2>1. req[r] \in Request /\ RequestOK(req[r], r, assertions)
      BY <1>1, RequestFacts
    <2>2. req[r].id \in AppIds /\ req[r].id \notin PortalIds
      BY <1>3, <2>1, IdsAssumption DEF CreateNew, CreateResume, RequestOK
    <2>3. UNCHANGED assertions
      BY <1>3 DEF CreateNew, CreateResume
    <2>4. PICK q \in Request :
            /\ Becomes(r, q) /\ q.id = req[r].id /\ q.client = req[r].client
            /\ q.pc \in {"reopen", "done"} /\ q.result \notin {"portal", "scope"}
            /\ q.result # "none" => q.pc = "done"
      <3>1. CASE CreateNew(r)
        <4>1. /\ [req[r] EXCEPT !.pc = "reopen"] \in Request
              /\ [req[r] EXCEPT !.pc = "done", !.result = "page",
                                !.csrf = born[req[r].id] + 1] \in Request
          <5>1. born[req[r].id] + 1 \in Nat
            BY <1>1, RequestFacts
          <5> QED
            BY <2>1, <5>1 DEF Request, PC, Results
        <4> QED
          BY <2>1, <3>1, <4>1 DEF CreateNew, Request, RequestOK, Step
      <3>2. CASE CreateResume(r)
        <4> DEFINE reply == ResumeReply(store[req[r].id], req[r].client, req[r].params)
        <4>1. reply \in {"resumed", "used", "conflict"}
          BY DEF ResumeReply
        <4>2. reply = "resumed" => store[req[r].id].csrf \in Nat
          BY <1>1, RequestFacts DEF ResumeReply, SameRequest
        <4>3. reply = "resumed" =>
                [req[r] EXCEPT !.pc = "done", !.result = "page",
                               !.csrf = store[req[r].id].csrf] \in Request
          BY <2>1, <4>2 DEF Request, PC, Results
        <4>4. reply # "resumed" => [req[r] EXCEPT !.pc = "done", !.result = reply] \in Request
          BY <2>1, <4>1 DEF Request, PC, Results
        <4> QED
          BY <2>1, <3>2, <4>1, <4>3, <4>4 DEF CreateResume, Request, Finish
      <3> QED
        BY <1>3, <3>1, <3>2
    <2>5. RequestOK(q, r, assertions')
      BY <2>1, <2>2, <2>4 DEF RequestOK, Ids, Request
    <2> QED
      BY <1>2, <1>3, <2>3, <2>4, <2>5 DEF CreateNew, CreateResume
  <1>4. ASSUME NEW r \in Requests, PortalPage(r) \/ PortalPageBind(r)
        PROVE  RequestInv'
    <2>1. req[r] \in Request /\ RequestOK(req[r], r, assertions)
      BY <1>1, RequestFacts
    <2>2. req[r].id \in PortalIds
      BY <1>4, <2>1 DEF PortalPage, PortalPageBind, RequestOK
    <2>3. PICK q \in Request :
            /\ Becomes(r, q) /\ q.id = req[r].id /\ q.client = req[r].client
            /\ q.pc \in {"bindPage", "done"} /\ q.result \notin {"portal", "scope"}
            /\ q.result # "none" => q.pc = "done"
      <3>1. CASE PortalPage(r)
        <4>1. [req[r] EXCEPT !.pc = "bindPage", !.csrf = 1] \in Request
          BY <2>1 DEF Request, PC
        <4> QED
          BY <2>1, <3>1, <4>1 DEF PortalPage, Request, RequestOK
      <3>2. CASE PortalPageBind(r)
        <4>1. /\ [req[r] EXCEPT !.pc = "done", !.result = "page"] \in Request
              /\ \A s \in sessions : [req[r] EXCEPT !.pc = "done", !.result = "page",
                                                    !.sid = s] \in Request
          BY <1>1, <2>1 DEF Request, PC, Results, TypeOK
        <4> QED
          BY <2>1, <3>2, <4>1 DEF PortalPageBind, Request, Finish
      <3> QED
        BY <1>4, <3>1, <3>2
    <2>4. RequestOK(q, r, assertions')
      BY <2>1, <2>2, <2>3 DEF RequestOK
    <2> QED
      BY <1>2, <1>4, <2>3, <2>4 DEF PortalPage, PortalPageBind
  <1>5. ASSUME NEW r \in Requests, RequirePending(r) \/ SelectScope(r)
        PROVE  RequestInv'
    <2>1. req[r] \in Request /\ RequestOK(req[r], r, assertions)
      BY <1>1, RequestFacts
    <2>2. PICK token \in Nat, pc \in {"done", "establish", "complete", "bindSelect"},
               result \in {"none", "invalid", "used", "csrf"} :
            /\ Becomes(r, [req[r] EXCEPT !.pc = pc, !.result = result, !.csrf = token])
            /\ result # "none" => pc = "done"
            /\ pc = "establish" => req[r].client = NoClient
            /\ pc = "complete" => req[r].client # NoClient
            /\ pc = "bindSelect" => /\ store[req[r].id] # NoTxn
                                    /\ store[req[r].id].client = NoClient
      <3>1. \A token \in ServedTokens(req[r].id) : token \in Nat
        BY <1>1, RequestFacts DEF ServedTokens
      <3>2. \A token : PendingReply(store[req[r].id], req[r].client, token)
                         \in {"invalid", "used", "ok", "csrf"}
        BY DEF PendingReply
      <3>3. req[r].result = "none"
        BY <1>5, <2>1 DEF RequirePending, SelectScope, RequestOK
      <3>4. \A pc, n : [req[r] EXCEPT !.pc = pc, !.csrf = n]
                         = [req[r] EXCEPT !.pc = pc, !.result = "none", !.csrf = n]
        BY <2>1, <3>3 DEF Request
      <3> QED
        BY <1>5, <2>1, <3>1, <3>2, <3>3, <3>4 DEF RequirePending, SelectScope
    <2> DEFINE q == [req[r] EXCEPT !.pc = pc, !.result = result, !.csrf = token]
    <2>3. pc \in {"establish", "bindSelect"} => req[r].id \in PortalIds
      BY <1>1, <2>1, <2>2, RequestFacts DEF RequestOK, PortalInv, NullClientInv
    <2>4. pc = "complete" => req[r].id \notin PortalIds
      BY <2>1, <2>2 DEF RequestOK
    <2>5. /\ q.id = req[r].id /\ q.client = req[r].client
          /\ q.pc = pc /\ q.result = result
      BY <2>1 DEF Request
    <2> HIDE DEF q
    <2>6. RequestOK(q, r, assertions')
      BY <2>1, <2>2, <2>3, <2>4, <2>5 DEF RequestOK
    <2>7. UNCHANGED assertions /\ req[r].pc # "done"
      BY <1>5 DEF RequirePending, SelectScope
    <2> QED
      BY <1>2, <2>2, <2>5, <2>6, <2>7 DEF q
  <1>6. ASSUME NEW r \in Requests, EstablishSession(r) PROVE RequestInv'
    <2>1. req[r] \in Request /\ RequestOK(req[r], r, assertions)
      BY <1>1, RequestFacts
    <2>2. PICK s \in Sids : Becomes(r, [req[r] EXCEPT !.pc = "complete", !.sid = s])
      BY <1>6 DEF EstablishSession
    <2> DEFINE q == [req[r] EXCEPT !.pc = "complete", !.sid = s]
    <2>3. /\ q.id = req[r].id /\ q.client = req[r].client /\ q.pc = "complete"
          /\ q.sid = s /\ q.result = req[r].result /\ q.result = "none"
      BY <1>6, <2>1 DEF Request, EstablishSession, RequestOK
    <2> HIDE DEF q
    <2>4. RequestOK(q, r, assertions')
      BY <2>1, <2>3 DEF RequestOK
    <2> QED
      BY <1>2, <1>6, <2>2, <2>3, <2>4 DEF q, EstablishSession
  <1>7. ASSUME NEW r \in Requests, Complete(r) PROVE RequestInv'
    <2> DEFINE v == store[req[r].id]
    <2>1. req[r] \in Request /\ RequestOK(req[r], r, assertions) /\ req[r].pc = "complete"
          /\ req[r].result = "none"
      BY <1>1, <1>7, RequestFacts DEF Complete, RequestOK
    <2>2. PICK pc \in {"bindSignIn", "done"}, result \in {"none", "assertion", "invalid", "used"} :
            /\ Becomes(r, [req[r] EXCEPT !.pc = pc, !.result = result])
            /\ result # "none" => pc = "done"
            /\ pc = "bindSignIn" => /\ req[r].client = NoClient
                                    /\ CompleteReply(v) = "ok"
      <3>1. CompleteReply(v) \in {"invalid", "used", "ok"}
        BY DEF CompleteReply
      <3>2. [req[r] EXCEPT !.pc = "bindSignIn"]
              = [req[r] EXCEPT !.pc = "bindSignIn", !.result = "none"]
        BY <2>1 DEF Request
      <3> QED
        BY <1>7, <3>1, <3>2 DEF Complete, Step, Finish
    <2>3. assertions \subseteq assertions'
      BY <1>7 DEF Complete
    <2>4. ASSUME pc = "bindSignIn"
          PROVE  /\ req[r].id \in PortalIds /\ req[r].sid \in Sids
                 /\ [id |-> req[r].id, epoch |-> 1, user |-> r] \in assertions'
      <3>1. req[r].id \in PortalIds /\ req[r].sid \in Sids
        BY <2>1, <2>2, <2>4 DEF RequestOK
      <3>2. v # NoTxn
        BY <2>2, <2>4, CompleteValueFacts, RequestFacts, <1>1
      <3>3. v.csrf = 1
        BY <2>1, <3>1, <3>2, RequestFacts, <1>1 DEF IInv, StoreIsLatest, PortalInv, PageInv
      <3> QED
        BY <1>7, <2>2, <2>4, <3>1, <3>3 DEF Complete
    <2> DEFINE q == [req[r] EXCEPT !.pc = pc, !.result = result]
    <2>5. /\ q.id = req[r].id /\ q.client = req[r].client
          /\ q.pc = pc /\ q.result = result /\ q.sid = req[r].sid
      BY <2>1 DEF Request
    <2> HIDE DEF q
    <2>6. RequestOK(q, r, assertions')
      BY <2>1, <2>2, <2>4, <2>5 DEF RequestOK
    <2> QED
      BY <1>2, <2>1, <2>2, <2>3, <2>5, <2>6 DEF q
  <1>8. ASSUME NEW r \in Requests, BindSignIn(r) PROVE RequestInv'
    <2>1. req[r] \in Request /\ RequestOK(req[r], r, assertions)
      BY <1>1, RequestFacts
    <2> DEFINE q == [req[r] EXCEPT !.pc = "done", !.result = "portal"]
    <2>2. /\ q.id = req[r].id /\ q.client = req[r].client
          /\ q.pc = "done" /\ q.result = "portal" /\ q.sid = req[r].sid
      BY <2>1 DEF Request
    <2>3. /\ Becomes(r, q) /\ UNCHANGED assertions /\ req[r].pc = "bindSignIn"
      BY <1>8 DEF BindSignIn, Finish
    <2> HIDE DEF q
    <2>4. RequestOK(q, r, assertions')
      BY <2>1, <2>2, <2>3 DEF RequestOK
    <2> QED
      BY <1>2, <2>2, <2>3, <2>4
  <1>9. ASSUME NEW r \in Requests, SelectScopeBind(r) PROVE RequestInv'
    <2>1. req[r] \in Request /\ RequestOK(req[r], r, assertions)
      BY <1>1, RequestFacts
    <2>2. PICK s \in sessions, result \in {"scope", "mismatch"} :
            Becomes(r, [req[r] EXCEPT !.pc = "done", !.sid = s, !.result = result])
      BY <1>9 DEF SelectScopeBind
    <2> DEFINE q == [req[r] EXCEPT !.pc = "done", !.sid = s, !.result = result]
    <2>3. /\ q.id = req[r].id /\ q.client = req[r].client
          /\ q.pc = "done" /\ q.result = result /\ q.sid = s /\ s \in Sids
      BY <1>1, <2>1 DEF Request, TypeOK
    <2>4. Becomes(r, q) /\ UNCHANGED assertions /\ req[r].pc = "bindSelect"
      BY <1>9, <2>2 DEF SelectScopeBind
    <2> HIDE DEF q
    <2>5. RequestOK(q, r, assertions')
      BY <2>1, <2>2, <2>3, <2>4 DEF RequestOK
    <2> QED
      BY <1>2, <2>3, <2>4, <2>5
  <1>10. ASSUME UNCHANGED <<req, assertions>> PROVE RequestInv'
    BY <1>1, <1>10 DEF RequestInv
  <1> QED
    BY <1>3, <1>4, <1>5, <1>6, <1>7, <1>8, <1>9, <1>10 DEF Next, Expire, vars

(* A page that is served ends the time in which nobody has its token.      *)
LEMMA ServedMeansCreated ==
  ASSUME PortalInv, NEW id \in PortalIds, ServedTokens(id) # {}
  PROVE  /\ born[id] = 1
         /\ \A p \in Requests : req[p].id = id => req[p].pc # "bindPage"
  <1>1. PICK r \in Requests : req[r].id = id /\ req[r].result = "page"
    BY DEF ServedTokens
  <1>2. req[r].pc = "done"
    BY <1>1 DEF PortalInv, RequestInv
  <1> QED
    BY <1>1, <1>2 DEF PortalInv, PageInv

(* The request of an action keeps its id and its client.                   *)
Acts(r) ==
  \/ CreateNew(r) \/ CreateResume(r) \/ PortalPage(r) \/ PortalPageBind(r)
  \/ RequirePending(r) \/ EstablishSession(r) \/ Complete(r) \/ BindSignIn(r)
  \/ SelectScope(r) \/ SelectScopeBind(r)

MovesTo(r, pc, result) ==
  Moves(r, req'[r]) /\ req'[r].pc = pc /\ req'[r].result = result

LEMMA FieldsMove ==
  ASSUME TypeOK, NEW r \in Requests, req[r].pc # "done"
  PROVE  /\ \A pc : Becomes(r, [req[r] EXCEPT !.pc = pc]) => MovesTo(r, pc, req[r].result)
         /\ \A pc, csrf : Becomes(r, [req[r] EXCEPT !.pc = pc, !.csrf = csrf])
                         => MovesTo(r, pc, req[r].result)
         /\ \A pc, result : Becomes(r, [req[r] EXCEPT !.pc = pc, !.result = result])
                           => MovesTo(r, pc, result)
         /\ \A pc, result, csrf :
              Becomes(r, [req[r] EXCEPT !.pc = pc, !.result = result, !.csrf = csrf])
                => MovesTo(r, pc, result)
  <1>1. req[r] \in Request
    BY RequestFacts
  <1>2. ASSUME NEW q, Becomes(r, q), q.id = req[r].id, q.client = req[r].client
        PROVE  MovesTo(r, q.pc, q.result)
    BY <1>2, BecomesMoves DEF Moves, MovesTo
  <1>3. ASSUME NEW pc, Becomes(r, [req[r] EXCEPT !.pc = pc])
        PROVE  MovesTo(r, pc, req[r].result)
    <2> DEFINE q == [req[r] EXCEPT !.pc = pc]
    <2>1. q.id = req[r].id /\ q.client = req[r].client /\ q.pc = pc /\ q.result = req[r].result
      BY <1>1 DEF Request
    <2> HIDE DEF q
    <2>2. Becomes(r, q)
      BY <1>3 DEF q
    <2> QED
      BY <1>2, <2>1, <2>2
  <1>4. ASSUME NEW pc, NEW csrf, Becomes(r, [req[r] EXCEPT !.pc = pc, !.csrf = csrf])
        PROVE  MovesTo(r, pc, req[r].result)
    <2> DEFINE q == [req[r] EXCEPT !.pc = pc, !.csrf = csrf]
    <2>1. q.id = req[r].id /\ q.client = req[r].client /\ q.pc = pc /\ q.result = req[r].result
      BY <1>1 DEF Request
    <2> HIDE DEF q
    <2>2. Becomes(r, q)
      BY <1>4 DEF q
    <2> QED
      BY <1>2, <2>1, <2>2
  <1>5. ASSUME NEW pc, NEW result, Becomes(r, [req[r] EXCEPT !.pc = pc, !.result = result])
        PROVE  MovesTo(r, pc, result)
    <2> DEFINE q == [req[r] EXCEPT !.pc = pc, !.result = result]
    <2>1. q.id = req[r].id /\ q.client = req[r].client /\ q.pc = pc /\ q.result = result
      BY <1>1 DEF Request
    <2> HIDE DEF q
    <2>2. Becomes(r, q)
      BY <1>5 DEF q
    <2> QED
      BY <1>2, <2>1, <2>2
  <1>6. ASSUME NEW pc, NEW result, NEW csrf, Becomes(r, [req[r] EXCEPT !.pc = pc, !.result = result,
                                              !.csrf = csrf])
        PROVE  MovesTo(r, pc, result)
    <2> DEFINE q == [req[r] EXCEPT !.pc = pc, !.result = result,
                                              !.csrf = csrf]
    <2>1. q.id = req[r].id /\ q.client = req[r].client /\ q.pc = pc /\ q.result = result
      BY <1>1 DEF Request
    <2> HIDE DEF q
    <2>2. Becomes(r, q)
      BY <1>6 DEF q
    <2> QED
      BY <1>2, <2>1, <2>2
  <1> QED
    BY <1>3, <1>4, <1>5, <1>6

LEMMA ActionMoves ==
  ASSUME TypeOK, NEW r \in Requests, Acts(r)
  PROVE  /\ Moves(r, req'[r])
         /\ req'[r].pc = "bindPage" => PortalPage(r)
         /\ req'[r].result = "portal" => BindSignIn(r) \/ req[r].result = "portal"
         /\ req'[r].result = "scope" => SelectScopeBind(r) \/ req[r].result = "scope"
  <1>1. req[r] \in Request
    BY RequestFacts
  <1>2. CASE CreateNew(r)
    <2>1. req[r].pc = "idle"
      BY <1>2 DEF CreateNew
    <2>2. CASE store[req[r].id] = NoTxn
      <3>1. Becomes(r, [req[r] EXCEPT !.pc = "done", !.result = "page",
                                      !.csrf = born[req[r].id] + 1])
        BY <1>2, <2>2 DEF CreateNew
      <3>2. MovesTo(r, "done", "page")
        BY <2>1, <3>1, FieldsMove, Zenon
      <3> QED
        BY <3>2 DEF MovesTo
    <2>3. CASE store[req[r].id] # NoTxn
      <3>1. Becomes(r, [req[r] EXCEPT !.pc = "reopen"])
        BY <1>2, <2>3 DEF CreateNew, Step
      <3>2. MovesTo(r, "reopen", req[r].result)
        BY <2>1, <3>1, FieldsMove, Zenon
      <3> QED
        BY <3>2 DEF MovesTo
    <2> QED
      BY <2>2, <2>3
  <1>3. CASE CreateResume(r)
    <2>1. ResumeReply(store[req[r].id], req[r].client, req[r].params)
            \in {"resumed", "used", "conflict"}
      BY DEF ResumeReply
    <2>2. PICK result \in {"page", "used", "conflict"} :
            \/ \E csrf : Becomes(r, [req[r] EXCEPT !.pc = "done", !.result = result,
                                                  !.csrf = csrf])
            \/ Becomes(r, [req[r] EXCEPT !.pc = "done", !.result = result])
      BY <1>3, <2>1 DEF CreateResume, Finish
    <2>3. req[r].pc = "reopen"
      BY <1>3 DEF CreateResume
    <2>4. MovesTo(r, "done", result)
      BY <2>2, <2>3, FieldsMove, Zenon
    <2> QED
      BY <2>4 DEF MovesTo
  <1>4. CASE PortalPage(r)
    BY <1>4, FieldsMove DEF MovesTo, PortalPage
  <1>5. CASE PortalPageBind(r)
    <2>1. ASSUME NEW s, Becomes(r, [req[r] EXCEPT !.pc = "done", !.result = "page",
                                                  !.sid = s])
          PROVE  Moves(r, req'[r]) /\ req'[r].pc = "done" /\ req'[r].result = "page"
      BY <1>1, <1>5, <2>1 DEF PortalPageBind, TypeOK, Moves, Becomes, Request
    <2>2. ASSUME Becomes(r, [req[r] EXCEPT !.pc = "done", !.result = "page"])
          PROVE  Moves(r, req'[r]) /\ req'[r].pc = "done" /\ req'[r].result = "page"
      BY <1>1, <1>5, <2>2 DEF PortalPageBind, TypeOK, Moves, Becomes, Request
    <2> QED
      BY <1>5, <2>1, <2>2 DEF PortalPageBind, Finish
  <1>6. CASE RequirePending(r)
    <2>1. \A token : PendingReply(store[req[r].id], req[r].client, token)
                       \in {"invalid", "used", "ok", "csrf"}
      BY DEF PendingReply
    <2>2. PICK pc \in {"done", "establish", "complete"},
               result \in {"invalid", "used", "ok", "csrf"} :
            \E token :
              \/ Becomes(r, [req[r] EXCEPT !.pc = pc, !.result = result, !.csrf = token])
              \/ Becomes(r, [req[r] EXCEPT !.pc = pc, !.csrf = token])
      BY <1>6, <2>1 DEF RequirePending
    <2>3. req[r].pc = "idle"
      BY <1>6 DEF RequirePending
    <2> QED
      BY <2>2, <2>3, FieldsMove DEF MovesTo
  <1>7. CASE EstablishSession(r)
    BY <1>1, <1>7 DEF EstablishSession, TypeOK, Moves, Becomes, Request
  <1>8. CASE Complete(r)
    <2>1. CompleteReply(store[req[r].id]) \in {"invalid", "used", "ok"}
      BY DEF CompleteReply
    <2>2. PICK pc \in {"done", "bindSignIn"},
               result \in {"invalid", "used", "assertion"} :
            \/ Becomes(r, [req[r] EXCEPT !.pc = pc, !.result = result])
            \/ Becomes(r, [req[r] EXCEPT !.pc = pc])
      BY <1>8, <2>1 DEF Complete, Step, Finish
    <2>3. req[r].pc = "complete"
      BY <1>8 DEF Complete
    <2> QED
      BY <2>2, <2>3, FieldsMove DEF MovesTo
  <1>9. CASE BindSignIn(r)
    BY <1>1, <1>9 DEF BindSignIn, Finish, TypeOK, Moves, Becomes, Request
  <1>10. CASE SelectScope(r)
    <2>1. PICK token \in ServedTokens(req[r].id) :
            \/ Becomes(r, [req[r] EXCEPT !.pc = "done", !.result = "csrf", !.csrf = token])
            \/ Becomes(r, [req[r] EXCEPT !.pc = "bindSelect", !.csrf = token])
      BY <1>10 DEF SelectScope
    <2>2. req[r].pc = "idle"
      BY <1>10 DEF SelectScope
    <2>3. MovesTo(r, "done", "csrf") \/ MovesTo(r, "bindSelect", req[r].result)
      BY <2>1, <2>2, FieldsMove, Zenon
    <2> QED
      BY <2>3 DEF MovesTo
  <1>11. CASE SelectScopeBind(r)
    <2>1. PICK s \in sessions, result \in {"scope", "mismatch"} :
            Becomes(r, [req[r] EXCEPT !.pc = "done", !.sid = s, !.result = result])
      BY <1>11 DEF SelectScopeBind
    <2>2. req[r].pc = "bindSelect"
      BY <1>11 DEF SelectScopeBind
    <2> QED
      BY <1>1, <1>11, <2>1, <2>2 DEF TypeOK, Moves, Becomes, Request
  <1> QED
    BY <1>2, <1>3, <1>4, <1>5, <1>6, <1>7, <1>8, <1>9, <1>10, <1>11 DEF Acts

LEMMA PageInvStep ==
  ASSUME IInv, PortalInv, [Next]_vars
  PROVE  PageInv'
  <1>1. TypeOK /\ RequestInv /\ PageInv /\ \A id \in PortalIds : id \in Ids
    BY DEF IInv, PortalInv, Ids
  (* A request that leaves "idle" does so after the page was served, and   *)
  (* only the creation of the page makes a "bindPage".                     *)
  <1>2. ASSUME NEW r \in Requests, Acts(r), req'[r].pc # "bindPage",
               \A id \in PortalIds : born'[id] = born[id],
               req[r].id \in PortalIds /\ req[r].pc = "idle"
                 => ServedTokens(req[r].id) # {}
        PROVE  PageInv'
    <2>1. Moves(r, req'[r])
      BY <1>1, <1>2, ActionMoves
    <2> SUFFICES ASSUME NEW id \in PortalIds
                 PROVE  /\ born'[id] \in {0, 1}
                        /\ born'[id] = 0 => \A p \in Requests :
                             req'[p].id = id => req'[p].pc = "idle"
                        /\ \A o, p \in Requests :
                             req'[p].id = id /\ req'[p].pc = "bindPage"
                               /\ req'[o].id = id => o = p \/ req'[o].pc = "idle"
      BY DEF PageInv
    <2>2. CASE req[r].id # id
      BY <1>1, <1>2, <2>1, <2>2 DEF Moves, PageInv
    <2>3. CASE req[r].id = id
      <3>1. req[r].pc = "idle" => /\ born[id] = 1
                                 /\ \A p \in Requests : req[p].id = id => req[p].pc # "bindPage"
        BY <1>2, <2>3, ServedMeansCreated
      <3> QED
        BY <1>1, <1>2, <2>1, <2>3, <3>1 DEF Moves, PageInv
    <2> QED
      BY <2>2, <2>3
  <1>3. ASSUME NEW r \in Requests, Acts(r), ~PortalPage(r)
        PROVE  PageInv'
    <2>1. req'[r].pc # "bindPage"
      BY <1>1, <1>3, ActionMoves
    <2>2. \A id \in PortalIds : born'[id] = born[id]
      <3>1. CASE CreateNew(r)
        <4>1. req[r].id \notin PortalIds
          BY <3>1, IdsAssumption DEF CreateNew
        <4> QED
          BY <1>1, <3>1, <4>1 DEF CreateNew, TypeOK
      <3>2. CASE ~CreateNew(r)
        BY <1>3, <3>2 DEF Acts, CreateResume, PortalPageBind, RequirePending,
           EstablishSession, Complete, BindSignIn, SelectScope, SelectScopeBind
      <3> QED
        BY <3>1, <3>2
    <2>3. req[r].id \in PortalIds /\ req[r].pc = "idle" => ServedTokens(req[r].id) # {}
      BY <1>3, IdsAssumption
         DEF Acts, CreateNew, CreateResume, PortalPageBind, RequirePending,
             EstablishSession, Complete, BindSignIn, SelectScope, SelectScopeBind
    <2> QED
      BY <1>2, <1>3, <2>1, <2>2, <2>3
  <1>4. ASSUME NEW r \in Requests, PortalPage(r) PROVE PageInv'
    <2> DEFINE q == [req[r] EXCEPT !.pc = "bindPage", !.csrf = 1]
    <2>1. /\ req[r] \in Request /\ req[r].id \in PortalIds /\ born[req[r].id] = 0
          /\ Becomes(r, q) /\ req[r].pc = "idle"
      BY <1>4, RequestFacts, <1>1 DEF PortalPage
    <2>2. q.id = req[r].id /\ q.client = req[r].client /\ q.pc = "bindPage"
      BY <2>1 DEF Request
    <2>3. Moves(r, q)
      BY <1>1, <2>1, <2>2, BecomesMoves
    <2>4. \A id \in PortalIds : born'[id] = IF id = req[r].id THEN 1 ELSE born[id]
      BY <1>1, <1>4 DEF PortalPage, TypeOK
    <2> HIDE DEF q
    <2> SUFFICES ASSUME NEW id \in PortalIds
                 PROVE  /\ born'[id] \in {0, 1}
                        /\ born'[id] = 0 => \A p \in Requests :
                             req'[p].id = id => req'[p].pc = "idle"
                        /\ \A o, p \in Requests :
                             req'[p].id = id /\ req'[p].pc = "bindPage"
                               /\ req'[o].id = id => o = p \/ req'[o].pc = "idle"
      BY DEF PageInv
    <2>5. CASE req[r].id # id
      BY <1>1, <2>2, <2>3, <2>4, <2>5 DEF Moves, PageInv
    <2>6. CASE req[r].id = id
      BY <1>1, <2>1, <2>2, <2>3, <2>4, <2>6 DEF Moves, PageInv
    <2> QED
      BY <2>5, <2>6
  <1>5. ASSUME UNCHANGED <<req, born>> PROVE PageInv'
    BY <1>1, <1>5 DEF PageInv
  <1> QED
    BY <1>3, <1>4, <1>5 DEF Next, Acts, Expire, vars

(* What a select-scope leaves: the session it was let through with.        *)
LEMMA ScopeBinds ==
  ASSUME TypeOK, NEW r \in Requests, SelectScopeBind(r)
  PROVE  \E s \in Sids :
           /\ req'[r].sid = s
           /\ \A id \in Ids \ {req[r].id} : store'[id] = store[id]
           /\ LET v == store[req[r].id]
                  w == store'[req[r].id] IN
              /\ v # NoTxn => /\ w.client = v.client
                              /\ \/ w.sid = v.sid
                                 \/ v.sid = NoSid /\ w.sid = s
              /\ req'[r].result = "scope" => /\ v # NoTxn /\ v.sid \in {NoSid, s}
                                             /\ w.sid = s
              /\ w # NoTxn => v # NoTxn
  <1> DEFINE id == req[r].id
             v == store[id]
  <1>1. /\ req[r] \in Request /\ id \in Ids /\ v \in LoginTransaction \cup {NoTxn}
    BY RequestFacts
  <1>2. PICK s \in Sids :
          /\ store' = [store EXCEPT ![id] = BindValue(v, s, FALSE)]
          /\ Becomes(r, [req[r] EXCEPT !.pc = "done", !.sid = s, !.result =
               IF BindReply(v, s, FALSE) = "ok" THEN "scope" ELSE "mismatch"])
    BY DEF SelectScopeBind, TypeOK
  <1>3. /\ req'[r].sid = s
        /\ req'[r].result = IF BindReply(v, s, FALSE) = "ok" THEN "scope" ELSE "mismatch"
    BY <1>1, <1>2 DEF Becomes, TypeOK, Request
  <1>4. \A i \in Ids : store'[i] = IF i = id THEN BindValue(v, s, FALSE) ELSE store[i]
    BY <1>2, StoreMoves
  <1>5. v = NoTxn => BindValue(v, s, FALSE) = NoTxn /\ BindReply(v, s, FALSE) = "invalid"
    BY DEF BindValue, BindReply
  <1> HIDE DEF v, id
  <1>6. v # NoTxn =>
          /\ BindValue(v, s, FALSE).client = v.client
          /\ \/ /\ BindReply(v, s, FALSE) = "ok" /\ v.sid \in {NoSid, s}
                /\ BindValue(v, s, FALSE).sid = s
             \/ /\ BindReply(v, s, FALSE) # "ok" /\ BindValue(v, s, FALSE) = v
    BY <1>1, BindValueBinds
  <1> QED
    BY <1>1, <1>3, <1>4, <1>5, <1>6 DEF v, id

(* What a step does to the value of an id.                                 *)
ValueStays(id) ==
  /\ store[id] # NoTxn /\ store'[id] # NoTxn
  /\ store'[id].client = store[id].client /\ store'[id].sid = store[id].sid
ValueMade(id) ==
  /\ id \in PortalIds => born[id] = 0
  /\ store'[id].client = NoClient => id \in PortalIds
ValueBound(id) ==
  /\ store[id] # NoTxn /\ store'[id] # NoTxn
  /\ store'[id].client = store[id].client
  /\ \E r \in Requests :
       /\ req[r].id = id
       /\ \/ BindSignIn(r) /\ store'[id].sid = req[r].sid
          \/ PortalPageBind(r)
          \/ SelectScopeBind(r) /\ store[id].sid = NoSid
ValueChange(id) ==
  store'[id] = NoTxn \/ ValueStays(id) \/ ValueMade(id) \/ ValueBound(id)

BoundTo(v, s) == v.sid = s

LEMMA Rebinds ==
  ASSUME TypeOK, NEW r \in Requests, NEW s \in Sids,
         store' = [store EXCEPT ![req[r].id] = BindValue(store[req[r].id], s, TRUE)],
         NEW id \in Ids, store'[id] # store[id]
  PROVE  /\ id = req[r].id /\ store[id] # NoTxn /\ store'[id] # NoTxn
         /\ store'[id].client = store[id].client /\ BoundTo(store'[id], s)
  <1> DEFINE v == store[req[r].id]
             w == BindValue(v, s, TRUE)
  <1>1. v \in LoginTransaction \cup {NoTxn}
    BY RequestFacts
  <1>2. \A i \in Ids : store'[i] = IF i = req[r].id THEN w ELSE store[i]
    BY DEF TypeOK
  <1>3. id = req[r].id /\ store'[id] = w /\ w # v
    BY <1>2
  <1>4. v # NoTxn
    BY <1>3 DEF BindValue, BindReply
  <1> HIDE DEF v
  <1>5. w # NoTxn /\ w.client = v.client /\ w.sid = s
    BY <1>1, <1>4, BindValueFacts, BindValueBinds
  <1> QED
    BY <1>3, <1>4, <1>5 DEF v, BoundTo

LEMMA ValuesMove ==
  ASSUME IInv, PortalInv, [Next]_vars, NEW id \in Ids
  PROVE  ValueChange(id)
  <1>1. TypeOK
    BY DEF IInv
  <1>2. CASE store'[id] = store[id]
    BY <1>2 DEF ValueChange, ValueStays
  <1>3. ASSUME NEW r \in Requests, CreateNew(r), store'[id] # store[id] PROVE ValueMade(id)
    <2>1. /\ id = req[r].id /\ id \in AppIds
          /\ store'[id] = NewTxn(req[r].client, req[r].params, born[id] + 1)
      BY <1>1, <1>3, RequestFacts DEF CreateNew, TypeOK
    <2>2. store'[id].client = req[r].client
      BY <2>1 DEF NewTxn
    <2>3. id \notin PortalIds
      BY <2>1, IdsAssumption
    <2> QED
      BY <2>1, <2>2, <2>3 DEF ValueMade, PortalInv, RequestInv
  <1>4. ASSUME NEW r \in Requests, PortalPage(r), store'[id] # store[id] PROVE ValueMade(id)
    BY <1>1, <1>4, RequestFacts DEF PortalPage, TypeOK, ValueMade
  <1>5. ASSUME NEW r \in Requests, PortalPageBind(r), store'[id] # store[id]
        PROVE  ValueBound(id)
    <2>1. PICK s \in Sids : store' = [store EXCEPT ![req[r].id] = BindValue(store[req[r].id], s, TRUE)]
      BY <1>1, <1>5 DEF PortalPageBind, TypeOK
    <2>2. /\ id = req[r].id /\ store[id] # NoTxn /\ store'[id] # NoTxn
          /\ store'[id].client = store[id].client
      BY <1>1, <1>5, <2>1, Rebinds
    <2> QED
      BY <1>5, <2>2 DEF ValueBound
  <1>6. ASSUME NEW r \in Requests, Complete(r), store'[id] # store[id] PROVE ValueStays(id)
    <2>1. id = req[r].id /\ store'[id] = CompleteValue(store[id])
      BY <1>1, <1>6, StoreMoves DEF Complete
    <2>2. store[id] # NoTxn /\ store[id] \in LoginTransaction
      BY <1>1, <1>6, <2>1, RequestFacts, CompleteValueFacts DEF CompleteValue, CompleteReply
    <2> QED
      BY <2>1, <2>2, CompleteValueFacts, CompleteValueKeeps DEF ValueStays
  <1>7. ASSUME NEW r \in Requests, BindSignIn(r), store'[id] # store[id]
        PROVE  ValueBound(id)
    <2>1. req[r].sid \in Sids
      BY <1>7 DEF BindSignIn, PortalInv, RequestInv
    <2>2. store' = [store EXCEPT ![req[r].id] = BindValue(store[req[r].id], req[r].sid, TRUE)]
      BY <1>7 DEF BindSignIn
    <2>3. /\ id = req[r].id /\ store[id] # NoTxn /\ store'[id] # NoTxn
          /\ store'[id].client = store[id].client /\ store'[id].sid = req[r].sid
      <3> DEFINE s == req[r].sid
      <3>1. s \in Sids
        BY <2>1
      <3>2. store' = [store EXCEPT ![req[r].id] = BindValue(store[req[r].id], s, TRUE)]
        BY <2>2
      <3> HIDE DEF s
      <3>3. /\ id = req[r].id /\ store[id] # NoTxn /\ store'[id] # NoTxn
            /\ store'[id].client = store[id].client /\ BoundTo(store'[id], s)
        BY <1>1, <1>7, <3>1, <3>2, Rebinds
      <3> QED
        BY <3>3 DEF s, BoundTo
    <2> QED
      BY <1>7, <2>3 DEF ValueBound
  <1>8. ASSUME NEW r \in Requests, SelectScopeBind(r), store'[id] # store[id]
        PROVE  ValueChange(id)
    BY <1>1, <1>8, ScopeBinds DEF ValueChange, ValueBound, ValueStays
  <1>9. ASSUME NEW i \in Ids, Expire(i), store'[id] # store[id] PROVE store'[id] = NoTxn
    BY <1>1, <1>9 DEF Expire, TypeOK
  <1> QED
    BY <1>2, <1>3, <1>4, <1>5, <1>6, <1>7, <1>8, <1>9
       DEF Next, vars, ValueChange, CreateResume, RequirePending, EstablishSession, SelectScope

LEMMA PortalInvStep ==
  ASSUME IInv, PortalInv, [Next]_vars
  PROVE  PortalInv'
  <1>1. TypeOK /\ \A id \in Ids : ValueChange(id)
    BY ValuesMove DEF IInv
  <1>2. RequestInv' /\ PageInv'
    BY RequestInvStep, PageInvStep
  <1>3. \A r \in Requests : req[r].pc = "done" => req'[r] = req[r]
    <2>1. UNCHANGED req \/ \E p \in Requests : Acts(p)
      BY DEF Next, vars, Acts, Expire
    <2> QED
      BY <1>1, <2>1, ActionMoves DEF Moves
  <1>4. \A r \in Requests : req'[r].id = req[r].id
    <2>1. UNCHANGED req \/ \E p \in Requests : Acts(p)
      BY DEF Next, vars, Acts, Expire
    <2> QED
      BY <1>1, <2>1, ActionMoves DEF Moves
  <1>5. \A r \in Requests :
          /\ req'[r].result = "portal" => req[r].result = "portal" \/ BindSignIn(r)
          /\ req'[r].result = "scope" => req[r].result = "scope" \/ SelectScopeBind(r)
    <2>1. UNCHANGED req \/ \E p \in Requests : Acts(p)
      BY DEF Next, vars, Acts, Expire
    <2> QED
      BY <1>1, <2>1, ActionMoves DEF Moves
  <1>6. NullClientInv'
    BY <1>1 DEF NullClientInv, PortalInv, ValueChange, ValueStays, ValueMade, ValueBound
  (* Once a portal id has an answer, it is not made again and its page is  *)
  (* not being bound.                                                      *)
  <1>7. ASSUME NEW r \in Requests, req[r].result \in {"portal", "scope"}
        PROVE  /\ req[r].id \in PortalIds /\ req[r].id \in Ids
               /\ req[r].sid \in Sids /\ req[r].sid # NoSid
               /\ req'[r] = req[r] /\ req[r].pc = "done"
               /\ ~ValueMade(req[r].id)
               /\ \A p \in Requests : req[p].id = req[r].id => ~PortalPageBind(p)
    <2>1. /\ req[r].id \in PortalIds /\ req[r].sid \in Sids /\ req[r].pc = "done"
      BY <1>7 DEF PortalInv, RequestInv
    <2>2. born[req[r].id] # 0
      BY <2>1 DEF PortalInv, PageInv
    <2>3. \A p \in Requests : req[p].id = req[r].id => req[p].pc # "bindPage"
      BY <2>1 DEF PortalInv, PageInv
    <2>4. \A p \in Requests : req[p].id = req[r].id => ~PortalPageBind(p)
      BY <2>3 DEF PortalPageBind
    <2>5. ~ValueMade(req[r].id)
      BY <2>1, <2>2 DEF ValueMade
    <2> QED
      BY <1>3, <2>1, <2>4, <2>5, NoSidAssumption DEF Ids
  (* A sign-in that binds is the only one of its id.                       *)
  <1>8. ASSUME NEW p \in Requests, BindSignIn(p)
        PROVE  /\ req'[p].result = "portal" /\ req'[p].sid = req[p].sid
               /\ \A r \in Requests :
                    req[r].id = req[p].id => req[r].result # "portal"
    <2>1. req[p] \in Request /\ req[p].pc = "bindSignIn"
      BY <1>1, <1>8, RequestFacts DEF BindSignIn
    <2>2. req'[p].result = "portal" /\ req'[p].sid = req[p].sid
      BY <1>1, <1>8, <2>1 DEF BindSignIn, Finish, Becomes, TypeOK, Request
    <2>3. ASSUME NEW r \in Requests, req[r].id = req[p].id, req[r].result = "portal"
          PROVE  FALSE
      <3>1. /\ [id |-> req[p].id, epoch |-> 1, user |-> p] \in assertions
            /\ [id |-> req[r].id, epoch |-> 1, user |-> r] \in assertions
            /\ req[r].pc = "done"
        BY <2>1, <2>3 DEF PortalInv, RequestInv
      <3>2. p = r
        BY <2>3, <3>1 DEF IInv, SingleUse
      <3> QED
        BY <2>1, <3>1, <3>2
    <2> QED
      BY <2>2, <2>3
  <1>9. SignedInTransactionKeepsItsSession'
    <2> SUFFICES ASSUME NEW r \in Requests, req'[r].result = "portal",
                        store'[req[r].id] # NoTxn
                 PROVE  store'[req[r].id].sid = req'[r].sid
      BY <1>4 DEF SignedInTransactionKeepsItsSession
    <2>1. CASE req[r].result = "portal"
      <3>1. ValueStays(req[r].id) \/ ValueBound(req[r].id)
        BY <1>1, <1>7, <2>1 DEF ValueChange
      <3>2. store[req[r].id] # NoTxn
        BY <3>1 DEF ValueStays, ValueBound
      <3>3. store[req[r].id].sid = req[r].sid
        BY <2>1, <3>2 DEF PortalInv, SignedInTransactionKeepsItsSession
      <3> QED
        BY <1>7, <1>8, <2>1, <3>1, <3>3 DEF ValueStays, ValueBound
    <2>2. CASE BindSignIn(r)
      <3>1. /\ req[r].id \in Ids /\ req[r].sid \in Sids \cup {NoSid}
            /\ store[req[r].id] \in LoginTransaction \cup {NoTxn}
        BY <1>1, RequestFacts
      <3>2. store'[req[r].id] = BindValue(store[req[r].id], req[r].sid, TRUE)
        BY <1>1, <2>2, <3>1 DEF BindSignIn, TypeOK
      <3>3. store[req[r].id] # NoTxn
        BY <3>2 DEF BindValue, BindReply
      <3>4. store'[req[r].id].sid = req[r].sid
        BY <3>1, <3>2, <3>3, BindValueBinds
      <3> QED
        BY <1>8, <2>2, <3>4
    <2> QED
      BY <1>5, <2>1, <2>2
  <1>10. BoundInv'
    <2> SUFFICES ASSUME NEW r \in Requests, req'[r].result = "scope",
                        store'[req[r].id] # NoTxn
                 PROVE  \/ store'[req[r].id].sid = req'[r].sid
                        \/ \E p \in Requests :
                              /\ req'[p].result = "portal" /\ req'[p].id = req[r].id
                              /\ req'[p].sid = store'[req[r].id].sid
      BY <1>4 DEF BoundInv
    <2> DEFINE v == store[req[r].id]
               w == store'[req[r].id]
    <2>1. CASE req[r].result = "scope"
      <3>1. ValueStays(req[r].id) \/ ValueBound(req[r].id)
        BY <1>1, <1>7, <2>1 DEF ValueChange
      <3>2. v # NoTxn
        BY <3>1 DEF ValueStays, ValueBound
      <3>3. \/ v.sid = req[r].sid
            \/ \E p \in Requests : /\ req[p].result = "portal" /\ req[p].id = req[r].id
                                   /\ req[p].sid = v.sid
        BY <2>1, <3>2 DEF PortalInv, BoundInv
      <3>4. v.sid # NoSid
        BY <1>7, <2>1, <3>3
      <3>5. CASE w.sid = v.sid
        BY <1>3, <1>7, <2>1, <3>3, <3>5
      <3>6. CASE w.sid # v.sid
        <4>1. PICK p \in Requests : req[p].id = req[r].id /\ BindSignIn(p) /\ w.sid = req[p].sid
          BY <1>7, <2>1, <3>1, <3>4, <3>6 DEF ValueStays, ValueBound
        <4> QED
          BY <1>4, <1>8, <4>1
      <3> QED
        BY <3>5, <3>6
    <2>2. CASE SelectScopeBind(r)
      BY <1>1, <2>2, ScopeBinds
    <2> QED
      BY <1>5, <2>1, <2>2
  <1>11. ScopeFollowsSignIn'
    (* The second of two answers, by a select-scope that is let through.   *)
    <2>1. ASSUME NEW r \in Requests, NEW p \in Requests, req[r].result = "scope",
                 SelectScopeBind(p), req'[p].result = "scope", req[p].id = req[r].id,
                 req'[p].sid # req'[r].sid
          PROVE  \E o \in Requests : /\ req'[o].result = "portal" /\ req'[o].id = req[r].id
                                     /\ req'[o].sid = req'[p].sid
      <3> DEFINE v == store[req[r].id]
      <3>1. v # NoTxn /\ v.sid \in {NoSid, req'[p].sid}
        BY <1>1, <2>1, ScopeBinds
      <3>2. \/ v.sid = req[r].sid
            \/ \E o \in Requests : /\ req[o].result = "portal" /\ req[o].id = req[r].id
                                   /\ req[o].sid = v.sid
        BY <2>1, <3>1 DEF PortalInv, BoundInv
      <3>3. req[r].sid # NoSid /\ req'[r] = req[r]
        BY <1>7, <2>1
      <3>4. PICK o \in Requests : /\ req[o].result = "portal" /\ req[o].id = req[r].id
                                  /\ req[o].sid = v.sid
        BY <2>1, <3>1, <3>2, <3>3
      <3> QED
        BY <1>7, <3>1, <3>4
    <2>2. ASSUME NEW r \in Requests, NEW p \in Requests,
                 req'[r].result = "scope", req'[p].result = "scope",
                 req[r].id = req[p].id, req'[r].sid # req'[p].sid
          PROVE  \E o \in Requests :
                   /\ req'[o].result = "portal" /\ req'[o].id = req[r].id
                   /\ req'[o].sid \in {req'[r].sid, req'[p].sid}
      <3>1. CASE req[r].result = "scope" /\ req[p].result = "scope"
        <4>1. req'[r] = req[r] /\ req'[p] = req[p]
          BY <1>7, <3>1
        <4>2. PICK o \in Requests :
                /\ req[o].result = "portal" /\ req[o].id = req[r].id
                /\ req[o].sid \in {req[r].sid, req[p].sid}
          BY <2>2, <3>1, <4>1 DEF PortalInv, ScopeFollowsSignIn
        <4>3. req'[o] = req[o]
          BY <1>7, <4>2
        <4> QED
          BY <4>1, <4>2, <4>3
      <3>2. CASE req[r].result = "scope" /\ SelectScopeBind(p)
        BY <2>1, <2>2, <3>2
      <3>3. CASE SelectScopeBind(r) /\ req[p].result = "scope"
        BY <2>1, <2>2, <3>3
      <3>4. CASE SelectScopeBind(r) /\ SelectScopeBind(p)
        <4>1. r # p => req'[p] = req[p]
          BY <1>1, <3>4, ActionMoves DEF Acts, Moves
        <4>2. req[p].result # "scope"
          BY <3>4 DEF PortalInv, RequestInv, SelectScopeBind
        <4> QED
          BY <2>2, <4>1, <4>2
      <3> QED
        BY <1>5, <2>2, <3>1, <3>2, <3>3, <3>4
    <2> QED
      BY <1>4, <2>2 DEF ScopeFollowsSignIn
  <1> QED
    BY <1>2, <1>6, <1>9, <1>10, <1>11 DEF PortalInv

LEMMA PortalHolds == Spec => []PortalInv
  BY InitIInv, InvStep, InitPortal, PortalInvStep, PTL DEF Spec

(* SignedInTransactionKeepsItsSession: a portal transaction serves the     *)
(* session of the one sign-in that was granted it.                         *)
THEOREM SignInKeepsItsSession == Spec => []SignedInTransactionKeepsItsSession
  <1>1. PortalInv => SignedInTransactionKeepsItsSession
    BY DEF PortalInv
  <1> QED
    BY <1>1, PortalHolds, PTL

(* ScopeFollowsSignIn: only a sign-in moves the token of a page from one   *)
(* session to another.                                                     *)
THEOREM ScopesFollowSignIn == Spec => []ScopeFollowsSignIn
  <1>1. PortalInv => ScopeFollowsSignIn
    BY DEF PortalInv
  <1> QED
    BY <1>1, PortalHolds, PTL
=============================================================================
