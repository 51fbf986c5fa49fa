---------------------- MODULE BackChannelLogoutProofs ----------------------
(***************************************************************************)
(* Proofs about BackChannelLogout, for any number of logins, of overlapping *)
(* logouts and of attempts: the safety properties that its run checks for  *)
(* one logout.                                                             *)
(***************************************************************************)
EXTENDS BackChannelLogout, TLAPS

(* What a handler that is past its SMEMBERS knows of the local sessions.   *)
HandlersKnow ==
  \A d \in Deliveries :
    /\ handler[d].pc = "del" => local \ handler[d].ids \subseteq during
    /\ handler[d].pc \in {"forget", "ok"} => before[d[1]] \cap local \subseteq during

(* A callback that has not created its session is in nobody's past.        *)
OnlyCreatedSessions ==
  \A c \in Callbacks :
    login[c] = "callback" => c \notin local /\ \A l \in Logouts : c \notin before[l]

(* Nothing is delivered of a logout that has not begun, and the attempts   *)
(* are counted.                                                            *)
NoticeInv(l) ==
  /\ notice[l].pc = "idle" =>
       notice[l].attempt = 0 /\ \A k \in 1..Attempts : handler[<<l, k>>].pc = "none"
  /\ notice[l].pc = "send" => notice[l].attempt < Attempts
  /\ notice[l].pc = "waiting" => notice[l].attempt > 0
  /\ notice[l].status = "SUCCEEDED" => notice[l].pc = "done"

(* The inductive invariant.                                                *)
IInv ==
  /\ TypeOK
  /\ EverySessionIsIndexed
  /\ SucceededLogoutEndsSessions
  /\ HandlersKnow
  /\ OnlyCreatedSessions
  /\ \A l \in Logouts : NoticeInv(l)

-----------------------------------------------------------------------------
LEMMA InitIInv == Init => IInv
  BY FailuresAssumption, AttemptsAssumption
     DEF Init, IInv, TypeOK, EverySessionIsIndexed, SucceededLogoutEndsSessions,
         HandlersKnow, OnlyCreatedSessions, NoticeInv, Deliveries, Notice, NoticePC,
         Status, Handler, HandlerPC, LoginPC

(* A handler goes on, and what it has then learnt is true.                 *)
LEMMA HandlerStep ==
  ASSUME IInv, NEW d \in Deliveries, NEW h \in Handler,
         handler' = [handler EXCEPT ![d] = h], handler[d].pc # "none",
         h.pc = "del" => local \ h.ids \subseteq during,
         h.pc \in {"forget", "ok"} => before[d[1]] \cap local \subseteq during,
         claimed' \subseteq Logouts, failures' \in 0..MaxFailures,
         broken' \subseteq Logouts,
         UNCHANGED <<store, login, notice, before, during>>
  PROVE  IInv'
  <1>1. TypeOK'
    BY DEF IInv, TypeOK, store
  <1>2. EverySessionIsIndexed' /\ SucceededLogoutEndsSessions' /\ OnlyCreatedSessions'
    BY DEF IInv, EverySessionIsIndexed, SucceededLogoutEndsSessions,
           OnlyCreatedSessions, store
  <1>3. \A e \in Deliveries : handler'[e] = IF e = d THEN h ELSE handler[e]
    BY DEF IInv, TypeOK
  <1>4. HandlersKnow'
    BY <1>3 DEF IInv, HandlersKnow, store
  <1>5. ASSUME NEW l \in Logouts PROVE NoticeInv(l)'
    <2>1. notice[l].pc = "idle" => \A k \in 1..Attempts : <<l, k>> # d
      BY DEF IInv, NoticeInv
    <2> QED
      BY <1>3, <2>1 DEF IInv, NoticeInv, Deliveries
  <1> QED
    BY <1>1, <1>2, <1>4, <1>5 DEF IInv

(* Sessions end and nothing is learnt: the set leads to all that are left. *)
LEMMA SessionsEnd ==
  ASSUME IInv, local' \subseteq local, sidSet' \subseteq Callbacks,
         local' \ sidSet' \subseteq during,
         login' \in [Callbacks -> LoginPC],
         \A c \in Callbacks : login'[c] = "callback" => login[c] = "callback",
         UNCHANGED <<claimed, notice, handler, failures, history>>
  PROVE  IInv'
  <1>1. TypeOK'
    BY DEF IInv, TypeOK, history
  <1>2. EverySessionIsIndexed' /\ SucceededLogoutEndsSessions' /\ OnlyCreatedSessions'
    BY DEF IInv, EverySessionIsIndexed, SucceededLogoutEndsSessions,
           OnlyCreatedSessions, history
  <1>3. HandlersKnow' /\ \A l \in Logouts : NoticeInv(l)'
    BY DEF IInv, HandlersKnow, NoticeInv, history
  <1> QED
    BY <1>1, <1>2, <1>3 DEF IInv

LEMMA ApplicationKeeps ==
  ASSUME IInv, NEW c \in Callbacks, Application(c) PROVE IInv'
  <1> login \in [Callbacks -> LoginPC] /\ local \subseteq Callbacks
      /\ sidSet \subseteq Callbacks /\ local \ sidSet \subseteq during
    BY DEF IInv, TypeOK, EverySessionIsIndexed
  <1>1. ASSUME Create(c) PROVE IInv'
    <2>1. login[c] = "callback" /\ login' = [login EXCEPT ![c] = "in"]
      BY <1>1 DEF Create, LoginGoes
    <2>2. \A l \in Logouts : c \notin before[l]
      BY <2>1 DEF IInv, OnlyCreatedSessions
    <2>3. TypeOK'
      BY <1>1, <2>1 DEF Create, IInv, TypeOK, LoginPC
    <2>4. EverySessionIsIndexed' /\ SucceededLogoutEndsSessions'
      BY <1>1, <2>2 DEF Create, IInv, EverySessionIsIndexed, SucceededLogoutEndsSessions
    <2>5. HandlersKnow'
      <3>1. ASSUME NEW d \in Deliveries, handler[d].pc = "del"
            PROVE  local' \ handler[d].ids \subseteq during'
        BY <1>1, <3>1 DEF Create, Destroying, IInv, HandlersKnow
      <3>2. ASSUME NEW d \in Deliveries, handler[d].pc \in {"forget", "ok"}
            PROVE  before[d[1]] \cap local' \subseteq during'
        BY <1>1, <2>2, <3>2 DEF Create, IInv, HandlersKnow, Deliveries
      <3> QED
        BY <1>1, <3>1, <3>2 DEF Create, HandlersKnow
    <2>6. OnlyCreatedSessions'
      BY <1>1, <2>1 DEF Create, IInv, OnlyCreatedSessions
    <2>7. \A l \in Logouts : NoticeInv(l)'
      BY <1>1 DEF Create, IInv, NoticeInv
    <2> QED
      BY <2>3, <2>4, <2>5, <2>6, <2>7 DEF IInv
  <1>2. ASSUME ReadForSignOut(c) PROVE IInv'
    <2>1. PICK to \in {"leaving", "out"} : login' = [login EXCEPT ![c] = to]
      BY <1>2 DEF ReadForSignOut, LoginGoes
    <2>2. login' \in [Callbacks -> LoginPC]
      BY <2>1 DEF LoginPC
    <2> QED
      BY <1>2, <2>1, <2>2, SessionsEnd DEF ReadForSignOut, store
  <1>3. ASSUME SignOut(c) PROVE IInv'
    <2>1. login' = [login EXCEPT ![c] = "out"] /\ login' \in [Callbacks -> LoginPC]
      BY <1>3 DEF SignOut, LoginGoes, LoginPC
    <2> QED
      BY <1>3, <2>1, SessionsEnd DEF SignOut
  <1>4. ASSUME Expire(c) PROVE IInv'
    BY <1>4, SessionsEnd DEF Expire
  <1> QED
    BY <1>1, <1>2, <1>3, <1>4 DEF Application

LEMMA ExpireSetKeeps == ASSUME IInv, ExpireSet PROVE IInv'
  <1>1. sidSet' \subseteq Callbacks /\ local' \ sidSet' \subseteq during
    BY DEF ExpireSet, IInv, EverySessionIsIndexed
  <1> QED
    BY <1>1, SessionsEnd DEF ExpireSet, IInv, TypeOK

-----------------------------------------------------------------------------
(* A notifier that does not touch a delivery.                              *)
LEMMA NoticeStep ==
  ASSUME IInv, NEW l \in Logouts, NEW n \in Notice, notice' = [notice EXCEPT ![l] = n],
         n.pc # "idle", n.pc = "send" => n.attempt < Attempts, n.pc # "waiting",
         n.status = "SUCCEEDED"
           => n.pc = "done" /\ before[l] \cap local \subseteq during,
         failures' \in 0..MaxFailures,
         UNCHANGED <<store, claimed, login, handler, history>>
  PROVE  IInv'
  <1>1. \A m \in Logouts : notice'[m] = IF m = l THEN n ELSE notice[m]
    BY DEF IInv, TypeOK
  <1>2. TypeOK'
    BY DEF IInv, TypeOK, store, history
  <1>3. SucceededLogoutEndsSessions'
    BY <1>1 DEF IInv, SucceededLogoutEndsSessions, store, history
  <1>4. EverySessionIsIndexed' /\ OnlyCreatedSessions' /\ HandlersKnow'
    BY DEF IInv, EverySessionIsIndexed, OnlyCreatedSessions, HandlersKnow, store, history
  <1>5. \A m \in Logouts : NoticeInv(m)'
    BY <1>1 DEF IInv, NoticeInv
  <1> QED
    BY <1>2, <1>3, <1>4, <1>5 DEF IInv

LEMMA NoticeFacts ==
  ASSUME IInv, NEW l \in Logouts, NEW pc \in NoticePC, NEW status \in Status,
         NoticeGoes(l, pc, status)
  PROVE  \E n \in Notice : /\ notice' = [notice EXCEPT ![l] = n]
                           /\ n.pc = pc /\ n.status = status
                           /\ n.attempt = notice[l].attempt
  <1>1. [notice[l] EXCEPT !.pc = pc, !.status = status] \in Notice
    BY DEF IInv, TypeOK, Notice
  <1> QED
    BY <1>1 DEF NoticeGoes, IInv, TypeOK, Notice

LEMMA BeginKeeps ==
  ASSUME IInv, NEW l \in Logouts, Begin(l) PROVE IInv'
  <1>1. PICK pc \in {"done", "send"}, status \in {"none", "FAILED", "NO_ENDPOINT"} :
          NoticeGoes(l, pc, status)
    BY DEF Begin
  <1>2. PICK n \in Notice : /\ notice' = [notice EXCEPT ![l] = n]
                            /\ n.pc = pc /\ n.status = status
                            /\ n.attempt = notice[l].attempt
    BY <1>1, NoticeFacts DEF NoticePC, Status
  <1>3. \A m \in Logouts : /\ notice'[m] = IF m = l THEN n ELSE notice[m]
                           /\ before'[m] = IF m = l THEN local ELSE before[m]
    BY <1>2 DEF Begin, IInv, TypeOK
  <1>4. TypeOK'
    BY <1>2 DEF Begin, IInv, TypeOK, store
  <1>5. EverySessionIsIndexed' /\ OnlyCreatedSessions'
    BY <1>3 DEF Begin, IInv, EverySessionIsIndexed, OnlyCreatedSessions, store
  <1>6. SucceededLogoutEndsSessions'
    BY <1>2, <1>3 DEF Begin, IInv, SucceededLogoutEndsSessions, store
  <1>7. HandlersKnow'
    <2>1. \A d \in Deliveries : d[1] = l => handler[d].pc = "none"
      BY DEF Begin, IInv, NoticeInv, Deliveries
    <2> QED
      BY <1>3, <2>1 DEF Begin, IInv, HandlersKnow, Deliveries, store
  <1>8. \A m \in Logouts : NoticeInv(m)'
    <2>1. notice[l].attempt < Attempts
      BY AttemptsAssumption DEF Begin, IInv, NoticeInv
    <2> QED
      BY <1>2, <1>3, <2>1 DEF Begin, IInv, NoticeInv
  <1> QED
    BY <1>4, <1>5, <1>6, <1>7, <1>8 DEF IInv

LEMMA SendKeeps ==
  ASSUME IInv, NEW l \in Logouts, Send(l) PROVE IInv'
  <1> DEFINE k == notice[l].attempt + 1
             d == <<l, k>>
  <1>1. k \in 1..Attempts /\ d \in Deliveries /\ notice[l] \in Notice
    BY AttemptsAssumption DEF Send, IInv, TypeOK, Notice, NoticeInv, Deliveries
  <1>2. PICK n \in Notice : /\ notice' = [notice EXCEPT ![l] = n]
                            /\ n.pc = "waiting" /\ n.attempt = k
                            /\ n.status = notice[l].status
    <2>0. k \in 0..Attempts
      BY <1>1
    <2> HIDE DEF k
    <2>1. [notice[l] EXCEPT !.pc = "waiting", !.attempt = k] \in Notice
      BY <1>1, <2>0 DEF Notice, NoticePC
    <2> USE DEF k
    <2> QED
      BY <1>1, <2>1 DEF Send, IInv, TypeOK, Notice
  <1>3. PICK h \in Handler : handler' = [handler EXCEPT ![d] = h] /\ h.pc = "request"
    <2>1. [handler[d] EXCEPT !.pc = "request"] \in Handler
      BY <1>1 DEF IInv, TypeOK, Handler, HandlerPC
    <2> QED
      BY <1>1, <2>1 DEF Send, IInv, TypeOK, Handler
  <1> HIDE DEF k, d
  <1>4. /\ \A m \in Logouts : notice'[m] = IF m = l THEN n ELSE notice[m]
        /\ \A e \in Deliveries : handler'[e] = IF e = d THEN h ELSE handler[e]
    BY <1>2, <1>3 DEF IInv, TypeOK
  <1>5. TypeOK'
    <2>1. notice' \in [Logouts -> Notice] /\ handler' \in [Deliveries -> Handler]
      BY <1>1, <1>2, <1>3 DEF IInv, TypeOK
    <2> QED
      BY <2>1 DEF Send, IInv, TypeOK, store, history
  <1>6. EverySessionIsIndexed' /\ OnlyCreatedSessions'
    BY DEF Send, IInv, EverySessionIsIndexed, OnlyCreatedSessions, store, history
  <1>7. SucceededLogoutEndsSessions'
    BY <1>2, <1>4 DEF Send, IInv, SucceededLogoutEndsSessions, store, history
  <1>8. HandlersKnow'
    BY <1>3, <1>4 DEF Send, IInv, HandlersKnow, store, history
  <1>9. ASSUME NEW m \in Logouts PROVE NoticeInv(m)'
    <2>1. CASE m = l
      <3>1. notice[l].pc = "send" /\ k > 0
        BY <1>1 DEF Send
      <3> QED
        BY <1>2, <1>4, <2>1, <3>1 DEF IInv, NoticeInv
    <2>2. CASE m # l
      <3>1. \A j \in 1..Attempts : <<m, j>> \in Deliveries /\ <<m, j>> # d
        BY <2>2 DEF Deliveries, d
      <3> QED
        BY <1>4, <2>2, <3>1 DEF IInv, NoticeInv
    <2> QED
      BY <2>1, <2>2
  <1> QED
    BY <1>5, <1>6, <1>7, <1>8, <1>9 DEF IInv

LEMMA NotifierKeeps ==
  ASSUME IInv, NEW l \in Logouts, Notifier(l) \/ NotifierDies(l) PROVE IInv'
  <1> failures \in 0..MaxFailures
    BY DEF IInv, TypeOK
  <1>1. ASSUME Receive(l) PROVE IInv'
    <2>1. Current(l) \in Deliveries
      BY <1>1 DEF Receive, Current, Deliveries, IInv, TypeOK, Notice, NoticeInv
    <2>2. CASE handler[Current(l)].pc = "ok" /\ NoticeGoes(l, "done", "SUCCEEDED")
      <3>1. before[l] \cap local \subseteq during
        BY <2>1, <2>2 DEF IInv, HandlersKnow, Current
      <3>2. PICK n \in Notice : /\ notice' = [notice EXCEPT ![l] = n]
                                /\ n.pc = "done" /\ n.status = "SUCCEEDED"
        BY <2>2, NoticeFacts DEF NoticePC, Status
      <3> QED
        BY <1>1, <3>1, <3>2, NoticeStep DEF Receive
    <2>3. CASE NoticeGoes(l, "done", "FAILED")
      <3>1. PICK n \in Notice : /\ notice' = [notice EXCEPT ![l] = n]
                                /\ n.pc = "done" /\ n.status = "FAILED"
        BY <2>3, NoticeFacts DEF NoticePC, Status
      <3> QED
        BY <1>1, <3>1, NoticeStep DEF Receive
    <2> QED
      BY <1>1, <2>2, <2>3 DEF Receive
  <1>2. ASSUME TryAgain(l) PROVE IInv'
    <2>1. PICK pc \in {"send", "done"}, status \in {"none", "FAILED"} :
            /\ NoticeGoes(l, pc, status)
            /\ pc = "send" => notice[l].attempt < Attempts
      BY <1>2 DEF TryAgain
    <2>2. PICK n \in Notice : /\ notice' = [notice EXCEPT ![l] = n]
                              /\ n.pc = pc /\ n.status = status
                              /\ n.attempt = notice[l].attempt
      BY <2>1, NoticeFacts DEF NoticePC, Status
    <2> QED
      BY <1>2, <2>1, <2>2, NoticeStep DEF TryAgain
  <1>3. ASSUME NotifierDies(l) PROVE IInv'
    <2>1. PICK n \in Notice : /\ notice' = [notice EXCEPT ![l] = n]
                              /\ n.pc = "dead" /\ n.status = "none"
      BY <1>3, NoticeFacts DEF NotifierDies, NoticePC, Status
    <2>2. failures' \in 0..MaxFailures
      BY <1>3, FailuresAssumption DEF NotifierDies
    <2> QED
      BY <1>3, <2>1, <2>2, NoticeStep DEF NotifierDies
  <1> QED
    BY <1>1, <1>2, <1>3, SendKeeps DEF Notifier

-----------------------------------------------------------------------------
LEMMA HandlerFacts ==
  ASSUME IInv, NEW d \in Deliveries, NEW from, NEW pc \in HandlerPC,
         HandlerGoes(d, from, pc)
  PROVE  \E h \in Handler : handler' = [handler EXCEPT ![d] = h] /\ h.pc = pc
  <1>1. [handler[d] EXCEPT !.pc = pc] \in Handler
    BY DEF IInv, TypeOK, Handler
  <1> QED
    BY <1>1 DEF HandlerGoes, IInv, TypeOK, Handler

(* destroyBySid has deleted what its handler knew: all but the sessions    *)
(* created since it read the set.                                          *)
LEMMA DestroyKeeps ==
  ASSUME IInv, NEW d \in Deliveries, handler[d].pc = "del", DestroyedBy(d),
         NEW h \in Handler, h.pc \in {"forget", "rejected", "lost"},
         handler' = [handler EXCEPT ![d] = h],
         failures' \in 0..MaxFailures, broken' \subseteq Logouts,
         UNCHANGED <<claimed, login, notice, before, during>>
  PROVE  IInv'
  <1>1. local' \subseteq during /\ local' \subseteq local
    BY DEF DestroyedBy, IInv, HandlersKnow
  <1>2. \A e \in Deliveries : handler'[e] = IF e = d THEN h ELSE handler[e]
    BY DEF IInv, TypeOK
  <1>3. TypeOK'
    BY <1>1 DEF DestroyedBy, IInv, TypeOK
  <1>4. EverySessionIsIndexed' /\ SucceededLogoutEndsSessions' /\ HandlersKnow'
    BY <1>1 DEF EverySessionIsIndexed, SucceededLogoutEndsSessions, HandlersKnow
  <1>5. OnlyCreatedSessions'
    BY <1>1 DEF IInv, OnlyCreatedSessions
  <1>6. ASSUME NEW l \in Logouts PROVE NoticeInv(l)'
    <2>1. notice[l].pc = "idle" => \A k \in 1..Attempts : <<l, k>> # d
      BY DEF IInv, NoticeInv
    <2> QED
      BY <1>2, <2>1 DEF IInv, NoticeInv, Deliveries
  <1> QED
    BY <1>3, <1>4, <1>5, <1>6 DEF IInv

LEMMA HandlerKeeps ==
  ASSUME IInv, NEW d \in Deliveries,
         Endpoint(d) \/ Lose(d) \/ Refuse(d) \/ Fail(d)
  PROVE  IInv'
  <1> /\ failures \in 0..MaxFailures /\ claimed \subseteq Logouts
      /\ broken \subseteq Logouts /\ d[1] \in Logouts
      /\ handler \in [Deliveries -> Handler]
    BY DEF IInv, TypeOK, Deliveries
  <1>1. ASSUME Claim(d) PROVE IInv'
    <2>1. PICK pc \in {"rejected", "read"} : HandlerGoes(d, "request", pc)
      BY <1>1 DEF Claim
    <2>2. PICK h \in Handler : handler' = [handler EXCEPT ![d] = h] /\ h.pc = pc
      BY <2>1, HandlerFacts DEF HandlerPC
    <2> QED
      BY <1>1, <2>1, <2>2, HandlerStep DEF Claim, HandlerGoes, history
  <1>2. ASSUME ReadSet(d) PROVE IInv'
    <2> DEFINE pc == IF sidSet = {} THEN "forget" ELSE "del"
    <2>1. PICK h : h = [pc |-> pc, ids |-> sidSet]
      OBVIOUS
    <2>2. h \in Handler /\ h.pc = pc /\ h.ids = sidSet
      BY <2>1 DEF Handler, HandlerPC, IInv, TypeOK
    <2>3. local \ sidSet \subseteq during
      BY DEF IInv, EverySessionIsIndexed
    <2> QED
      BY <1>2, <2>1, <2>2, <2>3, HandlerStep DEF ReadSet, history
  <1>3. ASSUME Delete(d) PROVE IInv'
    <2>1. [pc |-> "forget", ids |-> {}] \in Handler
      BY DEF Handler, HandlerPC
    <2> QED
      BY <1>3, <2>1, DestroyKeeps DEF Delete, history
  <1>4. ASSUME Forget(d) PROVE IInv'
    <2>1. PICK h \in Handler : handler' = [handler EXCEPT ![d] = h] /\ h.pc = "ok"
      BY <1>4, HandlerFacts DEF Forget, HandlerPC
    <2>2. before[d[1]] \cap local \subseteq during
      BY <1>4 DEF Forget, HandlerGoes, IInv, HandlersKnow
    <2> QED
      BY <1>4, <2>1, <2>2, HandlerStep DEF Forget, HandlerGoes, history
  <1>5. ASSUME Lose(d) PROVE IInv'
    <2>1. PICK h \in Handler : handler' = [handler EXCEPT ![d] = h] /\ h.pc = "lost"
      BY <1>5, HandlerFacts DEF Lose, HandlerPC
    <2>2. failures' \in 0..MaxFailures
      BY <1>5, FailuresAssumption DEF Lose
    <2> QED
      BY <1>5, <2>1, <2>2, HandlerStep DEF Lose, HandlerGoes, history
  <1>6. ASSUME Refuse(d) PROVE IInv'
    <2>1. PICK h \in Handler :
            handler' = [handler EXCEPT ![d] = h] /\ h.pc = "rejected"
      BY <1>6, HandlerFacts DEF Refuse, HandlerPC
    <2>2. failures' \in 0..MaxFailures
      BY <1>6, FailuresAssumption DEF Refuse
    <2> QED
      BY <1>6, <2>1, <2>2, HandlerStep DEF Refuse, HandlerGoes
  <1>7. ASSUME Fail(d) PROVE IInv'
    <2>1. PICK pc \in {"rejected", "lost"} :
            handler' = [handler EXCEPT ![d] = [pc |-> pc, ids |-> {}]]
      BY <1>7 DEF Fail
    <2>0. [pc |-> pc, ids |-> {}] \in Handler
      BY DEF Handler, HandlerPC
    <2>2. PICK h \in Handler : h = [pc |-> pc, ids |-> {}] /\ h.pc = pc
      BY <2>0
    <2>3. failures' \in 0..MaxFailures
      BY <1>7, FailuresAssumption DEF Fail
    <2>4. CASE UNCHANGED store
      BY <1>7, <2>1, <2>2, <2>3, <2>4, HandlerStep DEF Fail
    <2>5. CASE handler[d].pc = "del" /\ DestroyedBy(d)
      BY <1>7, <2>1, <2>2, <2>3, <2>5, DestroyKeeps DEF Fail
    <2> QED
      BY <1>7, <2>4, <2>5 DEF Fail
  <1> QED
    BY <1>1, <1>2, <1>3, <1>4, <1>5, <1>6, <1>7 DEF Endpoint

LEMMA InvStep == IInv /\ [Next]_vars => IInv'
  <1> SUFFICES ASSUME IInv, [Next]_vars PROVE IInv'
    OBVIOUS
  <1>1. CASE UNCHANGED vars
    BY <1>1 DEF vars, store, history, IInv, TypeOK, EverySessionIsIndexed,
                SucceededLogoutEndsSessions, HandlersKnow, OnlyCreatedSessions, NoticeInv
  <1> QED
    BY <1>1, ApplicationKeeps, ExpireSetKeeps, BeginKeeps, NotifierKeeps, HandlerKeeps
       DEF Next

-----------------------------------------------------------------------------
(* Every variable keeps its type.                                          *)
THEOREM TypeCorrect == Spec => []TypeOK
  <1>1. IInv => TypeOK
    BY DEF IInv
  <1> QED
    BY <1>1, InitIInv, InvStep, PTL DEF Spec

(* However logins, sign-outs, expiries and any number of logouts overlap,  *)
(* only a session created between the two commands of a destroyBySid drops *)
(* out of the set through which the next logout would find it.             *)
THEOREM SessionsStayIndexed == Spec => []EverySessionIsIndexed
  <1>1. IInv => EverySessionIsIndexed
    BY DEF IInv
  <1> QED
    BY <1>1, InitIInv, InvStep, PTL DEF Spec

(* A logout recorded as SUCCEEDED has ended the sessions it was meant for, *)
(* also when several logouts of the session and their retries overlap.     *)
THEOREM SuccessIsReal == Spec => []SucceededLogoutEndsSessions
  <1>1. IInv => SucceededLogoutEndsSessions
    BY DEF IInv
  <1> QED
    BY <1>1, InitIInv, InvStep, PTL DEF Spec
=============================================================================
