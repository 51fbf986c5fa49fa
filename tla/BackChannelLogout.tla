------------------------- MODULE BackChannelLogout -------------------------
(***************************************************************************)
(* The delivery of a logout to one application: LogoutService.notifyClient *)
(* in Identity, and in the application (the reference Business Unit) the   *)
(* back-channel endpoint, the login callback, the local sign-out and the   *)
(* store of local sessions they share.                                     *)
(*                                                                         *)
(* One federation session (sid) and one application.  A local session is   *)
(* named by the callback that creates it.  Requests revoke a sid at most   *)
(* twice, when they run concurrently, so several logout tokens may be      *)
(* under way.  Each attempt to deliver one is an HTTP request of its own:  *)
(* the notifier gives up waiting after five seconds, the handler goes on.  *)
(*                                                                         *)
(* Left out: what the application caches of the authorization service,     *)
(* which forget() deletes, and the expiry of a logout token (120 s), which *)
(* the attempts (17 s) never reach.                                        *)
(***************************************************************************)
EXTENDS Integers, FiniteSets

CONSTANTS Callbacks,    \* logins of the application, all for this sid
          Logouts,      \* notifications of a revocation of this sid
          Attempts,     \* ATTEMPTS
          MaxFailures   \* bound: lost requests, failed handlers, dead pods

ASSUME AttemptsAssumption == Attempts \in Nat \ {0}
ASSUME FailuresAssumption == MaxFailures \in Nat

VARIABLES
  local,     \* keys bu:<client>:session:<id>
  sidSet,    \* the set bu:<client>:sid:<sid>
  claimed,   \* the replay store: logout tokens whose jti is taken
  login,     \* login[c]: how far the application's login c is
  notice,    \* notice[l]: the notifier
  handler,   \* handler[<<l, k>>]: the k-th delivery of l in the application
  failures,
  before,    \* history: local sessions when logout l was sent
  during,    \* history: sessions created between two commands of destroyBySid
  broken     \* history: logouts of which a handler failed

store == <<local, sidSet>>
history == <<before, during, broken>>
vars == <<store, claimed, login, notice, handler, failures, history>>

Deliveries == Logouts \X (1..Attempts)
LoginPC == {"callback", "in", "leaving", "out"}
NoticePC == {"idle", "send", "waiting", "done", "dead"}
Status == {"none", "SUCCEEDED", "FAILED", "NO_ENDPOINT"}
HandlerPC ==
  {"none", "request", "lost", "read", "del", "forget", "ok", "rejected"}

Notice == [pc : NoticePC, attempt : 0..Attempts, status : Status]
Handler == [pc : HandlerPC, ids : SUBSET Callbacks]

(* One type invariant: the shape of every variable.                        *)
TypeOK ==
  /\ local \subseteq Callbacks /\ sidSet \subseteq Callbacks
  /\ claimed \subseteq Logouts
  /\ login \in [Callbacks -> LoginPC]
  /\ notice \in [Logouts -> Notice]
  /\ handler \in [Deliveries -> Handler]
  /\ failures \in 0..MaxFailures
  /\ before \in [Logouts -> SUBSET Callbacks]
  /\ during \subseteq Callbacks /\ broken \subseteq Logouts

Init ==
  /\ local = {} /\ sidSet = {} /\ claimed = {}
  /\ login = [c \in Callbacks |-> "callback"]
  /\ notice = [l \in Logouts |->
                 [pc |-> "idle", attempt |-> 0, status |-> "none"]]
  /\ handler = [d \in Deliveries |-> [pc |-> "none", ids |-> {}]]
  /\ failures = 0
  /\ before = [l \in Logouts |-> {}] /\ during = {} /\ broken = {}

-----------------------------------------------------------------------------
(* The application's logins.                                               *)
LoginGoes(c, from, to) == login[c] = from /\ login' = [login EXCEPT ![c] = to]

Destroying == \E d \in Deliveries : handler[d].pc = "del"

(* The callback takes the pending transaction, verifies the assertion,     *)
(* claims its jti and asks for the effective access, all of it away from   *)
(* the local sessions: a callback that is refused is one that never gets   *)
(* here, one that is accepted may get here at any time.  create is one     *)
(* MULTI.                                                                  *)
Create(c) ==
  /\ LoginGoes(c, "callback", "in")
  /\ local' = local \cup {c}
  /\ sidSet' = sidSet \cup {c}
  /\ during' = IF Destroying THEN during \cup {c} ELSE during
  /\ UNCHANGED <<claimed, notice, handler, failures, before, broken>>

(* destroy for the browser's cookie: read the session, then one MULTI.     *)
ReadForSignOut(c) ==
  /\ LoginGoes(c, "in", IF c \in local THEN "leaving" ELSE "out")
  /\ UNCHANGED <<store, claimed, notice, handler, failures, history>>

(* Mutant: deletes the whole set where the code takes one member out.       *)
SignOutDropsSet(c) ==
  /\ LoginGoes(c, "leaving", "out")
  /\ local' = local \ {c}
  /\ sidSet' = {}
  /\ UNCHANGED <<claimed, notice, handler, failures, history>>

SignOut(c) ==
  /\ LoginGoes(c, "leaving", "out")
  /\ local' = local \ {c}
  /\ sidSet' = sidSet \ {c}
  /\ UNCHANGED <<claimed, notice, handler, failures, history>>

(* Redis expires a session; the set, whose TTL every create renews, later. *)
Expire(c) ==
  /\ c \in local
  /\ local' = local \ {c}
  /\ UNCHANGED <<sidSet, claimed, login, notice, handler, failures, history>>

ExpireSet ==
  /\ sidSet # {} /\ sidSet \cap local = {}
  /\ sidSet' = {}
  /\ UNCHANGED <<local, claimed, login, notice, handler, failures, history>>

-----------------------------------------------------------------------------
(* notifyClient.                                                           *)
NoticeGoes(l, pc, status) ==
  notice' = [notice EXCEPT ![l].pc = pc, ![l].status = status]

(* The configuration of the client and the token: no endpoint, an error of *)
(* the registry or of the keys, or a token to deliver.                     *)
Begin(l) ==
  /\ notice[l].pc = "idle"
  /\ \/ NoticeGoes(l, "done", "NO_ENDPOINT")
     \/ NoticeGoes(l, "done", "FAILED")
     \/ NoticeGoes(l, "send", "none")
  /\ before' = [before EXCEPT ![l] = local]
  /\ UNCHANGED <<store, claimed, login, handler, failures, during, broken>>

Current(l) == <<l, notice[l].attempt>>

Send(l) ==
  LET k == notice[l].attempt + 1 IN
  /\ notice[l].pc = "send"
  /\ notice' = [notice EXCEPT ![l].pc = "waiting", ![l].attempt = k]
  /\ handler' = [handler EXCEPT ![<<l, k>>].pc = "request"]
  /\ UNCHANGED <<store, claimed, login, failures, history>>

(* The answer arrives: 200 ends the attempts, and so does any 4xx.         *)
Receive(l) ==
  /\ notice[l].pc = "waiting"
  /\ \/ handler[Current(l)].pc = "ok" /\ NoticeGoes(l, "done", "SUCCEEDED")
     \/ handler[Current(l)].pc = "rejected" /\ NoticeGoes(l, "done", "FAILED")
  /\ UNCHANGED <<store, claimed, login, handler, failures, history>>

(* Mutant: no count of the attempts.                                       *)
TryAgainForever(l) ==
  /\ notice[l].pc = "waiting"
  /\ NoticeGoes(l, "send", "none")
  /\ UNCHANGED <<store, claimed, login, handler, failures, history>>

(* Mutant: an error ends the attempts as a 4xx does.                       *)
GiveUp(l) ==
  /\ notice[l].pc = "waiting"
  /\ NoticeGoes(l, "done", "FAILED")
  /\ UNCHANGED <<store, claimed, login, handler, failures, history>>

(* The attempt throws (the timeout, a broken connection) or a proxy        *)
(* answers something else: the same token again, while attempts are left.  *)
TryAgain(l) ==
  /\ notice[l].pc = "waiting"
  /\ IF notice[l].attempt < Attempts THEN NoticeGoes(l, "send", "none")
                                     ELSE NoticeGoes(l, "done", "FAILED")
  /\ UNCHANGED <<store, claimed, login, handler, failures, history>>

(* The pod stops with the fan-out in memory.                               *)
NotifierDies(l) ==
  /\ notice[l].pc \in {"send", "waiting"} /\ failures < MaxFailures
  /\ NoticeGoes(l, "dead", "none")
  /\ failures' = failures + 1
  /\ UNCHANGED <<store, claimed, login, handler, history>>

-----------------------------------------------------------------------------
(* The back-channel endpoint, d = <<logout, attempt>>.                     *)
HandlerGoes(d, from, to) ==
  handler[d].pc = from /\ handler' = [handler EXCEPT ![d].pc = to]

(* The request never arrives.                                              *)
Lose(d) ==
  /\ failures < MaxFailures
  /\ HandlerGoes(d, "request", "lost")
  /\ failures' = failures + 1
  /\ UNCHANGED <<store, claimed, login, notice, history>>

(* Mutant: a token seen before is taken for a logout already done.         *)
ClaimOrOk(d) ==
  /\ HandlerGoes(d, "request", IF d[1] \in claimed THEN "ok" ELSE "read")
  /\ claimed' = claimed \cup {d[1]}
  /\ UNCHANGED <<store, login, notice, failures, history>>

(* verifyLogoutToken; its last step is SET NX in the replay store.         *)
Claim(d) ==
  /\ HandlerGoes(d, "request", IF d[1] \in claimed THEN "rejected" ELSE "read")
  /\ claimed' = claimed \cup {d[1]}
  /\ UNCHANGED <<store, login, notice, failures, history>>

(* The keys cannot be read, or the SET throws, done or not: 400 as well.   *)
Refuse(d) ==
  /\ failures < MaxFailures
  /\ HandlerGoes(d, "request", "rejected")
  /\ claimed' \in {claimed, claimed \cup {d[1]}}
  /\ failures' = failures + 1
  /\ broken' = broken \cup {d[1]}
  /\ UNCHANGED <<store, login, notice, before, during>>

(* destroyBySid: SMEMBERS, then one DEL of the sessions and the set.       *)
ReadSet(d) ==
  /\ handler[d].pc = "read"
  /\ LET pc == IF sidSet = {} THEN "forget" ELSE "del" IN
     handler' = [handler EXCEPT ![d] = [pc |-> pc, ids |-> sidSet]]
  /\ UNCHANGED <<store, claimed, login, notice, failures, history>>

DestroyedBy(d) == local' = local \ handler[d].ids /\ sidSet' = {}

Delete(d) ==
  /\ handler[d].pc = "del"
  /\ handler' = [handler EXCEPT ![d] = [pc |-> "forget", ids |-> {}]]
  /\ DestroyedBy(d)
  /\ UNCHANGED <<claimed, login, notice, failures, history>>

(* forget, then 200.                                                       *)
Forget(d) ==
  /\ HandlerGoes(d, "forget", "ok")
  /\ UNCHANGED <<store, claimed, login, notice, failures, history>>

(* A command throws, done or not, and the handler answers 400; or the      *)
(* application dies and answers nothing.                                   *)
Fail(d) ==
  /\ failures < MaxFailures
  /\ handler[d].pc \in {"read", "del", "forget"}
  /\ \E pc \in {"rejected", "lost"} :
       handler' = [handler EXCEPT ![d] = [pc |-> pc, ids |-> {}]]
  /\ \/ UNCHANGED store
     \/ handler[d].pc = "del" /\ DestroyedBy(d)
  /\ failures' = failures + 1
  /\ broken' = broken \cup {d[1]}
  /\ UNCHANGED <<claimed, login, notice, before, during>>

-----------------------------------------------------------------------------
Application(c) ==
  Create(c) \/ ReadForSignOut(c) \/ SignOut(c) \/ Expire(c)

Notifier(l) == Send(l) \/ Receive(l) \/ TryAgain(l)

Endpoint(d) == Claim(d) \/ ReadSet(d) \/ Delete(d) \/ Forget(d)

Next ==
  \/ \E c \in Callbacks : Application(c)
  \/ ExpireSet
  \/ \E l \in Logouts : Begin(l) \/ Notifier(l) \/ NotifierDies(l)
  \/ \E d \in Deliveries : Endpoint(d) \/ Lose(d) \/ Refuse(d) \/ Fail(d)

Spec == Init /\ [][Next]_vars

(* Timers fire and a live process serves what has arrived; nothing makes a *)
(* user sign in or out, a key expire or a message get lost.                *)
Fairness ==
  /\ \A l \in Logouts : WF_vars(Notifier(l))
  /\ \A d \in Deliveries : WF_vars(Endpoint(d))

FairSpec == Spec /\ Fairness

-----------------------------------------------------------------------------
(* The set leads to every local session of the sid, but for the ones that  *)
(* were created between SMEMBERS and DEL of destroyBySid: sign-outs,       *)
(* expiries and repeated logouts lose no other.                            *)
EverySessionIsIndexed == local \ sidSet \subseteq during

(* When Identity records a logout as SUCCEEDED the application has ended   *)
(* every local session there was when the token was made, whichever of the *)
(* attempts was answered and however the handlers of several logouts       *)
(* overlap, but for sessions created in the middle of a destroyBySid.      *)
SucceededLogoutEndsSessions ==
  \A l \in Logouts :
    notice[l].status = "SUCCEEDED" => before[l] \cap local \subseteq during

Undelivered(l) ==
  \/ notice[l].pc = "dead"
  \/ \A k \in 1..Attempts : handler[<<l, k>>].pc = "lost"

(* Once sent, a logout ends those sessions although requests, answers and  *)
(* time are lost, as long as one attempt arrives and no handler fails:     *)
(* that a retry carries a token already claimed does no harm.              *)
SentLogoutTakesEffect ==
  \A l \in Logouts :
    handler[<<l, 1>>].pc # "none"
      ~> \/ before[l] \cap local \subseteq during
         \/ l \in broken \/ Undelivered(l)

(* "Each application then destroys its own local sessions for the sid."    *)
NoSessionAfterLogout ==
  \A l \in Logouts : notice[l].status = "SUCCEEDED" => local = {}

=============================================================================
