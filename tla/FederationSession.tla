-------------------------- MODULE FederationSession --------------------------
(***************************************************************************)
(* What FederationSessionService and LogoutService promise of a session to *)
(* browsers and applications: it can be used from one moment to another    *)
(* and never again, assertions are issued for a session that has begun,    *)
(* and an application hears of the end of a session only when nobody can   *)
(* sign in with it any more.  Nothing is said of Redis and the database.   *)
(***************************************************************************)
CONSTANTS Sessions, Clients

VARIABLES phase,   \* phase[s]: not yet, open, or closed for good
          issued,  \* <<session, client>> of the assertions delivered
          told     \* <<session, client>> of the notifications

vars == <<phase, issued, told>>

Init ==
  /\ phase = [s \in Sessions |-> "absent"]
  /\ issued = {} /\ told = {}

Open(s) ==
  /\ phase[s] = "absent"
  /\ phase' = [phase EXCEPT ![s] = "open"]
  /\ UNCHANGED <<issued, told>>

(* Its end, or the end of a sign-in that comes to nothing.                 *)
Close(s) ==
  /\ phase[s] # "closed"
  /\ phase' = [phase EXCEPT ![s] = "closed"]
  /\ UNCHANGED <<issued, told>>

Issue(s, c) ==
  /\ phase[s] # "absent"
  /\ issued' = issued \cup {<<s, c>>}
  /\ UNCHANGED <<phase, told>>

Tell(s, clients) ==
  /\ phase[s] = "closed"
  /\ told' = told \cup ({s} \X clients)
  /\ UNCHANGED <<phase, issued>>

Next ==
  \E s \in Sessions :
    \/ Open(s) \/ Close(s)
    \/ \E c \in Clients : Issue(s, c)
    \/ \E clients \in SUBSET Clients : Tell(s, clients)

Spec == Init /\ [][Next]_vars
=============================================================================
