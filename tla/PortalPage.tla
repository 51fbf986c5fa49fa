------------------------------ MODULE PortalPage ------------------------------
(***************************************************************************)
(* The Core Portal in one browser: GET /portal, the portal half of its     *)
(* script (public/login.js), the five calls the script makes, and          *)
(* PortalLoginService behind them; beside them the administrator who sends *)
(* a scoped token to POST /federation/logout (FederationController).       *)
(*                                                                         *)
(* One tab is the portal; what other tabs of the browser do to its session *)
(* is SignInElsewhere and EndSession.  A call is a chain of steps and is   *)
(* answered in any order with the others; the answer that comes last has   *)
(* the screen.  The commands a step makes on a session or a transaction    *)
(* are taken together: FederationLogin and LoginTransactions have them one *)
(* by one.  Two equal calls under way are one (bound).  A page load n has  *)
(* its transaction; numbers of loads and of sessions are used again when   *)
(* nothing refers to them any more.                                        *)
(***************************************************************************)
EXTENDS Integers, FiniteSets

CONSTANTS Users, NoUser, Workspaces, NoWorkspace,
          Assignments,  \* what the users may hold at the start
          CoreRight,    \* the CORE workspaces whose role has the permission
          Disturbances, \* the kinds of disturbance there are, see Disturb
          MaxFailures,  \* bound: how many of them
          MaxSessions, MaxPages \* bounds: how many at a time

ASSUME UsersAssumption == NoUser \notin Users
ASSUME WorkspacesAssumption ==
  NoWorkspace \notin Workspaces /\ CoreRight \subseteq Workspaces
ASSUME AssignmentsAssumption ==
  Assignments \subseteq [Users -> SUBSET Workspaces]
ASSUME BoundsAssumption ==
  {MaxFailures, MaxSessions, MaxPages} \subseteq Nat /\ MaxSessions # 0

VARIABLES
  held,     \* held[u]: the assignments of u in the Authorization service
  owner,    \* whose federation session s is, NoUser when there is none
  cookie,   \* session of the browser's cookie, 0 for none
  txn,      \* txn[n]: the transaction of page load n
  page,     \* what the script has on screen and in its variables
  calls,    \* requests of the script under way
  admin,    \* the administrator's request
  failures

identity == <<held, owner, txn, admin>>
vars == <<identity, cookie, page, calls, failures>>

Sessions == 1..MaxSessions
Loads == 1..MaxPages
Keep == -1  \* the answer does not set the cookie
Kinds == {"login", "assignments", "select", "apps", "logout", "everywhere"}
Views == {"none", "opening", "signIn", "signingIn", "workspaces", "selecting",
          "loading", "apps", "expired", "error"}
Replies == {"", "ok", "session", "transaction", "csrf", "refused"}

(* listed is the script's list of workspaces, offered the one on screen;   *)
(* wsUser, appsUser and mixed are histories: for whom the workspace became *)
(* active, for whom the applications were listed, and whether the browser  *)
(* changed hands while the calls for them were under way.                  *)
Page == [n : Loads \cup {0}, view : Views, user : Users \cup {NoUser},
         listed : SUBSET Workspaces, offered : SUBSET Workspaces,
         ws : Workspaces \cup {NoWorkspace}, wsUser : Users \cup {NoUser},
         appsUser : Users \cup {NoUser}, mixed : BOOLEAN]

(* sid is the cookie sent, then the session made; shown is the user on     *)
(* screen when the call was made (see Chooser), changed whether the browser*)
(* changed hands since: histories.                                         *)
Call == [kind : Kinds, n : Loads, sid : Sessions \cup {0},
         at : {"sent", "established", "listing", "resolving", "answered"},
         user : Users \cup {NoUser}, list : SUBSET Workspaces,
         ws : Workspaces \cup {NoWorkspace}, reply : Replies,
         cookie : Sessions \cup {0, Keep}, shown : Users \cup {NoUser},
         changed : BOOLEAN]

(* late: the page was opened in the last second of the session (history).  *)
Txn == [status : {"none", "PENDING", "COMPLETED"}, sid : Sessions \cup {0},
        late : BOOLEAN]

(* during is what the administrator held since the request came (history). *)
Admin == [at : {"none", "sent", "allowed"},
          user : Users \cup {NoUser}, ws : Workspaces \cup {NoWorkspace},
          during : SUBSET Workspaces]

NoAdmin == [at |-> "none", user |-> NoUser, ws |-> NoWorkspace, during |-> {}]
NoTxn == [status |-> "none", sid |-> 0, late |-> FALSE]
Blank == [n |-> 0, view |-> "none", user |-> NoUser, listed |-> {},
          offered |-> {}, ws |-> NoWorkspace, wsUser |-> NoUser,
          appsUser |-> NoUser, mixed |-> FALSE]

(* The browser may have signed in before, in an application.               *)
Init ==
  /\ held \in Assignments
  /\ \E s \in {0, 1}, u \in Users :
       cookie = s /\ owner = [r \in Sessions |-> IF r = s THEN u ELSE NoUser]
  /\ txn = [n \in Loads |-> NoTxn]
  /\ page = Blank /\ calls = {}
  /\ admin = NoAdmin
  /\ failures = 0

(* A disturbance: something that need not happen, and the runs bound how   *)
(* often it does.                                                          *)
Disturb(kind) ==
  kind \in Disturbances /\ failures < MaxFailures /\ failures' = failures + 1
Calm == UNCHANGED failures

UserOf(s) == IF s = 0 THEN NoUser ELSE owner[s]
Ended(some) == [s \in Sessions |-> IF s \in some THEN NoUser ELSE owner[s]]

LoadsInUse == ({page.n} \cup {c.n : c \in calls}) \ {0}

(* A random sid: nothing that is still there refers to it.                 *)
InUse == {s \in Sessions : owner[s] # NoUser} \cup {cookie}
           \cup {c.sid : c \in calls} \cup {txn[n].sid : n \in LoadsInUse}
Fresh(s) == s \notin InUse /\ \A r \in 1..(s - 1) : r \in InUse

(* The browser is somebody else's, or nobody's, for the calls under way.   *)
Changed(some) ==
  {IF c.kind \in {"login", "select", "apps"} THEN [c EXCEPT !.changed = TRUE]
   ELSE c : c \in some}

-----------------------------------------------------------------------------
(* The script.                                                             *)

(* api(), getJson() and the fetch() of showApplications.                   *)
Request(kind, n, sid, user, ws, shown, changed) ==
  [kind |-> kind, n |-> n, sid |-> sid, at |-> "sent", user |-> user,
   list |-> {}, ws |-> ws, reply |-> "", cookie |-> Keep, shown |-> shown,
   changed |-> changed]

Ask(kind, user, ws, shown) ==
  calls' = calls \cup {Request(kind, page.n, cookie, user, ws, shown, FALSE)}

(* GET /portal: a new transaction, bound at once to the session there is   *)
(* (not when less than a second of it is left), and the page with it.  Of  *)
(* the calls of the page before, those go on to matter that set the cookie.*)
Open(n, late, some, jar) ==
  LET user == UserOf(jar)
      left == {c \in some : c.kind \in {"login", "logout", "everywhere"}}
      inUse == {c.n : c \in left} IN
  /\ n \notin inUse /\ \A m \in 1..(n - 1) : m \in inUse
  /\ late => user # NoUser
  /\ txn' = [m \in Loads |->
       IF m = n
       THEN [status |-> "PENDING", late |-> late,
             sid |-> IF user = NoUser \/ late THEN 0 ELSE jar]
       ELSE IF m \in inUse THEN txn[m] ELSE NoTxn]
  /\ page' = [Blank EXCEPT !.n = n, !.user = user,
                !.view = IF user = NoUser THEN "signIn" ELSE "opening"]
  /\ calls' = left \cup
       IF user = NoUser THEN {}
       ELSE {Request("assignments", n, jar, NoUser, NoWorkspace, NoUser, FALSE)}
  /\ UNCHANGED <<held, owner, admin>>

(* The first load, "Start again", or the browser's own reload of an error. *)
Load(late) ==
  /\ page.view \in {"none", "expired", "error"}
  /\ \E n \in Loads : Open(n, late, calls, cookie)
  /\ UNCHANGED cookie

(* The form; who fills it in is the user's choice.                         *)
Submit ==
  /\ page.view = "signIn"
  /\ page' = [page EXCEPT !.view = "signingIn"]
  /\ \E u \in Users : Ask("login", u, NoWorkspace, NoUser)
  /\ UNCHANGED <<identity, cookie>>

(* On whose screen a workspace is chosen (history); NoUser if the page was *)
(* opened in the last second of a session, its transaction bound to nobody.*)
Chooser(user) == IF txn[page.n].late THEN NoUser ELSE user

(* selectWorkspace from the list on screen.                                *)
Pick(w) ==
  /\ page.view = "workspaces" /\ w \in page.offered
  /\ page' = [page EXCEPT !.view = "selecting"]
  /\ Ask("select", NoUser, w, Chooser(page.user))
  /\ UNCHANGED <<identity, cookie>>

(* showWorkspaces.  Without an identity identityCard throws and the screen *)
(* stays as it was.                                                        *)
WorkspacesShown(p) ==
  IF p.user = NoUser THEN p
  ELSE [p EXCEPT !.view = "workspaces", !.offered = p.listed]

(* "Switch workspace": the list is the one the script has.                 *)
SwitchWorkspace ==
  /\ page.view = "apps" /\ page.offered # {}
  /\ page' = WorkspacesShown(page)
  /\ UNCHANGED <<identity, cookie, calls>>

(* switchAccount, "Back to sign in": at once the script forgets the        *)
(* workspaces; the screen follows when the call is answered.               *)
SwitchAccount ==
  /\ page.view \in {"workspaces", "selecting", "apps"}
  /\ page' = [page EXCEPT !.listed = {}, !.ws = NoWorkspace]
  /\ Ask("logout", NoUser, NoWorkspace, NoUser)
  /\ UNCHANGED <<identity, cookie>>

SignOutEverywhere ==
  /\ page.view = "apps"
  /\ Ask("everywhere", NoUser, NoWorkspace, NoUser)
  /\ UNCHANGED <<identity, cookie, page>>

-----------------------------------------------------------------------------
(* The server.  Step(c, d): the request c becomes d.                       *)
Step(c, d) == calls' = (calls \ {c}) \cup {d}
Reply(c, reply) == Step(c, [c EXCEPT !.at = "answered", !.reply = reply])

(* loginWithPassword with the right password: requirePending, then the     *)
(* session of the cookie is ended and a new one made, ...                  *)
Establish(c) ==
  /\ c.kind = "login" /\ c.at = "sent"
  /\ IF txn[c.n].status # "PENDING"
     THEN Reply(c, "transaction") /\ UNCHANGED owner
     ELSE \E s \in Sessions :
       /\ Fresh(s)
       /\ owner' = [Ended({c.sid}) EXCEPT ![s] = c.user]
       /\ calls' = Changed(calls \ {c}) \cup
                     {[c EXCEPT !.at = "established", !.sid = s]}
  /\ UNCHANGED <<held, txn, admin, cookie, page>>

(* ... the transaction completed and bound to it.  From here on every      *)
(* answer, an error too, sets the cookie.                                  *)
CompleteAndBind(c) ==
  /\ c.at = "established"
  /\ IF txn[c.n].status # "PENDING"
     THEN Reply(c, "transaction") /\ UNCHANGED txn
     ELSE /\ txn' = [txn EXCEPT ![c.n] =
               [status |-> "COMPLETED", sid |-> c.sid, late |-> FALSE]]
          /\ Step(c, [c EXCEPT !.at = "listing", !.cookie = c.sid])
  /\ UNCHANGED <<held, owner, admin, cookie, page>>

(* GET /portal/assignments: getByHandle.                                   *)
ReadSession(c) ==
  /\ c.kind = "assignments" /\ c.at = "sent"
  /\ IF UserOf(c.sid) = NoUser
     THEN Reply(c, "session")
     ELSE Step(c, [c EXCEPT !.at = "listing", !.user = UserOf(c.sid)])
  /\ UNCHANGED <<identity, cookie, page>>

(* getAssignments.  A sign-in with one workspace goes on to activate it.   *)
List(c) ==
  LET list == held[c.user] IN
  /\ c.at = "listing"
  /\ \/ /\ c.kind = "login" /\ Cardinality(list) = 1
        /\ \E w \in list : Step(c, [c EXCEPT !.at = "resolving", !.list = list,
                                             !.ws = w])
     \/ /\ ~(c.kind = "login" /\ Cardinality(list) = 1)
        /\ Step(c, [c EXCEPT !.at = "answered", !.reply = "ok", !.list = list])
  /\ UNCHANGED <<identity, cookie, page>>

(* Mutant: the transaction is bound anew to whoever selects.               *)
NeverRefused(n, sid) == FALSE

(* bindToSession without overwrite: the bound session, or the first one.   *)
BindRefused(n, sid) == txn[n].sid \notin {0, sid}

(* selectScope up to activate.                                             *)
SelectScope(c) ==
  LET user == UserOf(c.sid) IN
  /\ c.kind = "select" /\ c.at = "sent"
  /\ CASE txn[c.n].status = "none" -> Reply(c, "csrf") /\ UNCHANGED txn
       [] txn[c.n].status # "none" /\ user = NoUser ->
            Reply(c, "session") /\ UNCHANGED txn
       [] /\ txn[c.n].status # "none" /\ user # NoUser
          /\ BindRefused(c.n, c.sid) ->
            Reply(c, "csrf") /\ UNCHANGED txn
       [] OTHER ->
            /\ txn' = [txn EXCEPT ![c.n].sid = c.sid]
            /\ Step(c, [c EXCEPT !.at = "resolving", !.user = user])
  /\ UNCHANGED <<held, owner, admin, cookie, page>>

(* activate: resolveAssignment, and a token with the scope if it is held.  *)
Activate(c) ==
  /\ c.at = "resolving"
  /\ Reply(c, IF c.ws \in held[c.user] THEN "ok" ELSE "refused")
  /\ UNCHANGED <<identity, cookie, page>>

(* GET /portal/applications.                                               *)
Applications(c) ==
  /\ c.kind = "apps" /\ c.at = "sent"
  /\ IF UserOf(c.sid) = NoUser
     THEN Reply(c, "session")
     ELSE Step(c, [c EXCEPT !.at = "answered", !.reply = "ok",
                           !.user = UserOf(c.sid)])
  /\ UNCHANGED <<identity, cookie, page>>

(* signOut with either scope ends the session of the cookie and clears it. *)
SignOut(c) ==
  /\ c.kind \in {"logout", "everywhere"} /\ c.at = "sent"
  /\ IF txn[c.n].status = "none"
     THEN Reply(c, "refused") /\ UNCHANGED owner
     ELSE /\ owner' = Ended({c.sid})
          /\ calls' = Changed(calls \ {c}) \cup
               {[c EXCEPT !.at = "answered", !.reply = "ok", !.cookie = 0]}
  /\ UNCHANGED <<held, txn, admin, cookie, page>>

(* A wrong password, the throttle, a dependency that is down.              *)
Refuse(c) ==
  /\ c.at # "answered"
  /\ Reply(c, "refused")
  /\ UNCHANGED <<identity, cookie, page>>

Serve(c) ==
  \/ Establish(c) \/ CompleteAndBind(c) \/ ReadSession(c) \/ List(c)
  \/ SelectScope(c) \/ Activate(c) \/ Applications(c) \/ SignOut(c)

-----------------------------------------------------------------------------
(* The answers, as the script takes them: r is the answer as it arrives,   *)
(* some the calls that are still under way, jar the cookie from then on.   *)
Show(p, view) == page' = [p EXCEPT !.view = view]
SignedOut(p) == page' = [p EXCEPT !.view = "signIn", !.user = NoUser]

(* Mutant: an answer without a workspace leaves the old one active.        *)
ActivatesOrKeeps(p, r) ==
  IF r.ws = NoWorkspace THEN [p EXCEPT !.mixed = r.changed]
  ELSE [p EXCEPT !.ws = r.ws, !.mixed = r.changed, !.wsUser = r.user]

(* showApplications: the spinner and the request.                          *)
ShowApplications(p, r, some, jar) ==
  /\ Show(p, "loading")
  /\ calls' = some \cup {Request("apps", p.n, jar, NoUser, NoWorkspace,
                                 NoUser, r.changed)}

Activates(p, r) ==
  [p EXCEPT !.ws = r.ws, !.mixed = r.changed,
            !.wsUser = IF r.ws = NoWorkspace THEN NoUser ELSE r.user]

(* Mutant: the form once more when the transaction is used or gone.        *)
LoginTriesAgain(r, some, jar) ==
  LET p == [Activates(page, r) EXCEPT !.user = r.user, !.listed = r.list]
      choice == r.ws = NoWorkspace /\ Cardinality(r.list) >= 2 IN
  CASE r.reply = "ok" /\ choice ->
         /\ page' = [p EXCEPT !.view = "workspaces", !.offered = r.list]
         /\ calls' = some
    [] r.reply = "ok" /\ ~choice -> ShowApplications(p, r, some, jar)
    [] OTHER -> Show(page, "signIn") /\ calls' = some

LoginAnswered(r, some, jar) ==
  LET p == [Activates(page, r) EXCEPT !.user = r.user, !.listed = r.list]
      choice == r.ws = NoWorkspace /\ Cardinality(r.list) >= 2 IN
  CASE r.reply = "ok" /\ choice ->
         /\ page' = [p EXCEPT !.view = "workspaces", !.offered = r.list]
         /\ calls' = some
    [] r.reply = "ok" /\ ~choice -> ShowApplications(p, r, some, jar)
    [] r.reply = "transaction" -> Show(page, "expired") /\ calls' = some
    [] OTHER -> Show(page, "signIn") /\ calls' = some

(* startPortal: a single workspace is selected at once.                    *)
AssignmentsAnswered(r, some, jar) ==
  LET p == [page EXCEPT !.user = r.user, !.listed = r.list] IN
  CASE r.reply = "ok" /\ r.list = {} -> ShowApplications(p, r, some, jar)
    [] r.reply = "ok" /\ Cardinality(r.list) = 1 ->
         /\ page' = p
         /\ \E w \in r.list : calls' = some \cup
              {Request("select", p.n, jar, NoUser, w, Chooser(r.user), FALSE)}
    [] r.reply = "ok" /\ Cardinality(r.list) >= 2 ->
         page' = WorkspacesShown(p) /\ calls' = some
    [] r.reply = "session" -> SignedOut(page) /\ calls' = some
    [] OTHER -> Show(page, "error") /\ calls' = some

(* Mutant: a refusal leaves the screen as it is.                           *)
SelectIgnoresRefusal(r, some, jar) ==
  CASE r.reply = "ok" -> ShowApplications(Activates(page, r), r, some, jar)
    [] r.reply = "session" -> SignedOut(page) /\ calls' = some
    [] r.reply = "csrf" -> Show(page, "expired") /\ calls' = some
    [] OTHER -> UNCHANGED page /\ calls' = some

SelectAnswered(r, some, jar) ==
  CASE r.reply = "ok" ->
         ShowApplications(Activates(page, r), r, some, jar)
    [] r.reply = "session" -> SignedOut(page) /\ calls' = some
    [] r.reply = "csrf" -> Show(page, "expired") /\ calls' = some
    [] OTHER -> page' = WorkspacesShown(page) /\ calls' = some

AppsAnswered(r, some) ==
  /\ CASE r.reply = "ok" ->
            page' = [page EXCEPT !.view = "apps", !.appsUser = r.user,
              !.mixed = @ \/ r.changed,
              !.offered =
                IF page.ws # NoWorkspace /\ Cardinality(page.listed) > 1
                THEN page.listed ELSE {}]
       [] r.reply = "session" -> SignedOut(page)
       [] OTHER -> Show(page, "error")
  /\ calls' = some

React(r, some, jar) ==
  \/ r.kind = "login" /\ LoginAnswered(r, some, jar)
  \/ r.kind = "assignments" /\ AssignmentsAnswered(r, some, jar)
  \/ r.kind = "select" /\ SelectAnswered(r, some, jar)
  \/ r.kind = "apps" /\ AppsAnswered(r, some)
  \/ r.kind = "logout" /\ SignedOut(page) /\ calls' = some

(* The page that sent c is on screen and hears r.                          *)
Arrives(c, r) ==
  LET jar == IF r.cookie = Keep THEN cookie ELSE r.cookie
      others == calls \ {c}
      some == IF jar = cookie THEN others ELSE Changed(others) IN
  /\ c.n = page.n
  /\ cookie' = jar
  /\ \/ React(r, some, jar) /\ UNCHANGED identity
     \/ r.kind = "everywhere" /\ \E n \in Loads : Open(n, FALSE, some, jar)

Receive(c) == c.at = "answered" /\ Arrives(c, c)

(* The request or its answer is lost: fetch() rejects.                     *)
Lose(c) ==
  /\ c.at \in {"sent", "answered"}
  /\ Arrives(c, [c EXCEPT !.reply = "refused", !.cookie = Keep])

(* The body of the answer is lost: an empty object, whose empty identity   *)
(* counts as none; for showApplications an error.                          *)
Garble(c) ==
  /\ c.at = "answered"
  /\ Arrives(c, IF c.reply = "ok" /\ c.kind # "apps"
                THEN [c EXCEPT !.user = NoUser, !.list = {}, !.ws = NoWorkspace]
                ELSE [c EXCEPT !.reply = "refused"])

(* The page has gone: its cookie may be taken all the same.                *)
ReceiveNowhere(c) ==
  /\ c.at = "answered" /\ c.n # page.n
  /\ cookie' \in {cookie, IF c.cookie = Keep THEN cookie ELSE c.cookie}
  /\ calls' = IF cookie' = cookie THEN calls \ {c} ELSE Changed(calls \ {c})
  /\ UNCHANGED <<identity, page>>

-----------------------------------------------------------------------------
(* The rest of the world.                                                  *)

(* Another tab of the browser signs in.                                    *)
SignInElsewhere ==
  /\ \E s \in Sessions, u \in Users :
       /\ Fresh(s)
       /\ owner' = [Ended({cookie}) EXCEPT ![s] = u]
       /\ cookie' = s
  /\ calls' = Changed(calls)
  /\ UNCHANGED <<held, txn, admin, page>>

(* A session ends elsewhere, by a logout or its TTL.                       *)
EndSession(s) ==
  /\ owner[s] # NoUser
  /\ owner' = Ended({s})
  /\ calls' = Changed(calls)
  /\ UNCHANGED <<held, txn, admin, cookie, page>>

(* Mutant: an expired transaction stays, in a status nobody knows.         *)
MarkExpired(n) ==
  /\ txn[n].status # "none"
  /\ txn' = [txn EXCEPT ![n].status = "EXPIRED"]
  /\ UNCHANGED <<held, owner, admin, cookie, page, calls>>

(* Redis expires a transaction.                                            *)
ExpireTransaction(n) ==
  /\ txn[n].status # "none"
  /\ txn' = [txn EXCEPT ![n] = NoTxn]
  /\ UNCHANGED <<held, owner, admin, cookie, page, calls>>

(* The Authorization service gives or takes an assignment.                 *)
Reassign(u, w) ==
  LET now == [held EXCEPT ![u] = (@ \ {w}) \cup ({w} \ @)] IN
  /\ held' = now
  /\ admin' = IF admin.at = "sent" /\ admin.user = u
              THEN [admin EXCEPT !.during = @ \cup now[u]] ELSE admin
  /\ UNCHANGED <<owner, txn, cookie, page, calls>>

(* POST /federation/logout with a token that activate() issued at some     *)
(* time, for this service, to someone who then held the workspace: it is   *)
(* verified, with its own word for the workspace, ...                      *)
ForceLogout ==
  /\ admin.at = "none"
  /\ \E u \in Users, w \in Workspaces :
       admin' = [at |-> "sent", user |-> u, ws |-> w, during |-> held[u]]
  /\ UNCHANGED <<held, owner, txn, cookie, page, calls>>

(* Mutant: the token's word is enough.                                     *)
ClaimsRight == admin.ws \in CoreRight

(* ... the workspace is resolved again, must be CORE and have the right,   *)
MayAct == admin.ws \in held[admin.user] /\ admin.ws \in CoreRight
RequireCoreAdmin ==
  /\ admin.at = "sent"
  /\ admin' = IF MayAct THEN [admin EXCEPT !.at = "allowed"] ELSE NoAdmin
  /\ UNCHANGED <<held, owner, txn, cookie, page, calls>>

(* ... and every session of the user named is ended.                       *)
LogoutUser ==
  /\ admin.at = "allowed"
  /\ admin' = NoAdmin
  /\ \E u \in Users : owner' = Ended({s \in Sessions : owner[s] = u})
  /\ calls' = Changed(calls)
  /\ UNCHANGED <<held, txn, cookie, page>>

-----------------------------------------------------------------------------
Next ==
  \/ /\ \/ Load(FALSE) \/ Submit \/ \E w \in Workspaces : Pick(w)
        \/ \E c \in calls : Serve(c) \/ Receive(c) \/ ReceiveNowhere(c)
        \/ RequireCoreAdmin \/ LogoutUser
     /\ Calm
  \/ Disturb("wander")
     /\ (SwitchWorkspace \/ SwitchAccount \/ SignOutEverywhere)
  \/ Disturb("refused") /\ \E c \in calls : Refuse(c)
  \/ Disturb("lost") /\ \E c \in calls : Lose(c) \/ Garble(c)
  \/ Disturb("elsewhere") /\ SignInElsewhere
  \/ Disturb("ended") /\ \E s \in Sessions : EndSession(s)
  \/ Disturb("expired") /\ \E n \in Loads : ExpireTransaction(n)
  \/ Disturb("late") /\ Load(TRUE)
  \/ Disturb("reassigned") /\ \E u \in Users, w \in Workspaces : Reassign(u, w)
  \/ Disturb("admin") /\ ForceLogout

(* Requests are served and answered; a user who wants the applications     *)
(* fills in the form, tries every workspace on offer and loads a page anew *)
(* that has failed.  No disturbance is owed to anybody.                    *)
Fairness ==
  /\ \A k \in Kinds :
       WF_vars(\E c \in calls : c.kind = k /\ (Serve(c) \/ Receive(c)) /\ Calm)
  /\ WF_vars(Submit /\ Calm)
  /\ WF_vars(Load(FALSE) /\ Calm)
  /\ \A w \in Workspaces : SF_vars(Pick(w) /\ Calm)

Spec == Init /\ [][Next]_vars /\ Fairness

-----------------------------------------------------------------------------
(* Type invariant.                                                         *)
TypeOK ==
  /\ held \in [Users -> SUBSET Workspaces]
  /\ owner \in [Sessions -> Users \cup {NoUser}]
  /\ cookie \in Sessions \cup {0}
  /\ txn \in [Loads -> Txn]
  /\ page \in Page /\ calls \subseteq Call
  /\ admin \in Admin
  /\ failures \in 0..MaxFailures

(* A workspace is activated for the user whose list of workspaces was on   *)
(* screen when it was chosen, whoever has signed in in another tab since:  *)
(* the page's transaction serves the session that its page was opened for  *)
(* or that signed in through it.  Except on a page opened in the last      *)
(* second of a session, whose transaction is bound to nobody.              *)
SelectionIsOfTheUserShown ==
  \A c \in calls :
    c.kind = "select" /\ c.reply = "ok" /\ c.shown # NoUser => c.user = c.shown

(* The applications on screen and the active workspace above them are of   *)
(* one user, unless the browser changed hands, or its session ended, while *)
(* the page was asking for the one or the other.                           *)
WorkspaceAndApplicationsAreOfOneUser ==
  page.view = "apps" /\ page.ws # NoWorkspace /\ ~page.mixed
    => page.wsUser = page.appsUser

(* An administrator acts only with a right held at some moment since the   *)
(* request came, however long ago the token was issued.                    *)
AdministratorHeldTheRight ==
  admin.at = "allowed" => admin.ws \in CoreRight \cap admin.during

(* Whatever the order of the answers, a page that shows a spinner has a    *)
(* request under way that will replace it.                                 *)
Awaits(kinds) == \E c \in calls : c.n = page.n /\ c.kind \in kinds
EverySpinnerAwaitsAnAnswer ==
  CASE page.view = "opening" -> Awaits({"assignments", "select"})
    [] page.view = "signingIn" -> Awaits({"login"})
    [] page.view = "selecting" -> Awaits({"select"})
    [] page.view = "loading" -> Awaits({"apps"})
    [] OTHER -> TRUE

(* A user who goes on gets to the applications, after whatever disturbed   *)
(* it, except with a list on screen of which nothing is held any more:     *)
(* neither a refusal nor "Switch workspace" reads it anew.                 *)
ListIsStale ==
  /\ page.view \in {"workspaces", "selecting"}
  /\ page.offered \cap held[page.user] = {}
PortalOpens == <>[](page.view = "apps" \/ ListIsStale)
=============================================================================
