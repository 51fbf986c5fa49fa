--------------------------- MODULE PortalPageProofs ---------------------------
(***************************************************************************)
(* Proofs about PortalPage, for any users, workspaces and assignments, and *)
(* any number of disturbances: its types, with which rights scopes are     *)
(* given, that no spinner waits for nothing, and whose workspaces and      *)
(* applications are on screen.                                             *)
(***************************************************************************)
EXTENDS PortalPage, FiniteSetTheorems, TLAPS

-----------------------------------------------------------------------------
(* Rights.  A call knows its user as soon as something is asked for them,  *)
(* and while a workspace is resolved everything held is in its history.    *)
Succeeded(c) == c.at = "answered" /\ c.reply = "ok"
UserKnown(c) ==
  /\ c.reply = "ok" => c.at = "answered"
  /\ c.kind = "login" \/ c.at \in {"listing", "resolving"} => c.user \in Users
  /\ c.kind \in {"assignments", "select", "apps"} /\ Succeeded(c)
       => c.user \in Users
  /\ c.at = "established" => c.kind = "login"
  /\ c.at = "listing" => c.kind \in {"login", "assignments"}
  /\ c.at = "resolving" => c.kind \in {"login", "select"}
AdminOK ==
  /\ admin.at # "none" => admin.user \in Users
  /\ admin.at = "sent" => held[admin.user] \subseteq admin.during
RightsInv ==
  /\ \A c \in calls : UserKnown(c)
  /\ AdminOK /\ AdministratorHeldTheRight

-----------------------------------------------------------------------------
(* The screen.  While the portal opens, the page has one call under way,   *)
(* and the list of workspaces is somebody's.                               *)
OnPage(c) == c.n = page.n
ScreenInv ==
  /\ EverySpinnerAwaitsAnAnswer
  /\ page.view \in {"opening", "workspaces", "selecting"} => page.user # NoUser
  /\ page.view = "none" <=> page.n = 0
  /\ page.view = "opening" =>
       /\ page.ws = NoWorkspace
       /\ \A c, d \in calls : OnPage(c) /\ OnPage(d) => c = d
  /\ \A c \in calls :
       c.kind = "assignments" => OnPage(c) /\ page.view = "opening"

-----------------------------------------------------------------------------
(* Sessions.  A session under way belongs to whom it was made for or to    *)
(* nobody any more; one that is not yet bound is known to its call alone.  *)
Of(s, user) == s # 0 /\ owner[s] \in {user, NoUser}
There(n) == txn[n].status # "none"
CookieOK(c) ==
  /\ c.cookie \in {Keep, 0, c.sid}
  /\ c.at \in {"sent", "established"} => c.cookie = Keep
  /\ c.kind = "login" /\ (c.at \in {"listing", "resolving"} \/ Succeeded(c))
       => c.cookie = c.sid /\ c.sid # 0
  /\ c.kind \in {"assignments", "select", "apps"} => c.cookie = Keep
Unbound(c) ==
  c.at = "established" =>
    /\ c.sid # cookie /\ Of(c.sid, c.user)
    /\ \A d \in calls : d # c => d.sid # c.sid
    /\ \A d \in calls : txn[d.n].sid # c.sid
    /\ page.n # 0 => txn[page.n].sid # c.sid
SignedInBy(c) ==
  c.kind = "login" /\ (c.at \in {"listing", "resolving"} \/ Succeeded(c)) =>
    /\ Of(c.sid, c.user)
    /\ There(c.n) =>
         txn[c.n].status = "COMPLETED" /\ txn[c.n].sid = c.sid /\ ~txn[c.n].late
ListedFor(c) ==
  c.kind = "assignments" =>
    /\ c.sid # 0
    /\ There(c.n) /\ ~txn[c.n].late => txn[c.n].sid = c.sid
    /\ c.at = "listing" \/ Succeeded(c) => Of(c.sid, c.user)
(* A selection is of the session its page is bound to, or will be refused. *)
SelectedFor(c) ==
  c.kind = "select" /\ c.shown # NoUser =>
    /\ c.at = "sent" /\ There(c.n) =>
         txn[c.n].sid # 0 /\ (txn[c.n].sid = c.sid => Of(c.sid, c.shown))
    /\ c.at = "resolving" \/ Succeeded(c) => c.user = c.shown
SigningIn ==
  \/ page.view \in {"signIn", "signingIn"}
  \/ \E c \in calls : c.kind = "login" /\ OnPage(c)
(* The page's transaction serves the user on screen; until somebody signs  *)
(* in through it nobody is.                                                *)
BoundToShown ==
  page.n # 0 /\ There(page.n) =>
    /\ page.user # NoUser /\ ~txn[page.n].late
         => Of(txn[page.n].sid, page.user)
    /\ txn[page.n].status = "PENDING" /\ SigningIn => page.user = NoUser
SessionsInv ==
  /\ \A c \in calls : /\ CookieOK(c) /\ Unbound(c) /\ SignedInBy(c)
                      /\ ListedFor(c) /\ SelectedFor(c)
  /\ BoundToShown

-----------------------------------------------------------------------------
(* Hands.  Until the browser changes hands a call is of its cookie.        *)
SameHands(c) ==
  ~c.changed =>
    /\ c.kind \in {"select", "apps"} =>
         /\ c.sid = cookie
         /\ c.at = "resolving" \/ Succeeded(c) => c.user = UserOf(cookie)
    /\ c.kind = "login"
       /\ (c.at \in {"established", "listing", "resolving"} \/ Succeeded(c))
         => c.sid # 0 /\ c.user = UserOf(c.sid)
HandsInv ==
  /\ \A c \in calls : SameHands(c)
  /\ page.ws # NoWorkspace /\ ~page.mixed
     /\ (\E c \in calls : c.kind = "apps" /\ OnPage(c) /\ ~c.changed)
       => page.wsUser = UserOf(cookie)
  /\ WorkspaceAndApplicationsAreOfOneUser

-----------------------------------------------------------------------------
(* Types.                                                                  *)
LEMMA SessionFacts == 0 \notin Sessions /\ Keep \notin Sessions /\ Keep # 0
                      /\ 0 \notin Loads
  BY BoundsAssumption DEF Sessions, Loads, Keep

LEMMA RequestType ==
  ASSUME NEW kind \in Kinds, NEW n \in Loads, NEW sid \in Sessions \cup {0},
         NEW user \in Users \cup {NoUser},
         NEW ws \in Workspaces \cup {NoWorkspace},
         NEW shown \in Users \cup {NoUser}, NEW changed \in BOOLEAN
  PROVE  Request(kind, n, sid, user, ws, shown, changed) \in Call
  <1>1. {} \in SUBSET Workspaces
    OBVIOUS
  <1> QED
    BY <1>1 DEF Request, Call, Replies

LEMMA ChangedFacts ==
  ASSUME NEW some \in SUBSET Call
  PROVE  /\ Changed(some) \subseteq Call
         /\ \A d \in Changed(some) : \E c \in some :
              \/ d = [c EXCEPT !.changed = TRUE]
                 /\ c.kind \in {"login", "select", "apps"}
              \/ d = c /\ c.kind \notin {"login", "select", "apps"}
  <1>1. \A d \in Changed(some) : \E c \in some :
          \/ d = [c EXCEPT !.changed = TRUE]
             /\ c.kind \in {"login", "select", "apps"}
          \/ d = c /\ c.kind \notin {"login", "select", "apps"}
    BY Zenon DEF Changed
  <1>2. \A c \in Call : [c EXCEPT !.changed = TRUE] \in Call
    BY DEF Call
  <1> QED
    BY <1>1, <1>2

LEMMA UserOfType ==
  ASSUME TypeOK, NEW s \in Sessions \cup {0}
  PROVE  UserOf(s) \in Users \cup {NoUser}
  BY DEF UserOf, TypeOK

LEMMA EndedType ==
  ASSUME TypeOK, NEW some
  PROVE  Ended(some) \in [Sessions -> Users \cup {NoUser}]
  BY DEF Ended, TypeOK

LEMMA PageFacts ==
  ASSUME TypeOK
  PROVE  /\ page.n \in Loads \cup {0} /\ page.view \in Views
         /\ page.user \in Users \cup {NoUser}
         /\ page.listed \subseteq Workspaces /\ page.offered \subseteq Workspaces
         /\ page.ws \in Workspaces \cup {NoWorkspace}
         /\ page.wsUser \in Users \cup {NoUser}
         /\ page.appsUser \in Users \cup {NoUser} /\ page.mixed \in BOOLEAN
  BY DEF TypeOK, Page

LEMMA CallFacts ==
  ASSUME TypeOK, NEW c \in calls
  PROVE  /\ c \in Call /\ c.kind \in Kinds /\ c.n \in Loads
         /\ c.sid \in Sessions \cup {0}
         /\ c.at \in {"sent", "established", "listing", "resolving", "answered"}
         /\ c.user \in Users \cup {NoUser} /\ c.list \subseteq Workspaces
         /\ c.ws \in Workspaces \cup {NoWorkspace} /\ c.reply \in Replies
         /\ c.cookie \in Sessions \cup {0, Keep}
         /\ c.shown \in Users \cup {NoUser}
         /\ c.changed \in BOOLEAN
  BY DEF TypeOK, Call

LEMMA InitType == Init => TypeOK
  <1> SUFFICES ASSUME Init PROVE TypeOK
    OBVIOUS
  <1>1. NoTxn \in Txn /\ Blank \in Page /\ NoAdmin \in Admin
    <2>1. {} \in SUBSET Workspaces
      OBVIOUS
    <2> QED
      BY <2>1 DEF NoTxn, Txn, Blank, Page, NoAdmin, Admin, Views
  <1>2. owner \in [Sessions -> Users \cup {NoUser}] /\ cookie \in Sessions \cup {0}
    BY BoundsAssumption DEF Init, Sessions
  <1> QED
    BY <1>1, <1>2, AssignmentsAssumption, BoundsAssumption DEF Init, TypeOK

LEMMA StepType ==
  ASSUME TypeOK, NEW c \in calls, NEW d \in Call, Step(c, d)
  PROVE  calls' \subseteq Call
  BY DEF Step, TypeOK

LEMMA ReplyType ==
  ASSUME TypeOK, NEW c \in calls, NEW reply \in Replies, Reply(c, reply)
  PROVE  calls' \subseteq Call
  <1>1. [c EXCEPT !.at = "answered", !.reply = reply] \in Call
    BY CallFacts DEF Call
  <1> QED
    BY <1>1, StepType DEF Reply

LEMMA ServeType ==
  ASSUME TypeOK, NEW c \in calls, UserKnown(c), Serve(c) \/ Refuse(c)
  PROVE  /\ owner' \in [Sessions -> Users \cup {NoUser}]
         /\ txn' \in [Loads -> Txn] /\ calls' \subseteq Call
         /\ held' = held /\ admin' = admin /\ cookie' = cookie /\ page' = page
  <1> USE DEF identity
  <1>0. /\ owner \in [Sessions -> Users \cup {NoUser}]
        /\ txn \in [Loads -> Txn] /\ calls \subseteq Call
        /\ held \in [Users -> SUBSET Workspaces]
    BY DEF TypeOK
  <1>1. {"transaction", "session", "csrf", "ok", "refused"} \subseteq Replies
    BY DEF Replies
  <1>2. CASE Establish(c)
    <2>1. CASE txn[c.n].status # "PENDING"
      BY <1>0, <1>1, <1>2, <2>1, ReplyType DEF Establish
    <2>2. CASE txn[c.n].status = "PENDING"
      <3>1. PICK s \in Sessions :
              /\ owner' = [Ended({c.sid}) EXCEPT ![s] = c.user]
              /\ calls' = Changed(calls \ {c}) \cup
                            {[c EXCEPT !.at = "established", !.sid = s]}
        BY <1>2, <2>2 DEF Establish
      <3>2. [c EXCEPT !.at = "established", !.sid = s] \in Call
        BY CallFacts DEF Call
      <3>3. Changed(calls \ {c}) \subseteq Call
        BY <1>0, ChangedFacts
      <3>4. owner' \in [Sessions -> Users \cup {NoUser}]
        BY <3>1, EndedType, CallFacts
      <3> QED
        BY <1>0, <1>2, <3>1, <3>2, <3>3, <3>4 DEF Establish
    <2> QED
      BY <2>1, <2>2
  <1>3. CASE CompleteAndBind(c)
    <2>1. CASE txn[c.n].status # "PENDING"
      BY <1>0, <1>1, <1>3, <2>1, ReplyType DEF CompleteAndBind
    <2>2. CASE txn[c.n].status = "PENDING"
      <3>1. [c EXCEPT !.at = "listing", !.cookie = c.sid] \in Call
        BY CallFacts DEF Call
      <3>2. [status |-> "COMPLETED", sid |-> c.sid, late |-> FALSE] \in Txn
        BY CallFacts DEF Txn
      <3> QED
        BY <1>0, <1>3, <2>2, <3>1, <3>2, StepType DEF CompleteAndBind
    <2> QED
      BY <2>1, <2>2
  <1>4. CASE ReadSession(c)
    <2>1. [c EXCEPT !.at = "listing", !.user = UserOf(c.sid)] \in Call
      BY CallFacts, UserOfType DEF Call
    <2> QED
      BY <1>0, <1>1, <1>4, <2>1, StepType, ReplyType DEF ReadSession
  <1>5. CASE List(c)
    <2>1. c.at = "listing" /\ held[c.user] \in SUBSET Workspaces
      BY <1>0, <1>5 DEF List, UserKnown
    <2>2. [c EXCEPT !.at = "answered", !.reply = "ok", !.list = held[c.user]]
            \in Call
      BY <1>1, <2>1, CallFacts DEF Call
    <2>3. \A w \in held[c.user] :
            [c EXCEPT !.at = "resolving", !.list = held[c.user], !.ws = w] \in Call
      BY <2>1, CallFacts DEF Call
    <2>4. UNCHANGED <<identity, cookie, page>>
      BY <1>5 DEF List
    <2>5. \/ Step(c, [c EXCEPT !.at = "answered", !.reply = "ok",
                              !.list = held[c.user]])
          \/ \E w \in held[c.user] :
               Step(c, [c EXCEPT !.at = "resolving", !.list = held[c.user],
                                 !.ws = w])
      BY <1>5 DEF List
    <2>6. calls' \subseteq Call
      BY <2>2, <2>3, <2>5, StepType
    <2> QED
      BY <1>0, <2>4, <2>6
  <1>6. CASE SelectScope(c)
    <2>0. c.n \in Loads /\ UNCHANGED <<held, owner, admin, cookie, page>>
      BY <1>6, CallFacts DEF SelectScope
    <2>1. CASE /\ txn' = [txn EXCEPT ![c.n].sid = c.sid]
               /\ UserOf(c.sid) # NoUser
               /\ Step(c, [c EXCEPT !.at = "resolving", !.user = UserOf(c.sid)])
      <3>1. UserOf(c.sid) \in Users
        BY <2>1, UserOfType, CallFacts
      <3>2. held[UserOf(c.sid)] \in SUBSET Workspaces
        BY <1>0, <3>1
      <3>3. [c EXCEPT !.at = "resolving", !.user = UserOf(c.sid)] \in Call
        BY <3>1, <3>2, CallFacts DEF Call
      <3>4. [txn[c.n] EXCEPT !.sid = c.sid] \in Txn
        BY <1>0, <2>0, CallFacts DEF Txn
      <3>5. calls' \subseteq Call
        BY <2>1, <3>3, StepType
      <3>6. txn' \in [Loads -> Txn]
        BY <1>0, <2>0, <2>1, <3>4
      <3> QED
        BY <1>0, <2>0, <3>5, <3>6
    <2>2. CASE UNCHANGED txn /\ \E reply \in {"csrf", "session"} : Reply(c, reply)
      BY <1>0, <1>1, <2>0, <2>2, ReplyType
    <2> QED
      BY <1>6, <2>1, <2>2 DEF SelectScope
  <1>7. CASE Activate(c)
    BY <1>0, <1>1, <1>7, ReplyType DEF Activate
  <1>8. CASE Applications(c)
    <2>1. [c EXCEPT !.at = "answered", !.reply = "ok", !.user = UserOf(c.sid)]
            \in Call
      BY <1>1, CallFacts, UserOfType DEF Call
    <2> QED
      BY <1>0, <1>1, <1>8, <2>1, StepType, ReplyType DEF Applications
  <1>9. CASE SignOut(c)
    <2>1. CASE txn[c.n].status = "none"
      BY <1>0, <1>1, <1>9, <2>1, ReplyType DEF SignOut
    <2>2. CASE txn[c.n].status # "none"
      <3>1. [c EXCEPT !.at = "answered", !.reply = "ok", !.cookie = 0] \in Call
        BY <1>1, CallFacts DEF Call
      <3>2. Changed(calls \ {c}) \subseteq Call
        BY <1>0, ChangedFacts
      <3>3. owner' \in [Sessions -> Users \cup {NoUser}]
        BY <1>9, <2>2, EndedType DEF SignOut
      <3>4. /\ calls' = Changed(calls \ {c}) \cup
               {[c EXCEPT !.at = "answered", !.reply = "ok", !.cookie = 0]}
            /\ UNCHANGED <<held, txn, admin, cookie, page>>
        BY <1>9, <2>2 DEF SignOut
      <3> QED
        BY <1>0, <3>1, <3>2, <3>3, <3>4
    <2> QED
      BY <2>1, <2>2
  <1>10. CASE Refuse(c)
    BY <1>0, <1>1, <1>10, ReplyType DEF Refuse
  <1> QED
    BY <1>2, <1>3, <1>4, <1>5, <1>6, <1>7, <1>8, <1>9, <1>10 DEF Serve

LEMMA AskType ==
  ASSUME TypeOK, NEW kind \in Kinds, NEW user \in Users \cup {NoUser},
         NEW ws \in Workspaces \cup {NoWorkspace},
         NEW shown \in Users \cup {NoUser}, page.n # 0,
         Ask(kind, user, ws, shown)
  PROVE  calls' \subseteq Call
  <1>1. page.n \in Loads /\ cookie \in Sessions \cup {0} /\ calls \subseteq Call
    BY PageFacts DEF TypeOK
  <1>2. Request(kind, page.n, cookie, user, ws, shown, FALSE) \in Call
    BY <1>1, RequestType
  <1> QED
    BY <1>1, <1>2 DEF Ask

LEMMA OpenType ==
  ASSUME TypeOK, NEW n \in Loads, NEW late \in BOOLEAN,
         NEW some \in SUBSET Call, NEW jar \in Sessions \cup {0},
         Open(n, late, some, jar)
  PROVE  /\ txn' \in [Loads -> Txn] /\ page' \in Page /\ calls' \subseteq Call
         /\ UNCHANGED <<held, owner, admin>>
  <1>1. UserOf(jar) \in Users \cup {NoUser}
    BY UserOfType
  <1>2. Request("assignments", n, jar, NoUser, NoWorkspace, NoUser, FALSE) \in Call
    BY RequestType DEF Kinds
  <1>3. calls' \subseteq Call
    BY <1>2 DEF Open
  <1>4. /\ NoTxn \in Txn
        /\ \A s \in {0, jar} : [status |-> "PENDING", late |-> late, sid |-> s] \in Txn
        /\ \A m \in Loads : txn[m] \in Txn
    BY DEF NoTxn, Txn, TypeOK
  <1>5. txn' \in [Loads -> Txn]
    BY <1>4 DEF Open
  <1>6. {} \in SUBSET Workspaces
    OBVIOUS
  <1>7. Blank \in Page
    BY <1>6 DEF Blank, Page, Views
  <1>8. \A v \in {"signIn", "opening"} :
          [Blank EXCEPT !.n = n, !.user = UserOf(jar), !.view = v] \in Page
    BY <1>1, <1>7 DEF Page, Views
  <1>9. page' \in Page
    BY <1>8 DEF Open
  <1> QED
    BY <1>3, <1>5, <1>9 DEF Open

LEMMA ScriptType ==
  ASSUME TypeOK, page.view = "none" <=> page.n = 0,
         \/ Submit \/ SwitchWorkspace \/ SwitchAccount \/ SignOutEverywhere
         \/ \E w \in Workspaces : Pick(w)
  PROVE  /\ page' \in Page /\ calls' \subseteq Call
         /\ UNCHANGED <<held, owner, txn, admin, cookie>>
  <1>0. page \in Page /\ calls \subseteq Call
    BY DEF TypeOK
  <1>1. {"login", "select", "logout", "everywhere"} \subseteq Kinds
    BY DEF Kinds
  <1>2. CASE Submit
    <2>1. page' \in Page
      BY <1>0, <1>2 DEF Submit, Page, Views
    <2> QED
      BY <1>1, <1>2, <2>1, AskType DEF Submit, identity
  <1>3. CASE SwitchWorkspace
    <2>1. page' \in Page
      BY <1>0, <1>3 DEF SwitchWorkspace, WorkspacesShown, Page, Views
    <2> QED
      BY <1>0, <1>3, <2>1 DEF SwitchWorkspace, identity
  <1>4. CASE SwitchAccount
    <2>1. {} \in SUBSET Workspaces
      OBVIOUS
    <2>2. page' \in Page
      BY <1>0, <1>4, <2>1 DEF SwitchAccount, Page
    <2> QED
      BY <1>1, <1>4, <2>2, AskType DEF SwitchAccount, identity
  <1>5. CASE SignOutEverywhere
    BY <1>0, <1>1, <1>5, AskType DEF SignOutEverywhere, identity
  <1>6. ASSUME NEW w \in Workspaces, Pick(w)
        PROVE  page' \in Page /\ calls' \subseteq Call
               /\ UNCHANGED <<held, owner, txn, admin, cookie>>
    <2>1. page' \in Page
      BY <1>0, <1>6 DEF Pick, Page, Views
    <2>2. Chooser(page.user) \in Users \cup {NoUser}
      BY PageFacts DEF Chooser
    <2> QED
      BY <1>1, <1>6, <2>1, <2>2, AskType DEF Pick, identity
  <1> QED
    BY <1>2, <1>3, <1>4, <1>5, <1>6

(* An answer as the script takes it.                                       *)
LEMMA TakenFacts ==
  ASSUME NEW r \in Call
  PROVE  /\ r.kind \in Kinds /\ r.n \in Loads /\ r.user \in Users \cup {NoUser}
         /\ r.list \subseteq Workspaces /\ r.ws \in Workspaces \cup {NoWorkspace}
         /\ r.changed \in BOOLEAN /\ r.sid \in Sessions \cup {0}
         /\ r.cookie \in Sessions \cup {0, Keep} /\ r.reply \in Replies
  BY DEF Call

LEMMA ShowType ==
  ASSUME NEW p \in Page, NEW view \in Views, Show(p, view)
  PROVE  page' \in Page
  BY DEF Show, Page

LEMMA SignedOutType ==
  ASSUME NEW p \in Page, SignedOut(p)
  PROVE  page' \in Page
  BY DEF SignedOut, Page, Views

LEMMA WorkspacesShownType ==
  ASSUME NEW p \in Page
  PROVE  WorkspacesShown(p) \in Page
  BY DEF WorkspacesShown, Page, Views

LEMMA ActivatesType ==
  ASSUME TypeOK, NEW r \in Call
  PROVE  Activates(page, r) \in Page
  BY TakenFacts DEF Activates, Page, TypeOK

LEMMA ShowApplicationsType ==
  ASSUME NEW p \in Page, p.n # 0, NEW r \in Call, NEW some \in SUBSET Call,
         NEW jar \in Sessions \cup {0}, ShowApplications(p, r, some, jar)
  PROVE  page' \in Page /\ calls' \subseteq Call
  <1>1. p.n \in Loads
    BY DEF Page
  <1>2. Request("apps", p.n, jar, NoUser, NoWorkspace, NoUser, r.changed) \in Call
    BY <1>1, TakenFacts, RequestType DEF Kinds
  <1>3. page' \in Page
    BY ShowType DEF ShowApplications, Views
  <1> QED
    BY <1>2, <1>3 DEF ShowApplications

LEMMA ReactType ==
  ASSUME TypeOK, page.n # 0, NEW r \in Call, NEW some \in SUBSET Call,
         NEW jar \in Sessions \cup {0}, React(r, some, jar)
  PROVE  page' \in Page /\ calls' \subseteq Call
  <1>0. page \in Page /\ {"workspaces", "signIn", "expired", "error"} \subseteq Views
    BY DEF TypeOK, Views
  <1>1. CASE LoginAnswered(r, some, jar)
    <2> DEFINE p == [Activates(page, r) EXCEPT !.user = r.user, !.listed = r.list]
    <2>0. Activates(page, r) \in Page /\ Activates(page, r).n = page.n
      BY <1>0, ActivatesType DEF Activates, Page
    <2>1. p \in Page /\ p.n # 0
      BY <2>0, TakenFacts DEF Page
    <2>2. CASE ShowApplications(p, r, some, jar)
      BY <2>1, <2>2, ShowApplicationsType
    <2>3. CASE page' = [p EXCEPT !.view = "workspaces", !.offered = r.list]
               /\ calls' = some
      BY <1>0, <2>1, <2>3, TakenFacts DEF Page
    <2>4. CASE \E view \in {"expired", "signIn"} : Show(page, view) /\ calls' = some
      BY <1>0, <2>4, ShowType
    <2> QED
      BY <1>1, <2>2, <2>3, <2>4 DEF LoginAnswered
  <1>2. CASE AssignmentsAnswered(r, some, jar)
    <2> DEFINE p == [page EXCEPT !.user = r.user, !.listed = r.list]
    <2>1. p \in Page /\ p.n # 0 /\ p.n \in Loads
      BY <1>0, TakenFacts DEF Page
    <2>2. CASE ShowApplications(p, r, some, jar)
      BY <2>1, <2>2, ShowApplicationsType
    <2>3. CASE page' = p /\ \E w \in r.list : calls' = some \cup
                 {Request("select", p.n, jar, NoUser, w, Chooser(r.user), FALSE)}
      <3>1. Chooser(r.user) \in Users \cup {NoUser}
        BY TakenFacts DEF Chooser
      <3>2. \A w \in r.list :
              Request("select", p.n, jar, NoUser, w, Chooser(r.user), FALSE) \in Call
        BY <2>1, <3>1, TakenFacts, RequestType DEF Kinds
      <3> QED
        BY <2>1, <2>3, <3>2
    <2>4. CASE page' = WorkspacesShown(p) /\ calls' = some
      BY <2>1, <2>4, WorkspacesShownType
    <2>5. CASE SignedOut(page) /\ calls' = some
      BY <1>0, <2>5, SignedOutType
    <2>6. CASE Show(page, "error") /\ calls' = some
      BY <1>0, <2>6, ShowType
    <2> QED
      BY <1>2, <2>2, <2>3, <2>4, <2>5, <2>6 DEF AssignmentsAnswered
  <1>3. CASE SelectAnswered(r, some, jar)
    <2>1. CASE ShowApplications(Activates(page, r), r, some, jar)
      <3>1. Activates(page, r) \in Page /\ Activates(page, r).n # 0
        BY <1>0, ActivatesType DEF Activates, Page
      <3> QED
        BY <2>1, <3>1, ShowApplicationsType
    <2>2. CASE SignedOut(page) /\ calls' = some
      BY <1>0, <2>2, SignedOutType
    <2>3. CASE Show(page, "expired") /\ calls' = some
      BY <1>0, <2>3, ShowType
    <2>4. CASE page' = WorkspacesShown(page) /\ calls' = some
      BY <1>0, <2>4, WorkspacesShownType
    <2> QED
      BY <1>3, <2>1, <2>2, <2>3, <2>4 DEF SelectAnswered
  <1>4. CASE AppsAnswered(r, some)
    <2>1. CASE SignedOut(page)
      BY <1>0, <1>4, <2>1, SignedOutType DEF AppsAnswered
    <2>2. CASE Show(page, "error")
      BY <1>0, <1>4, <2>2, ShowType DEF AppsAnswered
    <2>3. CASE r.reply = "ok"
      <3> DEFINE offered == IF page.ws # NoWorkspace /\ Cardinality(page.listed) > 1
                            THEN page.listed ELSE {}
      <3>1. offered \in SUBSET Workspaces
        BY PageFacts
      <3>2. (page.mixed \/ r.changed) \in BOOLEAN /\ "apps" \in Views
        BY PageFacts, TakenFacts DEF Views
      <3> HIDE DEF offered
      <3>3. [page EXCEPT !.view = "apps", !.appsUser = r.user,
               !.mixed = @ \/ r.changed, !.offered = offered] \in Page
        BY <1>0, <3>1, <3>2, TakenFacts DEF Page
      <3> QED
        BY <1>4, <2>3, <3>3 DEF AppsAnswered, offered
    <2> QED
      BY <1>4, <2>1, <2>2, <2>3 DEF AppsAnswered
  <1>5. CASE SignedOut(page) /\ calls' = some
    BY <1>0, <1>5, SignedOutType
  <1> QED
    BY <1>1, <1>2, <1>3, <1>4, <1>5 DEF React

(* The cookie once an answer is there, and the calls it leaves under way.  *)
Jar(r) == IF r.cookie = Keep THEN cookie ELSE r.cookie
Rest(c, r) == IF Jar(r) = cookie THEN calls \ {c} ELSE Changed(calls \ {c})

(* What hears r of c: c itself, or c without its answer or its body.       *)
Heard(c, r) ==
  /\ r.kind = c.kind /\ r.n = c.n /\ r.sid = c.sid
  /\ r.changed = c.changed /\ r.shown = c.shown
  /\ r.cookie \in {c.cookie, Keep}
  /\ r.reply = "ok" =>
       /\ Succeeded(c) /\ r.cookie = c.cookie
       /\ \/ r.user = c.user /\ r.list = c.list /\ r.ws = c.ws
          \/ /\ c.kind # "apps"
             /\ r.user = NoUser /\ r.list = {} /\ r.ws = NoWorkspace
Answered(c) == Receive(c) \/ Lose(c) \/ Garble(c)

LEMMA HeardFacts ==
  ASSUME TypeOK, NEW c \in calls, Answered(c)
  PROVE  \E r \in Call : Heard(c, r) /\ Arrives(c, r)
  <1> USE CallFacts
  <1>0. "refused" \in Replies /\ {} \in SUBSET Workspaces
    BY DEF Replies
  <1>1. CASE Receive(c)
    BY <1>1 DEF Receive, Heard, Succeeded
  <1>2. CASE Lose(c)
    <2> DEFINE r == [c EXCEPT !.reply = "refused", !.cookie = Keep]
    <2>1. r \in Call
      BY <1>0 DEF Call
    <2>2. Heard(c, r)
      BY DEF Heard, Call
    <2> QED
      BY <1>2, <2>1, <2>2 DEF Lose
  <1>3. CASE Garble(c)
    <2>1. CASE c.reply = "ok" /\ c.kind # "apps"
      <3> DEFINE r == [c EXCEPT !.user = NoUser, !.list = {}, !.ws = NoWorkspace]
      <3>1. r \in Call
        BY <1>0 DEF Call
      <3>2. Heard(c, r)
        BY <1>3, <2>1 DEF Heard, Call, Garble, Succeeded
      <3> QED
        BY <1>3, <2>1, <3>1, <3>2 DEF Garble
    <2>2. CASE ~(c.reply = "ok" /\ c.kind # "apps")
      <3> DEFINE r == [c EXCEPT !.reply = "refused"]
      <3>1. r \in Call
        BY <1>0 DEF Call
      <3>2. Heard(c, r)
        BY DEF Heard, Call
      <3> QED
        BY <1>3, <2>2, <3>1, <3>2 DEF Garble
    <2> QED
      BY <2>1, <2>2
  <1> QED
    BY <1>1, <1>2, <1>3 DEF Answered

LEMMA RestFacts ==
  ASSUME TypeOK, NEW c \in calls, NEW r \in Call, Arrives(c, r)
  PROVE  /\ Jar(r) \in Sessions \cup {0} /\ Rest(c, r) \subseteq Call
         /\ c.n = page.n /\ page.n \in Loads /\ page.n # 0 /\ cookie' = Jar(r)
         /\ \/ React(r, Rest(c, r), Jar(r)) /\ UNCHANGED identity
            \/ /\ r.kind = "everywhere"
               /\ \E n \in Loads : Open(n, FALSE, Rest(c, r), Jar(r))
  <1>1. cookie \in Sessions \cup {0} /\ calls \subseteq Call
    BY DEF TypeOK
  <1>2. Jar(r) \in Sessions \cup {0}
    BY <1>1, TakenFacts DEF Jar
  <1>3. Rest(c, r) \subseteq Call
    BY <1>1, ChangedFacts DEF Rest
  <1>4. c.n = page.n /\ page.n \in Loads /\ page.n # 0
    BY CallFacts, SessionFacts DEF Arrives
  <1> QED
    BY <1>2, <1>3, <1>4 DEF Arrives, Jar, Rest

LEMMA AnsweredType ==
  ASSUME TypeOK, NEW c \in calls, Answered(c)
  PROVE  /\ owner' \in [Sessions -> Users \cup {NoUser}]
         /\ txn' \in [Loads -> Txn] /\ page' \in Page /\ calls' \subseteq Call
         /\ cookie' \in Sessions \cup {0}
         /\ held' = held /\ admin' = admin
  <1>1. PICK r \in Call : Heard(c, r) /\ Arrives(c, r)
    BY HeardFacts
  <1>2. /\ Jar(r) \in Sessions \cup {0} /\ Rest(c, r) \subseteq Call
        /\ page.n # 0 /\ cookie' = Jar(r)
    BY <1>1, RestFacts
  <1>3. /\ owner \in [Sessions -> Users \cup {NoUser}] /\ txn \in [Loads -> Txn]
    BY DEF TypeOK
  <1>4. CASE React(r, Rest(c, r), Jar(r)) /\ UNCHANGED identity
    BY <1>2, <1>3, <1>4, ReactType DEF identity
  <1>5. ASSUME NEW n \in Loads, Open(n, FALSE, Rest(c, r), Jar(r))
        PROVE  /\ txn' \in [Loads -> Txn] /\ page' \in Page
               /\ calls' \subseteq Call /\ UNCHANGED <<held, owner, admin>>
    BY <1>2, <1>5, OpenType
  <1> QED
    BY <1>1, <1>2, <1>3, <1>4, <1>5, RestFacts

LEMMA ReceiveNowhereType ==
  ASSUME TypeOK, NEW c \in calls, ReceiveNowhere(c)
  PROVE  /\ cookie' \in Sessions \cup {0} /\ calls' \subseteq Call
         /\ UNCHANGED <<identity, page>>
  <1>1. cookie \in Sessions \cup {0} /\ calls \subseteq Call
    BY DEF TypeOK
  <1>2. Changed(calls \ {c}) \subseteq Call
    BY <1>1, ChangedFacts
  <1>3. cookie' \in Sessions \cup {0}
    BY <1>1, CallFacts DEF ReceiveNowhere
  <1> QED
    BY <1>1, <1>2, <1>3 DEF ReceiveNowhere

LEMMA LoadType ==
  ASSUME TypeOK, NEW late \in BOOLEAN, Load(late)
  PROVE  /\ txn' \in [Loads -> Txn] /\ page' \in Page /\ calls' \subseteq Call
         /\ UNCHANGED <<held, owner, admin, cookie>>
  <1>1. cookie \in Sessions \cup {0} /\ calls \in SUBSET Call
    BY DEF TypeOK
  <1>2. PICK n \in Loads : Open(n, late, calls, cookie)
    BY DEF Load
  <1> QED
    BY <1>1, <1>2, OpenType DEF Load

(* The sessions, the assignments and the administrator.                    *)
Elsewhere ==
  \/ SignInElsewhere \/ \E s \in Sessions : EndSession(s)
  \/ \E n \in Loads : ExpireTransaction(n)
  \/ \E u \in Users, w \in Workspaces : Reassign(u, w)
  \/ ForceLogout \/ RequireCoreAdmin \/ LogoutUser

LEMMA ElsewhereType ==
  ASSUME TypeOK, Elsewhere
  PROVE  /\ held' \in [Users -> SUBSET Workspaces]
         /\ owner' \in [Sessions -> Users \cup {NoUser}]
         /\ cookie' \in Sessions \cup {0} /\ txn' \in [Loads -> Txn]
         /\ calls' \subseteq Call /\ admin' \in Admin /\ page' = page
  <1>0. /\ held \in [Users -> SUBSET Workspaces]
        /\ owner \in [Sessions -> Users \cup {NoUser}]
        /\ cookie \in Sessions \cup {0} /\ txn \in [Loads -> Txn]
        /\ calls \subseteq Call /\ admin \in Admin
    BY DEF TypeOK
  <1>1. Changed(calls) \subseteq Call
    BY <1>0, ChangedFacts
  <1>2. NoAdmin \in Admin /\ NoTxn \in Txn
    <2>1. {} \in SUBSET Workspaces
      OBVIOUS
    <2> QED
      BY <2>1 DEF NoAdmin, Admin, NoTxn, Txn
  <1>3. CASE SignInElsewhere
    <2>1. PICK s \in Sessions, u \in Users :
            owner' = [Ended({cookie}) EXCEPT ![s] = u] /\ cookie' = s
      BY <1>3 DEF SignInElsewhere
    <2>2. owner' \in [Sessions -> Users \cup {NoUser}]
      BY <2>1, EndedType
    <2> QED
      BY <1>0, <1>1, <1>3, <2>1, <2>2 DEF SignInElsewhere
  <1>4. ASSUME NEW s \in Sessions, EndSession(s)
        PROVE  owner' \in [Sessions -> Users \cup {NoUser}]
               /\ calls' \subseteq Call
               /\ UNCHANGED <<held, txn, admin, cookie, page>>
    BY <1>1, <1>4, EndedType DEF EndSession
  <1>5. ASSUME NEW n \in Loads, ExpireTransaction(n)
        PROVE  txn' \in [Loads -> Txn]
               /\ UNCHANGED <<held, owner, admin, cookie, page, calls>>
    BY <1>0, <1>2, <1>5 DEF ExpireTransaction
  <1>6. ASSUME NEW u \in Users, NEW w \in Workspaces, Reassign(u, w)
        PROVE  /\ held' \in [Users -> SUBSET Workspaces]
               /\ calls' \subseteq Call /\ admin' \in Admin
               /\ UNCHANGED <<owner, txn, cookie, page>>
    <2> DEFINE now == [held EXCEPT ![u] = (@ \ {w}) \cup ({w} \ @)]
               sees == [admin EXCEPT !.during = @ \cup now[u]]
    <2>1. now \in [Users -> SUBSET Workspaces] /\ now[u] \subseteq Workspaces
      BY <1>0
    <2> HIDE DEF now
    <2>2. sees \in Admin
      BY <1>0, <2>1 DEF Admin
    <2> HIDE DEF sees
    <2>3. /\ held' = now
          /\ admin' = IF admin.at = "sent" /\ admin.user = u THEN sees ELSE admin
          /\ UNCHANGED <<owner, txn, cookie, page, calls>>
      BY <1>6 DEF Reassign, now, sees
    <2> QED
      BY <1>0, <2>1, <2>2, <2>3
  <1>7. CASE ForceLogout
    <2>1. PICK u \in Users, w \in Workspaces :
        admin' = [at |-> "sent", user |-> u, ws |-> w, during |-> held[u]]
      BY <1>7 DEF ForceLogout
    <2>2. held[u] \in SUBSET Workspaces
      BY <1>0
    <2>3. admin' \in Admin
      BY <2>1, <2>2 DEF Admin
    <2> QED
      BY <1>0, <1>7, <2>3 DEF ForceLogout
  <1>8. CASE RequireCoreAdmin
    <2>1. [admin EXCEPT !.at = "allowed"] \in Admin
      BY <1>0 DEF Admin
    <2> QED
      BY <1>0, <1>2, <1>8, <2>1 DEF RequireCoreAdmin
  <1>9. CASE LogoutUser
    BY <1>0, <1>1, <1>2, <1>9, EndedType DEF LogoutUser
  <1> QED
    BY <1>0, <1>3, <1>4, <1>5, <1>6, <1>7, <1>8, <1>9 DEF Elsewhere

Script ==
  \/ Submit \/ SwitchWorkspace \/ SwitchAccount \/ SignOutEverywhere
  \/ \E w \in Workspaces : Pick(w)

LEMMA NextCases ==
  ASSUME Next
  PROVE  \/ Script
         \/ \E c \in calls :
              Serve(c) \/ Refuse(c) \/ Answered(c) \/ ReceiveNowhere(c)
         \/ \E late \in BOOLEAN : Load(late)
         \/ Elsewhere
  BY DEF Next, Script, Answered, Elsewhere

LEMMA FailuresType ==
  ASSUME TypeOK, Next
  PROVE  failures' \in 0..MaxFailures
  <1>1. MaxFailures \in Nat /\ failures \in 0..MaxFailures
    BY BoundsAssumption DEF TypeOK
  <1>2. Calm \/ \E kind \in {"wander", "refused", "lost", "elsewhere", "ended",
                            "expired", "late", "reassigned", "admin"} :
                  Disturb(kind)
    BY DEF Next
  <1> QED
    BY <1>1, <1>2 DEF Calm, Disturb

Opened == page.view = "none" <=> page.n = 0

LEMMA TypeStep ==
  ASSUME TypeOK, Opened, \A c \in calls : UserKnown(c), [Next]_vars
  PROVE  TypeOK'
  <1>1. CASE UNCHANGED vars
    BY <1>1 DEF TypeOK, vars, identity
  <1>2. CASE Next
    <2>1. failures' \in 0..MaxFailures
      BY <1>2, FailuresType
    <2>2. CASE Script
      BY <2>1, <2>2, ScriptType DEF TypeOK, Opened, Script
    <2>3. ASSUME NEW c \in calls, Serve(c) \/ Refuse(c)
          PROVE  TypeOK'
      <3>1. UserKnown(c)
        OBVIOUS
      <3> QED
        BY <2>1, <2>3, <3>1, ServeType DEF TypeOK
    <2>4. ASSUME NEW c \in calls, Answered(c)
          PROVE  TypeOK'
      BY <2>1, <2>4, AnsweredType DEF TypeOK
    <2>5. ASSUME NEW c \in calls, ReceiveNowhere(c)
          PROVE  TypeOK'
      BY <2>1, <2>5, ReceiveNowhereType DEF TypeOK, identity
    <2>6. ASSUME NEW late \in BOOLEAN, Load(late)
          PROVE  TypeOK'
      BY <2>1, <2>6, LoadType DEF TypeOK
    <2>7. CASE Elsewhere
      BY <2>1, <2>7, ElsewhereType DEF TypeOK
    <2> QED
      BY <1>2, <2>2, <2>3, <2>4, <2>5, <2>6, <2>7, NextCases
  <1> QED
    BY <1>1, <1>2

-----------------------------------------------------------------------------
(* The page, as far as it is the same one.                                 *)
LEMMA ReactPage ==
  ASSUME TypeOK, NEW r \in Call, NEW some, NEW jar, React(r, some, jar)
  PROVE  /\ page'.n = page.n
         /\ page'.view \in {page.view, "workspaces", "loading", "signIn",
                            "expired", "error", "apps"}
  <1> USE DEF TypeOK, Page, Show, SignedOut, ShowApplications, Activates,
              WorkspacesShown
  <1>1. CASE LoginAnswered(r, some, jar)
    BY <1>1 DEF LoginAnswered
  <1>2. CASE AssignmentsAnswered(r, some, jar)
    BY <1>2 DEF AssignmentsAnswered
  <1>3. CASE SelectAnswered(r, some, jar)
    BY <1>3 DEF SelectAnswered
  <1>4. CASE AppsAnswered(r, some)
    BY <1>4 DEF AppsAnswered
  <1>5. CASE SignedOut(page)
    BY <1>5
  <1> QED
    BY <1>1, <1>2, <1>3, <1>4, <1>5 DEF React

LEMMA OpenPage ==
  ASSUME TypeOK, NEW n \in Loads, NEW late, NEW some, NEW jar,
         Open(n, late, some, jar)
  PROVE  /\ page'.n = n /\ n # 0
         /\ page'.view = IF UserOf(jar) = NoUser THEN "signIn" ELSE "opening"
  BY SessionFacts DEF Open, Blank

LEMMA OpenedStep ==
  ASSUME TypeOK, Opened, \A c \in calls : UserKnown(c), [Next]_vars
  PROVE  Opened'
  <1> USE DEF Opened
  <1>1. CASE page' = page
    BY <1>1
  <1>2. CASE Script
    BY <1>2 DEF Script, Submit, SwitchWorkspace, SwitchAccount,
      SignOutEverywhere, Pick, WorkspacesShown, TypeOK, Page
  <1>3. ASSUME NEW c \in calls, Answered(c)
        PROVE  Opened'
    <2>1. PICK r \in Call : Arrives(c, r)
      BY <1>3, HeardFacts
    <2>2. CASE React(r, Rest(c, r), Jar(r))
      BY <2>1, <2>2, ReactPage, RestFacts
    <2>3. ASSUME NEW n \in Loads, Open(n, FALSE, Rest(c, r), Jar(r))
          PROVE  Opened'
      BY <2>3, OpenPage
    <2> QED
      BY <2>1, <2>2, <2>3, RestFacts
  <1>4. ASSUME NEW late \in BOOLEAN, Load(late)
        PROVE  Opened'
    BY <1>4, OpenPage DEF Load
  <1>5. ASSUME NEW c \in calls, Serve(c) \/ Refuse(c) \/ ReceiveNowhere(c)
        PROVE  page' = page
    BY <1>5, ServeType, ReceiveNowhereType
  <1>6. Elsewhere => page' = page
    BY ElsewhereType
  <1>7. UNCHANGED vars => page' = page
    BY DEF vars
  <1> QED
    BY <1>1, <1>2, <1>3, <1>4, <1>5, <1>6, <1>7, NextCases

-----------------------------------------------------------------------------
(* The calls after a step: d goes on from e, or d is new.                  *)
Same(d, e) == d = e \/ d = [e EXCEPT !.changed = TRUE]
Asked(d) ==
  /\ d \in Call /\ d.at = "sent" /\ d.reply = "" /\ d.cookie = Keep
  /\ d.kind = "login" => d.user \in Users /\ d.ws = NoWorkspace

LEMMA SameFacts ==
  ASSUME NEW e \in Call, NEW d, Same(d, e)
  PROVE  /\ d \in Call /\ d.kind = e.kind /\ d.n = e.n /\ d.sid = e.sid
         /\ d.at = e.at /\ d.user = e.user /\ d.list = e.list /\ d.ws = e.ws
         /\ d.reply = e.reply /\ d.cookie = e.cookie /\ d.shown = e.shown
         /\ (e.changed => d.changed)
  BY DEF Same, Call

LEMMA ChangedSame ==
  ASSUME NEW some \in SUBSET Call
  PROVE  /\ \A d \in Changed(some) : \E e \in some : Same(d, e)
         /\ \A e \in some : \E d \in Changed(some) : Same(d, e)
         /\ \A d \in Changed(some) :
              d.kind \in {"login", "select", "apps"} => d.changed
  <1>1. \A d \in Changed(some) : \E c \in some :
          \/ d = [c EXCEPT !.changed = TRUE]
             /\ c.kind \in {"login", "select", "apps"}
          \/ d = c /\ c.kind \notin {"login", "select", "apps"}
    BY ChangedFacts
  <1>2. \A e \in some : \E d \in Changed(some) : Same(d, e)
    BY Zenon DEF Changed, Same
  <1>3. \A c \in Call : [c EXCEPT !.changed = TRUE].changed
    BY DEF Call
  <1>4. \A c \in Call : [c EXCEPT !.changed = TRUE].kind = c.kind
    BY DEF Call
  <1>5. \A d \in Changed(some) : \E e \in some : Same(d, e)
    BY <1>1 DEF Same
  <1>6. ASSUME NEW d \in Changed(some), d.kind \in {"login", "select", "apps"}
        PROVE  d.changed
    <2>1. PICK c \in some :
            \/ d = [c EXCEPT !.changed = TRUE]
            \/ d = c /\ c.kind \notin {"login", "select", "apps"}
      BY <1>1
    <2> QED
      BY <1>3, <1>6, <2>1
  <1> QED
    BY <1>2, <1>5, <1>6

LEMMA RestSame ==
  ASSUME TypeOK, NEW c \in calls, NEW r
  PROVE  /\ \A d \in Rest(c, r) : \E e \in calls \ {c} : Same(d, e)
         /\ \A e \in calls \ {c} : \E d \in Rest(c, r) : Same(d, e)
  <1>1. calls \ {c} \in SUBSET Call
    BY DEF TypeOK
  <1> QED
    BY <1>1, ChangedSame DEF Rest, Same

LEMMA RequestAsked ==
  ASSUME NEW kind \in Kinds, NEW n \in Loads, NEW sid \in Sessions \cup {0},
         NEW user \in Users \cup {NoUser},
         NEW ws \in Workspaces \cup {NoWorkspace},
         NEW shown \in Users \cup {NoUser}, NEW changed \in BOOLEAN,
         kind = "login" => user \in Users /\ ws = NoWorkspace
  PROVE  Asked(Request(kind, n, sid, user, ws, shown, changed))
  <1> DEFINE q == Request(kind, n, sid, user, ws, shown, changed)
  <1>1. q \in Call
    BY RequestType
  <1>2. /\ q.kind = kind /\ q.at = "sent" /\ q.reply = "" /\ q.cookie = Keep
        /\ q.user = user /\ q.ws = ws
    BY DEF Request
  <1> QED
    BY <1>1, <1>2 DEF Asked

LEMMA ReactCalls ==
  ASSUME TypeOK, page.n # 0, NEW r \in Call, NEW some \in SUBSET Call,
         NEW jar \in Sessions \cup {0}, React(r, some, jar)
  PROVE  \A d \in calls' : d \in some \/ (Asked(d) /\ d.kind \in {"select", "apps"})
  <1>0. page.n \in Loads /\ page \in Page
    BY PageFacts DEF TypeOK
  <1>1. ASSUME NEW p \in Page, p.n = page.n, ShowApplications(p, r, some, jar)
        PROVE  \A d \in calls' : d \in some \/ (Asked(d) /\ d.kind = "apps")
    <2> DEFINE q == Request("apps", p.n, jar, NoUser, NoWorkspace, NoUser,
                            r.changed)
    <2>0. /\ p.n \in Loads /\ jar \in Sessions \cup {0}
          /\ NoUser \in Users \cup {NoUser} /\ r.changed \in BOOLEAN
          /\ NoWorkspace \in Workspaces \cup {NoWorkspace} /\ "apps" \in Kinds
      BY <1>0, <1>1, TakenFacts DEF Kinds
    <2>1. Asked(q) /\ q.kind = "apps"
      <3>1. Asked(q)
        BY <2>0, RequestAsked
      <3>2. q.kind = "apps"
        BY DEF Request
      <3> QED
        BY <3>1, <3>2
    <2>2. calls' = some \cup {q}
      BY <1>1 DEF ShowApplications
    <2> HIDE DEF q
    <2> QED
      BY <2>1, <2>2
  <1>2. CASE LoginAnswered(r, some, jar)
    <2> DEFINE p == [Activates(page, r) EXCEPT !.user = r.user, !.listed = r.list]
    <2>0. Activates(page, r) \in Page /\ Activates(page, r).n = page.n
      BY <1>0, ActivatesType DEF Activates, Page
    <2>1. p \in Page /\ p.n = page.n
      BY <2>0, TakenFacts DEF Page
    <2>2. ShowApplications(p, r, some, jar) \/ calls' = some
      BY <1>2 DEF LoginAnswered
    <2> QED
      BY <1>1, <2>1, <2>2
  <1>3. CASE AssignmentsAnswered(r, some, jar)
    <2> DEFINE p == [page EXCEPT !.user = r.user, !.listed = r.list]
    <2>1. p \in Page /\ p.n = page.n
      BY <1>0, TakenFacts DEF Page
    <2>2. \/ ShowApplications(p, r, some, jar) \/ calls' = some
          \/ \E w \in r.list : calls' = some \cup
               {Request("select", p.n, jar, NoUser, w, Chooser(r.user), FALSE)}
      BY <1>3 DEF AssignmentsAnswered
    <2>3. Chooser(r.user) \in Users \cup {NoUser}
      BY TakenFacts DEF Chooser
    <2> HIDE DEF p
    <2> DEFINE Q(w) == Request("select", p.n, jar, NoUser, w, Chooser(r.user),
                               FALSE)
    <2>4. ASSUME NEW w \in r.list
          PROVE  Asked(Q(w)) /\ Q(w).kind = "select"
      <3>1. /\ p.n \in Loads /\ jar \in Sessions \cup {0}
            /\ NoUser \in Users \cup {NoUser}
            /\ w \in Workspaces \cup {NoWorkspace} /\ "select" \in Kinds
        BY <1>0, <2>1, TakenFacts DEF Kinds
      <3>2. Asked(Q(w))
        BY <2>3, <3>1, RequestAsked
      <3>3. Q(w).kind = "select"
        BY DEF Request
      <3> QED
        BY <3>2, <3>3
    <2>5. CASE \E w \in r.list : calls' = some \cup {Q(w)}
      <3> HIDE DEF Q
      <3> QED
        BY <2>4, <2>5
    <2> QED
      BY <1>1, <2>1, <2>2, <2>5
  <1>4. CASE SelectAnswered(r, some, jar)
    <2>1. Activates(page, r) \in Page /\ Activates(page, r).n = page.n
      BY <1>0, ActivatesType DEF Activates, Page
    <2>2. ShowApplications(Activates(page, r), r, some, jar) \/ calls' = some
      BY <1>4 DEF SelectAnswered
    <2> QED
      BY <1>1, <2>1, <2>2
  <1>5. CASE calls' = some
    BY <1>5
  <1> QED
    BY <1>2, <1>3, <1>4, <1>5 DEF React, AppsAnswered

LEMMA OpenCalls ==
  ASSUME TypeOK, NEW n \in Loads, NEW late, NEW some \in SUBSET Call,
         NEW jar \in Sessions \cup {0}, Open(n, late, some, jar)
  PROVE  \A d \in calls' : d \in some \/ Asked(d)
  <1> DEFINE q == Request("assignments", n, jar, NoUser, NoWorkspace, NoUser,
                          FALSE)
  <1>1. Asked(q)
    BY RequestAsked DEF Kinds
  <1> HIDE DEF q
  <1>2. calls' \subseteq some \cup {q}
    BY DEF Open, q
  <1> QED
    BY <1>1, <1>2

LEMMA AnsweredCalls ==
  ASSUME TypeOK, NEW c \in calls, Answered(c)
  PROVE  /\ \A d \in calls' : (\E e \in calls \ {c} : Same(d, e)) \/ Asked(d)
         /\ held' = held /\ admin' = admin
  <1>1. PICK r \in Call : Heard(c, r) /\ Arrives(c, r)
    BY HeardFacts
  <1>2. \A d \in calls' : d \in Rest(c, r) \/ Asked(d)
    <2>1. CASE React(r, Rest(c, r), Jar(r))
      BY <1>1, <2>1, RestFacts, ReactCalls
    <2>2. ASSUME NEW n \in Loads, Open(n, FALSE, Rest(c, r), Jar(r))
          PROVE  \A d \in calls' : d \in Rest(c, r) \/ Asked(d)
      BY <1>1, <2>2, RestFacts, OpenCalls
    <2> QED
      BY <1>1, <2>1, <2>2, RestFacts
  <1> QED
    BY <1>2, RestSame, AnsweredType

LEMMA ScriptCalls ==
  ASSUME TypeOK, Opened, Script
  PROVE  /\ \A d \in calls' : d \in calls \/ Asked(d)
         /\ calls \subseteq calls'
         /\ UNCHANGED <<held, owner, txn, admin, cookie>>
  <1>0. /\ cookie \in Sessions \cup {0}
        /\ page.view # "none" => page.n \in Loads
        /\ Users \subseteq Users \cup {NoUser}
    BY PageFacts DEF TypeOK, Opened
  <1>1. CASE Submit
    <2>1. PICK u \in Users : Ask("login", u, NoWorkspace, NoUser)
      BY <1>1 DEF Submit
    <2>2. Asked(Request("login", page.n, cookie, u, NoWorkspace, NoUser, FALSE))
      BY <1>0, <1>1, RequestAsked DEF Submit, Kinds
    <2> QED
      BY <1>1, <2>1, <2>2 DEF Ask, Submit, identity
  <1>2. CASE SwitchWorkspace
    BY <1>2 DEF SwitchWorkspace, identity
  <1>3. CASE SwitchAccount
    <2>1. Asked(Request("logout", page.n, cookie, NoUser, NoWorkspace, NoUser,
                        FALSE))
      BY <1>0, <1>3, RequestAsked DEF SwitchAccount, Kinds
    <2> QED
      BY <1>3, <2>1 DEF Ask, SwitchAccount, identity
  <1>4. CASE SignOutEverywhere
    <2>1. Asked(Request("everywhere", page.n, cookie, NoUser, NoWorkspace,
                        NoUser, FALSE))
      BY <1>0, <1>4, RequestAsked DEF SignOutEverywhere, Kinds
    <2> QED
      BY <1>4, <2>1 DEF Ask, SignOutEverywhere, identity
  <1>5. ASSUME NEW w \in Workspaces, Pick(w)
        PROVE  /\ \A d \in calls' : d \in calls \/ Asked(d)
               /\ calls \subseteq calls'
               /\ UNCHANGED <<held, owner, txn, admin, cookie>>
    <2>1. Chooser(page.user) \in Users \cup {NoUser}
      BY PageFacts DEF Chooser
    <2>2. Asked(Request("select", page.n, cookie, NoUser, w, Chooser(page.user),
                        FALSE))
      BY <1>0, <1>5, <2>1, RequestAsked DEF Pick, Kinds
    <2> QED
      BY <1>5, <2>2 DEF Ask, Pick, identity
  <1> QED
    BY <1>1, <1>2, <1>3, <1>4, <1>5 DEF Script

(* c has become d, and the others are as they were.                        *)
Served(c, d) ==
  \A x \in calls' : x = d \/ \E e \in calls \ {c} : Same(x, e)
Failed(c, d) ==
  /\ \E reply \in {"transaction", "session", "csrf", "refused"} :
       d = [c EXCEPT !.at = "answered", !.reply = reply]
  /\ calls' = (calls \ {c}) \cup {d}
  /\ UNCHANGED <<identity, cookie, page>>

LEMMA ReplyFailed ==
  ASSUME NEW c, NEW reply \in {"transaction", "session", "csrf", "refused"},
         Reply(c, reply), UNCHANGED <<identity, cookie, page>>
  PROVE  \E d : Failed(c, d)
  BY DEF Reply, Step, Failed

LEMMA StepServed ==
  ASSUME NEW c, NEW d, Step(c, d)
  PROVE  Served(c, d)
  BY DEF Step, Served, Same

LEMMA ChangedServed ==
  ASSUME TypeOK, NEW c, NEW d, calls' = Changed(calls \ {c}) \cup {d}
  PROVE  Served(c, d)
  <1>1. calls \ {c} \in SUBSET Call
    BY DEF TypeOK
  <1> QED
    BY <1>1, ChangedSame DEF Served

LEMMA FailedServed ==
  ASSUME NEW c, NEW d, Failed(c, d)
  PROVE  Served(c, d)
  BY DEF Failed, Served, Same

-----------------------------------------------------------------------------
(* Rights.                                                                 *)
LEMMA SameRights ==
  ASSUME TypeOK, NEW e \in calls, NEW d, Same(d, e), UserKnown(e)
  PROVE  UserKnown(d)
  <1>1. e \in Call
    BY CallFacts
  <1> QED
    BY <1>1, SameFacts DEF UserKnown, Succeeded

LEMMA AskedRights ==
  ASSUME NEW d, Asked(d)
  PROVE  UserKnown(d)
  BY DEF Asked, UserKnown, Succeeded

LEMMA FailedRights ==
  ASSUME TypeOK, NEW c \in calls, NEW d, Failed(c, d), UserKnown(c)
  PROVE  UserKnown(d)
  <1>1. PICK reply \in {"transaction", "session", "csrf", "refused"} :
          d = [c EXCEPT !.at = "answered", !.reply = reply]
    BY DEF Failed
  <1>2. d.at = "answered" /\ d.reply = reply /\ d.kind = c.kind /\ d.user = c.user
    BY <1>1, CallFacts DEF Call
  <1> QED
    BY <1>2 DEF UserKnown, Succeeded

LEMMA ServeRights ==
  ASSUME TypeOK, NEW c \in calls, UserKnown(c), Serve(c) \/ Refuse(c)
  PROVE  \E d : Served(c, d) /\ UserKnown(d)
  <1> USE DEF identity
  <1>0. c \in Call /\ held' = held
    BY CallFacts, ServeType
  <1>1. ASSUME NEW d, Failed(c, d)
        PROVE  Served(c, d) /\ UserKnown(d)
    BY <1>1, FailedServed, FailedRights
  <1>2. CASE Establish(c)
    <2>1. CASE txn[c.n].status # "PENDING"
      BY <1>1, <1>2, <2>1, ReplyFailed DEF Establish
    <2>2. CASE txn[c.n].status = "PENDING"
      <3>1. PICK s \in Sessions : calls' = Changed(calls \ {c}) \cup
                   {[c EXCEPT !.at = "established", !.sid = s]}
        BY <1>2, <2>2 DEF Establish
      <3> DEFINE d == [c EXCEPT !.at = "established", !.sid = s]
      <3>2. /\ d.kind = c.kind /\ d.at = "established" /\ d.user = c.user
            /\ d.reply = c.reply /\ d.ws = c.ws
        BY <1>0 DEF Call
      <3>3. c.kind = "login" /\ c.at = "sent"
        BY <1>2 DEF Establish
      <3>4. UserKnown(d)
        BY <3>2, <3>3 DEF UserKnown, Succeeded
      <3> QED
        BY <3>1, <3>4, ChangedServed
    <2> QED
      BY <2>1, <2>2
  <1>3. CASE CompleteAndBind(c)
    <2>1. CASE txn[c.n].status # "PENDING"
      BY <1>1, <1>3, <2>1, ReplyFailed DEF CompleteAndBind
    <2>2. CASE txn[c.n].status = "PENDING"
      <3> DEFINE d == [c EXCEPT !.at = "listing", !.cookie = c.sid]
      <3>1. Step(c, d) /\ c.at = "established"
        BY <1>3, <2>2 DEF CompleteAndBind
      <3>2. /\ d.kind = c.kind /\ d.at = "listing" /\ d.user = c.user
            /\ d.reply = c.reply /\ d.ws = c.ws
        BY <1>0 DEF Call
      <3>3. UserKnown(d)
        BY <3>1, <3>2 DEF UserKnown, Succeeded
      <3> QED
        BY <3>1, <3>3, StepServed
    <2> QED
      BY <2>1, <2>2
  <1>4. CASE ReadSession(c)
    <2>1. CASE UserOf(c.sid) = NoUser
      BY <1>1, <1>4, <2>1, ReplyFailed DEF ReadSession
    <2>2. CASE UserOf(c.sid) # NoUser
      <3>0. PICK d : d = [c EXCEPT !.at = "listing", !.user = UserOf(c.sid)]
        OBVIOUS
      <3>1. Step(c, d) /\ c.kind = "assignments" /\ c.at = "sent"
        BY <1>4, <2>2, <3>0 DEF ReadSession
      <3>2. /\ d.kind = c.kind /\ d.at = "listing" /\ d.user = UserOf(c.sid)
            /\ d.reply = c.reply /\ d.ws = c.ws
        BY <1>0, <3>0 DEF Call
      <3>3. UserOf(c.sid) \in Users
        BY <2>2, UserOfType, CallFacts
      <3>4. UserKnown(d)
        BY <3>1, <3>2, <3>3 DEF UserKnown, Succeeded
      <3> QED
        BY <3>1, <3>4, StepServed
    <2> QED
      BY <2>1, <2>2
  <1>5. CASE List(c)
    <2>1. c.at = "listing"
      BY <1>5 DEF List
    <2>2. CASE \E w \in held[c.user] : c.kind = "login" /\
            Step(c, [c EXCEPT !.at = "resolving", !.list = held[c.user],
                              !.ws = w])
      <3>1. PICK w \in held[c.user] : c.kind = "login" /\
              Step(c, [c EXCEPT !.at = "resolving", !.list = held[c.user],
                                !.ws = w])
        BY <2>2
      <3>0. PICK d : d = [c EXCEPT !.at = "resolving", !.list = held[c.user],
                                   !.ws = w]
        OBVIOUS
      <3>2. /\ d.kind = c.kind /\ d.at = "resolving" /\ d.user = c.user
            /\ d.reply = c.reply /\ d.ws = w
        BY <1>0, <3>0 DEF Call
      <3>3. UserKnown(d)
        BY <2>1, <3>1, <3>2 DEF UserKnown, Succeeded
      <3> QED
        BY <3>0, <3>1, <3>3, StepServed
    <2>3. CASE Step(c, [c EXCEPT !.at = "answered", !.reply = "ok",
                                 !.list = held[c.user]])
      <3>0. PICK d : d = [c EXCEPT !.at = "answered", !.reply = "ok",
                                   !.list = held[c.user]]
        OBVIOUS
      <3>1. /\ d.kind = c.kind /\ d.at = "answered" /\ d.user = c.user
            /\ d.reply = "ok" /\ d.ws = c.ws
        BY <1>0, <3>0 DEF Call
      <3>2. UserKnown(d)
        BY <2>1, <3>1 DEF UserKnown, Succeeded
      <3> QED
        BY <2>3, <3>0, <3>2, StepServed
    <2> QED
      BY <1>5, <2>2, <2>3 DEF List
  <1>6. CASE SelectScope(c)
    <2>1. CASE /\ UserOf(c.sid) # NoUser
               /\ Step(c, [c EXCEPT !.at = "resolving", !.user = UserOf(c.sid)])
      <3>0. PICK d : d = [c EXCEPT !.at = "resolving", !.user = UserOf(c.sid)]
        OBVIOUS
      <3>1. c.kind = "select" /\ c.at = "sent"
        BY <1>6 DEF SelectScope
      <3>2. /\ d.kind = c.kind /\ d.at = "resolving" /\ d.user = UserOf(c.sid)
            /\ d.reply = c.reply
        BY <1>0, <3>0 DEF Call
      <3>3. UserOf(c.sid) \in Users
        BY <2>1, UserOfType, CallFacts
      <3>4. UserKnown(d)
        BY <3>1, <3>2, <3>3 DEF UserKnown, Succeeded
      <3> QED
        BY <2>1, <3>0, <3>4, StepServed
    <2>2. CASE UNCHANGED txn /\ \E reply \in {"csrf", "session"} : Reply(c, reply)
      BY <1>1, <1>6, <2>2, ReplyFailed DEF SelectScope
    <2> QED
      BY <1>6, <2>1, <2>2 DEF SelectScope
  <1>7. CASE Activate(c)
    <2>1. CASE c.ws \notin held[c.user]
      BY <1>1, <1>7, <2>1, ReplyFailed DEF Activate
    <2>2. CASE c.ws \in held[c.user]
      <3> DEFINE d == [c EXCEPT !.at = "answered", !.reply = "ok"]
      <3>1. Step(c, d) /\ c.at = "resolving"
        BY <1>7, <2>2 DEF Activate, Reply
      <3>2. /\ d.kind = c.kind /\ d.at = "answered" /\ d.user = c.user
            /\ d.reply = "ok" /\ d.ws = c.ws
        BY <1>0 DEF Call
      <3>3. UserKnown(d)
        BY <2>2, <3>1, <3>2 DEF UserKnown, Succeeded
      <3> QED
        BY <3>1, <3>3, StepServed
    <2> QED
      BY <2>1, <2>2
  <1>8. CASE Applications(c)
    <2>1. CASE UserOf(c.sid) = NoUser
      BY <1>1, <1>8, <2>1, ReplyFailed DEF Applications
    <2>2. CASE UserOf(c.sid) # NoUser
      <3>0. PICK d : d = [c EXCEPT !.at = "answered", !.reply = "ok",
                                   !.user = UserOf(c.sid)]
        OBVIOUS
      <3>1. Step(c, d) /\ c.kind = "apps"
        BY <1>8, <2>2, <3>0 DEF Applications
      <3>2. /\ d.kind = c.kind /\ d.at = "answered" /\ d.user = UserOf(c.sid)
            /\ d.reply = "ok" /\ d.ws = c.ws
        BY <1>0, <3>0 DEF Call
      <3>3. UserOf(c.sid) \in Users
        BY <2>2, UserOfType, CallFacts
      <3>4. UserKnown(d)
        BY <3>1, <3>2, <3>3 DEF UserKnown, Succeeded
      <3> QED
        BY <3>1, <3>4, StepServed
    <2> QED
      BY <2>1, <2>2
  <1>9. CASE SignOut(c)
    <2>1. CASE txn[c.n].status = "none"
      BY <1>1, <1>9, <2>1, ReplyFailed DEF SignOut
    <2>2. CASE txn[c.n].status # "none"
      <3> DEFINE d == [c EXCEPT !.at = "answered", !.reply = "ok", !.cookie = 0]
      <3>1. calls' = Changed(calls \ {c}) \cup {d}
        BY <1>9, <2>2 DEF SignOut
      <3>2. d.kind = c.kind /\ d.kind \in {"logout", "everywhere"}
            /\ d.at = "answered" /\ d.reply = "ok"
        BY <1>0, <1>9 DEF Call, SignOut
      <3>3. UserKnown(d)
        BY <3>2 DEF UserKnown, Succeeded
      <3> QED
        BY <3>1, <3>3, ChangedServed
    <2> QED
      BY <2>1, <2>2
  <1>10. CASE Refuse(c)
    BY <1>1, <1>10, ReplyFailed DEF Refuse
  <1> QED
    BY <1>2, <1>3, <1>4, <1>5, <1>6, <1>7, <1>8, <1>9, <1>10 DEF Serve

LEMMA ReassignRights ==
  ASSUME TypeOK, RightsInv, NEW u \in Users, NEW w \in Workspaces, Reassign(u, w)
  PROVE  RightsInv'
  <1> DEFINE now == held'[u]
  <1>1. /\ held' = [held EXCEPT ![u] = (@ \ {w}) \cup ({w} \ @)]
        /\ calls' = calls
        /\ admin' = IF admin.at = "sent" /\ admin.user = u
                    THEN [admin EXCEPT !.during = @ \cup now] ELSE admin
    <2>1. held \in [Users -> SUBSET Workspaces]
      BY DEF TypeOK
    <2> QED
      BY <2>1 DEF Reassign
  <1>2. \A x \in Users : x # u => held'[x] = held[x]
    BY <1>1 DEF TypeOK
  <1> HIDE DEF now
  <1>3. \A c \in calls' : UserKnown(c)
    BY <1>1 DEF RightsInv
  <1>4. AdminOK' /\ AdministratorHeldTheRight'
    <2>1. admin \in Admin /\ AdminOK /\ AdministratorHeldTheRight
      BY DEF TypeOK, RightsInv
    <2>2. CASE admin.at # "sent"
      BY <1>1, <2>1, <2>2 DEF AdminOK, AdministratorHeldTheRight
    <2>3. CASE admin.at = "sent" /\ admin.user # u
      BY <1>1, <1>2, <2>1, <2>3 DEF AdminOK, AdministratorHeldTheRight
    <2>4. CASE admin.at = "sent" /\ admin.user = u
      <3>1. admin' = [admin EXCEPT !.during = @ \cup now]
        BY <1>1, <2>4
      <3>2. admin'.at = "sent" /\ admin'.user = u /\ held'[u] \subseteq admin'.during
        BY <2>1, <2>4, <3>1 DEF Admin, now
      <3> QED
        BY <3>2 DEF AdminOK, AdministratorHeldTheRight
    <2> QED
      BY <2>2, <2>3, <2>4
  <1> QED
    BY <1>3, <1>4 DEF RightsInv

LEMMA AdminRights ==
  ASSUME TypeOK, RightsInv, ForceLogout \/ RequireCoreAdmin \/ LogoutUser
  PROVE  AdminOK' /\ AdministratorHeldTheRight'
  <1>0. admin \in Admin /\ AdminOK /\ AdministratorHeldTheRight
    BY DEF TypeOK, RightsInv
  <1>1. CASE ForceLogout
    BY <1>1 DEF ForceLogout, AdminOK, AdministratorHeldTheRight
  <1>2. CASE RequireCoreAdmin
    <2>1. admin.at = "sent" /\ held' = held
      BY <1>2 DEF RequireCoreAdmin
    <2>2. CASE MayAct
      <3>1. admin' = [admin EXCEPT !.at = "allowed"]
        BY <1>2, <2>2 DEF RequireCoreAdmin
      <3>2. /\ admin'.at = "allowed" /\ admin'.user = admin.user
            /\ admin'.ws = admin.ws /\ admin'.during = admin.during
        BY <1>0, <3>1 DEF Admin
      <3> QED
        BY <1>0, <2>1, <2>2, <3>2
        DEF MayAct, AdminOK, AdministratorHeldTheRight
    <2>3. CASE ~MayAct
      BY <1>2, <2>3
      DEF RequireCoreAdmin, NoAdmin, AdminOK, AdministratorHeldTheRight
    <2> QED
      BY <2>2, <2>3
  <1>3. CASE LogoutUser
    BY <1>3 DEF LogoutUser, NoAdmin, AdminOK, AdministratorHeldTheRight
  <1> QED
    BY <1>1, <1>2, <1>3

LEMMA RightsStep ==
  ASSUME TypeOK, Opened, RightsInv, [Next]_vars
  PROVE  RightsInv'
  <1> USE DEF identity
  <1>0. /\ \A c \in calls : UserKnown(c)
        /\ AdminOK /\ AdministratorHeldTheRight
    BY DEF RightsInv
  <1>1. UNCHANGED <<held, admin>> => AdminOK' /\ AdministratorHeldTheRight'
    BY <1>0 DEF AdminOK, AdministratorHeldTheRight
  <1>2. ASSUME held' = held,
               \A d \in calls' : (\E e \in calls : Same(d, e)) \/ Asked(d)
        PROVE  \A d \in calls' : UserKnown(d)
    BY <1>0, <1>2, SameRights, AskedRights
  <1>3. \A e \in calls : Same(e, e)
    BY DEF Same
  <1>4. ASSUME calls' = calls \/ calls' = Changed(calls)
        PROVE  \A d \in calls' : (\E e \in calls : Same(d, e)) \/ Asked(d)
    <2>1. calls \in SUBSET Call
      BY DEF TypeOK
    <2> QED
      BY <1>3, <1>4, <2>1, ChangedSame
  <1>5. CASE UNCHANGED vars
    BY <1>1, <1>2, <1>4, <1>5 DEF vars, RightsInv
  <1>6. CASE Script
    <2>1. \A d \in calls' : (\E e \in calls : Same(d, e)) \/ Asked(d)
      BY <1>3, <1>6, ScriptCalls
    <2> QED
      BY <1>1, <1>2, <1>6, <2>1, ScriptCalls DEF RightsInv
  <1>7. ASSUME NEW c \in calls, Serve(c) \/ Refuse(c)
        PROVE  RightsInv'
    <2>1. UserKnown(c)
      BY <1>0
    <2>2. PICK d : Served(c, d) /\ UserKnown(d)
      BY <1>7, <2>1, ServeRights
    <2>3. held' = held /\ admin' = admin
      BY <1>7, <2>1, ServeType
    <2>4. \A x \in calls' : UserKnown(x)
      BY <1>0, <2>2, <2>3, SameRights DEF Served
    <2> QED
      BY <1>1, <2>3, <2>4 DEF RightsInv
  <1>8. ASSUME NEW c \in calls, Answered(c)
        PROVE  RightsInv'
    <2>1. \A d \in calls' : (\E e \in calls : Same(d, e)) \/ Asked(d)
      BY <1>8, AnsweredCalls
    <2>2. held' = held /\ admin' = admin
      BY <1>8, AnsweredCalls
    <2> QED
      BY <1>1, <1>2, <2>1, <2>2 DEF RightsInv
  <1>9. ASSUME NEW c \in calls, ReceiveNowhere(c)
        PROVE  RightsInv'
    <2>1. calls \ {c} \in SUBSET Call
      BY DEF TypeOK
    <2>2. \A d \in calls' : (\E e \in calls : Same(d, e)) \/ Asked(d)
      BY <1>3, <1>9, <2>1, ChangedSame DEF ReceiveNowhere
    <2> QED
      BY <1>1, <1>2, <1>9, <2>2 DEF ReceiveNowhere, RightsInv
  <1>10. ASSUME NEW late \in BOOLEAN, Load(late)
         PROVE  RightsInv'
    <2>1. cookie \in Sessions \cup {0} /\ calls \in SUBSET Call
      BY DEF TypeOK
    <2>2. \A d \in calls' : (\E e \in calls : Same(d, e)) \/ Asked(d)
      BY <1>3, <1>10, <2>1, OpenCalls DEF Load
    <2> QED
      BY <1>1, <1>2, <1>10, <2>2, LoadType DEF RightsInv
  <1>11. CASE Elsewhere
    <2>1. CASE SignInElsewhere
      BY <1>1, <1>2, <1>4, <2>1 DEF SignInElsewhere, RightsInv
    <2>2. ASSUME NEW s \in Sessions, EndSession(s)
          PROVE  RightsInv'
      BY <1>1, <1>2, <1>4, <2>2 DEF EndSession, RightsInv
    <2>3. ASSUME NEW n \in Loads, ExpireTransaction(n)
          PROVE  RightsInv'
      BY <1>1, <1>2, <1>4, <2>3 DEF ExpireTransaction, RightsInv
    <2>4. CASE ForceLogout \/ RequireCoreAdmin \/ LogoutUser
      <3>1. held' = held /\ (calls' = calls \/ calls' = Changed(calls))
        BY <2>4 DEF ForceLogout, RequireCoreAdmin, LogoutUser
      <3> QED
        BY <1>2, <1>4, <2>4, <3>1, AdminRights DEF RightsInv
    <2> QED
      BY <1>11, <2>1, <2>2, <2>3, <2>4, ReassignRights DEF Elsewhere
  <1> QED
    BY <1>5, <1>6, <1>7, <1>8, <1>9, <1>10, <1>11, NextCases

LEMMA InitRights == Init => Opened /\ RightsInv
  BY DEF Init, Blank, NoAdmin, Opened, RightsInv, AdminOK,
         AdministratorHeldTheRight

(* Every answer and every screen is one the script knows.                  *)
Basics == TypeOK /\ Opened /\ RightsInv

LEMMA BasicsStep == Basics /\ [Next]_vars => Basics'
  <1> SUFFICES ASSUME Basics, [Next]_vars PROVE Basics'
    OBVIOUS
  <1>1. TypeOK /\ Opened /\ RightsInv /\ \A c \in calls : UserKnown(c)
    BY DEF Basics, RightsInv
  <1> QED
    BY <1>1, TypeStep, OpenedStep, RightsStep DEF Basics

LEMMA BasicsAlways == Spec => []Basics
  <1>1. Init => Basics
    BY InitType, InitRights DEF Basics
  <1> QED
    BY <1>1, BasicsStep, PTL DEF Spec

(* Every variable keeps its type: a page has the answers it needs to       *)
(* become the next one, whatever was lost, refused or answered late.       *)
THEOREM TypeCorrect == Spec => []TypeOK
  BY BasicsAlways, PTL DEF Basics

(* Nobody's sessions are ended by an administrator without a right held    *)
(* since the request came (FederationController logout).                   *)
THEOREM AdministratorsHeldTheRight == Spec => []AdministratorHeldTheRight
  <1>1. Basics => AdministratorHeldTheRight
    BY DEF Basics, RightsInv
  <1> QED
    BY <1>1, BasicsAlways, PTL

-----------------------------------------------------------------------------
(* The screen, while the page stays: the calls go on as the calls f gives. *)
Goes(f, some) ==
  /\ calls' = {f[e] : e \in some}
  /\ \A e \in some : f[e].kind = e.kind /\ f[e].n = e.n
Stays ==
  \E f : \E some \in SUBSET calls :
    Goes(f, some) /\ \A e \in calls : OnPage(e) => e \in some

LEMMA StaysScreen ==
  ASSUME ScreenInv, Stays, page' = page
  PROVE  ScreenInv'
  <1>0. PICK f : \E some \in SUBSET calls :
          Goes(f, some) /\ \A e \in calls : OnPage(e) => e \in some
    BY DEF Stays
  <1>1. PICK some \in SUBSET calls :
          Goes(f, some) /\ \A e \in calls : OnPage(e) => e \in some
    BY <1>0
  <1>2. /\ \A d \in calls' : \E e \in some :
             d = f[e] /\ d.kind = e.kind /\ d.n = e.n
        /\ \A e \in some : f[e] \in calls' /\ f[e].kind = e.kind /\ f[e].n = e.n
    BY <1>1 DEF Goes
  <1>3. \A kinds : Awaits(kinds) => Awaits(kinds)'
    BY <1>1, <1>2 DEF Awaits, OnPage
  <1>4. EverySpinnerAwaitsAnAnswer'
    <2>1. EverySpinnerAwaitsAnAnswer
      BY DEF ScreenInv
    <2> QED
      BY <1>3, <2>1 DEF EverySpinnerAwaitsAnAnswer
  <1>5. ASSUME page.view = "opening", NEW c \in calls', NEW d \in calls',
               OnPage(c)', OnPage(d)'
        PROVE  c = d
    <2>1. PICK e \in some : c = f[e] /\ c.n = e.n
      BY <1>2
    <2>2. PICK g \in some : d = f[g] /\ d.n = g.n
      BY <1>2
    <2>3. OnPage(e) /\ OnPage(g) /\ e \in calls /\ g \in calls
      BY <1>1, <1>5, <2>1, <2>2 DEF OnPage
    <2> QED
      BY <1>5, <2>1, <2>2, <2>3 DEF ScreenInv
  <1>6. ASSUME NEW c \in calls', c.kind = "assignments"
        PROVE  OnPage(c)' /\ page.view = "opening"
    <2>1. PICK e \in some : c = f[e] /\ c.n = e.n /\ c.kind = e.kind
      BY <1>2
    <2> QED
      BY <1>1, <1>6, <2>1 DEF ScreenInv, OnPage
  <1> QED
    BY <1>4, <1>5, <1>6 DEF ScreenInv

LEMMA SomeGoes ==
  ASSUME NEW some \in SUBSET Call
  PROVE  \E f : /\ Changed(some) = {f[e] : e \in some}
                /\ \A e \in some : f[e].kind = e.kind /\ f[e].n = e.n
  <1> DEFINE f == [e \in some |-> IF e.kind \in {"login", "select", "apps"}
                                  THEN [e EXCEPT !.changed = TRUE] ELSE e]
  <1>1. Changed(some) = {f[e] : e \in some}
    BY DEF Changed
  <1>2. \A e \in some : f[e].kind = e.kind /\ f[e].n = e.n
    BY DEF Call
  <1> HIDE DEF f
  <1> QED
    BY <1>1, <1>2

LEMMA ServeForm ==
  ASSUME TypeOK, NEW c \in calls, Serve(c) \/ Refuse(c)
  PROVE  \E d : /\ d.kind = c.kind /\ d.n = c.n
                /\ \/ calls' = (calls \ {c}) \cup {d}
                   \/ calls' = Changed(calls \ {c}) \cup {d}
  <1>0. c \in Call
    BY CallFacts
  <1>1. ASSUME NEW d, d.kind = c.kind, d.n = c.n, Step(c, d)
        PROVE  \E x : /\ x.kind = c.kind /\ x.n = c.n
                      /\ \/ calls' = (calls \ {c}) \cup {x}
                         \/ calls' = Changed(calls \ {c}) \cup {x}
    BY <1>1 DEF Step
  <1>2. ASSUME NEW reply
        PROVE  LET d == [c EXCEPT !.at = "answered", !.reply = reply]
               IN  d.kind = c.kind /\ d.n = c.n
    BY <1>0 DEF Call
  <1>3. CASE Establish(c)
    <2>1. \A s : LET d == [c EXCEPT !.at = "established", !.sid = s]
                 IN  d.kind = c.kind /\ d.n = c.n
      BY <1>0 DEF Call
    <2> QED
      BY <1>1, <1>2, <1>3, <2>1 DEF Establish, Reply
  <1>4. CASE CompleteAndBind(c)
    <2>1. LET d == [c EXCEPT !.at = "listing", !.cookie = c.sid]
          IN  d.kind = c.kind /\ d.n = c.n
      BY <1>0 DEF Call
    <2> QED
      BY <1>1, <1>2, <1>4, <2>1 DEF CompleteAndBind, Reply
  <1>5. CASE ReadSession(c)
    <2>1. LET d == [c EXCEPT !.at = "listing", !.user = UserOf(c.sid)]
          IN  d.kind = c.kind /\ d.n = c.n
      BY <1>0 DEF Call
    <2> QED
      BY <1>1, <1>2, <1>5, <2>1 DEF ReadSession, Reply
  <1>6. CASE List(c)
    <2>1. \A w : LET d == [c EXCEPT !.at = "resolving", !.list = held[c.user],
                             !.ws = w]
                 IN  d.kind = c.kind /\ d.n = c.n
      BY <1>0 DEF Call
    <2>2. LET d == [c EXCEPT !.at = "answered", !.reply = "ok",
                             !.list = held[c.user]]
          IN  d.kind = c.kind /\ d.n = c.n
      BY <1>0 DEF Call
    <2> QED
      BY <1>1, <1>6, <2>1, <2>2 DEF List
  <1>7. CASE SelectScope(c)
    <2>1. LET d == [c EXCEPT !.at = "resolving", !.user = UserOf(c.sid)]
          IN  d.kind = c.kind /\ d.n = c.n
      BY <1>0 DEF Call
    <2> QED
      BY <1>1, <1>2, <1>7, <2>1 DEF SelectScope, Reply
  <1>8. CASE Activate(c) \/ Refuse(c)
    BY <1>1, <1>2, <1>8 DEF Activate, Refuse, Reply
  <1>9. CASE Applications(c)
    <2>1. LET d == [c EXCEPT !.at = "answered", !.reply = "ok",
                             !.user = UserOf(c.sid)]
          IN  d.kind = c.kind /\ d.n = c.n
      BY <1>0 DEF Call
    <2> QED
      BY <1>1, <1>2, <1>9, <2>1 DEF Applications, Reply
  <1>10. CASE SignOut(c)
    <2>1. LET d == [c EXCEPT !.at = "answered", !.reply = "ok", !.cookie = 0]
          IN  d.kind = c.kind /\ d.n = c.n
      BY <1>0 DEF Call
    <2> QED
      BY <1>1, <1>2, <1>10, <2>1 DEF SignOut, Reply
  <1> QED
    BY <1>3, <1>4, <1>5, <1>6, <1>7, <1>8, <1>9, <1>10 DEF Serve

LEMMA ServeStays ==
  ASSUME TypeOK, NEW c \in calls, Serve(c) \/ Refuse(c)
  PROVE  Stays
  <1>1. PICK d : /\ d.kind = c.kind /\ d.n = c.n
                 /\ \/ calls' = (calls \ {c}) \cup {d}
                    \/ calls' = Changed(calls \ {c}) \cup {d}
    BY ServeForm
  <1>2. PICK g : /\ calls' = {g[e] : e \in calls \ {c}} \cup {d}
                 /\ \A e \in calls \ {c} : g[e].kind = e.kind /\ g[e].n = e.n
    <2>1. CASE calls' = (calls \ {c}) \cup {d}
      <3> DEFINE g == [e \in calls \ {c} |-> e]
      <3>1. /\ calls' = {g[e] : e \in calls \ {c}} \cup {d}
            /\ \A e \in calls \ {c} : g[e].kind = e.kind /\ g[e].n = e.n
        <4>1. \A e \in calls \ {c} : g[e] = e
          OBVIOUS
        <4>2. {g[e] : e \in calls \ {c}} = calls \ {c}
          BY <4>1
        <4> QED
          BY <2>1, <4>1, <4>2
      <3> HIDE DEF g
      <3> QED
        BY <3>1
    <2>2. CASE calls' = Changed(calls \ {c}) \cup {d}
      <3>1. calls \ {c} \in SUBSET Call
        BY DEF TypeOK
      <3> QED
        BY <2>2, <3>1, SomeGoes
    <2> QED
      BY <1>1, <2>1, <2>2
  <1> DEFINE f == [e \in calls |-> IF e = c THEN d ELSE g[e]]
  <1>3. calls' = {f[e] : e \in calls}
    BY <1>2
  <1>4. \A e \in calls : f[e].kind = e.kind /\ f[e].n = e.n
    BY <1>1, <1>2
  <1> HIDE DEF f
  <1> QED
    BY <1>3, <1>4 DEF Stays, Goes

LEMMA KeepStays ==
  ASSUME TypeOK, NEW some \in SUBSET calls,
         \A e \in calls : OnPage(e) => e \in some,
         calls' = some \/ calls' = Changed(some)
  PROVE  Stays
  <1>1. CASE calls' = some
    <2> DEFINE f == [e \in some |-> e]
    <2>1. Goes(f, some)
      BY <1>1 DEF Goes
    <2> HIDE DEF f
    <2> QED
      BY <2>1 DEF Stays
  <1>2. CASE calls' = Changed(some)
    <2>1. some \in SUBSET Call
      BY DEF TypeOK
    <2>2. PICK f : /\ Changed(some) = {f[e] : e \in some}
                   /\ \A e \in some : f[e].kind = e.kind /\ f[e].n = e.n
      BY <2>1, SomeGoes
    <2>3. Goes(f, some)
      BY <1>2, <2>2 DEF Goes
    <2> QED
      BY <2>3 DEF Stays
  <1> QED
    BY <1>1, <1>2

LEMMA ElsewhereStays ==
  ASSUME TypeOK, Elsewhere
  PROVE  Stays
  <1>1. calls' = calls \/ calls' = Changed(calls)
    BY DEF Elsewhere, SignInElsewhere, EndSession, ExpireTransaction, Reassign,
           ForceLogout, RequireCoreAdmin, LogoutUser
  <1> QED
    BY <1>1, KeepStays

LEMMA AskFacts ==
  ASSUME NEW kind, NEW user, NEW ws, NEW shown, Ask(kind, user, ws, shown)
  PROVE  \E q : q.kind = kind /\ q.n = page.n /\ calls' = calls \cup {q}
  <1> DEFINE q == Request(kind, page.n, cookie, user, ws, shown, FALSE)
  <1>1. q.kind = kind /\ q.n = page.n
    BY DEF Request
  <1>2. calls' = calls \cup {q}
    BY DEF Ask
  <1> HIDE DEF q
  <1> QED
    BY <1>1, <1>2

LEMMA ScriptScreen ==
  ASSUME TypeOK, ScreenInv, Script
  PROVE  ScreenInv'
  <1> USE DEF TypeOK, Page
  <1>0. /\ calls \subseteq calls'
        /\ \A d \in calls' : d.kind = "assignments" => d \in calls
    <2>1. CASE calls' = calls
      BY <2>1
    <2>2. ASSUME NEW kind \in {"login", "select", "logout", "everywhere"},
                 NEW user, NEW ws, NEW shown, Ask(kind, user, ws, shown)
          PROVE  /\ calls \subseteq calls'
                 /\ \A d \in calls' : d.kind = "assignments" => d \in calls
      BY <2>2, AskFacts
    <2> QED
      BY <2>1, <2>2 DEF Script, Submit, SwitchWorkspace, SwitchAccount,
        SignOutEverywhere, Pick
  <1>1. /\ page'.n = page.n /\ page'.user = page.user
        /\ \/ page'.view = page.view
              /\ page.view \in {"workspaces", "selecting", "apps"}
           \/ page'.view = "workspaces" /\ page.user # NoUser
           \/ page'.view = "signingIn" /\ Awaits({"login"})'
           \/ page'.view = "selecting" /\ Awaits({"select"})'
              /\ page.view = "workspaces"
    <2>1. CASE Submit
      <3>1. page' = [page EXCEPT !.view = "signingIn"]
            /\ \E u \in Users : Ask("login", u, NoWorkspace, NoUser)
        BY <2>1 DEF Submit
      <3>2. page'.n = page.n
        BY <3>1
      <3>3. Awaits({"login"})'
        BY <3>1, <3>2, AskFacts DEF Awaits
      <3> QED
        BY <3>1, <3>3
    <2>2. CASE SwitchWorkspace
      BY <2>2 DEF SwitchWorkspace, WorkspacesShown
    <2>3. CASE SwitchAccount \/ SignOutEverywhere
      BY <2>3 DEF SwitchAccount, SignOutEverywhere
    <2>4. ASSUME NEW w \in Workspaces, Pick(w)
          PROVE  /\ page'.n = page.n /\ page'.user = page.user
                 /\ page'.view = "selecting" /\ page.view = "workspaces"
                 /\ Awaits({"select"})'
      <3>1. page' = [page EXCEPT !.view = "selecting"]
            /\ page.view = "workspaces"
            /\ Ask("select", NoUser, w, Chooser(page.user))
        BY <2>4 DEF Pick
      <3>2. page'.n = page.n
        BY <3>1
      <3>3. Awaits({"select"})'
        BY <3>1, <3>2, AskFacts DEF Awaits
      <3> QED
        BY <3>1, <3>3
    <2> QED
      BY <2>1, <2>2, <2>3, <2>4 DEF Script
  <1>2. page.view # "none" /\ page.view # "opening"
    BY DEF Script, Submit, SwitchWorkspace, SwitchAccount, SignOutEverywhere,
           Pick
  <1>3. EverySpinnerAwaitsAnAnswer'
    <2>1. page'.view = page.view /\ page.view = "selecting" => Awaits({"select"})'
      BY <1>0, <1>1 DEF ScreenInv, EverySpinnerAwaitsAnAnswer, Awaits
    <2> QED
      BY <1>1, <2>1 DEF EverySpinnerAwaitsAnAnswer
  <1> QED
    BY <1>0, <1>1, <1>2, <1>3 DEF ScreenInv, OnPage

LEMMA OpenScreen ==
  ASSUME TypeOK, NEW n \in Loads, NEW late \in BOOLEAN,
         NEW some \in SUBSET Call, NEW jar \in Sessions \cup {0},
         Open(n, late, some, jar)
  PROVE  ScreenInv'
  <1> DEFINE left == {c \in some : c.kind \in {"login", "logout", "everywhere"}}
             q == Request("assignments", n, jar, NoUser, NoWorkspace, NoUser,
                          FALSE)
  <1>1. /\ page'.n = n /\ n # 0 /\ page'.user = UserOf(jar)
        /\ page'.ws = NoWorkspace
        /\ page'.view = IF UserOf(jar) = NoUser THEN "signIn" ELSE "opening"
    BY SessionFacts DEF Open, Blank
  <1>2. /\ \A c \in left : c.n # n
        /\ calls' = left \cup IF UserOf(jar) = NoUser THEN {} ELSE {q}
    BY DEF Open
  <1>3. q.kind = "assignments" /\ q.n = n
    BY DEF Request
  <1>4. \A c \in left : c.kind # "assignments"
    OBVIOUS
  <1> HIDE DEF left, q
  <1>5. EverySpinnerAwaitsAnAnswer'
    BY <1>1, <1>2, <1>3 DEF EverySpinnerAwaitsAnAnswer, Awaits
  <1> QED
    BY <1>1, <1>2, <1>3, <1>4, <1>5 DEF ScreenInv, OnPage

LEMMA Chosen ==
  ASSUME NEW c, NEW r, Heard(c, r), UserKnown(c), r.reply = "ok",
         r.kind \in {"login", "assignments"}, r.list # {}
  PROVE  r.user \in Users
  BY DEF Heard, UserKnown

LEMMA ReactScreens ==
  ASSUME TypeOK, ScreenInv, NEW c \in calls, UserKnown(c), NEW r \in Call,
         Heard(c, r), OnPage(c), NEW some \in SUBSET Call,
         NEW jar \in Sessions \cup {0}, React(r, some, jar)
  PROVE  \/ page'.view \in {"signIn", "expired", "error", "apps"}
         \/ page'.view = "loading" /\ Awaits({"apps"})'
         \/ page'.view = "workspaces" /\ page'.user # NoUser
         \/ /\ page'.view = "opening" /\ page'.user # NoUser
            /\ page'.ws = page.ws
            /\ \E q : q.kind = "select" /\ q.n = page.n /\ calls' = some \cup {q}
         \/ /\ page' = page /\ calls' = some /\ c.kind = "select"
            /\ page.view \notin {"opening", "workspaces", "selecting"}
  <1> DEFINE Goal == \/ page'.view \in {"signIn", "expired", "error", "apps"}
                     \/ page'.view = "loading" /\ Awaits({"apps"})'
                     \/ page'.view = "workspaces" /\ page'.user # NoUser
                     \/ /\ page'.view = "opening" /\ page'.user # NoUser
                        /\ page'.ws = page.ws
                        /\ \E q : /\ q.kind = "select" /\ q.n = page.n
                                  /\ calls' = some \cup {q}
                     \/ /\ page' = page /\ calls' = some /\ c.kind = "select"
                        /\ page.view \notin {"opening", "workspaces", "selecting"}
  <1>0. page \in Page /\ Cardinality({}) = 0 /\ NoUser \notin Users
    BY FS_EmptySet, UsersAssumption DEF TypeOK
  <1>1. ASSUME NEW p \in Page, p.n = page.n, ShowApplications(p, r, some, jar)
        PROVE  page'.view = "loading" /\ Awaits({"apps"})'
    <2> DEFINE q == Request("apps", p.n, jar, NoUser, NoWorkspace, NoUser,
                            r.changed)
    <2>1. q.kind = "apps" /\ q.n = page.n
      BY <1>1 DEF Request
    <2>2. calls' = some \cup {q} /\ page' = [p EXCEPT !.view = "loading"]
      BY <1>1 DEF ShowApplications, Show
    <2> HIDE DEF q
    <2>3. page'.n = page.n /\ page'.view = "loading"
      BY <1>1, <2>2 DEF Page
    <2> QED
      BY <2>1, <2>2, <2>3 DEF Awaits
  <1>2. ASSUME NEW p \in Page, NEW view,
               Show(p, view) \/ (SignedOut(p) /\ view = "signIn")
        PROVE  page'.view = view
    BY <1>2 DEF Show, SignedOut, Page
  <1>3. CASE r.kind = "login" /\ LoginAnswered(r, some, jar)
    <2> DEFINE p == [Activates(page, r) EXCEPT !.user = r.user, !.listed = r.list]
    <2>1. p \in Page /\ p.n = page.n /\ p.user = r.user
      <3>1. Activates(page, r) \in Page /\ Activates(page, r).n = page.n
        BY <1>0, ActivatesType DEF Activates, Page
      <3> QED
        BY <3>1, TakenFacts DEF Page
    <2>2. CASE ShowApplications(p, r, some, jar)
      BY <1>1, <2>1, <2>2
    <2>3. CASE \E view \in {"expired", "signIn"} : Show(page, view)
      BY <1>0, <1>2, <2>3
    <2>4. CASE /\ r.reply = "ok" /\ Cardinality(r.list) >= 2
               /\ page' = [p EXCEPT !.view = "workspaces", !.offered = r.list]
      <3>1. r.list # {}
        BY <1>0, <2>4
      <3>2. page'.view = "workspaces" /\ page'.user = r.user
        BY <2>1, <2>4 DEF Page
      <3> QED
        BY <1>0, <1>3, <2>4, <3>1, <3>2, Chosen
    <2> QED
      BY <1>3, <2>2, <2>3, <2>4 DEF LoginAnswered
  <1>4. CASE r.kind = "assignments" /\ AssignmentsAnswered(r, some, jar)
    <2> DEFINE p == [page EXCEPT !.user = r.user, !.listed = r.list]
    <2>1. p \in Page /\ p.n = page.n /\ p.user = r.user /\ p.ws = page.ws
          /\ p.view = "opening"
      <3>1. page.view = "opening"
        BY <1>4 DEF ScreenInv, Heard
      <3> QED
        BY <1>0, <3>1, TakenFacts DEF Page
    <2>2. CASE ShowApplications(p, r, some, jar)
      BY <1>1, <2>1, <2>2
    <2>3. CASE Show(page, "error")
      BY <1>0, <1>2, <2>3
    <2>4. CASE SignedOut(page)
      BY <1>0, <1>2, <2>4
    <2>5. CASE /\ r.reply = "ok" /\ Cardinality(r.list) >= 2
               /\ page' = WorkspacesShown(p)
      <3>1. r.list # {}
        BY <1>0, <2>5
      <3>2. p.user \in Users
        BY <1>4, <2>1, <2>5, <3>1, Chosen
      <3> HIDE DEF p
      <3> QED
        BY <1>0, <2>1, <2>5, <3>2 DEF WorkspacesShown, Page
    <2>6. CASE /\ r.reply = "ok" /\ page' = p
               /\ \E w \in r.list : calls' = some \cup
                   {Request("select", p.n, jar, NoUser, w, Chooser(r.user), FALSE)}
      <3>1. p.user \in Users
        BY <1>4, <2>1, <2>6, Chosen
      <3>2. PICK w : calls' = some \cup
               {Request("select", p.n, jar, NoUser, w, Chooser(r.user), FALSE)}
        BY <2>6
      <3> DEFINE q == Request("select", p.n, jar, NoUser, w, Chooser(r.user),
                              FALSE)
      <3>3. q.kind = "select" /\ q.n = page.n
        BY <2>1 DEF Request
      <3>4. calls' = some \cup {q}
        BY <3>2
      <3> HIDE DEF p, q
      <3> QED
        BY <1>0, <2>1, <2>6, <3>1, <3>3, <3>4
    <2> QED
      BY <1>4, <2>2, <2>3, <2>4, <2>5, <2>6 DEF AssignmentsAnswered
  <1>5. CASE r.kind = "select" /\ SelectAnswered(r, some, jar)
    <2>1. CASE ShowApplications(Activates(page, r), r, some, jar)
      <3>1. Activates(page, r) \in Page /\ Activates(page, r).n = page.n
        BY <1>0, ActivatesType DEF Activates, Page
      <3> QED
        BY <1>1, <2>1, <3>1
    <2>2. CASE Show(page, "expired") \/ SignedOut(page)
      BY <1>0, <1>2, <2>2
    <2>3. CASE page' = WorkspacesShown(page) /\ calls' = some
      <3>1. CASE page.user = NoUser
        BY <1>5, <2>3, <3>1 DEF WorkspacesShown, ScreenInv, Heard
      <3>2. CASE page.user # NoUser
        BY <1>0, <2>3, <3>2 DEF WorkspacesShown, Page
      <3> QED
        BY <3>1, <3>2
    <2> QED
      BY <1>5, <2>1, <2>2, <2>3 DEF SelectAnswered
  <1>6. CASE AppsAnswered(r, some)
    <2>1. CASE Show(page, "error") \/ SignedOut(page)
      BY <1>0, <1>2, <2>1
    <2>2. CASE page' = [page EXCEPT !.view = "apps", !.appsUser = r.user,
              !.mixed = @ \/ r.changed,
              !.offered =
                IF page.ws # NoWorkspace /\ Cardinality(page.listed) > 1
                THEN page.listed ELSE {}]
      BY <1>0, <2>2 DEF Page
    <2> QED
      BY <1>6, <2>1, <2>2 DEF AppsAnswered
  <1>7. CASE SignedOut(page)
    BY <1>0, <1>2, <1>7
  <1> HIDE DEF Goal
  <1>8. Goal
    BY <1>3, <1>4, <1>5, <1>6, <1>7 DEF React, Goal
  <1> QED
    BY <1>8 DEF Goal

LEMMA AnsweredScreen ==
  ASSUME TypeOK, ScreenInv, NEW c \in calls, UserKnown(c), Answered(c)
  PROVE  ScreenInv'
  <1>1. PICK r \in Call : Heard(c, r) /\ Arrives(c, r)
    BY HeardFacts
  <1> DEFINE some == Rest(c, r)
  <1>2. /\ Jar(r) \in Sessions \cup {0} /\ some \in SUBSET Call
        /\ OnPage(c) /\ page.n # 0
    BY <1>1, RestFacts DEF OnPage
  <1>3. ASSUME NEW n \in Loads, Open(n, FALSE, some, Jar(r))
        PROVE  ScreenInv'
    BY <1>2, <1>3, OpenScreen
  <1>4. CASE React(r, some, Jar(r))
    <2>1. /\ \A d \in some : \E e \in calls \ {c} : d.kind = e.kind /\ d.n = e.n
          /\ \A e \in calls \ {c} : \E d \in some : d.kind = e.kind /\ d.n = e.n
      <3>1. \A e \in calls \ {c} : e \in Call
        BY DEF TypeOK
      <3> QED
        BY <3>1, RestSame, SameFacts
    <2>2. \A d \in calls' : d.kind # "assignments"
      <3>1. \A d \in some : d.kind # "assignments"
        BY <1>2, <2>1 DEF ScreenInv
      <3> QED
        BY <1>2, <1>4, <3>1, ReactCalls
    <2>3. page.view = "opening" => \A d \in some : d.n # page.n
      BY <1>2, <2>1 DEF ScreenInv, OnPage
    <2>4. page'.n = page.n
      BY <1>4, ReactPage
    <2> HIDE DEF some
    <2>5. \/ page'.view \in {"signIn", "expired", "error", "apps"}
          \/ page'.view = "loading" /\ Awaits({"apps"})'
          \/ page'.view = "workspaces" /\ page'.user # NoUser
          \/ /\ page'.view = "opening" /\ page'.user # NoUser
             /\ page'.ws = page.ws
             /\ \E q : q.kind = "select" /\ q.n = page.n /\ calls' = some \cup {q}
          \/ /\ page' = page /\ calls' = some /\ c.kind = "select"
             /\ page.view \notin {"opening", "workspaces", "selecting"}
      BY <1>1, <1>2, <1>4, ReactScreens
    <2>6. CASE page'.view \in {"signIn", "expired", "error", "apps"}
      BY <1>2, <2>2, <2>4, <2>6 DEF ScreenInv, EverySpinnerAwaitsAnAnswer
    <2>7. CASE page'.view = "loading" /\ Awaits({"apps"})'
      BY <1>2, <2>2, <2>4, <2>7 DEF ScreenInv, EverySpinnerAwaitsAnAnswer
    <2>8. CASE page'.view = "workspaces" /\ page'.user # NoUser
      BY <1>2, <2>2, <2>4, <2>8 DEF ScreenInv, EverySpinnerAwaitsAnAnswer
    <2>9. CASE /\ page'.view = "opening" /\ page'.user # NoUser
               /\ page'.ws = page.ws /\ page.view = "opening"
               /\ \E q : q.kind = "select" /\ q.n = page.n
                         /\ calls' = some \cup {q}
      <3>1. PICK q : q.kind = "select" /\ q.n = page.n /\ calls' = some \cup {q}
        BY <2>9
      <3>2. Awaits({"assignments", "select"})'
        BY <2>4, <3>1 DEF Awaits
      <3>3. \A d, e \in calls' : d.n = page'.n /\ e.n = page'.n => d = e
        BY <2>3, <2>4, <2>9, <3>1
      <3> QED
        BY <1>2, <2>2, <2>4, <2>9, <3>2, <3>3
        DEF ScreenInv, EverySpinnerAwaitsAnAnswer, OnPage
    <2>10. CASE /\ page' = page /\ calls' = some /\ c.kind = "select"
                /\ page.view \notin {"opening", "workspaces", "selecting"}
      <3>1. \A kinds : "select" \notin kinds /\ Awaits(kinds) => Awaits(kinds)'
        BY <2>1, <2>10 DEF Awaits
      <3>2. EverySpinnerAwaitsAnAnswer'
        BY <2>10, <3>1 DEF ScreenInv, EverySpinnerAwaitsAnAnswer
      <3> QED
        BY <1>2, <2>2, <2>10, <3>2 DEF ScreenInv
    <2>11. page'.view = "opening" => page.view = "opening"
      BY <1>4, ReactPage
    <2> QED
      BY <2>5, <2>6, <2>7, <2>8, <2>9, <2>10, <2>11
  <1> QED
    BY <1>1, <1>3, <1>4, RestFacts

LEMMA ScreenStep ==
  ASSUME Basics, ScreenInv, [Next]_vars
  PROVE  ScreenInv'
  <1>0. TypeOK /\ \A c \in calls : UserKnown(c)
    BY DEF Basics, RightsInv
  <1>1. CASE UNCHANGED vars
    BY <1>0, <1>1, KeepStays, StaysScreen DEF vars
  <1>2. CASE Script
    BY <1>0, <1>2, ScriptScreen
  <1>3. ASSUME NEW c \in calls, Serve(c) \/ Refuse(c)
        PROVE  ScreenInv'
    BY <1>0, <1>3, ServeType, ServeStays, StaysScreen
  <1>4. ASSUME NEW c \in calls, Answered(c)
        PROVE  ScreenInv'
    BY <1>0, <1>4, AnsweredScreen
  <1>5. ASSUME NEW c \in calls, ReceiveNowhere(c)
        PROVE  ScreenInv'
    <2>1. \A e \in calls : OnPage(e) => e \in calls \ {c}
      BY <1>5 DEF ReceiveNowhere, OnPage
    <2>2. /\ page' = page
          /\ calls' = calls \ {c} \/ calls' = Changed(calls \ {c})
      BY <1>5 DEF ReceiveNowhere
    <2> QED
      BY <1>0, <2>1, <2>2, KeepStays, StaysScreen
  <1>6. ASSUME NEW late \in BOOLEAN, Load(late)
        PROVE  ScreenInv'
    <2>1. cookie \in Sessions \cup {0} /\ calls \in SUBSET Call
      BY <1>0 DEF TypeOK
    <2> QED
      BY <1>0, <1>6, <2>1, OpenScreen DEF Load
  <1>7. CASE Elsewhere
    BY <1>0, <1>7, ElsewhereType, ElsewhereStays, StaysScreen
  <1> QED
    BY <1>1, <1>2, <1>3, <1>4, <1>5, <1>6, <1>7, NextCases

LEMMA ScreenAlways == Spec => [](Basics /\ ScreenInv)
  <1>1. Init => ScreenInv
    BY DEF Init, Blank, ScreenInv, EverySpinnerAwaitsAnAnswer
  <1>2. Basics /\ ScreenInv /\ [Next]_vars => ScreenInv'
    BY ScreenStep
  <1> QED
    BY <1>1, <1>2, BasicsAlways, PTL DEF Spec

(* No spinner of the portal waits for an answer that nothing will bring,   *)
(* in whatever order the answers come (public/login.js startPortal,        *)
(* selectWorkspace, showApplications).                                     *)
THEOREM SpinnersAwaitAnswers == Spec => []EverySpinnerAwaitsAnAnswer
  <1>1. ScreenInv => EverySpinnerAwaitsAnAnswer
    BY DEF ScreenInv
  <1> QED
    BY <1>1, ScreenAlways, PTL

-----------------------------------------------------------------------------
(* Sessions.  The calls in some go on as they were but for their           *)
(* histories, and those in new are changed or new.                         *)
Alike(d, e) ==
  /\ d.kind = e.kind /\ d.n = e.n /\ d.sid = e.sid /\ d.at = e.at
  /\ d.user = e.user /\ d.reply = e.reply /\ d.cookie = e.cookie
  /\ d.shown = e.shown
Moves(some, new) ==
  \E f : /\ calls' = {f[e] : e \in some} \cup new
         /\ \A e \in some : Alike(f[e], e)

(* A session in use stays its user's or ends.                              *)
OwnerKept ==
  \A s \in Sessions : s \in InUse => owner'[s] \in {owner[s], NoUser}
TxnSame(n) ==
  There(n)' => /\ txn'[n].status = txn[n].status /\ txn'[n].late = txn[n].late
               /\ txn[n].sid # 0 => txn'[n].sid = txn[n].sid
SignedIn(c) ==
  c.kind = "login" /\ (c.at \in {"listing", "resolving"} \/ Succeeded(c))
TxnFits(c) ==
  \/ TxnSame(c.n)
  \/ /\ ~SignedIn(c) /\ c.kind # "assignments"
     /\ c.kind = "select" => txn'[c.n].sid \notin {0, c.sid}
Apart(c, new) ==
  c.at = "established" =>
    /\ c.sid # cookie' /\ \A d \in new : d.sid # c.sid
    /\ \A d \in calls' : txn'[d.n].sid # c.sid
    /\ page'.n # 0 => txn'[page'.n].sid # c.sid
CallOK(c) ==
  /\ CookieOK(c) /\ Unbound(c) /\ SignedInBy(c) /\ ListedFor(c)
  /\ SelectedFor(c)

LEMMA UseFacts ==
  ASSUME TypeOK, Opened, NEW c \in calls
  PROVE  /\ c.sid \in InUse /\ c.n \in LoadsInUse /\ txn[c.n].sid \in InUse
         /\ page.n # 0 => page.n \in LoadsInUse /\ txn[page.n].sid \in InUse
         /\ cookie \in InUse
  <1>1. c.n \in Loads /\ c.n # 0
    BY CallFacts, SessionFacts
  <1> QED
    BY <1>1 DEF InUse, LoadsInUse

LEMMA OfKept ==
  ASSUME TypeOK, OwnerKept, NEW s \in Sessions \cup {0}, s \in InUse, NEW user,
         Of(s, user)
  PROVE  Of(s, user)'
  BY DEF OwnerKept, Of

LEMMA CarryOn ==
  ASSUME TypeOK, Opened, NEW some \in SUBSET calls, NEW new, Moves(some, new),
         OwnerKept, NEW f, calls' = {f[g] : g \in some} \cup new,
         \A g \in some : Alike(f[g], g),
         NEW e \in some, CallOK(e), TxnFits(e), Apart(e, new)
  PROVE  CallOK(f[e])'
  <1> DEFINE x == f[e]
  <1>0. e \in calls /\ Alike(x, e) /\ e \in Call
    BY CallFacts
  <1> HIDE DEF x
  <1>1. e.sid \in Sessions \cup {0} /\ e.sid \in InUse
    BY <1>0, UseFacts, CallFacts
  <1>2. CookieOK(x)
    BY <1>0 DEF Alike, CallOK, CookieOK, Succeeded
  <1>3. Unbound(x)'
    <2> SUFFICES ASSUME x.at = "established"
                 PROVE  /\ x.sid # cookie' /\ Of(x.sid, x.user)'
                        /\ \A d \in calls' : d # x => d.sid # x.sid
                        /\ \A d \in calls' : txn'[d.n].sid # x.sid
                        /\ page'.n # 0 => txn'[page'.n].sid # x.sid
      BY DEF Unbound
    <2>1. e.at = "established" /\ x.sid = e.sid /\ x.user = e.user
      BY <1>0 DEF Alike
    <2>2. Of(x.sid, x.user)'
      BY <1>1, <2>1, OfKept DEF CallOK, Unbound
    <2>3. ASSUME NEW d \in calls', d # x
          PROVE  d.sid # x.sid
      <3>1. CASE d \in new
        BY <2>1, <3>1 DEF Apart
      <3>2. ASSUME NEW g \in some, d = f[g]
            PROVE  d.sid # x.sid
        <4>1. g # e /\ g \in calls /\ d.sid = g.sid
          BY <2>3, <3>2 DEF Alike, x
        <4> QED
          BY <2>1, <4>1 DEF CallOK, Unbound
      <3> QED
        BY <3>1, <3>2
    <2> QED
      BY <2>1, <2>2, <2>3 DEF Apart
  <1>4. SignedInBy(x)'
    <2> SUFFICES ASSUME SignedIn(x)
                 PROVE  /\ Of(x.sid, x.user)'
                        /\ There(x.n)' =>
                             /\ txn'[x.n].status = "COMPLETED"
                             /\ txn'[x.n].sid = x.sid /\ ~txn'[x.n].late
      BY DEF SignedInBy, SignedIn
    <2>1. SignedIn(e) /\ x.sid = e.sid /\ x.user = e.user /\ x.n = e.n
      BY <1>0 DEF Alike, SignedIn, Succeeded
    <2>2. Of(e.sid, e.user) /\ e.sid # 0
      BY <2>1 DEF CallOK, SignedInBy, SignedIn, Of
    <2>3. Of(x.sid, x.user)'
      BY <1>1, <2>1, <2>2, OfKept
    <2>4. TxnSame(e.n)
      BY <2>1 DEF TxnFits
    <2>5. There(e.n)' => There(e.n)
      BY <2>4 DEF TxnSame, There
    <2>6. There(e.n) => /\ txn[e.n].status = "COMPLETED"
                        /\ txn[e.n].sid = e.sid /\ ~txn[e.n].late
      BY <2>1 DEF CallOK, SignedInBy, SignedIn
    <2> QED
      BY <2>1, <2>2, <2>3, <2>4, <2>5, <2>6 DEF TxnSame
  <1>5. ListedFor(x)'
    <2> SUFFICES ASSUME x.kind = "assignments"
                 PROVE  ListedFor(x)'
      BY DEF ListedFor
    <2>1. /\ e.kind = "assignments" /\ x.sid = e.sid /\ x.user = e.user
          /\ x.n = e.n /\ x.at = e.at /\ x.reply = e.reply
      BY <1>0 DEF Alike
    <2>2. ListedFor(e) /\ TxnSame(e.n)
      BY <2>1 DEF CallOK, TxnFits
    <2>3. There(e.n)' => There(e.n)
      BY <2>2 DEF TxnSame, There
    <2>4. x.at = "listing" \/ Succeeded(x) => Of(x.sid, x.user)'
      BY <1>1, <2>1, <2>2, OfKept DEF ListedFor, Succeeded
    <2>5. There(x.n)' /\ ~txn'[x.n].late => txn'[x.n].sid = x.sid
      BY <2>1, <2>2, <2>3 DEF TxnSame, ListedFor
    <2>6. x.sid # 0
      BY <2>1, <2>2 DEF ListedFor
    <2> QED
      BY <2>4, <2>5, <2>6 DEF ListedFor
  <1>6. SelectedFor(x)'
    <2> SUFFICES ASSUME x.kind = "select", x.shown # NoUser
                 PROVE  SelectedFor(x)'
      BY DEF SelectedFor
    <2>1. /\ e.kind = "select" /\ x.sid = e.sid /\ x.user = e.user
          /\ x.n = e.n /\ x.at = e.at /\ x.reply = e.reply /\ x.shown = e.shown
      BY <1>0 DEF Alike
    <2>2. SelectedFor(e) /\ e.shown # NoUser
      BY <2>1 DEF CallOK
    <2>3. x.at = "resolving" \/ Succeeded(x) => x.user = x.shown
      BY <2>1, <2>2 DEF SelectedFor, Succeeded
    <2>4. ASSUME x.at = "sent", There(x.n)'
          PROVE  /\ txn'[x.n].sid # 0
                 /\ txn'[x.n].sid = x.sid => Of(x.sid, x.shown)'
      <3>1. CASE TxnSame(e.n)
        <4>1. There(e.n)
          BY <2>1, <2>4, <3>1 DEF TxnSame, There
        <4>2. txn[e.n].sid # 0 /\ (txn[e.n].sid = e.sid => Of(e.sid, e.shown))
          BY <2>1, <2>2, <2>4, <4>1 DEF SelectedFor
        <4>3. txn'[e.n].sid = txn[e.n].sid
          BY <2>1, <2>4, <3>1, <4>2 DEF TxnSame
        <4> QED
          BY <1>1, <2>1, <4>2, <4>3, OfKept
      <3>2. CASE txn'[e.n].sid \notin {0, e.sid}
        BY <2>1, <3>2
      <3> QED
        BY <2>1, <3>1, <3>2 DEF TxnFits
    <2> QED
      BY <2>3, <2>4 DEF SelectedFor
  <1> QED
    BY <1>2, <1>3, <1>4, <1>5, <1>6 DEF CallOK, CookieOK, x

LEMMA CarryAll ==
  ASSUME TypeOK, Opened, NEW some \in SUBSET calls, NEW new, Moves(some, new),
         OwnerKept, \A e \in some : CallOK(e) /\ TxnFits(e) /\ Apart(e, new),
         \A d \in new : CallOK(d)'
  PROVE  \A x \in calls' : CallOK(x)'
  <1>1. PICK f : /\ calls' = {f[g] : g \in some} \cup new
                 /\ \A g \in some : Alike(f[g], g)
    BY DEF Moves
  <1>2. \A e \in some : CallOK(f[e])'
    BY <1>1, CarryOn
  <1> QED
    BY <1>1, <1>2

LEMMA ChangedAlike ==
  ASSUME NEW some \in SUBSET Call, NEW new,
         \/ calls' = some \cup new
         \/ calls' = Changed(some) \cup new
  PROVE  Moves(some, new)
  <1>1. CASE calls' = some \cup new
    <2> DEFINE f == [e \in some |-> e]
    <2>1. calls' = {f[e] : e \in some} \cup new /\ \A e \in some : Alike(f[e], e)
      BY <1>1 DEF Alike
    <2> HIDE DEF f
    <2> QED
      BY <2>1 DEF Moves
  <1>2. CASE calls' = Changed(some) \cup new
    <2> DEFINE f == [e \in some |-> IF e.kind \in {"login", "select", "apps"}
                                    THEN [e EXCEPT !.changed = TRUE] ELSE e]
    <2>1. Changed(some) = {f[e] : e \in some}
      BY DEF Changed
    <2>2. ASSUME NEW e \in some
          PROVE  Alike(f[e], e)
      <3>1. Same(f[e], e) /\ e \in Call
        BY DEF Same
      <3> HIDE DEF f
      <3> QED
        BY <3>1, SameFacts DEF Alike
    <2> HIDE DEF f
    <2> QED
      BY <1>2, <2>1, <2>2 DEF Moves
  <1> QED
    BY <1>1, <1>2

LEMMA MovesFacts ==
  ASSUME NEW some, NEW new, Moves(some, new)
  PROVE  \A x \in calls' : x \in new \/ \E e \in some : Alike(x, e)
  BY DEF Moves

LEMMA SigningInKept ==
  ASSUME NEW some \in SUBSET calls, NEW new, Moves(some, new), page'.n = page.n,
         \A d \in new : d.kind = "login" /\ d.n = page.n => SigningIn,
         page'.view \in {"signIn", "signingIn"} => SigningIn
  PROVE  SigningIn' => SigningIn
  <1>1. ASSUME NEW x \in calls', x.kind = "login", OnPage(x)'
        PROVE  SigningIn
    <2>1. x.n = page.n
      BY <1>1 DEF OnPage
    <2>2. x \in new \/ \E e \in some : Alike(x, e)
      BY MovesFacts
    <2> QED
      BY <1>1, <2>1, <2>2 DEF SigningIn, OnPage, Alike
  <1> QED
    BY <1>1 DEF SigningIn

LEMMA BoundKept ==
  ASSUME TypeOK, Opened, BoundToShown, OwnerKept, page'.n = page.n,
         page'.user = page.user, SigningIn' => SigningIn,
         page.n # 0 => TxnSame(page.n)
  PROVE  BoundToShown'
  <1> SUFFICES ASSUME page.n # 0, There(page.n)'
               PROVE  /\ page.user # NoUser /\ ~txn'[page.n].late
                           => /\ txn'[page.n].sid # 0
                              /\ owner'[txn'[page.n].sid]
                                   \in {page.user, NoUser}
                      /\ txn'[page.n].status = "PENDING" /\ SigningIn'
                           => page.user = NoUser
    BY DEF BoundToShown, Of
  <1>1. /\ txn'[page.n].status = txn[page.n].status
        /\ txn'[page.n].late = txn[page.n].late /\ There(page.n)
        /\ txn[page.n].sid # 0 => txn'[page.n].sid = txn[page.n].sid
    BY DEF TxnSame, There
  <1>2. ASSUME page.user # NoUser, ~txn[page.n].late
        PROVE  /\ txn'[page.n].sid # 0
               /\ owner'[txn'[page.n].sid] \in {page.user, NoUser}
    <2>1. PICK s, user : s = txn[page.n].sid /\ user = page.user
      OBVIOUS
    <2>2. Of(s, user) /\ s # 0
      BY <1>1, <1>2, <2>1 DEF BoundToShown, Of
    <2>3. s \in Sessions \cup {0} /\ s \in InUse
      <3>1. page.n \in Loads
        BY PageFacts
      <3> QED
        BY <2>1, <3>1, SessionFacts DEF TypeOK, Txn, InUse, LoadsInUse
    <2>4. Of(s, user)'
      BY <2>2, <2>3, OfKept
    <2>5. txn'[page.n].sid = s
      BY <1>1, <2>1, <2>2
    <2>6. page'.n = page.n
      OBVIOUS
    <2> QED
      BY <2>1, <2>4, <2>5, <2>6 DEF Of
  <1> QED
    BY <1>1, <1>2 DEF BoundToShown

(* One call goes a step further on the server.                             *)
Turned(c, d) ==
  /\ d.kind = c.kind /\ d.n = c.n /\ d.at # "sent"
  /\ \/ calls' = (calls \ {c}) \cup {d}
     \/ calls' = Changed(calls \ {c}) \cup {d}

LEMMA TurnedSessions ==
  ASSUME TypeOK, Opened, SessionsInv, NEW c \in calls, NEW d, Turned(c, d),
         page' = page, cookie' = cookie, OwnerKept,
         \A e \in calls \ {c} : TxnFits(e),
         \A e \in calls \ {c} : e.at = "established" => d.sid # e.sid,
         \A n \in Loads : txn'[n].sid \in {0, txn[n].sid, d.sid},
         CallOK(d)',
         BoundToShown' \/ (page.n # 0 => TxnSame(page.n))
  PROVE  SessionsInv'
  <1> DEFINE some == calls \ {c}
  <1>1. Moves(some, {d})
    <2>1. some \in SUBSET Call
      BY DEF TypeOK
    <2> QED
      BY <2>1, ChangedAlike DEF Turned
  <1>2. \A e \in some : CallOK(e)
    BY DEF SessionsInv, CallOK
  <1>3. ASSUME NEW e \in some
        PROVE  Apart(e, {d})
    <2> SUFFICES ASSUME e.at = "established"
                 PROVE  /\ e.sid # cookie' /\ d.sid # e.sid
                        /\ \A x \in calls' : txn'[x.n].sid # e.sid
                        /\ page'.n # 0 => txn'[page'.n].sid # e.sid
      BY DEF Apart
    <2>1. /\ e.sid # cookie /\ e.sid # 0 /\ d.sid # e.sid
          /\ \A x \in calls : txn[x.n].sid # e.sid
          /\ page.n # 0 => txn[page.n].sid # e.sid
      BY <1>2 DEF CallOK, Unbound, Of
    <2>2. ASSUME NEW n \in Loads, txn[n].sid # e.sid
          PROVE  txn'[n].sid # e.sid
      BY <2>1, <2>2
    <2>3. ASSUME NEW x \in calls'
          PROVE  txn'[x.n].sid # e.sid
      <3>1. \E y \in calls : x.n = y.n
        BY <1>1, MovesFacts DEF Alike, Turned
      <3> QED
        BY <2>1, <2>2, <3>1, CallFacts
    <2>4. page.n # 0 => txn'[page.n].sid # e.sid
      BY <2>1, <2>2, PageFacts
    <2> QED
      BY <2>1, <2>3, <2>4
  <1>4. \A x \in calls' : CallOK(x)'
    BY <1>1, <1>2, <1>3, CarryAll
  <1>5. BoundToShown'
    <2>1. CASE page.n # 0 => TxnSame(page.n)
      <3>1. d.kind = "login" /\ d.n = page.n => SigningIn
        BY DEF Turned, SigningIn, OnPage
      <3>2. page.view \in {"signIn", "signingIn"} => SigningIn
        BY DEF SigningIn
      <3>3. SigningIn' => SigningIn
        BY <1>1, <3>1, <3>2, SigningInKept
      <3> QED
        BY <2>1, <3>3, BoundKept DEF SessionsInv
    <2> QED
      BY <2>1
  <1> QED
    BY <1>4, <1>5 DEF SessionsInv, CallOK

LEMMA OwnerFacts ==
  ASSUME TypeOK
  PROVE  /\ owner' = owner => OwnerKept
         /\ \A some : owner' = Ended(some) => OwnerKept
         /\ txn' = txn => \A n : TxnSame(n)
  <1>1. \A some : \A s \in Sessions : Ended(some)[s] \in {owner[s], NoUser}
    BY DEF Ended
  <1>2. owner' = owner => OwnerKept
    BY DEF OwnerKept
  <1>3. \A some : owner' = Ended(some) => OwnerKept
    BY <1>1 DEF OwnerKept
  <1>4. txn' = txn => \A n : TxnSame(n)
    BY DEF TxnSame, There
  <1> QED
    BY <1>2, <1>3, <1>4

LEMMA FreshOwner ==
  ASSUME TypeOK, NEW some, NEW u, NEW s \in Sessions, Fresh(s),
         owner' = [Ended(some) EXCEPT ![s] = u]
  PROVE  OwnerKept /\ owner'[s] = u
  <1>1. s \notin InUse
    BY DEF Fresh
  <1>2. /\ DOMAIN Ended(some) = Sessions
        /\ \A r \in Sessions : Ended(some)[r] \in {owner[r], NoUser}
    BY DEF Ended
  <1>3. owner'[s] = u /\ \A r \in Sessions : r # s => owner'[r] = Ended(some)[r]
    BY <1>2
  <1> QED
    BY <1>1, <1>2, <1>3 DEF OwnerKept

LEMMA TurnedQuietly ==
  ASSUME TypeOK, Opened, SessionsInv, NEW c \in calls, NEW d, Turned(c, d),
         page' = page, cookie' = cookie, OwnerKept, txn' = txn, d.sid = c.sid,
         CallOK(d)'
  PROVE  SessionsInv'
  <1>1. \A n : TxnSame(n)
    BY OwnerFacts
  <1>2. \A e \in calls \ {c} : TxnFits(e)
    BY <1>1 DEF TxnFits
  <1>3. \A e \in calls \ {c} : e.at = "established" => d.sid # e.sid
    BY DEF SessionsInv, Unbound
  <1> QED
    BY <1>1, <1>2, <1>3, TurnedSessions

LEMMA FailedSessions ==
  ASSUME TypeOK, Opened, SessionsInv, NEW c \in calls, NEW d, Failed(c, d)
  PROVE  SessionsInv'
  <1>1. PICK reply \in {"transaction", "session", "csrf", "refused"} :
          d = [c EXCEPT !.at = "answered", !.reply = reply]
    BY DEF Failed
  <1>2. /\ d.at = "answered" /\ d.reply # "ok" /\ d.kind = c.kind /\ d.n = c.n
        /\ d.sid = c.sid /\ d.cookie = c.cookie
    BY <1>1, CallFacts DEF Call
  <1>3. CookieOK(c) /\ ListedFor(c)
    BY DEF SessionsInv
  <1>4. UNCHANGED <<identity, cookie, page>> /\ calls' = (calls \ {c}) \cup {d}
    BY DEF Failed
  <1>5. CallOK(d)'
    BY <1>2, <1>3, <1>4 DEF CallOK, CookieOK, Unbound, SignedInBy, ListedFor,
      SelectedFor, Succeeded, There, identity
  <1> QED
    BY <1>2, <1>4, <1>5, TurnedQuietly, OwnerFacts DEF Turned, identity

LEMMA EstablishSessions ==
  ASSUME Basics, ScreenInv, SessionsInv, NEW c \in calls, Establish(c)
  PROVE  SessionsInv'
  <1>0. TypeOK /\ Opened /\ c \in Call /\ UserKnown(c) /\ CookieOK(c)
    BY CallFacts DEF Basics, RightsInv, SessionsInv
  <1>1. CASE txn[c.n].status # "PENDING"
    BY <1>0, <1>1, ReplyFailed, FailedSessions DEF Establish, identity
  <1>2. CASE txn[c.n].status = "PENDING"
    <2>1. PICK s \in Sessions :
            /\ Fresh(s) /\ owner' = [Ended({c.sid}) EXCEPT ![s] = c.user]
            /\ calls' = Changed(calls \ {c}) \cup
                          {[c EXCEPT !.at = "established", !.sid = s]}
      BY <1>2 DEF Establish
    <2>2. UNCHANGED <<held, txn, admin, cookie, page>> /\ c.kind = "login"
          /\ c.at = "sent"
      BY <1>2 DEF Establish
    <2> DEFINE d == [c EXCEPT !.at = "established", !.sid = s]
    <2>3. /\ d.at = "established" /\ d.kind = c.kind /\ d.n = c.n /\ d.sid = s
          /\ d.user = c.user /\ d.cookie = c.cookie /\ d.reply = c.reply
      BY <1>0 DEF Call
    <2>4. calls' = Changed(calls \ {c}) \cup {d}
      BY <2>1
    <2> HIDE DEF d
    <2>5. Turned(c, d)
      BY <2>3, <2>4 DEF Turned
    <2>6. OwnerKept /\ owner'[s] = c.user /\ \A n : TxnSame(n)
      BY <1>0, <2>1, <2>2, OwnerFacts, FreshOwner
    <2>7. \A e \in calls : e.sid # s /\ txn[e.n].sid # s
      BY <1>0, <2>1, UseFacts DEF Fresh
    <2>8. Moves(calls \ {c}, {d})
      <3>1. calls \ {c} \in SUBSET Call
        BY <1>0 DEF TypeOK
      <3> QED
        BY <2>4, <3>1, ChangedAlike
    <2>9. \A x \in calls' : /\ x # d => x.sid # s
                            /\ \E y \in calls : x.n = y.n
      BY <2>3, <2>7, <2>8, MovesFacts DEF Alike
    <2>10. Unbound(d)'
      <3>1. s # cookie /\ s # 0 /\ (page.n # 0 => txn[page.n].sid # s)
        BY <1>0, <2>1, SessionFacts, UseFacts DEF Fresh
      <3> QED
        BY <2>2, <2>3, <2>6, <2>7, <2>9, <3>1 DEF Unbound, Of
    <2>11. CallOK(d)'
      BY <1>0, <2>2, <2>3, <2>10 DEF CallOK, CookieOK, SignedInBy, ListedFor,
        SelectedFor, UserKnown, Succeeded
    <2>12. \A e \in calls \ {c} : TxnFits(e)
      BY <2>6 DEF TxnFits
    <2> QED
      BY <1>0, <2>2, <2>3, <2>5, <2>6, <2>7, <2>11, <2>12, TurnedSessions
  <1> QED
    BY <1>1, <1>2

LEMMA CompleteSessions ==
  ASSUME Basics, ScreenInv, SessionsInv, NEW c \in calls, CompleteAndBind(c)
  PROVE  SessionsInv'
  <1>0. TypeOK /\ Opened /\ c \in Call /\ UserKnown(c) /\ CallOK(c)
        /\ c.n \in Loads
    BY CallFacts DEF Basics, RightsInv, SessionsInv, CallOK
  <1>1. CASE txn[c.n].status # "PENDING"
    BY <1>0, <1>1, ReplyFailed, FailedSessions DEF CompleteAndBind, identity
  <1>2. CASE txn[c.n].status = "PENDING"
    <2> DEFINE d == [c EXCEPT !.at = "listing", !.cookie = c.sid]
    <2>1. /\ txn' = [txn EXCEPT ![c.n] =
               [status |-> "COMPLETED", sid |-> c.sid, late |-> FALSE]]
          /\ calls' = (calls \ {c}) \cup {d} /\ c.at = "established"
          /\ UNCHANGED <<held, owner, admin, cookie, page>>
      BY <1>2 DEF CompleteAndBind, Step
    <2>2. /\ d.at = "listing" /\ d.kind = c.kind /\ d.n = c.n /\ d.sid = c.sid
          /\ d.user = c.user /\ d.cookie = c.sid /\ d.reply = c.reply
      BY <1>0 DEF Call
    <2> HIDE DEF d
    <2>3. c.kind = "login" /\ Of(c.sid, c.user) /\ c.reply # "ok" /\ c.sid # 0
      BY <1>0, <2>1 DEF UserKnown, CallOK, Unbound, Of
    <2>4. /\ txn'[c.n].status = "COMPLETED" /\ txn'[c.n].sid = c.sid
          /\ ~txn'[c.n].late
          /\ \A n \in Loads : n # c.n => txn'[n] = txn[n]
      BY <1>0, <2>1 DEF TypeOK
    <2>5. \A e \in calls \ {c} : e.at = "established" => d.sid # e.sid
      BY <2>2 DEF SessionsInv, Unbound
    <2>6. ASSUME NEW e \in calls \ {c}
          PROVE  TxnFits(e)
      <3>1. CASE e.n # c.n
        BY <2>4, <3>1, <1>0, CallFacts DEF TxnFits, TxnSame, There
      <3>2. CASE e.n = c.n
        <4>1. ~SignedIn(e)
          BY <1>2, <3>2 DEF SignedIn, SessionsInv, SignedInBy, There
        <4>2. e.kind # "assignments"
          BY <2>3, <3>2 DEF ScreenInv, OnPage
        <4>3. e.sid # c.sid
          BY <1>0, <2>1 DEF CallOK, Unbound
        <4> QED
          BY <2>3, <2>4, <3>2, <4>1, <4>2, <4>3 DEF TxnFits
      <3> QED
        BY <3>1, <3>2
    <2>7. CallOK(d)'
      BY <2>1, <2>2, <2>3, <2>4 DEF CallOK, CookieOK, Unbound, SignedInBy,
        ListedFor, SelectedFor, Of
    <2>8. BoundToShown' \/ (page.n # 0 => TxnSame(page.n))
      <3>1. CASE c.n # page.n
        BY <1>0, <2>4, <3>1, PageFacts DEF TxnSame, There
      <3>2. CASE c.n = page.n
        <4>1. SigningIn
          BY <2>3, <3>2 DEF SigningIn, OnPage
        <4>2. page.n # 0 => page.user = NoUser
          BY <1>2, <3>2, <4>1 DEF SessionsInv, BoundToShown, There
        <4> QED
          BY <2>1, <4>2 DEF BoundToShown
      <3> QED
        BY <3>1, <3>2
    <2>9. \A n \in Loads : txn'[n].sid \in {0, txn[n].sid, d.sid}
      BY <2>2, <2>4
    <2>10. Turned(c, d) /\ OwnerKept
      BY <1>0, <2>1, <2>2, OwnerFacts DEF Turned
    <2> QED
      BY <1>0, <2>1, <2>5, <2>6, <2>7, <2>8, <2>9, <2>10, TurnedSessions
  <1> QED
    BY <1>1, <1>2

LEMMA SelectSessions ==
  ASSUME Basics, ScreenInv, SessionsInv, NEW c \in calls, SelectScope(c)
  PROVE  SessionsInv'
  <1>0. TypeOK /\ Opened /\ c \in Call /\ UserKnown(c) /\ CallOK(c)
        /\ c.n \in Loads /\ c.kind = "select" /\ c.at = "sent"
    BY CallFacts DEF Basics, RightsInv, SessionsInv, CallOK, SelectScope
  <1>1. CASE UNCHANGED txn /\ \E reply \in {"csrf", "session"} : Reply(c, reply)
    BY <1>0, <1>1, ReplyFailed, FailedSessions DEF SelectScope, identity
  <1>2. CASE /\ UserOf(c.sid) # NoUser /\ ~BindRefused(c.n, c.sid)
             /\ txn[c.n].status # "none"
             /\ txn' = [txn EXCEPT ![c.n].sid = c.sid]
             /\ Step(c, [c EXCEPT !.at = "resolving", !.user = UserOf(c.sid)])
    <2>1. PICK d : d = [c EXCEPT !.at = "resolving", !.user = UserOf(c.sid)]
      OBVIOUS
    <2>2. /\ calls' = (calls \ {c}) \cup {d}
          /\ UNCHANGED <<held, owner, admin, cookie, page>>
      BY <1>2, <2>1 DEF SelectScope, Step
    <2>3. /\ d.at = "resolving" /\ d.kind = c.kind /\ d.n = c.n /\ d.sid = c.sid
          /\ d.user = UserOf(c.sid) /\ d.cookie = c.cookie /\ d.reply = c.reply
          /\ d.shown = c.shown
      BY <1>0, <2>1 DEF Call
    <2>4. txn[c.n].sid \in {0, c.sid} /\ There(c.n)
      BY <1>2 DEF BindRefused, There
    <2>5. /\ txn'[c.n].sid = c.sid /\ txn'[c.n].status = txn[c.n].status
          /\ txn'[c.n].late = txn[c.n].late
          /\ \A n \in Loads : n # c.n => txn'[n] = txn[n]
      BY <1>0, <1>2 DEF TypeOK, Txn
    <2>6. \A n \in Loads : TxnSame(n)
      BY <2>4, <2>5 DEF TxnSame, There
    <2>7. c.sid # 0 /\ owner[c.sid] = UserOf(c.sid)
      BY <1>2 DEF UserOf
    <2>8. c.shown # NoUser => d.user = c.shown
      BY <1>0, <1>2, <2>3, <2>4, <2>7 DEF CallOK, SelectedFor, Of
    <2>9. c.reply # "ok"
      BY <1>0 DEF UserKnown
    <2>10. CallOK(d)'
      BY <1>0, <2>3, <2>8, <2>9 DEF CallOK, CookieOK, Unbound, SignedInBy,
        ListedFor, SelectedFor, Succeeded
    <2>11. \A e \in calls \ {c} : TxnFits(e)
      BY <1>0, <2>6, CallFacts DEF TxnFits
    <2>12. \A e \in calls \ {c} : e.at = "established" => d.sid # e.sid
      BY <2>3 DEF SessionsInv, Unbound
    <2>13. \A n \in Loads : txn'[n].sid \in {0, txn[n].sid, d.sid}
      BY <2>3, <2>5
    <2>14. page.n # 0 => TxnSame(page.n)
      BY <1>0, <2>6, PageFacts
    <2>15. Turned(c, d) /\ OwnerKept
      BY <1>0, <2>2, <2>3, OwnerFacts DEF Turned
    <2> QED
      BY <1>0, <2>2, <2>10, <2>11, <2>12, <2>13, <2>14, <2>15, TurnedSessions
  <1> QED
    BY <1>1, <1>2 DEF SelectScope

LEMMA ServeSessions ==
  ASSUME Basics, ScreenInv, SessionsInv, NEW c \in calls, Serve(c) \/ Refuse(c)
  PROVE  SessionsInv'
  <1> USE DEF identity
  <1>0. TypeOK /\ Opened /\ c \in Call /\ UserKnown(c) /\ CallOK(c)
    BY CallFacts DEF Basics, RightsInv, SessionsInv, CallOK
  <1>1. ASSUME NEW d, Failed(c, d) PROVE SessionsInv'
    BY <1>0, <1>1, FailedSessions
  <1>2. ASSUME NEW d, Turned(c, d), d.sid = c.sid, OwnerKept, CallOK(d)',
               UNCHANGED <<txn, cookie, page>>
        PROVE  SessionsInv'
    BY <1>0, <1>2, TurnedQuietly
  <1>3. owner' = owner => OwnerKept
    BY <1>0, OwnerFacts
  <1>4. CASE ReadSession(c)
    <2>1. CASE UserOf(c.sid) = NoUser
      BY <1>1, <1>4, <2>1, ReplyFailed DEF ReadSession
    <2>2. CASE UserOf(c.sid) # NoUser
      <3>0. PICK d : d = [c EXCEPT !.at = "listing", !.user = UserOf(c.sid)]
        OBVIOUS
      <3>1. /\ calls' = (calls \ {c}) \cup {d} /\ c.kind = "assignments"
            /\ c.at = "sent" /\ UNCHANGED <<identity, cookie, page>>
        BY <1>4, <2>2, <3>0 DEF ReadSession, Step
      <3>2. /\ d.kind = c.kind /\ d.at = "listing" /\ d.user = UserOf(c.sid)
            /\ d.reply = c.reply /\ d.n = c.n /\ d.sid = c.sid
            /\ d.cookie = c.cookie
        BY <1>0, <3>0 DEF Call
      <3>3. c.sid # 0 /\ owner[c.sid] = UserOf(c.sid)
        BY <2>2 DEF UserOf
      <3>4. CallOK(d)'
        BY <1>0, <3>1, <3>2, <3>3 DEF CallOK, CookieOK, Unbound, SignedInBy,
          ListedFor, SelectedFor, Succeeded, Of, There
      <3> QED
        BY <1>2, <1>3, <3>1, <3>2, <3>4 DEF Turned
    <2> QED
      BY <2>1, <2>2
  <1>5. CASE List(c)
    <2>0. c.at = "listing" /\ UNCHANGED <<identity, cookie, page>>
      BY <1>5 DEF List
    <2>1. PICK d : /\ calls' = (calls \ {c}) \cup {d} /\ d.kind = c.kind
                   /\ d.n = c.n /\ d.sid = c.sid /\ d.user = c.user
                   /\ d.cookie = c.cookie
                   /\ \/ d.at = "resolving" /\ c.kind = "login"
                         /\ d.reply = c.reply
                      \/ d.at = "answered" /\ d.reply = "ok"
      <3>1. CASE \E w \in held[c.user] : c.kind = "login" /\
              Step(c, [c EXCEPT !.at = "resolving", !.list = held[c.user],
                                !.ws = w])
        <4>1. PICK w \in held[c.user] : c.kind = "login" /\
                Step(c, [c EXCEPT !.at = "resolving", !.list = held[c.user],
                                  !.ws = w])
          BY <3>1
        <4>2. PICK d : d = [c EXCEPT !.at = "resolving", !.list = held[c.user],
                                     !.ws = w]
          OBVIOUS
        <4>3. /\ d.kind = c.kind /\ d.at = "resolving" /\ d.user = c.user
              /\ d.reply = c.reply /\ d.n = c.n /\ d.sid = c.sid
              /\ d.cookie = c.cookie
          BY <1>0, <4>2 DEF Call
        <4> QED
          BY <4>1, <4>2, <4>3 DEF Step
      <3>2. CASE Step(c, [c EXCEPT !.at = "answered", !.reply = "ok",
                                   !.list = held[c.user]])
        <4>1. PICK d : d = [c EXCEPT !.at = "answered", !.reply = "ok",
                                     !.list = held[c.user]]
          OBVIOUS
        <4>2. /\ d.kind = c.kind /\ d.at = "answered" /\ d.user = c.user
              /\ d.reply = "ok" /\ d.n = c.n /\ d.sid = c.sid
              /\ d.cookie = c.cookie
          BY <1>0, <4>1 DEF Call
        <4> QED
          BY <3>2, <4>1, <4>2 DEF Step
      <3> QED
        BY <1>5, <3>1, <3>2 DEF List
    <2>2. c.kind \in {"login", "assignments"} /\ c.reply # "ok"
      BY <1>0, <2>0 DEF UserKnown
    <2>3. CallOK(d)'
      BY <1>0, <2>0, <2>1, <2>2 DEF CallOK, CookieOK, Unbound, SignedInBy,
        ListedFor, SelectedFor, Succeeded, Of, There
    <2> QED
      BY <1>2, <1>3, <2>0, <2>1, <2>3 DEF Turned
  <1>6. CASE Activate(c)
    <2>1. CASE c.ws \notin held[c.user]
      BY <1>1, <1>6, <2>1, ReplyFailed DEF Activate
    <2>2. CASE c.ws \in held[c.user]
      <3> DEFINE d == [c EXCEPT !.at = "answered", !.reply = "ok"]
      <3>1. /\ calls' = (calls \ {c}) \cup {d} /\ c.at = "resolving"
            /\ UNCHANGED <<identity, cookie, page>>
        BY <1>6, <2>2 DEF Activate, Reply, Step
      <3>2. /\ d.kind = c.kind /\ d.at = "answered" /\ d.user = c.user
            /\ d.reply = "ok" /\ d.n = c.n /\ d.sid = c.sid
            /\ d.cookie = c.cookie /\ d.shown = c.shown
        BY <1>0 DEF Call
      <3> HIDE DEF d
      <3>3. c.kind \in {"login", "select"}
        BY <1>0, <3>1 DEF UserKnown
      <3>4. CallOK(d)'
        BY <1>0, <3>1, <3>2, <3>3 DEF CallOK, CookieOK, Unbound, SignedInBy,
          ListedFor, SelectedFor, Succeeded, Of, There
      <3> QED
        BY <1>2, <1>3, <3>1, <3>2, <3>4 DEF Turned
    <2> QED
      BY <2>1, <2>2
  <1>7. CASE Applications(c)
    <2>1. CASE UserOf(c.sid) = NoUser
      BY <1>1, <1>7, <2>1, ReplyFailed DEF Applications
    <2>2. CASE UserOf(c.sid) # NoUser
      <3>0. PICK d : d = [c EXCEPT !.at = "answered", !.reply = "ok",
                                   !.user = UserOf(c.sid)]
        OBVIOUS
      <3>1. /\ calls' = (calls \ {c}) \cup {d} /\ c.kind = "apps"
            /\ UNCHANGED <<identity, cookie, page>>
        BY <1>7, <2>2, <3>0 DEF Applications, Step
      <3>2. /\ d.kind = c.kind /\ d.at = "answered" /\ d.n = c.n
            /\ d.sid = c.sid /\ d.cookie = c.cookie
        BY <1>0, <3>0 DEF Call
      <3>3. CallOK(d)'
        BY <1>0, <3>1, <3>2 DEF CallOK, CookieOK, Unbound, SignedInBy,
          ListedFor, SelectedFor
      <3> QED
        BY <1>2, <1>3, <3>1, <3>2, <3>3 DEF Turned
    <2> QED
      BY <2>1, <2>2
  <1>8. CASE SignOut(c)
    <2>1. CASE txn[c.n].status = "none"
      BY <1>1, <1>8, <2>1, ReplyFailed DEF SignOut
    <2>2. CASE txn[c.n].status # "none"
      <3> DEFINE d == [c EXCEPT !.at = "answered", !.reply = "ok", !.cookie = 0]
      <3>1. /\ calls' = Changed(calls \ {c}) \cup {d}
            /\ c.kind \in {"logout", "everywhere"} /\ owner' = Ended({c.sid})
            /\ UNCHANGED <<txn, cookie, page>>
        BY <1>8, <2>2 DEF SignOut
      <3>2. /\ d.kind = c.kind /\ d.at = "answered" /\ d.n = c.n
            /\ d.sid = c.sid /\ d.cookie = 0
        BY <1>0 DEF Call
      <3> HIDE DEF d
      <3>3. CallOK(d)'
        BY <3>1, <3>2 DEF CallOK, CookieOK, Unbound, SignedInBy, ListedFor,
          SelectedFor
      <3>4. OwnerKept
        BY <1>0, <3>1, OwnerFacts
      <3> QED
        BY <1>2, <3>1, <3>2, <3>3, <3>4 DEF Turned
    <2> QED
      BY <2>1, <2>2
  <1>9. CASE Refuse(c)
    BY <1>1, <1>9, ReplyFailed DEF Refuse
  <1> QED
    BY <1>4, <1>5, <1>6, <1>7, <1>8, <1>9, EstablishSessions, CompleteSessions,
       SelectSessions DEF Serve

(* Nothing is bound; some calls may come and go.                           *)
LEMMA MovedSessions ==
  ASSUME TypeOK, Opened, SessionsInv, NEW some \in SUBSET calls, NEW new,
         Moves(some, new), OwnerKept, page'.n = page.n,
         \A n \in Loads : TxnSame(n) /\ txn'[n].sid \in {0, txn[n].sid},
         \A e \in some : e.at = "established" =>
           e.sid # cookie' /\ \A d \in new : d.sid # e.sid,
         \A d \in new : CallOK(d)' /\ d.n = page.n,
         page.n = 0 => new = {},
         BoundToShown'
  PROVE  SessionsInv'
  <1>1. \A e \in some : CallOK(e) /\ TxnFits(e)
    BY CallFacts DEF SessionsInv, CallOK, TxnFits
  <1>2. ASSUME NEW e \in some
        PROVE  Apart(e, new)
    <2> SUFFICES ASSUME e.at = "established"
                 PROVE  /\ e.sid # cookie' /\ \A d \in new : d.sid # e.sid
                        /\ \A x \in calls' : txn'[x.n].sid # e.sid
                        /\ page'.n # 0 => txn'[page'.n].sid # e.sid
      BY DEF Apart
    <2>1. /\ e.sid # 0 /\ \A x \in calls : txn[x.n].sid # e.sid
          /\ page.n # 0 => txn[page.n].sid # e.sid
      BY <1>1 DEF CallOK, Unbound, Of
    <2>2. page.n # 0 => txn'[page.n].sid # e.sid
      BY <2>1, PageFacts
    <2>3. ASSUME NEW x \in calls'
          PROVE  txn'[x.n].sid # e.sid
      <3>1. CASE x \in new
        BY <2>2, <3>1
      <3>2. ASSUME NEW y \in some, x.n = y.n
            PROVE  txn'[x.n].sid # e.sid
        BY <2>1, <3>2, CallFacts
      <3> QED
        BY <3>1, <3>2, MovesFacts DEF Alike
    <2> QED
      BY <2>2, <2>3
  <1>3. \A x \in calls' : CallOK(x)'
    BY <1>1, <1>2, CarryAll
  <1> QED
    BY <1>3 DEF SessionsInv, CallOK

LEMMA NewOK ==
  ASSUME NEW d, d.at = "sent", d.cookie = Keep, d.reply = "",
         d.kind # "assignments",
         d.kind = "select" /\ d.shown # NoUser /\ There(d.n)' =>
           txn'[d.n].sid # 0 /\ (txn'[d.n].sid = d.sid => Of(d.sid, d.shown)')
  PROVE  CallOK(d)'
  BY DEF CallOK, CookieOK, Unbound, SignedInBy, ListedFor, SelectedFor, Succeeded

LEMMA AskSessions ==
  ASSUME TypeOK, Opened, SessionsInv, page.n # 0, NEW kind, NEW user, NEW ws,
         NEW shown, Ask(kind, user, ws, shown), kind # "assignments",
         UNCHANGED <<owner, txn, cookie>>,
         page'.n = page.n, page'.user = page.user,
         kind = "login" => SigningIn,
         page'.view \in {"signIn", "signingIn"} => SigningIn,
         kind = "select" /\ shown # NoUser /\ There(page.n) =>
           /\ txn[page.n].sid # 0
           /\ txn[page.n].sid = cookie => Of(cookie, shown)
  PROVE  SessionsInv'
  <1>0. PICK q : q = Request(kind, page.n, cookie, user, ws, shown, FALSE)
    OBVIOUS
  <1>1. /\ q.kind = kind /\ q.n = page.n /\ q.sid = cookie /\ q.shown = shown
        /\ q.at = "sent" /\ q.cookie = Keep /\ q.reply = ""
        /\ calls' = calls \cup {q}
    BY <1>0 DEF Ask, Request
  <1>2. Moves(calls, {q})
    <2>1. calls \in SUBSET Call
      BY DEF TypeOK
    <2> QED
      BY <1>1, <2>1, ChangedAlike
  <1>3. CallOK(q)'
    BY <1>1, NewOK DEF Of, There
  <1>4. OwnerKept /\ \A n : TxnSame(n)
    BY OwnerFacts
  <1>5. SigningIn' => SigningIn
    BY <1>1, <1>2, SigningInKept
  <1>6. BoundToShown'
    BY <1>4, <1>5, BoundKept DEF SessionsInv
  <1>7. \A e \in calls : e.at = "established" =>
          e.sid # cookie' /\ \A d \in {q} : d.sid # e.sid
    BY <1>1 DEF SessionsInv, Unbound
  <1>8. \A d \in {q} : CallOK(d)' /\ d.n = page.n
    BY <1>1, <1>3
  <1>9. \A n \in Loads : TxnSame(n) /\ txn'[n].sid \in {0, txn[n].sid}
    BY <1>4
  <1> QED
    BY <1>2, <1>4, <1>6, <1>7, <1>8, <1>9, MovedSessions

LEMMA ScriptSessions ==
  ASSUME TypeOK, Opened, SessionsInv, Script
  PROVE  SessionsInv'
  <1>0. UNCHANGED <<owner, txn, cookie>> /\ page.n # 0 /\ page \in Page
    <2>1. page.view # "none"
      BY DEF Script, Submit, SwitchWorkspace, SwitchAccount, SignOutEverywhere,
             Pick
    <2> QED
      BY <2>1, ScriptCalls DEF Opened, TypeOK
  <1>1. CASE Submit
    <2>1. SigningIn
      BY <1>1 DEF Submit, SigningIn
    <2>2. page'.n = page.n /\ page'.user = page.user
      BY <1>0, <1>1 DEF Submit, Page
    <2>3. PICK u : Ask("login", u, NoWorkspace, NoUser)
      BY <1>1 DEF Submit
    <2> QED
      BY <1>0, <2>1, <2>2, <2>3, AskSessions
  <1>2. CASE SwitchWorkspace
    <2>1. calls' = calls /\ page' = WorkspacesShown(page) /\ page.view = "apps"
      BY <1>2 DEF SwitchWorkspace
    <2>2. /\ page'.n = page.n /\ page'.user = page.user
          /\ page'.view \notin {"signIn", "signingIn"}
      BY <1>0, <2>1 DEF WorkspacesShown, Page
    <2>3. Moves(calls, {})
      <3>1. calls \in SUBSET Call
        BY DEF TypeOK
      <3> QED
        BY <2>1, <3>1, ChangedAlike
    <2>4. OwnerKept /\ \A n : TxnSame(n)
      BY <1>0, OwnerFacts
    <2>5. SigningIn' => SigningIn
      BY <2>2, <2>3, SigningInKept
    <2>6. BoundToShown'
      BY <2>2, <2>4, <2>5, BoundKept DEF SessionsInv
    <2>7. \A e \in calls : e.at = "established" => e.sid # cookie'
      BY <1>0 DEF SessionsInv, Unbound
    <2> QED
      BY <1>0, <2>2, <2>3, <2>4, <2>6, <2>7, MovedSessions
  <1>3. CASE SwitchAccount
    <2>1. /\ page'.n = page.n /\ page'.user = page.user
          /\ page'.view \notin {"signIn", "signingIn"}
      BY <1>0, <1>3 DEF SwitchAccount, Page
    <2> QED
      BY <1>0, <1>3, <2>1, AskSessions DEF SwitchAccount
  <1>4. CASE SignOutEverywhere
    BY <1>0, <1>4, AskSessions DEF SignOutEverywhere
  <1>5. ASSUME NEW w \in Workspaces, Pick(w)
        PROVE  SessionsInv'
    <2>1. /\ page'.n = page.n /\ page'.user = page.user
          /\ page'.view \notin {"signIn", "signingIn"}
      BY <1>0, <1>5 DEF Pick, Page
    <2>2. Chooser(page.user) # NoUser /\ There(page.n) =>
            /\ txn[page.n].sid # 0
            /\ txn[page.n].sid = cookie => Of(cookie, Chooser(page.user))
      BY <1>0 DEF Chooser, SessionsInv, BoundToShown, Of
    <2> QED
      BY <1>0, <1>5, <2>1, <2>2, AskSessions DEF Pick
  <1> QED
    BY <1>1, <1>2, <1>3, <1>4, <1>5 DEF Script

LEMMA StillSessions ==
  ASSUME TypeOK, Opened, SessionsInv, NEW some \in SUBSET calls,
         Moves(some, {}), OwnerKept, page' = page,
         \A n \in Loads : TxnSame(n) /\ txn'[n].sid \in {0, txn[n].sid},
         \A e \in some : e.at = "established" => e.sid # cookie'
  PROVE  SessionsInv'
  <1>1. SigningIn' => SigningIn
    <2>1. page.view \in {"signIn", "signingIn"} => SigningIn
      BY DEF SigningIn
    <2> QED
      BY <2>1, SigningInKept
  <1>2. page.n # 0 => TxnSame(page.n)
    BY PageFacts
  <1>3. BoundToShown'
    BY <1>1, <1>2, BoundKept DEF SessionsInv
  <1> QED
    BY <1>3, MovedSessions

LEMMA ElsewhereSessions ==
  ASSUME TypeOK, Opened, SessionsInv, Elsewhere
  PROVE  SessionsInv'
  <1>0. calls \in SUBSET Call
        /\ \A e \in calls : e.at = "established" => e.sid # cookie
    BY DEF TypeOK, SessionsInv, Unbound
  <1>1. calls' = calls \/ calls' = Changed(calls) => Moves(calls, {})
    BY <1>0, ChangedAlike
  <1>2. CASE SignInElsewhere
    <2>1. PICK s \in Sessions, u \in Users :
            /\ Fresh(s) /\ owner' = [Ended({cookie}) EXCEPT ![s] = u]
            /\ cookie' = s
      BY <1>2 DEF SignInElsewhere
    <2>2. OwnerKept
      BY <2>1, FreshOwner
    <2>3. \A e \in calls : e.sid # s
      BY <2>1, UseFacts DEF Fresh
    <2>4. calls' = Changed(calls) /\ UNCHANGED <<txn, page>>
      BY <1>2 DEF SignInElsewhere
    <2> QED
      BY <1>1, <2>1, <2>2, <2>3, <2>4, OwnerFacts, StillSessions
  <1>3. ASSUME NEW some, owner' = Ended(some), calls' = Changed(calls),
               UNCHANGED <<txn, cookie, page>>
        PROVE  SessionsInv'
    BY <1>0, <1>1, <1>3, OwnerFacts, StillSessions
  <1>4. ASSUME NEW n \in Loads, ExpireTransaction(n)
        PROVE  SessionsInv'
    <2>1. /\ txn' = [txn EXCEPT ![n] = NoTxn] /\ calls' = calls
          /\ UNCHANGED <<owner, cookie, page>>
      BY <1>4 DEF ExpireTransaction
    <2>2. /\ txn'[n].status = "none" /\ txn'[n].sid = 0
          /\ \A m \in Loads : m # n => txn'[m] = txn[m]
      BY <2>1 DEF TypeOK, NoTxn
    <2>3. \A m \in Loads : TxnSame(m) /\ txn'[m].sid \in {0, txn[m].sid}
      BY <2>2 DEF TxnSame, There
    <2> QED
      BY <1>0, <1>1, <2>1, <2>3, OwnerFacts, StillSessions
  <1>5. ASSUME UNCHANGED <<owner, txn, cookie, page>>, Moves(calls, {})
        PROVE  SessionsInv'
    BY <1>0, <1>5, OwnerFacts, StillSessions
  <1>6. ASSUME NEW u \in Users, NEW w \in Workspaces, Reassign(u, w)
        PROVE  SessionsInv'
    BY <1>1, <1>5, <1>6 DEF Reassign
  <1>7. CASE ForceLogout \/ RequireCoreAdmin
    BY <1>1, <1>5, <1>7 DEF ForceLogout, RequireCoreAdmin
  <1>8. CASE LogoutUser
    BY <1>3, <1>8 DEF LogoutUser
  <1>9. ASSUME NEW s \in Sessions, EndSession(s)
        PROVE  SessionsInv'
    BY <1>3, <1>9 DEF EndSession
  <1> QED
    BY <1>2, <1>4, <1>6, <1>7, <1>8, <1>9 DEF Elsewhere

(* A new page: of the calls of base, those go on that may set the cookie.  *)
LEMMA OpenSessions ==
  ASSUME TypeOK, Opened, SessionsInv, NEW n \in Loads, NEW late \in BOOLEAN,
         NEW some, NEW jar \in Sessions \cup {0}, Open(n, late, some, jar),
         NEW base \in SUBSET calls, NEW g, some = {g[e] : e \in base},
         \A e \in base : Alike(g[e], e), cookie' = jar,
         \A e \in base : e.at = "established" => e.sid # jar
  PROVE  SessionsInv'
  <1> DEFINE left == {c \in some : c.kind \in {"login", "logout", "everywhere"}}
             kept == {e \in base : e.kind \in {"login", "logout", "everywhere"}}
  <1>1. left = {g[e] : e \in kept}
    BY DEF Alike
  <1>2. \A e \in kept : e \in calls /\ g[e] \in left /\ Alike(g[e], e)
                        /\ e.kind \in {"login", "logout", "everywhere"}
    BY <1>1
  <1>3. PICK q : q = Request("assignments", n, jar, NoUser, NoWorkspace, NoUser,
                             FALSE)
    OBVIOUS
  <1>4. /\ q.kind = "assignments" /\ q.n = n /\ q.sid = jar /\ q.at = "sent"
        /\ q.cookie = Keep /\ q.reply = ""
    BY <1>3 DEF Request
  <1>5. PICK new : new = IF UserOf(jar) = NoUser THEN {} ELSE {q}
    OBVIOUS
  <1>6. /\ calls' = left \cup new /\ UNCHANGED <<held, owner, admin>>
        /\ \A c \in left : c.n # n
    BY <1>3, <1>5 DEF Open
  <1>7. /\ page'.n = n /\ page'.user = UserOf(jar) /\ n # 0
        /\ page'.view = IF UserOf(jar) = NoUser THEN "signIn" ELSE "opening"
    BY SessionFacts DEF Open, Blank
  <1>8. /\ txn'[n].status = "PENDING" /\ txn'[n].late = late
        /\ txn'[n].sid = IF UserOf(jar) = NoUser \/ late THEN 0 ELSE jar
        /\ \A c \in left : c.n \in Loads => txn'[c.n] = txn[c.n]
    BY <1>6 DEF Open
  <1> HIDE DEF left, kept
  <1>9. kept \in SUBSET calls
    BY <1>2
  <1>10. Moves(kept, new)
    BY <1>1, <1>2, <1>6 DEF Moves
  <1>11. \A e \in kept : e.n \in Loads /\ e.n # n /\ txn'[e.n] = txn[e.n]
    <2> TAKE e \in kept
    <2>1. e.n = g[e].n /\ g[e] \in left /\ e \in calls
      BY <1>2 DEF Alike
    <2> QED
      BY <1>6, <1>8, <2>1, CallFacts
  <1>12. UserOf(jar) # NoUser => jar # 0 /\ owner[jar] = UserOf(jar)
    BY DEF UserOf
  <1>13. \A d \in new : d = q /\ UserOf(jar) # NoUser
    BY <1>5
  <1>14. CallOK(q)' \/ UserOf(jar) = NoUser
    BY <1>4, <1>8, <1>12 DEF CallOK, CookieOK, Unbound, SignedInBy, ListedFor,
      SelectedFor, Succeeded
  <1>15. ASSUME NEW e \in kept
         PROVE  CallOK(e) /\ TxnFits(e) /\ Apart(e, new)
    <2>1. CallOK(e)
      BY <1>9 DEF SessionsInv, CallOK
    <2>2. TxnFits(e)
      BY <1>11 DEF TxnFits, TxnSame, There
    <2>3. ASSUME e.at = "established"
          PROVE  /\ e.sid # cookie' /\ \A d \in new : d.sid # e.sid
                 /\ \A x \in calls' : txn'[x.n].sid # e.sid
                 /\ page'.n # 0 => txn'[page'.n].sid # e.sid
      <3>1. e.sid # jar /\ e.sid # 0 /\ \A y \in calls : txn[y.n].sid # e.sid
        <4>1. e \in base
          BY DEF kept
        <4> QED
          BY <2>1, <2>3, <4>1 DEF CallOK, Unbound, Of
      <3>2. txn'[n].sid # e.sid
        BY <1>8, <3>1
      <3>3. ASSUME NEW x \in calls'
            PROVE  txn'[x.n].sid # e.sid
        <4>1. CASE x \in new
          BY <1>4, <1>13, <3>2, <4>1
        <4>2. ASSUME NEW y \in kept, x.n = y.n
              PROVE  txn'[x.n].sid # e.sid
          BY <1>9, <1>11, <3>1, <4>2
        <4> QED
          BY <1>10, <4>1, <4>2, MovesFacts DEF Alike
      <3>4. \A d \in new : d.sid # e.sid
        BY <1>4, <1>13, <3>1
      <3> QED
        BY <1>7, <3>1, <3>2, <3>3, <3>4
    <2> QED
      BY <2>1, <2>2, <2>3 DEF Apart
  <1>16. OwnerKept
    BY <1>6, OwnerFacts
  <1>17. \A x \in calls' : CallOK(x)'
    <2>1. \A d \in new : CallOK(d)'
      BY <1>13, <1>14
    <2> QED
      BY <1>9, <1>10, <1>15, <1>16, <2>1, CarryAll
  <1>18. SigningIn' => UserOf(jar) = NoUser
    <2>1. \A x \in calls' : x.n = n => x.kind # "login"
      BY <1>4, <1>6, <1>13
    <2> QED
      BY <1>7, <2>1 DEF SigningIn, OnPage
  <1>19. BoundToShown'
    BY <1>6, <1>7, <1>8, <1>12, <1>18 DEF BoundToShown, Of
  <1> QED
    BY <1>17, <1>19 DEF SessionsInv, CallOK

LEMMA SameAlike ==
  ASSUME NEW e \in Call, NEW d, Same(d, e)
  PROVE  Alike(d, e)
  BY SameFacts DEF Alike

LEMMA RestAlike ==
  ASSUME TypeOK, NEW c \in calls, NEW r
  PROVE  \E g : /\ Rest(c, r) = {g[e] : e \in calls \ {c}}
                /\ \A e \in calls \ {c} : Alike(g[e], e)
  <1>1. \A e \in calls : e \in Call
    BY CallFacts
  <1>2. CASE Jar(r) = cookie
    <2> DEFINE g == [e \in calls \ {c} |-> e]
    <2>1. /\ Rest(c, r) = {g[e] : e \in calls \ {c}}
          /\ \A e \in calls \ {c} : Alike(g[e], e)
      BY <1>2 DEF Rest, Alike
    <2> HIDE DEF g
    <2> QED
      BY <2>1
  <1>3. CASE Jar(r) # cookie
    <2> DEFINE g == [e \in calls \ {c} |->
                       IF e.kind \in {"login", "select", "apps"}
                       THEN [e EXCEPT !.changed = TRUE] ELSE e]
    <2>1. Rest(c, r) = {g[e] : e \in calls \ {c}}
      BY <1>3 DEF Rest, Changed
    <2>2. ASSUME NEW e \in calls \ {c}
          PROVE  Alike(g[e], e)
      <3>1. Same(g[e], e)
        BY DEF Same
      <3> HIDE DEF g
      <3> QED
        BY <1>1, <3>1, SameAlike
    <2> HIDE DEF g
    <2> QED
      BY <2>1, <2>2
  <1> QED
    BY <1>2, <1>3

LEMMA LoadSessions ==
  ASSUME TypeOK, Opened, SessionsInv, NEW late \in BOOLEAN, Load(late)
  PROVE  SessionsInv'
  <1>1. PICK n \in Loads : Open(n, late, calls, cookie)
    BY DEF Load
  <1> DEFINE g == [e \in calls |-> e]
  <1>2. calls = {g[e] : e \in calls} /\ \A e \in calls : Alike(g[e], e)
    BY DEF Alike
  <1>3. cookie' = cookie /\ cookie \in Sessions \cup {0}
    BY DEF Load, TypeOK
  <1>4. \A e \in calls : e.at = "established" => e.sid # cookie
    BY DEF SessionsInv, Unbound
  <1> HIDE DEF g
  <1> QED
    BY <1>1, <1>2, <1>3, <1>4, OpenSessions

LEMMA NowhereSessions ==
  ASSUME TypeOK, Opened, SessionsInv, NEW c \in calls, ReceiveNowhere(c)
  PROVE  SessionsInv'
  <1>1. /\ cookie' \in {cookie, c.cookie} /\ UNCHANGED <<owner, txn, page>>
        /\ c.cookie = Keep => cookie' = cookie
        /\ calls' = calls \ {c} \/ calls' = Changed(calls \ {c})
    BY DEF ReceiveNowhere, identity
  <1>2. Moves(calls \ {c}, {})
    <2>1. calls \ {c} \in SUBSET Call
      BY DEF TypeOK
    <2> QED
      BY <1>1, <2>1, ChangedAlike
  <1>3. \A e \in calls \ {c} : e.at = "established" => e.sid # cookie'
    BY <1>1 DEF SessionsInv, Unbound, CookieOK, Of
  <1> QED
    BY <1>1, <1>2, <1>3, OwnerFacts, StillSessions

(* What the script asks for when it hears r.                               *)
NewOf(d, r, jar) ==
  /\ d.at = "sent" /\ d.cookie = Keep /\ d.reply = "" /\ d.n = page.n
  /\ d.sid = jar
  /\ \/ d.kind = "apps" /\ d.shown = NoUser /\ d.changed = r.changed
     \/ /\ d.kind = "select" /\ d.shown = Chooser(r.user) /\ d.changed = FALSE
        /\ r.kind = "assignments" /\ r.reply = "ok"

LEMMA ReactNew ==
  ASSUME TypeOK, NEW r \in Call, NEW some, NEW jar, React(r, some, jar)
  PROVE  \E new : calls' = some \cup new /\ \A d \in new : NewOf(d, r, jar)
  <1>0. page \in Page
    BY DEF TypeOK
  <1>1. ASSUME NEW p, p.n = page.n, ShowApplications(p, r, some, jar)
        PROVE  \E new : calls' = some \cup new /\ \A d \in new : NewOf(d, r, jar)
    <2> DEFINE q == Request("apps", p.n, jar, NoUser, NoWorkspace, NoUser,
                            r.changed)
    <2>1. calls' = some \cup {q}
      BY <1>1 DEF ShowApplications
    <2>2. NewOf(q, r, jar)
      BY <1>1 DEF Request, NewOf
    <2> HIDE DEF q
    <2>3. PICK new : new = {q}
      OBVIOUS
    <2>4. calls' = some \cup new /\ \A d \in new : NewOf(d, r, jar)
      BY <2>1, <2>2, <2>3
    <2> QED
      BY <2>4, Zenon
  <1>2. ASSUME calls' = some
        PROVE  \E new : calls' = some \cup new /\ \A d \in new : NewOf(d, r, jar)
    <2>1. PICK new : new = {}
      OBVIOUS
    <2>2. calls' = some \cup new /\ \A d \in new : NewOf(d, r, jar)
      BY <1>2, <2>1
    <2> QED
      BY <2>2, Zenon
  <1>3. CASE LoginAnswered(r, some, jar)
    <2> DEFINE p == [Activates(page, r) EXCEPT !.user = r.user, !.listed = r.list]
    <2>1. p.n = page.n
      BY <1>0 DEF Activates, Page
    <2>2. ShowApplications(p, r, some, jar) \/ calls' = some
      BY <1>3 DEF LoginAnswered
    <2> HIDE DEF p
    <2> QED
      BY <1>1, <1>2, <2>1, <2>2
  <1>4. CASE r.kind = "assignments" /\ AssignmentsAnswered(r, some, jar)
    <2> DEFINE p == [page EXCEPT !.user = r.user, !.listed = r.list]
    <2>1. p.n = page.n
      BY <1>0 DEF Page
    <2>2. \/ ShowApplications(p, r, some, jar) \/ calls' = some
          \/ /\ r.reply = "ok"
             /\ \E w \in r.list : calls' = some \cup
                {Request("select", p.n, jar, NoUser, w, Chooser(r.user), FALSE)}
      BY <1>4 DEF AssignmentsAnswered
    <2> HIDE DEF p
    <2>3. ASSUME r.reply = "ok", NEW w, calls' = some \cup
                {Request("select", p.n, jar, NoUser, w, Chooser(r.user), FALSE)}
          PROVE  \E new : calls' = some \cup new /\ \A d \in new : NewOf(d, r, jar)
      <3> DEFINE q == Request("select", p.n, jar, NoUser, w, Chooser(r.user),
                              FALSE)
      <3>1. NewOf(q, r, jar)
        BY <1>4, <2>1, <2>3 DEF Request, NewOf
      <3>2. calls' = some \cup {q}
        BY <2>3
      <3> HIDE DEF q
      <3>3. PICK new : new = {q}
        OBVIOUS
      <3>4. calls' = some \cup new /\ \A d \in new : NewOf(d, r, jar)
        BY <3>1, <3>2, <3>3
      <3> QED
        BY <3>4, Zenon
    <2> QED
      BY <1>1, <1>2, <2>1, <2>2, <2>3
  <1>5. CASE SelectAnswered(r, some, jar)
    <2>1. Activates(page, r).n = page.n
      BY <1>0 DEF Activates, Page
    <2>2. ShowApplications(Activates(page, r), r, some, jar) \/ calls' = some
      BY <1>5 DEF SelectAnswered
    <2> QED
      BY <1>1, <1>2, <2>1, <2>2
  <1> QED
    BY <1>2, <1>3, <1>4, <1>5 DEF React, AppsAnswered

LEMMA ReactUser ==
  ASSUME TypeOK, NEW r \in Call, NEW some, NEW jar, React(r, some, jar)
  PROVE  \/ page'.user = NoUser /\ r.reply # "ok"
         \/ page'.user = NoUser /\ r.kind = "logout"
         \/ /\ page'.user = page.user
            /\ \/ page'.view \notin {"signIn", "signingIn"}
               \/ page'.view = page.view \/ r.kind = "login"
         \/ page'.user = r.user /\ r.reply = "ok" /\ r.kind = "login"
         \/ /\ page'.user = r.user /\ r.reply = "ok" /\ r.kind = "assignments"
            /\ page'.view \in {page.view, "loading", "workspaces"}
  <1> USE DEF TypeOK, Page, Show, SignedOut, ShowApplications, Activates,
              WorkspacesShown
  <1>1. CASE r.kind = "login" /\ LoginAnswered(r, some, jar)
    BY <1>1 DEF LoginAnswered
  <1>2. CASE r.kind = "assignments" /\ AssignmentsAnswered(r, some, jar)
    BY <1>2 DEF AssignmentsAnswered
  <1>3. CASE r.kind = "select" /\ SelectAnswered(r, some, jar)
    BY <1>3 DEF SelectAnswered
  <1>4. CASE r.kind = "apps" /\ AppsAnswered(r, some)
    BY <1>4 DEF AppsAnswered
  <1>5. CASE r.kind = "logout" /\ SignedOut(page)
    BY <1>5
  <1> QED
    BY <1>1, <1>2, <1>3, <1>4, <1>5 DEF React

LEMMA ReactSessions ==
  ASSUME Basics, ScreenInv, SessionsInv, NEW c \in calls, NEW r \in Call,
         Heard(c, r), OnPage(c), page.n # 0, cookie' = Jar(r),
         React(r, Rest(c, r), Jar(r)), UNCHANGED identity
  PROVE  SessionsInv'
  <1>0. TypeOK /\ Opened /\ CallOK(c) /\ UserKnown(c)
        /\ UNCHANGED <<owner, txn>>
    BY DEF Basics, RightsInv, SessionsInv, CallOK, identity
  <1>1. PICK new : /\ calls' = Rest(c, r) \cup new
                   /\ \A d \in new : NewOf(d, r, Jar(r))
    BY <1>0, ReactNew
  <1>2. PICK g : /\ Rest(c, r) = {g[e] : e \in calls \ {c}}
                 /\ \A e \in calls \ {c} : Alike(g[e], e)
    BY <1>0, RestAlike
  <1>3. Moves(calls \ {c}, new)
    BY <1>1, <1>2 DEF Moves
  <1>4. OwnerKept /\ \A n : TxnSame(n)
    BY <1>0, OwnerFacts
  <1>5. page'.n = page.n
    BY <1>0, ReactPage
  <1>6. \A e \in calls \ {c} : e.at = "established" => e.sid # Jar(r)
    BY <1>0 DEF SessionsInv, Unbound, CallOK, CookieOK, Of, Jar, Heard
  <1>7. /\ c.kind = "login" /\ r.reply = "ok" => SignedIn(c)
        /\ r.user \in {c.user, NoUser} \/ r.reply # "ok"
    BY DEF Heard, SignedIn
  <1>8. ASSUME NEW d \in new
        PROVE  CallOK(d)' /\ d.n = page.n /\ d.sid = Jar(r)
               /\ d.kind \in {"apps", "select"}
    <2>1. NewOf(d, r, Jar(r))
      BY <1>1
    <2>2. ASSUME d.kind = "select", d.shown # NoUser, There(d.n)'
          PROVE  /\ txn'[d.n].sid # 0
                 /\ txn'[d.n].sid = d.sid => Of(d.sid, d.shown)'
      <3>1. /\ r.kind = "assignments" /\ r.reply = "ok" /\ d.n = page.n
            /\ d.shown = Chooser(r.user) /\ d.sid = Jar(r)
        BY <2>1, <2>2 DEF NewOf
      <3>2. ~txn[page.n].late /\ d.shown = r.user /\ d.shown = c.user
        BY <1>7, <2>2, <3>1 DEF Chooser
      <3>3. There(c.n) /\ c.n = page.n /\ c.kind = "assignments" /\ Succeeded(c)
        BY <1>0, <2>2, <3>1 DEF OnPage, Heard, There
      <3>4. txn[page.n].sid = c.sid /\ c.sid # 0 /\ Of(c.sid, c.user)
        BY <1>0, <3>2, <3>3 DEF CallOK, ListedFor
      <3> QED
        BY <1>0, <3>1, <3>2, <3>4 DEF Of
    <2> QED
      BY <2>1, <2>2, NewOK DEF NewOf
  <1>9. BoundToShown'
    <2>2. ASSUME page'.user = NoUser
          PROVE  BoundToShown'
      BY <2>2 DEF BoundToShown
    <2>3. ASSUME page'.user = page.user,
                 \/ page'.view \notin {"signIn", "signingIn"}
                 \/ page'.view = page.view \/ r.kind = "login"
          PROVE  BoundToShown'
      <3>1. page'.view \in {"signIn", "signingIn"} => SigningIn
        BY <2>3 DEF SigningIn, Heard, OnPage
      <3>2. \A d \in new : d.kind = "login" /\ d.n = page.n => SigningIn
        BY <1>8
      <3>3. SigningIn' => SigningIn
        BY <1>3, <1>5, <3>1, <3>2, SigningInKept
      <3> QED
        BY <1>0, <1>4, <1>5, <2>3, <3>3, BoundKept DEF SessionsInv
    <2>4. ASSUME page'.user = r.user, r.reply = "ok", r.kind = "login"
          PROVE  BoundToShown'
      <3>1. SignedIn(c) /\ c.n = page.n
        BY <1>7, <2>4 DEF Heard, OnPage
      <3>2. /\ Of(c.sid, c.user)
            /\ There(page.n) => txn[page.n].status = "COMPLETED"
                                /\ txn[page.n].sid = c.sid
        BY <1>0, <3>1 DEF CallOK, SignedInBy, SignedIn
      <3> QED
        BY <1>0, <1>5, <1>7, <2>4, <3>2 DEF BoundToShown, There, Of
    <2>5. ASSUME page'.user = r.user, r.reply = "ok", r.kind = "assignments",
                 page'.view \in {page.view, "loading", "workspaces"}
          PROVE  BoundToShown'
      <3>1. c.kind = "assignments" /\ Succeeded(c) /\ c.n = page.n
        BY <2>5 DEF Heard, OnPage
      <3>2. /\ Of(c.sid, c.user)
            /\ There(page.n) /\ ~txn[page.n].late => txn[page.n].sid = c.sid
        BY <1>0, <3>1 DEF CallOK, ListedFor
      <3>3. ~SigningIn'
        <4>1. page.view = "opening"
          BY <3>1 DEF ScreenInv
        <4>2. \A e \in calls \ {c} : e.n # page.n
          BY <4>1 DEF ScreenInv, OnPage
        <4>3. \A x \in calls' : x.kind = "login" => x.n # page.n
          BY <1>3, <1>8, <4>2, MovesFacts DEF Alike
        <4> QED
          BY <1>5, <2>5, <4>1, <4>3 DEF SigningIn, OnPage
      <3> QED
        BY <1>0, <1>5, <1>7, <2>5, <3>2, <3>3 DEF BoundToShown, There, Of
    <2> QED
      BY <1>0, <2>2, <2>3, <2>4, <2>5, ReactUser
  <1>10. \A e \in calls \ {c} : e.at = "established" =>
           e.sid # cookie' /\ \A d \in new : d.sid # e.sid
    BY <1>6, <1>8
  <1>11. \A n \in Loads : TxnSame(n) /\ txn'[n].sid \in {0, txn[n].sid}
    BY <1>0, <1>4
  <1>12. \A d \in new : CallOK(d)' /\ d.n = page.n
    BY <1>8
  <1> QED
    BY <1>0, <1>3, <1>4, <1>5, <1>9, <1>10, <1>11, <1>12, MovedSessions

LEMMA AnsweredSessions ==
  ASSUME Basics, ScreenInv, SessionsInv, NEW c \in calls, Answered(c)
  PROVE  SessionsInv'
  <1>0. TypeOK /\ Opened /\ CookieOK(c)
    BY DEF Basics, SessionsInv
  <1>1. PICK r \in Call : Heard(c, r) /\ Arrives(c, r)
    BY <1>0, HeardFacts
  <1>2. /\ Jar(r) \in Sessions \cup {0} /\ OnPage(c) /\ page.n # 0
        /\ cookie' = Jar(r)
    BY <1>0, <1>1, RestFacts DEF OnPage
  <1>3. CASE React(r, Rest(c, r), Jar(r)) /\ UNCHANGED identity
    BY <1>1, <1>2, <1>3, ReactSessions
  <1>4. ASSUME NEW n \in Loads, Open(n, FALSE, Rest(c, r), Jar(r))
        PROVE  SessionsInv'
    <2>1. PICK g : /\ Rest(c, r) = {g[e] : e \in calls \ {c}}
                   /\ \A e \in calls \ {c} : Alike(g[e], e)
      BY <1>0, RestAlike
    <2>2. \A e \in calls \ {c} : e.at = "established" => e.sid # Jar(r)
      BY <1>0, <1>1 DEF SessionsInv, Unbound, CookieOK, Of, Jar, Heard
    <2>3. PICK jar : jar = Jar(r)
      OBVIOUS
    <2>4. PICK some : some = Rest(c, r)
      OBVIOUS
    <2> DEFINE late == FALSE
    <2>5. Open(n, late, some, jar) /\ late \in BOOLEAN
      BY <1>4, <2>3, <2>4
    <2> HIDE DEF late
    <2>6. PICK base \in SUBSET calls : base = calls \ {c}
      OBVIOUS
    <2>7. /\ some = {g[e] : e \in base} /\ \A e \in base : Alike(g[e], e)
          /\ \A e \in base : e.at = "established" => e.sid # jar
          /\ jar \in Sessions \cup {0} /\ cookie' = jar
      BY <1>2, <2>1, <2>2, <2>3, <2>4, <2>6
    <2> QED
      BY <1>0, <2>5, <2>7, OpenSessions
  <1> QED
    BY <1>0, <1>1, <1>3, <1>4, RestFacts

LEMMA SessionsStep ==
  ASSUME Basics, ScreenInv, SessionsInv, [Next]_vars
  PROVE  SessionsInv'
  <1>0. TypeOK /\ Opened
    BY DEF Basics
  <1>1. CASE UNCHANGED vars
    <2>1. UNCHANGED <<owner, txn, cookie, page, calls>>
      BY <1>1 DEF vars, identity
    <2>2. calls \in SUBSET Call
      BY <1>0 DEF TypeOK
    <2>3. Moves(calls, {})
      BY <2>1, <2>2, ChangedAlike
    <2>4. \A e \in calls : e.at = "established" => e.sid # cookie'
      BY <2>1 DEF SessionsInv, Unbound
    <2> QED
      BY <1>0, <2>1, <2>3, <2>4, OwnerFacts, StillSessions
  <1>2. CASE Script
    BY <1>0, <1>2, ScriptSessions
  <1>3. ASSUME NEW c \in calls, Serve(c) \/ Refuse(c)
        PROVE  SessionsInv'
    BY <1>3, ServeSessions
  <1>4. ASSUME NEW c \in calls, Answered(c)
        PROVE  SessionsInv'
    BY <1>4, AnsweredSessions
  <1>5. ASSUME NEW c \in calls, ReceiveNowhere(c)
        PROVE  SessionsInv'
    BY <1>0, <1>5, NowhereSessions
  <1>6. ASSUME NEW late \in BOOLEAN, Load(late)
        PROVE  SessionsInv'
    BY <1>0, <1>6, LoadSessions
  <1>7. CASE Elsewhere
    BY <1>0, <1>7, ElsewhereSessions
  <1> QED
    BY <1>1, <1>2, <1>3, <1>4, <1>5, <1>6, <1>7, NextCases

LEMMA SessionsAlways == Spec => [](Basics /\ ScreenInv /\ SessionsInv)
  <1>1. Init => SessionsInv
    BY DEF Init, Blank, SessionsInv, BoundToShown
  <1>2. Basics /\ ScreenInv /\ SessionsInv /\ [Next]_vars => SessionsInv'
    BY SessionsStep
  <1> QED
    BY <1>1, <1>2, ScreenAlways, PTL DEF Spec

(* A workspace is activated for the user on whose screen it was chosen,    *)
(* also when another tab has replaced the cookie's session since           *)
(* (PortalLoginService selectScope, bindToSession without overwrite).      *)
THEOREM SelectionsAreOfTheUserShown == Spec => []SelectionIsOfTheUserShown
  <1>1. Basics /\ SessionsInv => SelectionIsOfTheUserShown
    BY DEF Basics, RightsInv, UserKnown, SessionsInv, SelectedFor, Succeeded,
           SelectionIsOfTheUserShown
  <1> QED
    BY <1>1, SessionsAlways, PTL

-----------------------------------------------------------------------------
(* Hands.  d is e, or e marked as the browser's former hands'.             *)
Twin(d, e) == Alike(d, e) /\ (e.changed => d.changed)
From(d) ==
  \E e \in calls :
    /\ e.kind = d.kind /\ e.n = d.n /\ (e.changed => d.changed)
Marked(d) == d.kind \in {"login", "select", "apps"} => d.changed

LEMMA MarkedHands ==
  ASSUME NEW d, Marked(d)
  PROVE  SameHands(d)'
  BY DEF Marked, SameHands

LEMMA TwinHands ==
  ASSUME NEW e, NEW d, Twin(d, e), SameHands(e), UNCHANGED <<owner, cookie>>
  PROVE  SameHands(d)'
  BY DEF Twin, Alike, SameHands, UserOf, Succeeded

(* The page's own part.                                                    *)
PageHands ==
  page.ws # NoWorkspace /\ ~page.mixed
  /\ (\E c \in calls : c.kind = "apps" /\ OnPage(c) /\ ~c.changed)
    => page.wsUser = UserOf(cookie)

LEMMA QuietHands ==
  ASSUME HandsInv, UNCHANGED <<owner, cookie>>, page'.n = page.n,
         \/ page'.ws = NoWorkspace
         \/ page'.ws = page.ws /\ page'.wsUser = page.wsUser,
         page.mixed => page'.mixed,
         \A d \in calls' : SameHands(d)' /\ (d.kind = "apps" => From(d)),
         WorkspaceAndApplicationsAreOfOneUser'
  PROVE  HandsInv'
  <1>1. PageHands
    BY DEF HandsInv, PageHands
  <1>2. ASSUME page'.ws # NoWorkspace, ~page'.mixed,
               NEW d \in calls', d.kind = "apps", d.n = page'.n, ~d.changed
        PROVE  page'.wsUser = UserOf(cookie)'
    <2>1. PICK e \in calls :
            e.kind = "apps" /\ e.n = page.n /\ ~e.changed
      BY <1>2 DEF From
    <2>2. page.wsUser = UserOf(cookie)
      BY <1>1, <1>2, <2>1 DEF PageHands, OnPage
    <2>3. UserOf(cookie)' = UserOf(cookie)
      BY DEF UserOf
    <2> QED
      BY <1>2, <2>2, <2>3
  <1> QED
    BY <1>2 DEF HandsInv, OnPage

LEMMA StillHands ==
  ASSUME HandsInv, UNCHANGED <<owner, cookie, page>>,
         \A d \in calls' :
           \/ \E e \in calls : Twin(d, e)
           \/ SameHands(d)' /\ (d.kind = "apps" => From(d))
  PROVE  HandsInv'
  <1>1. \A d \in calls' : SameHands(d)' /\ (d.kind = "apps" => From(d))
    BY TwinHands DEF HandsInv, Twin, Alike, From
  <1>2. WorkspaceAndApplicationsAreOfOneUser'
    BY DEF HandsInv, WorkspaceAndApplicationsAreOfOneUser
  <1> QED
    BY <1>1, <1>2, QuietHands

(* The browser has changed hands, and no call under way is the new ones'.  *)
LEMMA ShakenHands ==
  ASSUME HandsInv, page' = page,
         \A d \in calls' : Marked(d) \/ (SameHands(d)' /\ d.kind # "apps")
  PROVE  HandsInv'
  <1>1. \A d \in calls' : SameHands(d)'
    BY MarkedHands
  <1>2. \A d \in calls' : d.kind = "apps" => d.changed
    BY DEF Marked
  <1>3. WorkspaceAndApplicationsAreOfOneUser'
    BY DEF HandsInv, WorkspaceAndApplicationsAreOfOneUser
  <1> QED
    BY <1>1, <1>2, <1>3 DEF HandsInv

LEMMA SameTwin ==
  ASSUME NEW e \in Call, NEW d, Same(d, e)
  PROVE  Twin(d, e)
  BY SameAlike, SameFacts DEF Twin

LEMMA TurnedHands ==
  ASSUME HandsInv, NEW c \in calls, NEW d, calls' = (calls \ {c}) \cup {d},
         d.kind = c.kind, d.n = c.n, d.changed = c.changed, SameHands(d)',
         UNCHANGED <<owner, cookie, page>>
  PROVE  HandsInv'
  <1>1. \A e \in calls : Twin(e, e)
    BY DEF Twin, Alike
  <1>2. From(d)
    BY DEF From
  <1> QED
    BY <1>1, <1>2, StillHands

LEMMA FailedHands ==
  ASSUME TypeOK, HandsInv, NEW c \in calls, NEW d, Failed(c, d)
  PROVE  HandsInv'
  <1>1. PICK reply \in {"transaction", "session", "csrf", "refused"} :
          d = [c EXCEPT !.at = "answered", !.reply = reply]
    BY DEF Failed
  <1>2. /\ d.at = "answered" /\ d.reply # "ok" /\ d.kind = c.kind /\ d.n = c.n
        /\ d.sid = c.sid /\ d.changed = c.changed
    BY <1>1, CallFacts DEF Call
  <1>3. UNCHANGED <<identity, cookie, page>> /\ calls' = (calls \ {c}) \cup {d}
    BY DEF Failed
  <1>4. SameHands(c)
    BY DEF HandsInv
  <1>5. SameHands(d)'
    BY <1>2, <1>3, <1>4 DEF SameHands, Succeeded
  <1> QED
    BY <1>2, <1>3, <1>5, TurnedHands DEF identity

LEMMA ServeHands ==
  ASSUME Basics, SessionsInv, HandsInv, NEW c \in calls, Serve(c) \/ Refuse(c)
  PROVE  HandsInv'
  <1> USE DEF identity
  <1>0. /\ TypeOK /\ c \in Call /\ UserKnown(c) /\ SameHands(c) /\ CookieOK(c)
        /\ calls \ {c} \in SUBSET Call
    BY CallFacts DEF Basics, RightsInv, HandsInv, SessionsInv, TypeOK
  <1>1. ASSUME NEW d, Failed(c, d) PROVE HandsInv'
    BY <1>0, <1>1, FailedHands
  <1>2. ASSUME NEW d, d.kind = c.kind, d.n = c.n, d.changed = c.changed,
               d.sid = c.sid, d.at \in {"listing", "resolving", "answered"},
               \/ d.user = c.user \/ d.user = UserOf(c.sid)
               \/ d.kind = "assignments",
               c.kind = "login" =>
                 c.at \in {"established", "listing", "resolving"}
                 /\ d.user = c.user,
               c.kind = "select" /\ c.at # "resolving" => d.user = UserOf(c.sid),
               c.kind = "apps" => d.user = UserOf(c.sid),
               calls' = (calls \ {c}) \cup {d},
               UNCHANGED <<owner, cookie, page>>
        PROVE  HandsInv'
    <2>1. UserOf(cookie)' = UserOf(cookie) /\ UserOf(c.sid)' = UserOf(c.sid)
      BY <1>2 DEF UserOf
    <2>2. SameHands(d)'
      <3> SUFFICES ASSUME ~c.changed
                   PROVE  SameHands(d)'
        BY <1>2 DEF SameHands
      <3>1. CASE c.kind = "login"
        BY <1>0, <1>2, <2>1, <3>1 DEF SameHands
      <3>2. CASE c.kind \in {"select", "apps"}
        BY <1>0, <1>2, <2>1, <3>2 DEF SameHands
      <3> QED
        BY <1>2, <3>1, <3>2 DEF SameHands
    <2> QED
      BY <1>2, <2>2, TurnedHands
  <1>3. CASE Establish(c)
    <2>1. CASE txn[c.n].status # "PENDING"
      BY <1>1, <1>3, <2>1, ReplyFailed DEF Establish
    <2>2. CASE txn[c.n].status = "PENDING"
      <3>1. PICK s \in Sessions :
              /\ Fresh(s) /\ owner' = [Ended({c.sid}) EXCEPT ![s] = c.user]
              /\ calls' = Changed(calls \ {c}) \cup
                            {[c EXCEPT !.at = "established", !.sid = s]}
        BY <1>3, <2>2 DEF Establish
      <3>2. PICK d : d = [c EXCEPT !.at = "established", !.sid = s]
        OBVIOUS
      <3>3. /\ d.kind = "login" /\ d.at = "established" /\ d.sid = s
            /\ d.user = c.user
        BY <1>0, <1>3, <3>2 DEF Establish, Call
      <3>4. owner'[s] = c.user /\ s # 0
        <4>1. s # 0
          BY SessionFacts
        <4>2. /\ TypeOK /\ Fresh(s)
              /\ owner' = [Ended({c.sid}) EXCEPT ![s] = c.user]
          BY <1>0, <3>1
        <4> QED
          BY <4>1, <4>2, FreshOwner
      <3>5. SameHands(d)'
        BY <3>3, <3>4 DEF SameHands, UserOf
      <3>6. \A e \in calls' : Marked(e) \/ e = d
        BY <1>0, <3>1, <3>2, ChangedSame DEF Marked
      <3>7. page' = page
        BY <1>3 DEF Establish
      <3> QED
        BY <3>3, <3>5, <3>6, <3>7, ShakenHands
    <2> QED
      BY <2>1, <2>2
  <1>4. CASE CompleteAndBind(c)
    <2>1. CASE txn[c.n].status # "PENDING"
      BY <1>1, <1>4, <2>1, ReplyFailed DEF CompleteAndBind
    <2>2. CASE txn[c.n].status = "PENDING"
      <3>1. PICK d : d = [c EXCEPT !.at = "listing", !.cookie = c.sid]
        OBVIOUS
      <3>2. /\ calls' = (calls \ {c}) \cup {d} /\ c.at = "established"
            /\ UNCHANGED <<owner, cookie, page>>
        BY <1>4, <2>2, <3>1 DEF CompleteAndBind, Step
      <3>3. /\ d.kind = c.kind /\ d.n = c.n /\ d.sid = c.sid /\ d.at = "listing"
            /\ d.user = c.user /\ d.changed = c.changed /\ c.kind = "login"
        BY <1>0, <3>1, <3>2 DEF Call, UserKnown
      <3> QED
        BY <1>2, <3>2, <3>3
    <2> QED
      BY <2>1, <2>2
  <1>5. CASE ReadSession(c)
    <2>1. CASE UserOf(c.sid) = NoUser
      BY <1>1, <1>5, <2>1, ReplyFailed DEF ReadSession
    <2>2. CASE UserOf(c.sid) # NoUser
      <3>1. PICK d : d = [c EXCEPT !.at = "listing", !.user = UserOf(c.sid)]
        OBVIOUS
      <3>2. /\ calls' = (calls \ {c}) \cup {d} /\ c.kind = "assignments"
            /\ UNCHANGED <<owner, cookie, page>>
        BY <1>5, <2>2, <3>1 DEF ReadSession, Step
      <3>3. /\ d.kind = c.kind /\ d.n = c.n /\ d.sid = c.sid /\ d.at = "listing"
            /\ d.user = UserOf(c.sid) /\ d.changed = c.changed
        BY <1>0, <3>1 DEF Call
      <3> QED
        BY <1>2, <3>2, <3>3
    <2> QED
      BY <2>1, <2>2
  <1>6. CASE List(c)
    <2>1. c.at = "listing" /\ UNCHANGED <<owner, cookie, page>>
      BY <1>6 DEF List
    <2>2. c.kind \in {"login", "assignments"}
      BY <1>0, <2>1 DEF UserKnown
    <2>3. ASSUME NEW d, Step(c, d), d.kind = c.kind, d.n = c.n, d.sid = c.sid,
                 d.at \in {"resolving", "answered"}, d.user = c.user,
                 d.changed = c.changed
          PROVE  HandsInv'
      BY <1>2, <2>1, <2>2, <2>3 DEF Step
    <2>4. ASSUME NEW w \in held[c.user],
                 Step(c, [c EXCEPT !.at = "resolving", !.list = held[c.user],
                                   !.ws = w])
          PROVE  HandsInv'
      <3>1. PICK d : d = [c EXCEPT !.at = "resolving", !.list = held[c.user],
                                   !.ws = w]
        OBVIOUS
      <3>2. /\ d.kind = c.kind /\ d.at = "resolving" /\ d.user = c.user
            /\ d.n = c.n /\ d.sid = c.sid /\ d.changed = c.changed
        BY <1>0, <3>1 DEF Call
      <3> QED
        BY <2>3, <2>4, <3>1, <3>2
    <2>5. ASSUME Step(c, [c EXCEPT !.at = "answered", !.reply = "ok",
                                   !.list = held[c.user]])
          PROVE  HandsInv'
      <3>1. PICK d : d = [c EXCEPT !.at = "answered", !.reply = "ok",
                                   !.list = held[c.user]]
        OBVIOUS
      <3>2. /\ d.kind = c.kind /\ d.at = "answered" /\ d.user = c.user
            /\ d.n = c.n /\ d.sid = c.sid /\ d.changed = c.changed
        BY <1>0, <3>1 DEF Call
      <3> QED
        BY <2>3, <2>5, <3>1, <3>2
    <2> QED
      BY <1>6, <2>4, <2>5 DEF List
  <1>7. CASE SelectScope(c)
    <2>0. c.kind = "select" /\ c.at = "sent" /\ UNCHANGED <<owner, cookie, page>>
      BY <1>7 DEF SelectScope
    <2>1. CASE Step(c, [c EXCEPT !.at = "resolving", !.user = UserOf(c.sid)])
      <3>1. PICK d : d = [c EXCEPT !.at = "resolving", !.user = UserOf(c.sid)]
        OBVIOUS
      <3>2. /\ d.kind = c.kind /\ d.n = c.n /\ d.sid = c.sid
            /\ d.at = "resolving" /\ d.user = UserOf(c.sid)
            /\ d.changed = c.changed
        BY <1>0, <3>1 DEF Call
      <3>3. calls' = (calls \ {c}) \cup {d}
        BY <2>1, <3>1 DEF Step
      <3> QED
        BY <1>2, <2>0, <3>2, <3>3
    <2>2. CASE UNCHANGED txn /\ \E reply \in {"csrf", "session"} : Reply(c, reply)
      BY <1>1, <1>7, <2>2, ReplyFailed DEF SelectScope
    <2> QED
      BY <1>7, <2>1, <2>2 DEF SelectScope
  <1>8. CASE Activate(c)
    <2>1. CASE c.ws \notin held[c.user]
      BY <1>1, <1>8, <2>1, ReplyFailed DEF Activate
    <2>2. CASE c.ws \in held[c.user]
      <3>1. PICK d : d = [c EXCEPT !.at = "answered", !.reply = "ok"]
        OBVIOUS
      <3>2. /\ calls' = (calls \ {c}) \cup {d} /\ c.at = "resolving"
            /\ UNCHANGED <<owner, cookie, page>>
        BY <1>8, <2>2, <3>1 DEF Activate, Reply, Step
      <3>3. /\ d.kind = c.kind /\ d.at = "answered" /\ d.user = c.user
            /\ d.n = c.n /\ d.sid = c.sid /\ d.changed = c.changed
            /\ c.kind \in {"login", "select"}
        BY <1>0, <3>1, <3>2 DEF Call, UserKnown
      <3> QED
        BY <1>2, <3>2, <3>3
    <2> QED
      BY <2>1, <2>2
  <1>9. CASE Applications(c)
    <2>1. CASE UserOf(c.sid) = NoUser
      BY <1>1, <1>9, <2>1, ReplyFailed DEF Applications
    <2>2. CASE UserOf(c.sid) # NoUser
      <3>1. PICK d : d = [c EXCEPT !.at = "answered", !.reply = "ok",
                                   !.user = UserOf(c.sid)]
        OBVIOUS
      <3>2. /\ calls' = (calls \ {c}) \cup {d} /\ c.kind = "apps"
            /\ UNCHANGED <<owner, cookie, page>>
        BY <1>9, <2>2, <3>1 DEF Applications, Step
      <3>3. /\ d.kind = c.kind /\ d.at = "answered" /\ d.user = UserOf(c.sid)
            /\ d.n = c.n /\ d.sid = c.sid /\ d.changed = c.changed
        BY <1>0, <3>1 DEF Call
      <3> QED
        BY <1>2, <3>2, <3>3
    <2> QED
      BY <2>1, <2>2
  <1>10. CASE SignOut(c)
    <2>1. CASE txn[c.n].status = "none"
      BY <1>1, <1>10, <2>1, ReplyFailed DEF SignOut
    <2>2. CASE txn[c.n].status # "none"
      <3>1. PICK d : d = [c EXCEPT !.at = "answered", !.reply = "ok",
                                   !.cookie = 0]
        OBVIOUS
      <3>2. /\ calls' = Changed(calls \ {c}) \cup {d} /\ page' = page
            /\ c.kind \in {"logout", "everywhere"}
        BY <1>10, <2>2, <3>1 DEF SignOut
      <3>3. d.kind = c.kind
        BY <1>0, <3>1 DEF Call
      <3>4. \A e \in calls' : Marked(e)
        BY <1>0, <3>2, <3>3, ChangedSame DEF Marked
      <3> QED
        BY <3>2, <3>4, ShakenHands
    <2> QED
      BY <2>1, <2>2
  <1>11. CASE Refuse(c)
    BY <1>1, <1>11, ReplyFailed DEF Refuse
  <1> QED
    BY <1>3, <1>4, <1>5, <1>6, <1>7, <1>8, <1>9, <1>10, <1>11 DEF Serve

LEMMA AskHands ==
  ASSUME HandsInv, NEW kind \in {"login", "select", "logout", "everywhere"},
         NEW user, NEW ws, NEW shown, Ask(kind, user, ws, shown),
         UNCHANGED <<owner, cookie>>, page'.n = page.n,
         \/ page'.ws = NoWorkspace
         \/ page'.ws = page.ws /\ page'.wsUser = page.wsUser,
         page'.mixed = page.mixed,
         page'.view = "apps" =>
           page.view = "apps" /\ page'.appsUser = page.appsUser
  PROVE  HandsInv'
  <1>1. PICK q : q = Request(kind, page.n, cookie, user, ws, shown, FALSE)
    OBVIOUS
  <1>2. /\ q.kind = kind /\ q.sid = cookie /\ q.at = "sent"
        /\ calls' = calls \cup {q}
    BY <1>1 DEF Ask, Request
  <1>3. SameHands(q)'
    BY <1>2 DEF SameHands, Succeeded
  <1>4. ASSUME NEW d \in calls
        PROVE  SameHands(d)' /\ From(d)
    BY TwinHands DEF HandsInv, Twin, Alike, From
  <1>5. WorkspaceAndApplicationsAreOfOneUser'
    BY DEF HandsInv, WorkspaceAndApplicationsAreOfOneUser
  <1> QED
    BY <1>2, <1>3, <1>4, <1>5, QuietHands

LEMMA ScriptHands ==
  ASSUME TypeOK, HandsInv, Script
  PROVE  HandsInv'
  <1> USE DEF identity
  <1>0. page \in Page
    BY DEF TypeOK
  <1>1. CASE Submit
    <2>1. /\ page'.n = page.n /\ page'.ws = page.ws /\ page'.mixed = page.mixed
          /\ page'.wsUser = page.wsUser /\ page'.view = "signingIn"
      BY <1>0, <1>1 DEF Submit, Page
    <2> QED
      BY <1>1, <2>1, AskHands DEF Submit
  <1>2. CASE SwitchWorkspace
    <2>1. /\ page'.n = page.n /\ page'.ws = page.ws /\ page'.mixed = page.mixed
          /\ page'.wsUser = page.wsUser /\ page'.appsUser = page.appsUser
          /\ page'.view \in {page.view, "workspaces"}
      BY <1>0, <1>2 DEF SwitchWorkspace, WorkspacesShown, Page
    <2>2. calls' = calls /\ UNCHANGED <<owner, cookie>>
      BY <1>2 DEF SwitchWorkspace
    <2>3. ASSUME NEW d \in calls
          PROVE  SameHands(d)' /\ From(d)
      BY <2>2, TwinHands DEF HandsInv, Twin, Alike, From
    <2>4. WorkspaceAndApplicationsAreOfOneUser'
      BY <2>1 DEF HandsInv, WorkspaceAndApplicationsAreOfOneUser
    <2> QED
      BY <2>1, <2>2, <2>3, <2>4, QuietHands
  <1>3. CASE SwitchAccount
    <2>1. /\ page'.n = page.n /\ page'.ws = NoWorkspace
          /\ page'.mixed = page.mixed /\ page'.view = page.view
          /\ page'.appsUser = page.appsUser
      BY <1>0, <1>3 DEF SwitchAccount, Page
    <2> QED
      BY <1>3, <2>1, AskHands DEF SwitchAccount
  <1>4. CASE SignOutEverywhere
    BY <1>4, AskHands DEF SignOutEverywhere
  <1>5. ASSUME NEW w \in Workspaces, Pick(w)
        PROVE  HandsInv'
    <2>1. /\ page'.n = page.n /\ page'.ws = page.ws /\ page'.mixed = page.mixed
          /\ page'.wsUser = page.wsUser /\ page'.view = "selecting"
      BY <1>0, <1>5 DEF Pick, Page
    <2> QED
      BY <1>5, <2>1, AskHands DEF Pick
  <1> QED
    BY <1>1, <1>2, <1>3, <1>4, <1>5 DEF Script

LEMMA ElsewhereHands ==
  ASSUME TypeOK, HandsInv, Elsewhere
  PROVE  HandsInv'
  <1>1. calls \in SUBSET Call
    BY DEF TypeOK
  <1>2. CASE calls' = Changed(calls) /\ page' = page
    BY <1>1, <1>2, ChangedSame, ShakenHands DEF Marked
  <1>3. CASE calls' = calls /\ UNCHANGED <<owner, cookie, page>>
    BY <1>3, StillHands DEF Twin, Alike
  <1> QED
    BY <1>2, <1>3 DEF Elsewhere, SignInElsewhere, EndSession, ExpireTransaction,
       Reassign, ForceLogout, RequireCoreAdmin, LogoutUser

LEMMA NowhereHands ==
  ASSUME TypeOK, HandsInv, NEW c \in calls, ReceiveNowhere(c)
  PROVE  HandsInv'
  <1>1. calls \ {c} \in SUBSET Call
    BY DEF TypeOK
  <1>2. page' = page /\ owner' = owner
    BY DEF ReceiveNowhere, identity
  <1>3. CASE cookie' = cookie
    <2>1. calls' = calls \ {c}
      BY <1>3 DEF ReceiveNowhere
    <2> QED
      BY <1>2, <1>3, <2>1, StillHands DEF Twin, Alike
  <1>4. CASE cookie' # cookie
    <2>1. calls' = Changed(calls \ {c})
      BY <1>4 DEF ReceiveNowhere
    <2> QED
      BY <1>1, <1>2, <2>1, ChangedSame, ShakenHands DEF Marked
  <1> QED
    BY <1>3, <1>4

LEMMA OpenHands ==
  ASSUME HandsInv, NEW n, NEW late, NEW some, NEW jar,
         Open(n, late, some, jar),
         \A d \in some : \E e \in calls : Twin(d, e)
  PROVE  HandsInv'
  <1>1. PICK q : q = Request("assignments", n, jar, NoUser, NoWorkspace, NoUser,
                             FALSE)
    OBVIOUS
  <1>2. q.kind = "assignments"
    BY <1>1 DEF Request
  <1>3. /\ owner' = owner /\ page'.ws = NoWorkspace /\ page'.view # "apps"
        /\ \A d \in calls' :
             \/ d = q
             \/ d \in some /\ d.kind \in {"login", "logout", "everywhere"}
    <2>1. owner' = owner /\ page'.ws = NoWorkspace /\ page'.view # "apps"
      BY DEF Open, Blank
    <2>2. calls' = {c \in some : c.kind \in {"login", "logout", "everywhere"}}
                     \cup (IF UserOf(jar) = NoUser THEN {} ELSE {q})
      BY <1>1 DEF Open
    <2> QED
      BY <2>1, <2>2
  <1>4. ASSUME NEW d \in some, d.kind \in {"login", "logout", "everywhere"}
        PROVE  SameHands(d)'
    <2>1. PICK e \in calls : Twin(d, e)
      OBVIOUS
    <2>2. SameHands(e)
      BY DEF HandsInv
    <2> QED
      BY <1>3, <1>4, <2>1, <2>2 DEF Twin, Alike, SameHands, UserOf, Succeeded
  <1>5. SameHands(q)'
    BY <1>2 DEF SameHands
  <1>6. WorkspaceAndApplicationsAreOfOneUser'
    BY <1>3 DEF WorkspaceAndApplicationsAreOfOneUser
  <1> QED
    BY <1>3, <1>4, <1>5, <1>6 DEF HandsInv

(* What an answer does to the workspace and the applications on screen.    *)
LEMMA ReactHolds ==
  ASSUME TypeOK, NEW r \in Call, NEW some, NEW jar, React(r, some, jar),
         r.kind = "assignments" => page.ws = NoWorkspace
  PROVE  \/ /\ page'.mixed = page.mixed
            /\ \/ page'.ws = NoWorkspace
               \/ /\ page'.ws = page.ws /\ page'.wsUser = page.wsUser
                  /\ calls' = some
            /\ page'.view = "apps" => page.view = "apps" /\ page'.ws = page.ws
                 /\ page'.wsUser = page.wsUser /\ page'.appsUser = page.appsUser
         \/ /\ r.kind \in {"login", "select"} /\ r.reply = "ok"
            /\ page'.view # "apps" /\ page'.ws = r.ws /\ page'.mixed = r.changed
            /\ r.ws # NoWorkspace => page'.wsUser = r.user
         \/ /\ r.kind = "apps" /\ r.reply = "ok" /\ calls' = some
            /\ page'.ws = page.ws /\ page'.wsUser = page.wsUser
            /\ page'.mixed = (page.mixed \/ r.changed)
            /\ page'.appsUser = r.user
  <1> USE DEF TypeOK, Page, Show, SignedOut, ShowApplications, Activates,
              WorkspacesShown
  <1>1. CASE r.kind = "login" /\ LoginAnswered(r, some, jar)
    BY <1>1 DEF LoginAnswered
  <1>2. CASE r.kind = "assignments" /\ AssignmentsAnswered(r, some, jar)
    BY <1>2 DEF AssignmentsAnswered
  <1>3. CASE r.kind = "select" /\ SelectAnswered(r, some, jar)
    BY <1>3 DEF SelectAnswered
  <1>4. CASE r.kind = "apps" /\ AppsAnswered(r, some)
    BY <1>4 DEF AppsAnswered
  <1>5. CASE r.kind = "logout" /\ SignedOut(page) /\ calls' = some
    BY <1>5
  <1> QED
    BY <1>1, <1>2, <1>3, <1>4, <1>5 DEF React

LEMMA RestHands ==
  ASSUME TypeOK, HandsInv, NEW c \in calls, NEW r, cookie' = Jar(r),
         owner' = owner
  PROVE  \A d \in Rest(c, r) :
           /\ \E e \in calls : Twin(d, e)
           /\ SameHands(d)'
           /\ cookie' = cookie \/ Marked(d)
  <1>1. calls \ {c} \in SUBSET Call
    BY DEF TypeOK
  <1>2. CASE Jar(r) = cookie
    BY <1>2, TwinHands DEF Rest, Twin, Alike, HandsInv
  <1>3. CASE Jar(r) # cookie
    <2>1. Rest(c, r) = Changed(calls \ {c})
      BY <1>3 DEF Rest
    <2>2. ASSUME NEW d \in Rest(c, r)
          PROVE  Marked(d) /\ \E e \in calls : Twin(d, e)
      <3>1. Marked(d) /\ \E e \in calls \ {c} : Same(d, e)
        BY <1>1, <2>1, ChangedSame DEF Marked
      <3> QED
        BY <1>1, <3>1, SameTwin
    <2> QED
      BY <2>2, MarkedHands
  <1> QED
    BY <1>2, <1>3

LEMMA ReactHands ==
  ASSUME Basics, ScreenInv, SessionsInv, HandsInv, NEW c \in calls,
         NEW r \in Call, Heard(c, r), OnPage(c), cookie' = Jar(r),
         React(r, Rest(c, r), Jar(r)), UNCHANGED identity
  PROVE  HandsInv'
  <1>0. /\ TypeOK /\ owner' = owner /\ SameHands(c) /\ CookieOK(c)
        /\ PageHands
    BY DEF Basics, HandsInv, SessionsInv, identity, PageHands
  <1>1. PICK new : /\ calls' = Rest(c, r) \cup new
                   /\ \A d \in new : NewOf(d, r, Jar(r))
    BY <1>0, ReactNew
  <1>2. page'.n = page.n
    BY <1>0, ReactPage
  <1>3. \A d \in Rest(c, r) : /\ \E e \in calls : Twin(d, e)
                              /\ SameHands(d)'
                              /\ cookie' = cookie \/ Marked(d)
    BY <1>0, RestHands
  <1>4. \A d \in new : SameHands(d)'
    BY <1>1 DEF NewOf, SameHands, Succeeded
  <1>5. \A d \in calls' : SameHands(d)'
    BY <1>1, <1>3, <1>4
  <1>6. SUFFICES PageHands' /\ WorkspaceAndApplicationsAreOfOneUser'
    BY <1>5 DEF HandsInv, PageHands
  <1>7. ASSUME page'.ws # NoWorkspace, ~page'.mixed, ~page.mixed,
               page'.ws = page.ws, page'.wsUser = page.wsUser,
               calls' = Rest(c, r)
        PROVE  PageHands'
    <2>1. ASSUME NEW d \in calls', d.kind = "apps", d.n = page'.n, ~d.changed
          PROVE  page'.wsUser = UserOf(cookie)'
      <3>1. cookie' = cookie /\ \E e \in calls : Twin(d, e)
        BY <1>3, <1>7, <2>1 DEF Marked
      <3>2. PICK e \in calls : e.kind = "apps" /\ e.n = page.n /\ ~e.changed
        BY <1>2, <2>1, <3>1 DEF Twin, Alike
      <3>3. page.wsUser = UserOf(cookie)
        BY <1>0, <1>7, <3>2 DEF PageHands, OnPage
      <3> QED
        BY <1>0, <1>7, <3>1, <3>3 DEF UserOf
    <2> QED
      BY <2>1 DEF PageHands, OnPage
  <1>8. CASE /\ page'.mixed = page.mixed
             /\ \/ page'.ws = NoWorkspace
                \/ /\ page'.ws = page.ws /\ page'.wsUser = page.wsUser
                   /\ calls' = Rest(c, r)
             /\ page'.view = "apps" => page.view = "apps" /\ page'.ws = page.ws
                  /\ page'.wsUser = page.wsUser
                  /\ page'.appsUser = page.appsUser
    <2>1. PageHands'
      BY <1>7, <1>8 DEF PageHands
    <2>2. WorkspaceAndApplicationsAreOfOneUser'
      BY <1>8 DEF HandsInv, WorkspaceAndApplicationsAreOfOneUser
    <2> QED
      BY <2>1, <2>2
  <1>9. CASE /\ r.kind \in {"login", "select"} /\ r.reply = "ok"
             /\ page'.view # "apps" /\ page'.ws = r.ws
             /\ page'.mixed = r.changed
             /\ r.ws # NoWorkspace => page'.wsUser = r.user
    <2>1. ASSUME r.ws # NoWorkspace, ~r.changed
          PROVE  r.user = UserOf(Jar(r))
      <3>1. /\ Succeeded(c) /\ r.user = c.user /\ r.kind = c.kind /\ ~c.changed
            /\ r.cookie = c.cookie
        BY <1>9, <2>1 DEF Heard
      <3>2. CASE c.kind = "select"
        BY <1>0, <3>1, <3>2 DEF SameHands, CookieOK, Jar
      <3>3. CASE c.kind = "login"
        <4>1. r.cookie = c.sid /\ c.sid \in Sessions \cup {0} /\ c.sid # 0
          BY <1>0, <3>1, <3>3, CallFacts DEF CookieOK
        <4>2. Jar(r) = c.sid
          BY <4>1, SessionFacts DEF Jar
        <4> QED
          BY <1>0, <3>1, <3>3, <4>2 DEF SameHands
      <3> QED
        BY <1>9, <3>1, <3>2, <3>3
    <2>2. UserOf(cookie)' = UserOf(Jar(r))
      BY <1>0 DEF UserOf
    <2> QED
      BY <1>9, <2>1, <2>2 DEF PageHands, WorkspaceAndApplicationsAreOfOneUser
  <1>10. CASE /\ r.kind = "apps" /\ r.reply = "ok" /\ calls' = Rest(c, r)
              /\ page'.ws = page.ws /\ page'.wsUser = page.wsUser
              /\ page'.mixed = (page.mixed \/ r.changed)
              /\ page'.appsUser = r.user
    <2>1. PageHands'
      BY <1>7, <1>10 DEF PageHands
    <2>2. ASSUME page.ws # NoWorkspace, ~page.mixed, ~r.changed
          PROVE  page.wsUser = r.user
      <3>1. Succeeded(c) /\ r.user = c.user /\ c.kind = "apps" /\ ~c.changed
        BY <1>10, <2>2 DEF Heard
      <3>2. c.user = UserOf(cookie)
        BY <1>0, <3>1 DEF SameHands
      <3> QED
        BY <1>0, <2>2, <3>1, <3>2 DEF PageHands
    <2> QED
      BY <1>10, <2>1, <2>2 DEF WorkspaceAndApplicationsAreOfOneUser
  <1>11. r.kind = "assignments" => page.ws = NoWorkspace
    BY DEF Heard, ScreenInv
  <1> QED
    BY <1>0, <1>8, <1>9, <1>10, <1>11, ReactHolds

LEMMA AnsweredHands ==
  ASSUME Basics, ScreenInv, SessionsInv, HandsInv, NEW c \in calls, Answered(c)
  PROVE  HandsInv'
  <1>0. TypeOK
    BY DEF Basics
  <1>1. PICK r \in Call : Heard(c, r) /\ Arrives(c, r)
    BY <1>0, HeardFacts
  <1>2. OnPage(c) /\ cookie' = Jar(r)
    BY <1>0, <1>1, RestFacts DEF OnPage
  <1>3. CASE React(r, Rest(c, r), Jar(r)) /\ UNCHANGED identity
    BY <1>1, <1>2, <1>3, ReactHands
  <1>4. ASSUME NEW n \in Loads, Open(n, FALSE, Rest(c, r), Jar(r))
        PROVE  HandsInv'
    <2>1. owner' = owner
      BY <1>4 DEF Open
    <2>2. \A d \in Rest(c, r) : \E e \in calls : Twin(d, e)
      BY <1>0, <1>2, <2>1, RestHands
    <2> QED
      BY <1>4, <2>2, OpenHands
  <1> QED
    BY <1>0, <1>1, <1>3, <1>4, RestFacts

LEMMA HandsStep ==
  ASSUME Basics, ScreenInv, SessionsInv, HandsInv, [Next]_vars
  PROVE  HandsInv'
  <1>0. TypeOK
    BY DEF Basics
  <1>1. CASE UNCHANGED vars
    BY <1>1, StillHands DEF vars, identity, Twin, Alike
  <1>2. CASE Script
    BY <1>0, <1>2, ScriptHands
  <1>3. ASSUME NEW c \in calls, Serve(c) \/ Refuse(c)
        PROVE  HandsInv'
    BY <1>3, ServeHands
  <1>4. ASSUME NEW c \in calls, Answered(c)
        PROVE  HandsInv'
    BY <1>4, AnsweredHands
  <1>5. ASSUME NEW c \in calls, ReceiveNowhere(c)
        PROVE  HandsInv'
    BY <1>0, <1>5, NowhereHands
  <1>6. ASSUME NEW late \in BOOLEAN, Load(late)
        PROVE  HandsInv'
    <2>1. PICK n \in Loads : Open(n, late, calls, cookie)
      BY <1>6 DEF Load
    <2> QED
      BY <2>1, OpenHands DEF Twin, Alike
  <1>7. CASE Elsewhere
    BY <1>0, <1>7, ElsewhereHands
  <1> QED
    BY <1>1, <1>2, <1>3, <1>4, <1>5, <1>6, <1>7, NextCases

(* The applications on screen are those of the user for whom the workspace *)
(* above them was activated, whatever the order of the answers, unless the *)
(* browser changed hands in between (login.js showApplications).           *)
THEOREM WorkspaceAndApplicationsAgree ==
  Spec => []WorkspaceAndApplicationsAreOfOneUser
  <1>1. Init => HandsInv
    BY DEF Init, Blank, HandsInv, WorkspaceAndApplicationsAreOfOneUser
  <1>2. Basics /\ ScreenInv /\ SessionsInv /\ HandsInv /\ [Next]_vars
          => HandsInv'
    BY HandsStep
  <1>3. HandsInv => WorkspaceAndApplicationsAreOfOneUser
    BY DEF HandsInv
  <1> QED
    BY <1>1, <1>2, <1>3, SessionsAlways, PTL DEF Spec
=============================================================================
