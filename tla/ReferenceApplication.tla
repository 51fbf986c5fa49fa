-------------------------- MODULE ReferenceApplication --------------------------
(***************************************************************************)
(* The reference Business Unit application around a login: its frontend    *)
(* (public/app.js), one state machine per tab, and its backend             *)
(* (src/server.ts): /auth/core/start, /auth/core/callback, /api/me and the *)
(* sign-outs.                                                              *)
(*                                                                         *)
(* Start n is one POST /auth/core/start and names its transaction id, its  *)
(* state and its login_url.  A callback is named <<n, b, k>>: the k-th     *)
(* POST of the answer of start n by browser b; the local session it makes  *)
(* has its name.  A callback is served in three steps, as far as the code  *)
(* awaits: GETDEL, SET NX of the jti, MULTI of the session.                *)
(*                                                                         *)
(* state is as unguessable as the transaction id it travels with, so the   *)
(* comparison of states never decides anything here.                       *)
(***************************************************************************)
EXTENDS LoginStarts, FiniteSets

CONSTANTS Tabs,
          TabBrowser,   \* the browser of each tab
          NoPost

ASSUME TabBrowserAssumption == Tabs # {} /\ TabBrowser \in [Tabs -> Browsers]

VARIABLES
  tab,            \* tab[t]: the document of a tab
  start,          \* start[n]: the request for start n
  pendingKeys,    \* keys bu:<client>:login:<txn>
  loginCookie,    \* loginCookie[b]: start of the login cookie, 0 for none
  post,           \* post[x]: progress of callback x
  claimed,        \* the replay store: starts whose assertion's jti is taken
  local,          \* keys bu:<client>:session:<id>
  sessionCookie,  \* sessionCookie[b]: local session of the browser's cookie
  taken           \* history: callbacks that took the pending transaction

backend == <<pendingKeys, claimed, local, taken>>
appVars == <<tab, start, loginCookie, post, sessionCookie, backend>>

Posts == Starts \X Browsers \X (1..2)
MaxLoads == 2   \* bound: load() calls a tab has under way

Tab ==
  [view : {"blank", "signedOut", "signedIn", "away", "leaving"},
   auto : BOOLEAN,                 \* the URL says sso=auto
   loads : 0..MaxLoads,            \* calls of load() under way
   pending : Starts \cup {0},      \* the variable of app.js
   frame : Starts \cup {0},        \* the start whose login page is on screen
   hint : Starts \cup {0}]         \* "leaving": logout_hint of the form

(* Where the answer will go.  "here": the panel for the frame is on screen;*)
(* "replaced": the document has rendered anew; "gone": nobody waits for it.*)
Start ==
  [pc : {"none", "sent", "done"}, tab : Tabs, display : {"embed", "page"},
   prompt : {"", "auto"}, place : {"here", "replaced", "gone"}]

Post ==
  [pc : {"none", "sent", "taken", "verified", "created", "rejected", "done"},
   form : BOOLEAN,                 \* form_post, else fetch() of app.js
   cookie : Starts \cup {0},       \* the login cookie sent along
   clears : BOOLEAN,               \* the answer clears the login cookie
   waiting : BOOLEAN]              \* its sender is still there

NoStart == [pc |-> "none", tab |-> CHOOSE t \in Tabs : TRUE,
            display |-> "embed", prompt |-> "", place |-> "gone"]

AppTypeOK ==
  /\ tab \in [Tabs -> Tab]
  /\ start \in [Starts -> Start]
  /\ pendingKeys \subseteq Starts
  /\ loginCookie \in [Browsers -> Starts \cup {0}]
  /\ post \in [Posts -> Post]
  /\ claimed \subseteq Starts
  /\ local \subseteq Posts
  /\ sessionCookie \in [Browsers -> Posts \cup {NoPost}]
  /\ taken \subseteq Posts

(* A document that calls load() as it comes up.                            *)
Document(auto) ==
  [view |-> "blank", auto |-> auto, loads |-> 1, pending |-> 0, frame |-> 0,
   hint |-> 0]

(* A document of Identity in the tab.                                      *)
Elsewhere(view, n) ==
  [Document(FALSE) EXCEPT !.view = view, !.loads = 0, !.frame = n]

AppInit ==
  /\ tab = [t \in Tabs |-> Document(FALSE)]
  /\ start = [n \in Starts |-> NoStart]
  /\ pendingKeys = {} /\ claimed = {} /\ local = {} /\ taken = {}
  /\ loginCookie = [b \in Browsers |-> 0]
  /\ sessionCookie = [b \in Browsers |-> NoPost]
  /\ post = [x \in Posts |->
       [pc |-> "none", form |-> FALSE, cookie |-> 0, clears |-> FALSE,
        waiting |-> FALSE]]

-----------------------------------------------------------------------------
(* The frontend.                                                           *)
Unused == {n \in Starts : start[n].pc = "none"}
Exhausted == Unused = {}

Displaced(place, f) ==
  [n \in Starts |->
     IF f[n].tab = place[1] /\ f[n].place # "gone"
     THEN [f[n] EXCEPT !.place = place[2]] ELSE f[n]]

(* POST /auth/core/start: the key is set at once, the answer comes later.  *)
(* With every start used up (the bound) nothing is asked for.              *)
Begin(t, display, prompt, f) ==
  IF Exhausted
  THEN start' = f /\ UNCHANGED pendingKeys
  ELSE \E n \in Unused :
         /\ \A m \in Unused : n <= m
         /\ start' = [f EXCEPT ![n] =
              [pc |-> "sent", tab |-> t, display |-> display,
               prompt |-> prompt, place |-> "here"]]
         /\ pendingKeys' = pendingKeys \cup {n}

(* renderSignedOut: a new panel and a new start for it.  `pending` is what *)
(* it was until the start is answered.                                     *)
RenderSignedOut(t, doc) ==
  /\ tab' = [tab EXCEPT ![t] = [doc EXCEPT !.view = "signedOut", !.frame = 0]]
  /\ Begin(t, "embed", IF doc.auto THEN "auto" ELSE "",
           Displaced(<<t, "replaced">>, start))

(* load(): /api/me asks for the session of the cookie (currentSession) and *)
(* renders one way or the other.                                           *)
Load(t) ==
  LET doc == [tab[t] EXCEPT !.loads = @ - 1] IN
  /\ tab[t].loads > 0
  /\ IF sessionCookie[TabBrowser[t]] \in local
     THEN /\ tab' = [tab EXCEPT ![t] =
                       [doc EXCEPT !.view = "signedIn", !.frame = 0]]
          /\ start' = Displaced(<<t, "replaced">>, start)
          /\ UNCHANGED pendingKeys
     ELSE RenderSignedOut(t, doc)
  /\ UNCHANGED <<loginCookie, post, sessionCookie, claimed, local, taken>>

(* A 500 of /api/me (Redis fails): signed out, whatever the cookie is.     *)
LoadRefused(t) ==
  /\ tab[t].loads > 0
  /\ RenderSignedOut(t, [tab[t] EXCEPT !.loads = @ - 1])
  /\ UNCHANGED <<loginCookie, post, sessionCookie, claimed, local, taken>>

(* The answer of /api/me is lost: there is no catch, and the document stays*)
(* as it is, blank if it has just come up.                                 *)
LoseLoad(t) ==
  /\ tab[t].loads > 0
  /\ tab' = [tab EXCEPT ![t].loads = @ - 1]
  /\ UNCHANGED <<start, loginCookie, post, sessionCookie, backend>>

(* The document goes: its requests are answered to nobody.                 *)
Deserted(t) ==
  [x \in Posts |->
     IF ~post[x].form /\ start[x[1]].tab = t
     THEN [post[x] EXCEPT !.waiting = FALSE] ELSE post[x]]

Leave(t, doc) ==
  /\ tab' = [tab EXCEPT ![t] = doc]
  /\ start' = Displaced(<<t, "gone">>, start)
  /\ post' = Deserted(t)

(* The answer of a start: the login cookie names it, whichever start it    *)
(* named before.  startEmbed sets `pending` and puts the frame into its    *)
(* own panel, which may be out of sight; startTopLevel navigates.          *)
ReceiveStart(n) ==
  LET s == start[n]
      doc == tab[s.tab] IN
  /\ s.pc = "sent"
  /\ \/ loginCookie' = [loginCookie EXCEPT ![TabBrowser[s.tab]] = n]
     \/ s.place = "gone" /\ UNCHANGED loginCookie
  /\ CASE s.place = "gone" ->
            /\ start' = [start EXCEPT ![n].pc = "done", ![n].place = "gone"]
            /\ UNCHANGED <<tab, post>>
       [] s.place # "gone" /\ s.display = "embed" ->
            /\ tab' = [tab EXCEPT ![s.tab] =
                 [doc EXCEPT !.pending = n,
                             !.frame = IF s.place = "here" THEN n ELSE @]]
            /\ start' = [start EXCEPT ![n].pc = "done", ![n].place = "gone"]
            /\ UNCHANGED post
       [] s.place # "gone" /\ s.display = "page" ->
            /\ tab' = [tab EXCEPT ![s.tab] = Elsewhere("away", n)]
            /\ start' = [Displaced(<<s.tab, "gone">>, start)
                           EXCEPT ![n].pc = "done", ![n].place = "gone"]
            /\ post' = Deserted(s.tab)
  /\ UNCHANGED <<sessionCookie, backend>>

(* The answer is lost and nothing happens: there is no catch.              *)
LoseStart(n) ==
  /\ start[n].pc = "sent" /\ start[n].place # "gone"
  /\ start' = [start EXCEPT ![n].pc = "done", ![n].place = "gone"]
  /\ UNCHANGED <<tab, loginCookie, post, sessionCookie, backend>>

(* POST /auth/core/callback leaves the browser.                            *)
Sent(x, form) == [pc |-> "sent", form |-> form, cookie |-> loginCookie[x[2]],
                  clears |-> FALSE, waiting |-> TRUE]
SendPost(x, form) == post' = [post EXCEPT ![x] = Sent(x, form)]

(* The message listener, for a message of the pending frame: the others    *)
(* are ignored.                                                            *)
Hear(t, message) ==
  LET n == tab[t].pending IN
  /\ CASE message = "TOP_LEVEL_REQUIRED" ->
            /\ Begin(t, "page", "", start)
            /\ UNCHANGED <<tab, post>>
       [] message = "EXPIRED" -> RenderSignedOut(t, tab[t]) /\ UNCHANGED post
       [] message = "SUCCESS" ->
            /\ tab' = [tab EXCEPT ![t].pending = 0]
            /\ SendPost(<<n, TabBrowser[t], 1>>, FALSE)
            /\ UNCHANGED <<start, pendingKeys>>
  /\ UNCHANGED <<loginCookie, sessionCookie, claimed, local, taken>>

-----------------------------------------------------------------------------
(* The callback in the backend.                                            *)
PostGoes(x, pc, clears) ==
  post' = [post EXCEPT ![x].pc = pc, ![x].clears = clears, ![x].cookie = 0]

PostEnds(x) ==
  post' = [post EXCEPT ![x].pc = "done", ![x].clears = FALSE, ![x].waiting = FALSE]

(* Mutant: no comparison with the login cookie.                            *)
TakeFromAnyone(x) ==
  /\ post[x].pc = "sent"
  /\ IF x[1] \notin pendingKeys
     THEN PostGoes(x, "rejected", TRUE) /\ UNCHANGED <<pendingKeys, taken>>
     ELSE /\ PostGoes(x, "taken", TRUE)
          /\ pendingKeys' = pendingKeys \ {x[1]}
          /\ taken' = taken \cup {x}
  /\ UNCHANGED <<tab, start, loginCookie, sessionCookie, claimed, local>>

(* Mutant: GET, and the key is left to expire.                             *)
TakeWithoutDelete(x) ==
  /\ post[x].pc = "sent"
  /\ IF post[x].cookie # x[1] \/ x[1] \notin pendingKeys
     THEN PostGoes(x, "rejected", post[x].cookie = x[1]) /\ UNCHANGED taken
     ELSE PostGoes(x, "taken", TRUE) /\ taken' = taken \cup {x}
  /\ UNCHANGED <<tab, start, loginCookie, sessionCookie, claimed, local,
                 pendingKeys>>

(* Steps 1-2: the transaction of the cookie, taken with GETDEL.            *)
Take(x) ==
  /\ post[x].pc = "sent"
  /\ IF post[x].cookie # x[1] \/ x[1] \notin pendingKeys
     THEN /\ PostGoes(x, "rejected", post[x].cookie = x[1])
          /\ UNCHANGED <<pendingKeys, taken>>
     ELSE /\ PostGoes(x, "taken", TRUE)
          /\ pendingKeys' = pendingKeys \ {x[1]}
          /\ taken' = taken \cup {x}
  /\ UNCHANGED <<tab, start, loginCookie, sessionCookie, claimed, local>>

(* Steps 3-15: verifyLoginAssertion of an assertion Identity has issued    *)
(* for this application and this transaction; its last step claims the jti.*)
Verify(x) ==
  /\ post[x].pc = "taken"
  /\ PostGoes(x, IF x[1] \in claimed THEN "rejected" ELSE "verified", TRUE)
  /\ claimed' = claimed \cup {x[1]}
  /\ UNCHANGED <<tab, start, loginCookie, sessionCookie, pendingKeys, local,
                 taken>>

(* Steps 16-19: access is GRANTED and the local session is made.           *)
Create(x) ==
  /\ post[x].pc = "verified"
  /\ PostGoes(x, "created", TRUE)
  /\ local' = local \cup {x}
  /\ UNCHANGED <<tab, start, loginCookie, sessionCookie, pendingKeys, claimed,
                 taken>>

(* The assertion is too old or cannot be verified; access is denied or the *)
(* authorization service does not answer.                                  *)
Reject(x) ==
  /\ post[x].pc \in {"taken", "verified"}
  /\ PostGoes(x, "rejected", TRUE)
  /\ UNCHANGED <<tab, start, loginCookie, sessionCookie, backend>>

(* The cookies of the answer.                                              *)
CookiesOf(x) ==
  /\ loginCookie' = IF post[x].clears
                    THEN [loginCookie EXCEPT ![x[2]] = 0] ELSE loginCookie
  /\ sessionCookie' = IF post[x].pc = "created"
                      THEN [sessionCookie EXCEPT ![x[2]] = x] ELSE sessionCookie

Answered(x) == post[x].pc \in {"created", "rejected"}

(* Mutant: a rejection leaves the screen as it is.                         *)
ReceivePostOrStay(x, t) ==
  /\ Answered(x) /\ post[x].waiting /\ ~post[x].form /\ start[x[1]].tab = t
  /\ CookiesOf(x)
  /\ PostEnds(x)
  /\ IF post[x].pc = "created"
     THEN /\ tab[t].loads < MaxLoads
          /\ tab' = [tab EXCEPT ![t].auto = FALSE, ![t].loads = @ + 1]
     ELSE UNCHANGED tab
  /\ UNCHANGED <<start, pendingKeys, claimed, local, taken>>

(* app.js has the answer: load() at '/', or sign in again.                 *)
ReceivePost(x, t) ==
  /\ Answered(x) /\ post[x].waiting /\ ~post[x].form /\ start[x[1]].tab = t
  /\ CookiesOf(x)
  /\ PostEnds(x)
  /\ IF post[x].pc = "created"
     THEN /\ tab[t].loads < MaxLoads
          /\ tab' = [tab EXCEPT ![t].auto = FALSE, ![t].loads = @ + 1]
          /\ UNCHANGED <<start, pendingKeys>>
     ELSE RenderSignedOut(t, tab[t])
  /\ UNCHANGED <<claimed, local, taken>>

(* A form is answered with a redirect to '/' or '/?error=': the page on    *)
(* screen makes way for the application.                                   *)
ReceiveRedirect(x) ==
  LET t == start[x[1]].tab IN
  /\ Answered(x) /\ post[x].waiting /\ post[x].form
  /\ CookiesOf(x)
  /\ PostEnds(x)
  /\ tab' = IF TabBrowser[t] = x[2] /\ tab[t].view = "away" /\ tab[t].frame = x[1]
            THEN [tab EXCEPT ![t] = Document(FALSE)] ELSE tab
  /\ UNCHANGED <<start, backend>>

(* Nobody waits for the answer; its cookies may be taken or lost.          *)
ReceivePostNowhere(x) ==
  /\ Answered(x) /\ ~post[x].waiting
  /\ CookiesOf(x) \/ UNCHANGED <<loginCookie, sessionCookie>>
  /\ PostEnds(x)
  /\ UNCHANGED <<tab, start, backend>>

(* The browser gives up waiting.                                           *)
LosePost(x) ==
  /\ post[x].waiting
  /\ post' = [post EXCEPT ![x].waiting = FALSE]
  /\ UNCHANGED <<tab, start, loginCookie, sessionCookie, backend>>

(* The user has the browser send the form once more, and with that gives   *)
(* up waiting for the first answer.                                        *)
RepeatPost(n, b) ==
  LET x == <<n, b, 1>>
      again == <<n, b, 2>> IN
  /\ post[x].pc # "none" /\ post[x].form /\ post[again].pc = "none"
  /\ post' = [post EXCEPT ![x].waiting = FALSE, ![again] = Sent(again, TRUE)]
  /\ UNCHANGED <<tab, start, loginCookie, sessionCookie, backend>>

-----------------------------------------------------------------------------
(* POST /auth/logout, then load(); the button can be pressed twice.        *)
SignOut(t) ==
  LET b == TabBrowser[t] IN
  /\ tab[t].view = "signedIn" /\ tab[t].loads < MaxLoads
  /\ local' = local \ {sessionCookie[b]}
  /\ sessionCookie' = [sessionCookie EXCEPT ![b] = NoPost]
  /\ tab' = [tab EXCEPT ![t].loads = @ + 1]
  /\ UNCHANGED <<start, loginCookie, post, pendingKeys, claimed, taken>>

(* POST /auth/logout/federated: the local session ends and the tab posts a *)
(* form to Identity, which names the federation session of the local one.  *)
SignOutEverywhere(t, sid) ==
  LET b == TabBrowser[t] IN
  /\ tab[t].view = "signedIn"
  /\ local' = local \ {sessionCookie[b]}
  /\ sessionCookie' = [sessionCookie EXCEPT ![b] = NoPost]
  /\ Leave(t, [Elsewhere("leaving", 0) EXCEPT !.hint = sid])
  /\ UNCHANGED <<loginCookie, pendingKeys, claimed, taken>>

(* The user opens the application anew, or the portal does for him         *)
(* (initiate_login_uri, which redirects to /?sso=auto).                    *)
OpenApplication(t, auto) ==
  /\ Leave(t, Document(auto))
  /\ UNCHANGED <<loginCookie, sessionCookie, backend>>

(* The key bu:<client>:login:<txn> expires; so does a local session.       *)
ExpirePending(n) ==
  /\ n \in pendingKeys
  /\ pendingKeys' = pendingKeys \ {n}
  /\ UNCHANGED <<tab, start, loginCookie, post, sessionCookie, claimed, local,
                 taken>>
=============================================================================
