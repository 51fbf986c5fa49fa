--------------------------- MODULE ApplicationLogin ---------------------------
(***************************************************************************)
(* A sign-in from end to end: the tabs of the reference application, its   *)
(* backend, and Identity's login page in a frame of a tab or in its place. *)
(* The frame and the application meet in three ways: the application puts  *)
(* the frame on screen and takes it away, the frame sends messages, and a  *)
(* page without a frame posts the assertion itself.                        *)
(*                                                                         *)
(* The program's own steps and those of a user who wants to be signed in   *)
(* are calm; a refusal, a loss, an expiry or a change of mind is a         *)
(* disturbance, and MaxFailures bounds their number.                       *)
(***************************************************************************)
EXTENDS LoginPage, ReferenceApplication

vars == <<loginVars, failures, appVars>>

Init == LoginInit /\ AppInit

Framed(p) == start[p[1]].display = "embed"
Here(t) == <<tab[t].frame, TabBrowser[t]>>

(* The login pages the tabs have on screen.                                *)
OnScreen(tabs) == {<<tabs[t].frame, TabBrowser[t]>> : t \in {u \in Tabs : tabs[u].frame # 0}}

(* A page leaves the screen with what it has said and is waiting for.      *)
PagesFollow(said) ==
  LET gone == OnScreen(tab) \ OnScreen(tab') IN
  /\ page' = [p \in Pages |-> IF p \in gone THEN NoPage ELSE page[p]]
  /\ call' = [p \in Pages |-> IF p \in gone THEN Abandoned(call[p]) ELSE call[p]]
  /\ inbox' = [n \in Starts |-> IF \E p \in gone : p[1] = n THEN <<>> ELSE said[n]]
  /\ UNCHANGED <<identity, fedCookie>>

Unmoved == UNCHANGED appVars

-----------------------------------------------------------------------------
(* The frame loads, or the top-level page the tab has navigated to.        *)
Open(t) ==
  LET p == Here(t) IN
  /\ tab[t].frame # 0 /\ page[p].view = "none"
  /\ \/ OpenPage(p, Framed(p), start[p[1]].prompt) /\ Calm
     \/ OpenRefused(p) /\ Disturb("refused")
  /\ Unmoved

(* The page is loaded once more, or the link of a top-level page is opened *)
(* in a browser that is not the tab's.                                     *)
OpenAgain(p) ==
  /\ \/ p \in OnScreen(tab) /\ page[p].view # "none"
     \/ /\ start[p[1]].pc = "done" /\ ~Framed(p) /\ page[p].view = "none"
        /\ p[2] # TabBrowser[start[p[1]].tab]
  /\ OpenPage(p, Framed(p), start[p[1]].prompt)
  /\ Unmoved /\ Disturb("again")

(* The user signs in, or carries on as the user shown.                     *)
SignIn(p) == (Submit(p) \/ Continue(p)) /\ Unmoved /\ Calm
Wander(p) ==
  /\ \/ SwitchAccount(p) /\ Disturb("wandering")
     \/ Framed(p) /\ AskTopLevel(p) /\ Disturb("topLevel")
  /\ Unmoved

Serve(p) ==
  /\ \/ (\E u \in Users : ServeLogin(p, u)) /\ Calm
     \/ ServeContinue(p) /\ Calm
     \/ ServeLogout(p) /\ Calm
     \/ (\E k \in Kinds : ServeRefused(p, k)) /\ Disturb("refused")
  /\ Unmoved

(* An answer reaches its page; a page without a frame submits the form.    *)
ReceiveAnswer(p, k) ==
  /\ \/ Receive(p, k, Framed(p)) /\ Calm
     \/ LoseCall(p, k, Framed(p)) /\ Disturb("lost")
     \/ GarbleDelivery(p, k) /\ Disturb("lost")
  /\ IF ~Framed(p) /\ call[p][k].reply = "delivery" /\ page'[p].view = "success"
     THEN /\ SendPost(<<p[1], p[2], 1>>, TRUE)
          /\ UNCHANGED <<tab, start, loginCookie, sessionCookie, backend>>
     ELSE Unmoved

ReceiveTooLate(p, k) == ReceiveNowhere(p, k) /\ Unmoved /\ Calm

-----------------------------------------------------------------------------
(* A message of the frame on screen.  It is for the listener only when the *)
(* frame is the pending one.                                               *)
HearMessage(t) ==
  LET n == tab[t].frame IN
  /\ tab[t].view = "signedOut" /\ n # 0 /\ inbox[n] # <<>>
  /\ IF tab[t].pending = n THEN Hear(t, Head(inbox[n])) ELSE Unmoved
  /\ PagesFollow([inbox EXCEPT ![n] = Tail(@)])
  /\ Calm

LoadTab(t) ==
  /\ \/ Load(t) /\ Calm
     \/ LoadRefused(t) /\ Disturb("refused")
     \/ LoseLoad(t) /\ Disturb("lost")
  /\ PagesFollow(inbox)

AnswerStart(n) ==
  /\ \/ ReceiveStart(n) /\ Calm
     \/ LoseStart(n) /\ Disturb("lost")
  /\ PagesFollow(inbox)

Callback(x) ==
  /\ \/ Take(x) /\ Calm
     \/ Verify(x) /\ Calm
     \/ Create(x) /\ Calm
     \/ Reject(x) /\ Disturb("refused")
  /\ UNCHANGED loginVars

AnswerCallback(x) ==
  /\ \/ (\E t \in Tabs : ReceivePost(x, t)) /\ Calm
     \/ ReceiveRedirect(x) /\ Calm
     \/ ReceivePostNowhere(x) /\ Calm
     \/ LosePost(x) /\ Disturb("lost")
  /\ PagesFollow(inbox)

PostAgain(n, b) == RepeatPost(n, b) /\ UNCHANGED loginVars /\ Disturb("again")

-----------------------------------------------------------------------------
(* What the user does to a tab besides.                                    *)
SignOutHere(t) == SignOut(t) /\ PagesFollow(inbox) /\ Disturb("wandering")

SidOf(x) == IF x \in local THEN assertion[x[1]].sid ELSE 0

LeaveEverywhere(t) ==
  /\ SignOutEverywhere(t, SidOf(sessionCookie[TabBrowser[t]]))
  /\ PagesFollow(inbox) /\ Disturb("wandering")

(* POST /federation/logout: the session of the cookie, if the hint names   *)
(* it, and with it, once they are notified, the local sessions made of it; *)
(* a hint that does not is a dead end.                                     *)
FederationLogout(t) ==
  LET b == TabBrowser[t]
      s == fedCookie[b] IN
  /\ tab[t].view = "leaving"
  /\ IF s \in alive /\ tab[t].hint # s
     THEN /\ tab' = [tab EXCEPT ![t] = Elsewhere("away", 0)]
          /\ UNCHANGED <<alive, fedCookie, local>>
     ELSE /\ tab' = [tab EXCEPT ![t] = Document(FALSE)]
          /\ alive' = alive \ {s}
          /\ fedCookie' = [fedCookie EXCEPT ![b] = 0]
          /\ local' \in {local, {x \in local : assertion[x[1]].sid # s}}
  /\ UNCHANGED <<txn, csrf, sessionUser, assertion, page, call, inbox, start,
                 pendingKeys, loginCookie, post, claimed, sessionCookie, taken>>
  /\ Calm

(* Nothing more comes of the tab: a page that has said its last word.      *)
DeadEnd(t) ==
  /\ tab[t].view = "away"
  /\ tab[t].frame # 0 =>
       \/ page[Here(t)].view \in {"expired", "error"}
       \/ /\ page[Here(t)].view = "success"
          /\ \A i \in 1..2 : ~post[Here(t) \o <<i>>].waiting

ReturnToApp(t) == DeadEnd(t) /\ OpenApplication(t, FALSE) /\ PagesFollow(inbox) /\ Calm

OpenAnew(t, auto) == OpenApplication(t, auto) /\ PagesFollow(inbox) /\ Disturb("wandering")

Expire(n) ==
  /\ \/ (ExpireTransaction(n) \/ EndSession(n)) /\ Unmoved
     \/ ExpirePending(n) /\ UNCHANGED loginVars
  /\ Disturb("expired")

Next ==
  \/ \E t \in Tabs :
       \/ Open(t) \/ HearMessage(t) \/ LoadTab(t) \/ SignOutHere(t)
       \/ LeaveEverywhere(t) \/ FederationLogout(t) \/ ReturnToApp(t)
       \/ \E auto \in BOOLEAN : OpenAnew(t, auto)
  \/ \E p \in Pages :
       \/ SignIn(p) \/ Wander(p) \/ Serve(p) \/ OpenAgain(p)
       \/ \E k \in Kinds : ReceiveAnswer(p, k) \/ ReceiveTooLate(p, k)
  \/ \E n \in Starts :
       \/ AnswerStart(n) \/ Expire(n)
       \/ \E b \in Browsers : PostAgain(n, b)
  \/ \E x \in Posts : Callback(x) \/ AnswerCallback(x)

(* Requests are served and answered, messages are heard, and the user      *)
(* fills in what is on screen and comes back from a dead end.              *)
Fairness ==
  /\ \A t \in Tabs : /\ WF_vars(Open(t) /\ Calm) /\ WF_vars(HearMessage(t))
                     /\ WF_vars(LoadTab(t) /\ Calm) /\ WF_vars(FederationLogout(t))
                     /\ WF_vars(ReturnToApp(t))
  /\ \A p \in Pages : /\ WF_vars(SignIn(p)) /\ WF_vars(Serve(p) /\ Calm)
                      /\ \A k \in Kinds : /\ WF_vars(ReceiveAnswer(p, k) /\ Calm)
                                          /\ WF_vars(ReceiveTooLate(p, k))
  /\ \A n \in Starts : WF_vars(AnswerStart(n) /\ Calm)
  /\ \A x \in Posts : /\ WF_vars(Callback(x) /\ Calm)
                      /\ WF_vars(AnswerCallback(x) /\ Calm)

Spec == Init /\ [][Next]_vars /\ Fairness
SafetySpec == Init /\ [][Next]_vars

-----------------------------------------------------------------------------
TypeOK == LoginTypeOK /\ AppTypeOK

(* The start, the sign-in and the callback of a local session were made in *)
(* one browser: whoever opens the link of somebody else's top-level login  *)
(* page and signs in on it signs nobody in (the login cookie, server.ts    *)
(* steps 1-2).                                                             *)
SessionIsOfOneBrowser ==
  \A s \in local : /\ TabBrowser[start[s[1]].tab] = s[2]
                   /\ assertion[s[1]].by = s[2]

(* However often a callback is posted, one of them takes the transaction   *)
(* (GETDEL, server.ts step 2), the others are refused before the assertion *)
(* is looked at.                                                           *)
TransactionIsTakenOnce == \A c, d \in taken : c[1] = d[1] => c = d

(* The application waits for an answer.                                    *)
Awaited(t) ==
  \/ tab[t].loads > 0
  \/ \E c \in Posts : post[c].waiting /\ ~post[c].form /\ start[c[1]].tab = t
  \/ \E n \in Starts :
       start[n].pc = "sent" /\ start[n].tab = t /\ start[n].place # "gone"

(* A tab in which the application waits for nothing and nobody hears the   *)
(* login page: the document is blank, there is no frame, the frame is not  *)
(* the pending one, or it has an error or a success on screen that it does *)
(* not speak of again.                                                     *)
Stranded(t) ==
  LET n == tab[t].frame IN
  /\ tab[t].view \in {"blank", "signedOut"} /\ ~Awaited(t)
  /\ IF n = 0 THEN tab[t].view = "blank" \/ ~Exhausted
     ELSE /\ inbox[n] = <<>>
          /\ \/ page[Here(t)].view \in {"success", "error"}
             \/ tab[t].pending # n

(* Only a refusal, a loss or a change of mind strands a tab: no order of   *)
(* the answers, the messages and the callbacks of the flow does it         *)
(* (app.js: `pending` against the panel on screen).                        *)
StuckOnlyByAccident == \A t \in Tabs : Stranded(t) => failures > 0

(* A tab gets signed in, whatever expires, is refused or is begun anew in  *)
(* between, or it is stranded, as app.js leaves it when the answer of      *)
(* /api/me, a start or a callback is lost (no catch) or the frame shows an *)
(* error.  It never waits for good for a login page that has nothing more  *)
(* to say, and needs a bounded number of starts.  (For one tab: two share  *)
(* a login cookie and may refuse each other's callbacks again and again.)  *)
SignInCompletes ==
  \A t \in Tabs : tab[t].view # "signedIn" ~> tab[t].view = "signedIn" \/ Stranded(t)
=============================================================================
