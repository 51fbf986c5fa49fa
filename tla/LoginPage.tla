------------------------------- MODULE LoginPage -------------------------------
(***************************************************************************)
(* Identity's login page in browsers: GET /embed/login (EmbedController,   *)
(* login-views), the script it loads (public/login.js) and the three calls *)
(* the script makes, POST /embed/login, /embed/continue, /embed/logout.    *)
(*                                                                         *)
(* The page of a login start n is a frame of the application (display      *)
(* "embed") or a top-level page ("page"), whose link can also be opened in *)
(* another browser: page <<n, b>> is the page of n in browser b.  A call   *)
(* is sent with the cookie of that moment, is served in one step and is    *)
(* answered later or never.  What happens between the round trips of one   *)
(* call is the matter of LoginTransactions and FederationLogin.            *)
(*                                                                         *)
(* Session s is the one a password sign-in for start s has established.    *)
(***************************************************************************)
EXTENDS LoginStarts, Sequences

CONSTANTS Users, NoUser,
          Disturbances, \* the kinds of disturbance there are, see Disturb
          MaxFailures   \* bound: how many of them

ASSUME UsersAssumption == NoUser \notin Users
ASSUME FailuresAssumption == MaxFailures \in Nat

VARIABLES
  txn,          \* status of the login transaction of each start
  csrf,         \* csrf[n]: its CSRF token, one for every time it is created
  alive,        \* the federation sessions that exist
  sessionUser,  \* whose session each is
  fedCookie,    \* fedCookie[b]: session of the browser's cookie, 0 for none
  page,         \* page[p]: what the script of a page has on screen
  call,         \* call[p][k]: the call of kind k the page has under way
  inbox,        \* inbox[n]: messages of the frame of n to its application
  assertion,    \* assertion[n]: the token issued for the transaction of n
  failures

identity == <<txn, csrf, alive, sessionUser, assertion>>
pages == <<fedCookie, page, call, inbox>>
loginVars == <<identity, pages>>

Pages == Starts \X Browsers
Session == Starts \cup {0}
Kinds == {"login", "continue", "logout"}
Views == {"none", "signIn", "signingIn", "continue", "continuing", "success",
          "expired", "error"}
Replies == {"", "delivery", "transaction", "session", "refused", "loggedOut"}
MessageTypes == {"SUCCESS", "EXPIRED", "TOP_LEVEL_REQUIRED"}

Page == [view : Views, shown : Users \cup {NoUser}, auto : BOOLEAN, csrf : Nat]
Call == [at : {"none", "sent", "answered"}, reply : Replies,
         sid : Session,      \* the cookie sent, then the cookie to be set
         csrf : Nat,
         mine : BOOLEAN]     \* the page that called is still on screen

(* sub, sid and txn of an assertion, and the browser whose call it answers *)
(* (history).                                                              *)
Assertion == [user : Users, sid : Starts, by : Browsers]
NoAssertion == [user |-> NoUser, sid |-> 0, by |-> NoUser]

NoPage == [view |-> "none", shown |-> NoUser, auto |-> FALSE, csrf |-> 0]
ErrorPage == [NoPage EXCEPT !.view = "error"]
NoCall == [at |-> "none", reply |-> "", sid |-> 0, csrf |-> 0, mine |-> FALSE]

LoginTypeOK ==
  /\ txn \in [Starts -> {"none", "PENDING", "COMPLETED"}]
  /\ csrf \in [Starts -> Nat]
  /\ alive \subseteq Starts
  /\ sessionUser \in [Starts -> Users \cup {NoUser}]
  /\ fedCookie \in [Browsers -> Session]
  /\ page \in [Pages -> Page]
  /\ call \in [Pages -> [Kinds -> Call]]
  /\ inbox \in [Starts -> Seq(MessageTypes)]
  /\ assertion \in [Starts -> Assertion \cup {NoAssertion}]
  /\ failures \in 0..MaxFailures

LoginInit ==
  /\ txn = [n \in Starts |-> "none"] /\ csrf = [n \in Starts |-> 0]
  /\ alive = {} /\ sessionUser = [n \in Starts |-> NoUser]
  /\ fedCookie = [b \in Browsers |-> 0]
  /\ page = [p \in Pages |-> NoPage]
  /\ call = [p \in Pages |-> [k \in Kinds |-> NoCall]]
  /\ inbox = [n \in Starts |-> <<>>]
  /\ assertion = [n \in Starts |-> NoAssertion] /\ failures = 0

(* A disturbance: something that need not happen, and the runs bound how   *)
(* often it does.                                                          *)
Disturb(kind) ==
  kind \in Disturbances /\ failures < MaxFailures /\ failures' = failures + 1
Calm == UNCHANGED failures

UserOf(s) == IF s # 0 /\ s \in alive THEN sessionUser[s] ELSE NoUser

-----------------------------------------------------------------------------
(* The page.                                                               *)
Shows(p, view) == page' = [page EXCEPT ![p].view = view]
SignInForm(p) == page' = [page EXCEPT ![p].view = "signIn", ![p].shown = NoUser]

(* postToParent: only a framed page has a parent to tell.                  *)
Tells(p, embed, message) ==
  inbox' = IF embed THEN [inbox EXCEPT ![p[1]] = Append(@, message)] ELSE inbox

(* What the calls of a page that is no longer there come back to.          *)
Abandoned(calls) ==
  [k \in Kinds |-> IF calls[k].at = "none" THEN NoCall
                   ELSE [calls[k] EXCEPT !.mine = FALSE]]

(* The error page of a used transaction, with embed-error.js.              *)
ReportUsed(p, embed) ==
  /\ page' = [page EXCEPT ![p] = ErrorPage]
  /\ Tells(p, embed, "EXPIRED")

(* GET /embed/login for a page on which the client, the origin, the        *)
(* callback and the fetch metadata are in order: create() makes the        *)
(* transaction or resumes a pending one, and a used one is refused.        *)
(* prompt=auto asks for auto_continue, which needs a session.              *)
OpenPage(p, embed, prompt) ==
  LET n == p[1]
      token == IF txn[n] = "none" THEN csrf[n] + 1 ELSE csrf[n]
      user == UserOf(fedCookie[p[2]]) IN
  /\ call' = [call EXCEPT ![p] = Abandoned(@)]
  /\ IF txn[n] = "COMPLETED"
     THEN ReportUsed(p, embed) /\ UNCHANGED <<txn, csrf>>
     ELSE /\ txn' = [txn EXCEPT ![n] = "PENDING"]
          /\ csrf' = [csrf EXCEPT ![n] = token]
          /\ page' = [page EXCEPT ![p] =
               [view |-> IF user = NoUser THEN "signIn" ELSE "continue",
                shown |-> user, auto |-> user # NoUser /\ prompt = "auto",
                csrf |-> token]]
          /\ UNCHANGED inbox
  /\ UNCHANGED <<alive, sessionUser, assertion, fedCookie>>

(* The client is refused or a dependency is down: an error page, of which  *)
(* the parent hears LOGIN_FAILED and does nothing.                         *)
OpenRefused(p) ==
  /\ page' = [page EXCEPT ![p] = ErrorPage]
  /\ call' = [call EXCEPT ![p] = Abandoned(@)]
  /\ UNCHANGED <<identity, fedCookie, inbox>>

(* fetch() with the browser's cookie and the page's CSRF token.  The page  *)
(* can have one call of each kind under way (bound: a second sign-in, by   *)
(* way of the other tab of the form, is left out).                         *)
Send(p, k) ==
  /\ call[p][k].at = "none"
  /\ call' = [call EXCEPT ![p][k] =
       [at |-> "sent", reply |-> "", sid |-> fedCookie[p[2]],
        csrf |-> page[p].csrf, mine |-> TRUE]]

Submit(p) ==
  /\ page[p].view = "signIn"
  /\ Send(p, "login") /\ Shows(p, "signingIn")
  /\ UNCHANGED <<identity, fedCookie, inbox>>

(* The button, or btn.click() of auto_continue, which is once per page.    *)
Continue(p) ==
  /\ page[p].view = "continue"
  /\ Send(p, "continue")
  /\ page' = [page EXCEPT ![p].view = "continuing", ![p].auto = FALSE]
  /\ UNCHANGED <<identity, fedCookie, inbox>>

(* switchAccount: the button is there while a continuation is under way,   *)
(* and the form comes when the call is answered, whatever the answer is.   *)
SwitchAccount(p) ==
  /\ page[p].view \in {"continue", "continuing"} /\ ~page[p].auto
  /\ Send(p, "logout")
  /\ UNCHANGED <<identity, fedCookie, page, inbox>>

(* "Continue in a full window", offered beside the form of a frame.        *)
AskTopLevel(p) ==
  /\ page[p].view \in {"signIn", "signingIn"}
  /\ Tells(p, TRUE, "TOP_LEVEL_REQUIRED")
  /\ UNCHANGED <<identity, fedCookie, page, call>>

-----------------------------------------------------------------------------
(* The server.                                                             *)
Answer(p, k, reply, sid) ==
  call' = [call EXCEPT ![p][k].at = "answered", ![p][k].reply = reply,
                       ![p][k].sid = sid]

(* requirePending and the CSRF comparison.                                 *)
Checks(n, c) ==
  CASE txn[n] # "PENDING" -> "transaction"
    [] txn[n] = "PENDING" /\ c.csrf # csrf[n] -> "refused"
    [] OTHER -> "ok"

(* The assertion is for the transaction, its signature and lifetime apart. *)
Issue(p, user, sid) ==
  assertion' = [assertion EXCEPT ![p[1]] =
                  [user |-> user, sid |-> sid, by |-> p[2]]]

(* loginWithPassword: the session of the cookie is ended, a new one made,  *)
(* the transaction completed.  The identity typed is the user's choice.    *)
ServeLogin(p, user) ==
  LET n == p[1]
      c == call[p]["login"] IN
  /\ c.at = "sent"
  /\ IF Checks(n, c) # "ok"
     THEN Answer(p, "login", Checks(n, c), c.sid) /\ UNCHANGED identity
     ELSE /\ txn' = [txn EXCEPT ![n] = "COMPLETED"]
          /\ alive' = (alive \ {c.sid}) \cup {n}
          /\ sessionUser' = [sessionUser EXCEPT ![n] = user]
          /\ Issue(p, user, n)
          /\ Answer(p, "login", "delivery", n)
          /\ UNCHANGED csrf
  /\ UNCHANGED <<fedCookie, page, inbox>>

(* continueWithSession: the user is whoever the cookie's session is of.    *)
ServeContinue(p) ==
  LET n == p[1]
      c == call[p]["continue"]
      user == UserOf(c.sid) IN
  /\ c.at = "sent"
  /\ IF Checks(n, c) # "ok"
     THEN Answer(p, "continue", Checks(n, c), c.sid) /\ UNCHANGED identity
     ELSE IF user = NoUser
     THEN Answer(p, "continue", "session", 0) /\ UNCHANGED identity
     ELSE /\ txn' = [txn EXCEPT ![n] = "COMPLETED"]
          /\ Issue(p, user, c.sid)
          /\ Answer(p, "continue", "delivery", c.sid)
          /\ UNCHANGED <<csrf, alive, sessionUser>>
  /\ UNCHANGED <<fedCookie, page, inbox>>

(* endBrowserSession: a transaction in any status, its CSRF token.         *)
ServeLogout(p) ==
  LET c == call[p]["logout"] IN
  /\ c.at = "sent"
  /\ IF txn[p[1]] = "none" \/ c.csrf # csrf[p[1]]
     THEN Answer(p, "logout", "refused", c.sid) /\ UNCHANGED alive
     ELSE Answer(p, "logout", "loggedOut", 0) /\ alive' = alive \ {c.sid}
  /\ UNCHANGED <<txn, csrf, sessionUser, assertion, fedCookie, page, inbox>>

(* Anything else that refuses: credentials, throttle, client, dependency.  *)
ServeRefused(p, k) ==
  /\ call[p][k].at = "sent"
  /\ Answer(p, k, "refused", call[p][k].sid)
  /\ UNCHANGED <<identity, fedCookie, page, inbox>>

-----------------------------------------------------------------------------
(* The answers, as the script takes them.                                  *)
Ends(p, k) == call' = [call EXCEPT ![p][k] = NoCall]

CookieAfter(p, k) ==
  IF call[p][k].reply \in {"delivery", "session", "loggedOut"}
  THEN [fedCookie EXCEPT ![p[2]] = call[p][k].sid]
  ELSE fedCookie

(* deliver(): the assertion goes to the parent, or into the form that is   *)
(* submitted at once; the caller does the latter.                          *)
Deliver(p, embed) == Shows(p, "success") /\ Tells(p, embed, "SUCCESS")

(* Mutant: the application is not told.                                    *)
ShowExpiredQuietly(p, embed) == Shows(p, "expired") /\ UNCHANGED inbox

ShowExpired(p, embed) == Shows(p, "expired") /\ Tells(p, embed, "EXPIRED")

(* An error puts its form back on screen; showContinue fails, and leaves   *)
(* the screen alone, when switchAccount has taken the identity away.       *)
ShowAgain(p, k) ==
  CASE k = "login" -> Shows(p, "signIn")
    [] k = "continue" /\ page[p].shown # NoUser -> Shows(p, "continue")
    [] k = "continue" /\ page[p].shown = NoUser -> UNCHANGED page

(* The view an answer leads to.  The handlers of a page's calls do not     *)
(* know of each other: whichever answer comes last has the screen.         *)
React(p, k, reply, embed) ==
  CASE k = "logout" -> SignInForm(p) /\ UNCHANGED inbox
    [] k # "logout" /\ reply = "delivery" -> Deliver(p, embed)
    [] k # "logout" /\ reply = "transaction" -> ShowExpired(p, embed)
    [] k # "logout" /\ reply = "session" -> SignInForm(p) /\ UNCHANGED inbox
    [] OTHER -> ShowAgain(p, k) /\ UNCHANGED inbox

Receive(p, k, embed) ==
  LET c == call[p][k] IN
  /\ c.at = "answered" /\ c.mine
  /\ fedCookie' = CookieAfter(p, k)
  /\ React(p, k, c.reply, embed)
  /\ Ends(p, k)
  /\ UNCHANGED identity

(* The page has gone: its cookie may be taken all the same.                *)
ReceiveNowhere(p, k) ==
  /\ call[p][k].at = "answered" /\ ~call[p][k].mine
  /\ fedCookie' \in {fedCookie, CookieAfter(p, k)}
  /\ Ends(p, k)
  /\ UNCHANGED <<identity, page, inbox>>

(* The request or its answer is lost and fetch() rejects.                  *)
LoseCall(p, k, embed) ==
  /\ call[p][k].at # "none" /\ call[p][k].mine
  /\ React(p, k, "refused", embed)
  /\ Ends(p, k)
  /\ UNCHANGED <<identity, fedCookie>>

(* The headers of the answer come and its body does not: deliver() gets an *)
(* empty object and showError says so.                                     *)
GarbleDelivery(p, k) ==
  /\ call[p][k].reply = "delivery" /\ call[p][k].mine
  /\ fedCookie' = CookieAfter(p, k)
  /\ Shows(p, "error") /\ UNCHANGED inbox
  /\ Ends(p, k)
  /\ UNCHANGED identity

(* Mutant: an expired transaction stays, in a status nobody knows.         *)
MarkExpired(n) ==
  /\ txn[n] = "PENDING"
  /\ txn' = [txn EXCEPT ![n] = "EXPIRED"]
  /\ UNCHANGED <<csrf, alive, sessionUser, assertion, pages>>

(* Redis expires a pending transaction; a session ends elsewhere.          *)
ExpireTransaction(n) ==
  /\ txn[n] = "PENDING"
  /\ txn' = [txn EXCEPT ![n] = "none"]
  /\ UNCHANGED <<csrf, alive, sessionUser, assertion, pages>>

EndSession(s) ==
  /\ s \in alive
  /\ alive' = alive \ {s}
  /\ UNCHANGED <<txn, csrf, sessionUser, assertion, pages>>
=============================================================================
