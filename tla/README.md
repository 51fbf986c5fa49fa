# Verification of Miqaat Identity Federation

TLA+ modules, TLC configurations and TLAPS proofs for the Identity service in
`src/` (NestJS, Redis, PostgreSQL), its key scripts and the reference
Business Unit application in `examples/`. Paths below are relative to the
repository.

## 1. The system

Any number of stateless pods serve HTTP requests. Shared state is in Redis and
in the Authentication DB (PostgreSQL); a request is a chain of awaited round
trips to them, and the chains of different requests interleave freely, on one
pod or on several. Nothing holds a lock across two round trips: what is atomic
is one Redis command, one `MULTI` or Lua script, one SQL statement. A pod may
die between any two of them, and each may fail.

### 1.1 Inventory

| Component (`src/modules/...` unless said otherwise) | State | Operations |
|---|---|---|
| Login transactions: `transactions` | `txn:<id>` (JSON, 300 s) | create (`SET NX`, resume), requirePending, complete and bindToSession (Lua scripts), expiry |
| Sign-in and single sign-on: `embed` | the browser's session cookie | page, loginWithPassword, continueWithSession, endBrowserSession, revalidateClient |
| Federation sessions: `sessions` | `session:<sid>`, `session-handle:<hash>`, `user-sessions:<its>`, `session-clients:<sid>`; rows `auth_sessions`, `auth_session_clients` | create, getByHandle, touch, addClient, clients, revoke, revokeAllForUser, idle and absolute expiry |
| Logout: `federation` | deliveries in flight, `logout_status` of the rows | logoutSession, logoutUser, fanOut, notifyClient, the three routes to log out |
| Client registry: `clients`, `authorization-client` | `client-cfg:<id>` (30 s, unknown 10 s); the configuration in the Authorization service | get, getFresh, invalidate, the policy decisions |
| Signing keys: `keys`, `scripts/signing-keys.ts` | keyset in Secrets Manager or SSM, one copy in every pod, JWKS in every verifier | generate, stage, promote, retire, load, save, reload, sign |
| Assertions: `assertions` | `jti:<jti>` marker | issue (login, logout, service, access tokens), verify |
| Core Portal: `portal` | the portal's transaction; the page's workspaces and active workspace | page, signIn, assignments, selectScope, activate, applications, signOut |
| Credentials: `credentials` | `users` (hash, status, failure count, lock) | verify, rehash, getActiveUser |
| Rate limiting: `rate-limit` | `ratelimit:login:ip`, `ratelimit:login:id` | assertAllowed, recordFailure, recordSuccess |
| Login page: `public/login.js`, `embed-error.js` | the page's view, its calls under way | sign in, continue, use another account, ask for a full window, deliver by postMessage or form_post |
| Business Unit application: `examples/bu-reference-app` | every tab's document and its `pending` start; login cookie, session cookie; pending logins, replay store, local sessions and their index by sid, authorization cache | start, callback, current session, the message listener, logout, logout everywhere, back-channel logout |
| Audit, health, logging, configuration, migrations, import scripts | — | best-effort output, or run once |

How they interact: a page of an application opens a **transaction**; the
password, or a **session** that the browser already has, turns it into one
**assertion** signed with the pod's active **key**; the application verifies it
against the **JWKS**, creates its local session and is recorded with the
federation session, so that a **logout** of that session can notify it. The
**registry** says, for every step, what the application may do now.

### 1.2 What is hard

* **Interleaving**: a continuation reads a session, a logout revokes it, the
  continuation goes on with what it read (`login.service.ts:110`). A `touch`
  writes a session back that a revocation has just deleted.
* **Atomicity and partial failure**: a session is five Redis keys and a row,
  written in two steps; a revocation takes six. The SSM keyset is written one
  parameter at a time.
* **Stale reads**: the cache of client configurations, the keyset in a pod, the
  JWKS in a verifier, the transaction that was checked before it is completed.
* **Retries and expiry**: ids that are created again after they expired, logout
  tokens sent again after a lost answer, sessions that expire between two round
  trips.
* **Checks before, counts after**: the failures of an account are read before
  the password is verified and counted after it, in Redis and again in the
  database.
* **Two programs in one browser**: a tab, the login frame in it and a second
  tab share three cookies and talk by messages; starts, callbacks and answers
  overtake each other, and an answer may be lost.
* **Liveness**: every application that holds a session must learn of a logout;
  a tab must not wait for a page that has nothing more to say; whoever knows
  the password must get in once the guessing stops.

### 1.3 What makes each component correct

* Transactions: one assertion per transaction; a portal transaction serves the
  session that signed in; the scripts never undo each other.
* Sessions: a revoked session is unreachable for good; every session a browser
  can use is found by way of its user; a force logout misses none; signing in
  again ends the session the browser had.
* Logout: the applications on record are notified.
* Registry: a fresh read is not older than the request; staleness is bounded;
  nobody signs in to an origin that is no longer registered.
* Keys: no valid token is refused because of a rotation; keys only move
  forward; generate never replaces keys.
* Throttling and the lock: a bounded number of wrong passwords is answered per
  window and per lock, and both end by themselves.
* Core Portal: a workspace is activated for the user whose list was on screen, a
  force logout needs a right that is held now; the page never waits
  for nothing, and opens in the end.
* A login across the browser: a local session belongs to the browser that asked
  for it and signed in for it; one callback takes a login; a tab is left without
  an answer only when something failed.
* Business Unit application: a back-channel logout ends the local sessions of
  its sid.

## 2. The modules

| Module | Models | Stands on |
|---|---|---|
| `TransactionScripts` | the value of `txn:<id>` and what each script or command answers and writes (pure operators) | — |
| `SingleUseTransaction` | the abstract promise: a transaction is opened, granted once to one user, lapses | — |
| `LoginTransactions` | `TransactionService` and the handlers that use it | `TransactionScripts`; refines `SingleUseTransaction` |
| `FederationSession` | the abstract promise: a session opens, closes for good, and applications are told after that | — |
| `FederationLogin` | sign-in, single sign-on, sign-out and force logout over sessions, transactions and the two tables | `TransactionScripts`; refines `FederationSession` |
| `ClientPolicy` | the policy decisions under one configuration (pure operators) | — |
| `ClientRegistry` | the registry's cache, its readers and the administrator | `ClientPolicy` |
| `SigningKeys` | rotation, providers, pods and a verifier | — |
| `BackChannelLogout` | the delivery of a logout to an application, its local sessions and replay store | continues the fan-out of `FederationLogin` |
| `LoginStarts` | what the page and the application share: starts and browsers | — |
| `LoginPage` | Identity's login page in browsers: `GET /embed/login`, the script, its three calls | `LoginStarts` |
| `ReferenceApplication` | the application's tabs and its backend around a login | `LoginStarts` |
| `ApplicationLogin` | a sign-in from end to end in tabs and frames | composes `LoginPage` and `ReferenceApplication` |
| `PasswordSignIn` | throttle, password check, lock, rehash; the migration of users | the password step of `FederationLogin` |
| `PortalPage` | the Core Portal in a browser: the page, its five calls, `PortalLoginService`, the administrator's force logout | the portal steps of `LoginTransactions` and `FederationLogin` seen from the browser |
| `MC...` | instances for TLC | the module of that name |
| `...Proofs` | theorems and lemmas | the module of that name |

In all but the four of the browser one action is one round trip of one request
(one `await`) and everything the code does until the next one. A request is a record with a
program counter and the values the handler holds in local variables: what it
read is what it goes on with, however the shared state has moved since.

**LoginTransactions.** `store[id]` is the Redis key: a record with the members
that decide (CSRF token, status, the parameters that a resume compares, the
bound session) or `NoTxn`. `born[id]` counts creations of an id; it serves as
the CSRF token, which is fresh at every creation, and lets properties speak of
one transaction rather than of one id. `CreateNew`/`CreateResume` are the two
commands of `create`; `RequirePending`, `EstablishSession`, `Complete` and
`BindSignIn` the steps of a sign-in; `PortalPage`, `PortalPageBind`,
`SelectScope`, `SelectScopeBind` the portal's. `Expire` may happen at any
moment.

**FederationLogin.** `live`, `handle`, `members`, `index` are the Redis keys,
`row` and `rowClients` the tables, `cookie` what a browser sends. A session is
named by the request that creates it (a sid is random and never used twice), so
its owner is that request's user. `Fail` ends a request before any round trip,
as the death of its pod or an error of Redis or PostgreSQL does; what was
written stays. `ExpireIdle` may hit any session between any two steps: the code
sets a TTL of one second or more when a session is near its absolute end, so no
distance between two steps is safe. `delivered` and `notified` are histories of
assertions handed out and of fan-outs started. `ImplementsSession` maps all this
to `FederationSession`: a session is open while its handle exists, absent while
its sign-in may still run `Create`, and closed otherwise, also when the sign-in
came to nothing. The abstract session knows no keys, no rows and no requests;
what it says is that a closed one stays closed and that an application is told
only then.

**ClientRegistry.** One client is enough, the keys of two have nothing in
common. `history` is every version of its configuration with the second in
which it came into force; the cache holds the index of a version and an end.
The decision of the handler follows the last round trip without an `await` and
is part of that action. Origins are compared by equality of what the canonical
helpers return, so an origin is a model value.

**SigningKeys.** The stored keyset maps kids to a status and the time of the
last change. A command loads and computes in one step (`Compute`) and saves in
one step per write (`Save`); commands may end before any write (`Interrupt`) and
be given again. Pods reload exactly at their interval and may restart at any
time; they sign at any time with the longest-lived token there is. The verifier
asks any pod when its JWKS is too old or lacks the kid after the cooldown.

**BackChannelLogout.** One federation session and one application. `local` and
`sidSet` are the application's Redis keys, `claimed` its replay store. A local
session is named by the callback that creates it; what the callback does before
touches none of these keys, so a refused callback is one that never reaches
`Create`. `notice[l]` is one run of `notifyClient`, `handler[<<l, k>>]` the
request of its k-th attempt: the notifier gives up waiting (`TryAgain`) while
the handler goes on, so the handlers of one token overlap. `destroyBySid` is
`ReadSet` and `Delete`. `Refuse` and `Fail` are the errors of the endpoint, which
answers 400 to all of them, with the failing command done or not; `Lose` and
`NotifierDies` lose a request and a pod. `before` remembers the sessions there
were when the token was made, `during` the sessions created while some handler
was between `ReadSet` and `Delete`, `broken` the logouts of which a handler
failed.

**LoginPage, ReferenceApplication, ApplicationLogin.** A start `n` of the
application names its transaction, its state and its page. Seen from a browser
a call to Identity is one step between its request and its answer; what happens
inside is `LoginTransactions` and `FederationLogin`. `page[<<n, b>>]` is the page
of `n` in browser `b`, `call` its requests under way, which carry the cookie of
the moment they were sent; `inbox[n]` holds the messages of a frame in order.
`tab[t]` is the document of a tab: the view, `pending` of `app.js`, the frame on
screen, the calls of `load()` under way. They need not agree: `Displaced` marks
the starts whose panel has been replaced when they are answered, and
`ReceiveStart` then sets `pending` to a frame nobody sees. A callback is three
steps, the `GETDEL` (`Take`), the claim of the jti (`Verify`) and the session
(`Create`), with its cookies taken when the answer comes (`CookiesOf`), or, when
nobody waits for it any more, perhaps. `ApplicationLogin` joins the two:
`PagesFollow` takes away the pages that are no longer on screen with what they
had to say, `ReceiveAnswer` submits the form of a top-level page, `HearMessage`
hands a message to the listener if the frame is the pending one. The answer of
`/api/me`, of a start and of a callback may be lost, and `app.js` catches none of
it: after `LoseLoad` the document stays as it is, blank if it had just come up, and
`LoadRefused` (an error of the endpoint) renders the signed-out panel. What need not
happen (a refusal, a loss, an expiry, a second load, a change of mind) is a
disturbance (`Disturb`), so that a run can say which and how many.
`taken` and `assertion[n].by` are histories.

**PasswordSignIn.** `user` is the row in `users`, `idFailures` and `ipAttempts`
the two Redis keys with or without a TTL, `attempt[r]` a request with what it
read of the row. `AssertAllowed`, `ReadUser`, `RejectPassword`/`RejectStatus`/
`AcceptPassword`, `Rehash`, `RecordFailure`, `RecordSuccess` are the round trips.
A password stands for its hash. `Crash` ends a request anywhere; keys and locks
may end at any moment. The migration reads and writes a row in two steps while
sign-ins go on; it clears no count and no lock. `wrong` counts the wrong passwords that were
answered since the account was unlocked and since the counter was last
forgotten, and those that a crash kept from the counter.

**PortalPage.** `page` is the portal's document with the variables of its script
(`workspaces` is `listed`, `workspace` is `ws`, `boot.session` is `user`), `calls`
the requests under way, which carry the cookie of the moment they were sent and
go through the server in steps: `Establish`, `CompleteAndBind`, `List` and
`Activate` are a sign-in, `SelectScope` and `Activate` a selection. An answer is
taken by one of `LoginAnswered`, `AssignmentsAnswered`, `SelectAnswered`,
`AppsAnswered`, whatever is on screen by then; a lost one by the same with an
error, one without a body with nothing in it (`Lose`, `Garble`). `txn[n]` is the
transaction of the n-th load, bound to a session as `bindToSession` does it.
`SignInElsewhere` and `EndSession` are what other tabs do to the browser's
session, `Reassign` the Authorization service, `ForceLogout`, `RequireCoreAdmin`
and `LogoutUser` an administrator. `wsUser`, `appsUser`, `mixed`, `shown`,
`during`, `changed` and `late` are histories.

## 3. What is checked

`tlc -config X.cfg MCModule` in this directory. All runs take less than three
minutes with two workers.

| Run | Shows | Bounds |
|---|---|---|
| `LoginTransactions` | `TypeOK`, `SingleUse`, `SignedInTransactionKeepsItsSession`, `ScopeFollowsSignIn`, `ImplementsPromise` | 5 requests of any kind, an application id (created up to twice), a portal id |
| `FederationLogin` | `TypeOK`, `RevokedStaysUnreachable`, `ForceLogoutIsComplete`, `EveryReachableSessionIsIndexed`, `ReauthenticationRetiresOldSession`, `ImplementsSession` | 3 requests of 6 kinds, 2 users of one browser, one transaction of an application and one of the portal, one failure anywhere, expiry anywhere |
| `FederationLoginFanOut` | `DisabledUserGetsNoNewAssertion`, `RecordedApplicationsAreNotified` (liveness) | 3 requests, 2 applications; no failure or expiry |
| `ClientRegistry` | `TypeOK`, `FreshReadsAreCurrent`, `SignInsAreStillAllowed`, `StalenessIsBounded` | 3 requests, 3 configurations or none, 2 versions, 5 seconds; lifetimes of 3 and 1, a store of 1 |
| `SigningKeys` | `TypeOK`, `ValidTokensVerify`, `KeysOnlyMoveForward` | 2 keys, 2 pods, 1 operator, SSM, 10 seconds |
| `SigningKeysGenerate` | *violated*: `GenerateOnlyBootstraps` | 3 keys, Secrets Manager |
| `BackChannelLogout` | `TypeOK`, `EverySessionIsIndexed`, `SucceededLogoutEndsSessions`, `SentLogoutTakesEffect` (liveness) | one logout, its 3 attempts, 2 logins, 3 failures |
| `BackChannelLogoutLate` | *violated*: `NoSessionAfterLogout` | the same, no failure |
| `ApplicationLogin` | `SessionIsOfOneBrowser`, `TransactionIsTakenOnce`, `StuckOnlyByAccident` | 2 tabs of one browser, another browser, 2 starts, 2 disturbances of 4 kinds |
| `ApplicationLoginCompletes` | `TypeOK`, `SignInCompletes` (liveness) | one tab, 7 starts, 2 disturbances of all 6 kinds |
| `PasswordSignIn` | `TypeOK`, `GuessesBeforeLock`, `GuessesInWindow`, `OwnerGetsIn` (liveness) | the owner and one other request, limits of 2, 4 attempts besides the owner's, one crash, migration or change |
| `PortalPage` | `TypeOK`, `SelectionIsOfTheUserShown`, `WorkspaceAndApplicationsAreOfOneUser`, `AdministratorHeldTheRight`, `EverySpinnerAwaitsAnAnswer`, `PortalOpens` (liveness) | 2 users, one with 2 workspaces and one with 1, 2 disturbances of 9 kinds, 6 sessions and 3 loads at a time |

### Why these bounds are enough

The races of this code need two or three parties: one that read before a write,
the writer, and one that observes. Three requests give every pair a witness;
`LoginTransactions` takes five because `ScopeFollowsSignIn` relates two
selections, a sign-in and two pages. Two
versions of a configuration give an old and a new one. `ClientRegistry` runs
for five seconds because an old version may be acted on for one lifetime and one
store: four seconds for a configuration, two for the marker of an unknown
client. A rotation needs two keys: the one that leaves and the one that comes. A logout is delivered with
the three attempts of the code and may lose all of them; two logins are needed
for `destroyBySid` to have something to delete while another session comes. Two
logouts that overlap are beyond what TLC explores in reasonable time with all
attempts, and are covered by the proofs, which hold for any number. In
`ApplicationLogin` two starts, of one tab or of two, are what one login cookie
can confuse, and two disturbances let one thing go wrong while another is being
repaired; `SignInCompletes` has seven starts because each disturbance can cost
up to three, and the last one must go undisturbed (`Stranded` counts a tab
that asks for another start when none is left as not stranded, so a bound that
is too small shows as a violation). It is claimed, and run, for one tab: two tabs
share a login cookie, and each start may refuse the other's callback for ever. In
`PasswordSignIn` the limits are 2, so that
the first failure does not yet lock, and two requests overrun a limit by one,
which is what the bounds of the properties allow for. In `PortalPage` two users
are enough for a page and a cookie to disagree, one workspace and two take the
two ways through a sign-in, and two disturbances let another tab sign in while a
screen or an answer is out of date; numbers of sessions and loads are used again,
so the run is not bounded in length. Every
property of a
passing run is violated by a mutant of a mapped definition under the same
bounds (a dropped check, a key not written, a wrong lifetime), which shows that
the interesting case happens within them.

`CHECK_DEADLOCK FALSE` is set throughout: requests are finitely many and end.

### Fairness

Five runs assume any. `FederationLoginFanOut`: weak fairness of `Proceed(r)`, the
next step of a request that was started. Redis, PostgreSQL and the network
answer or time out, and Node resumes a handler whose promise is settled; no
handler waits for another. Nothing obliges anybody to start a request. The
run excludes failures (`MaxFailures = 0`), because a fan-out that dies with its
pod is lost: nothing in the code resumes it. `BackChannelLogout`: weak fairness
of the notifier, whose waits end with an answer or the timer, and of the
endpoint for requests that have arrived. Nobody is obliged to sign in or out,
no key to expire, no message to be lost; `SentLogoutTakesEffect` says what
holds although messages, answers and time are lost, and excepts a handler that
fails after its token is claimed, for which the code promises nothing.
`ApplicationLoginCompletes`: weak fairness of the program's steps (requests are
served and answered, messages heard, pages loaded) and of a user who fills in
the form or continues, and who goes back to the application from a page that
says so; of no disturbance. `PasswordSignIn`: weak fairness of every step of a
request under way, of the expiry of keys and locks, which is time passing, and of an owner who
tries again whenever no attempt of theirs is under way; the attempts of others
are bounded, which is what "once the guessing stops" means.
`PortalPage`: weak fairness of serving and
receiving, per kind of call, of a user who fills in the form and of the reload of
a page that has failed; strong fairness of `Pick(w)`, because a choice is enabled
again and again while the answers of older calls redraw the screen: the user who
wants the applications tries every workspace on offer. No disturbance is owed.

### Disagreements the runs show

* **generate replaces a keyset it could not read** (`SigningKeysGenerate`).
* **A login under way survives the logout** (`BackChannelLogoutLate`). The
  callback verifies the assertion, asks the Authorization service and only then
  creates the local session; logout.service.ts:17 says that each application
  destroys its own local sessions for the sid. A session created after
  `destroyBySid` stays for its TTL, and no second logout of the sid will come.

More were met and have no run of their own.

* `getFresh` (`client-registry.service.ts:56-59`) deletes the cache key and then
  reads the cache, into which another request that fetched before a change may
  have stored the old configuration in between; `docs/security-checklist.md:19`
  says that a removed origin or suspended client is refused on the very next
  request. `FreshReadsAreCurrent` and `SignInsAreStillAllowed` say what is left:
  they except a request that such a store overlaps.
* "Switch workspace" (`login.js:439`) shows the list the script has in memory.
  `GET /portal/assignments` is documented as "page reload / Switch Workspace"
  (`portal.controller.ts:76`, `portal-login.service.ts:76`), but only a page load
  calls it: an assignment that was added does not appear, and a list of which
  nothing is held any more stays (`ListIsStale`).
* After a password sign-in the portal's transaction is COMPLETED. "Back to sign
  in" shows the form on the same page, whose next sign-in is answered
  TRANSACTION_ALREADY_USED and shows "Session expired"; the reload repairs it.
  The same happens when the Authorization service fails after the session was
  made (`portal-login.service.ts:61`).
* A portal page opened in the last second of a session is bound to nobody
  (`bindToSession` returns false and `portal.controller.ts:51` ignores it): a
  selection from it is whoever's the cookie is. `SelectionIsOfTheUserShown`
  excepts such a page.
* `complete()` names the id; between the CSRF comparison and it, the transaction
  may expire and be created again under that id, and the new one is completed
  although it was never compared. README.md:894 says that transactions are bound
  to CSRF, `state` and origin. It takes the sign-in and the new page of one
  transaction to be five minutes apart.
* A continuation that read the session before a logout delivers its assertion
  after it and the application is not among those notified; logout.service.ts:15
  promises a notification of every application that received one.
* `clients()` reads the rows only if the Redis set is empty, and a request in
  flight may have begun a new set after a first revocation or an idle expiry: a
  second revocation misses those on record. `RecordedApplicationsAreNotified` is
  therefore stated for a revocation that is the only one of its session.
* Two quick clicks on "Sign out of this app" render the signed-out panel twice and
  ask for two starts. When they are answered in the opposite order, `pending`
  names the frame that is gone (`app.js:69`), the messages of the one on screen
  are ignored, and the tab is stranded until it is reloaded. To the properties
  that is a change of mind (`StuckOnlyByAccident`) and a stranded tab
  (`SignInCompletes`).
* The login page shows a user, and "Continue" goes on as whoever the cookie's
  session is of by then (`login.js:260` names no user).
* `failed_login_count` is not reset when a lock ends: the first wrong password
  after it locks again (`credential.service.ts:89`), so that after the first lock
  an account has one attempt per lock. `GuessesBeforeLock` is the upper bound.

`ValidTokensVerify` excepts a
save that ended between two SSM parameters: a promote that is repeated later
keeps the first `retiringAt`, and retire may then remove the key while pods
that have not reloaded still sign with it. And the default of
`--min-retiring-seconds` (`scripts/signing-keys.ts:37`) counts the lifetime of
assertions, not that of access tokens: with
`KEY_REFRESH_INTERVAL_SECONDS = 3000` and `ACCESS_TOKEN_TTL_SECONDS = 900` the
key is gone after 3600 s although a pod may sign with it for 3000 s and its
tokens live 900 s more. The comment at login.service.ts:146 ("keep the sid")
describes what establishSession no longer does: the same user gets a new sid,
too.

## 4. What is proved

`tlapm M.tla` for the modules below; every theorem holds for all values of
the constants that satisfy the named assumptions of the modules (sets that are
disjoint, times that are natural numbers). Nothing is taken on trust.

| Module | Theorem | Says |
|---|---|---|
| `LoginTransactionsProofs` | `TypeCorrect` | `Spec => []TypeOK` |
| | `SingleUseHolds` | `Spec => []SingleUse` |
| | `Implements` | `Spec => ImplementsPromise` |
| | `UsedStays` | `Spec => UsedStaysUsed` |
| | `SignInKeepsItsSession` | `Spec => []SignedInTransactionKeepsItsSession` |
| | `ScopesFollowSignIn` | `Spec => []ScopeFollowsSignIn` |
| `FederationLoginProofs` | `TypeCorrect` | `Spec => []TypeOK` |
| | `RevocationIsFinal` | `Spec => []RevokedStaysUnreachable` |
| | `SessionsAreIndexed` | `Spec => []EveryReachableSessionIsIndexed` |
| | `ForceLogoutHolds` | `Spec => []ForceLogoutIsComplete` |
| | `DisabledUsersGetNothing` | `Spec => []DisabledUserGetsNoNewAssertion` |
| | `ReauthenticationRetires` | `Spec => []ReauthenticationRetiresOldSession` |
| | `ImplementsASession` | `Spec => ImplementsSession` |
| `ClientRegistryProofs` | `TypeCorrect` | `Spec => []TypeOK` |
| | `FreshReadsHold` | `Spec => []FreshReadsAreCurrent` |
| | `StalenessHolds` | `Spec => StalenessIsBounded` |
| | `SignInsHold` | `Spec => []SignInsAreStillAllowed` |
| `BackChannelLogoutProofs` | `TypeCorrect` | `Spec => []TypeOK` |
| | `SessionsStayIndexed` | `Spec => []EverySessionIsIndexed` |
| | `SuccessIsReal` | `Spec => []SucceededLogoutEndsSessions` |
| `PasswordSignInProofs` | `TypeCorrect` | `Spec => []TypeOK` |
| | `LockBoundsGuesses` | `Spec => []GuessesBeforeLock` |
| | `WindowBoundsGuesses` | `Spec => []GuessesInWindow` |
| `SigningKeysProofs` | `TypeCorrect` | `Spec => []TypeOK` |
| | `RotationMovesForward` | `Spec => KeysOnlyMoveForward`, with one operator and a provider that answers |
| | `TokensVerify` | `Spec => []ValidTokensVerify`, with these and the waits of the runbook (`Waits`) |
| `ApplicationLoginProofs` | `TypeCorrect` | `Spec => []TypeOK` |
| | `SessionsAreOfOneBrowser` | `SafetySpec => []SessionIsOfOneBrowser` |
| | `TransactionsAreTakenOnce` | `SafetySpec => []TransactionIsTakenOnce` |
| | `StrandedOnlyByAccident` | `SafetySpec => []StuckOnlyByAccident` |
| `PortalPageProofs` | `TypeCorrect` | `Spec => []TypeOK` |
| | `AdministratorsHeldTheRight` | `Spec => []AdministratorHeldTheRight` |
| | `SpinnersAwaitAnswers` | `Spec => []EverySpinnerAwaitsAnAnswer` |
| | `SelectionsAreOfTheUserShown` | `Spec => []SelectionIsOfTheUserShown` |
| | `WorkspaceAndApplicationsAgree` | `Spec => []WorkspaceAndApplicationsAreOfOneUser` |

**LoginTransactions.** `SingleUse` says nothing of the store, so it is not
inductive. `IInv` adds that the token of a stored transaction is the number of
the latest creation (`StoreIsLatest`), and that a grant is of a transaction that
was created and that, if it is the latest and still stored, is COMPLETED
(`GrantsAreUsed`). A second grant would need a PENDING one. The refinement uses
the same invariant: `InitMaps` and `StepMaps`. The portal properties need
`PortalInv`: a portal id is created once, and until its page is bound and served
no other request has its token (`PageInv`); a sign-in that has reached its bind
holds an assertion of the id (`RequestInv`), by `SingleUse` the only one, so that
no second sign-in overwrites the session it binds; and a session that was let
through is still the bound one unless a sign-in has bound the transaction anew
(`BoundInv`).

**FederationLogin.** A revocation is six steps and its request remembers what it
found, so the invariant must say how far each request is. `ReqInv(q)` relates
the program counter of a request to the state of the session it works on: once
it has passed `Delete` the handle is gone (`Revoking`), the sessions a force
logout still has to visit or has visited are known to it (`KnowsHandle`,
`KnowsQueue`), and the sids it names were created (`NamesCreated`).
`KeysInv` says that before `Create` there is nothing of a session in any key,
that cookies name created sessions, and the two invariants to be shown. The
step lemmas treat first the steps that leave the keys alone (`StillKnows`,
`QuietKeeps`) and then the few that change them (`KeyStep`): only `Create` makes
a handle, and no sid is created twice. That is why a `touch` that brings
`session:<sid>` back does no harm. `WayInv` adds what a request may still do:
one that began for a disabled user is turned away by `Verify` or `CheckUser`
before any step of `Assertive`, whatever it was doing when the user was
disabled, and a sign-in that goes on to its own session (`Retiring`) has left no
handle of the one it found. Handles of created sessions only disappear
(`OnlyDisappear`), so the latter stays true while others act. For the
refinement, `TellInv` adds that a revocation collects, for the notices it will
send, only created sessions without a handle: a request collects its target in
`UpdateRow`, after its own `Delete`, and no step of
another request makes the handle again. Every step then maps to at most one abstract one
(`SessionStep`); a failure or a reply that ends a sign-in before `Create` closes
a session that was never open.

**ClientRegistry.** `CacheInv` and `PendingInv` bound, by the second in which
the next version came into force, the end of a cache entry and the time an
answer may still wait to be stored: an entry dies at most one lifetime and one
store after its version was replaced, because a hit never writes and a store
writes only what was fetched, not what was cached. `HistoryInv` says that the
versions came into force in order. `FreshInv` says that, while a fresh read that
no pending store overlapped is under way, nothing older than it waits to be
stored, and nothing older is cached once it has deleted the key. For a sign-in, `AllowedInv`
says that the version it recorded allows it and `BoundInv` that an embedded
binding has an origin; by `FreshInv` that version is no older than the sign-in.

**BackChannelLogout.** `HandlersKnow` says what a handler has learnt: between
`ReadSet` and `Delete` every local session outside its `ids` was created since
(`during`), and after it none of the sessions of `before` is left but those. The
first follows from `EverySessionIsIndexed` at the moment the set is read, which
is why the two properties are proved together. `OnlyCreatedSessions` keeps a
later `Create` out of `before`; `NoticeInv` counts the attempts.

**PasswordSignIn.** Neither bound is inductive: a request that has read an
unlocked row may still be told something when the row is locked. `LockInv` adds
up what was told and the requests that will be (`Guessing`) while the row is
locked, and says of an unlocked row that it has counted all that was told, or
that nothing was told since its lock ended. `WindowInv` does the same with the
requests that were admitted (`Admitted`) and those whose failure is still to be
counted (`Uncounted`). A step of a request moves it alone between these sets
(`SetsMove`), and no request is in the last two at once (`DisjointCounts`): that
is where the bound, the limit and every request but one, comes from.

**ApplicationLogin.** The proof follows the composition. `AppInv` is kept by the
application's own steps: a key `bu:...:login:<txn>` is made with its start and is
gone once taken (`KeysInv`), the login cookie and the frames of a tab are of starts
of that browser and that tab (`CookieInv`, `TabInv`), and a callback that passed
the cookie check came from the browser of the start (`PassInv`).
`PageInvs` is kept by the login page's: an assertion is delivered only to the
page whose call it was issued for (`CallInv`). What neither side can say alone is
`FrameInv` (a framed login page is in the browser of the tab that asked for it),
`InboxInv` (a SUCCESS in the inbox of a start was caused by that browser) and
`PostInv` (a callback carries an assertion issued to the browser that posts it).
Each joint step moves one side and is shown to disturb the other only in ways it
tolerates: starts are never taken back (`Grown`), a used transaction stays used
by whom it was (`UsedStays`), messages are heard from the front (`Heard`) and
pages disappear with their tab (`PagesLeave`). `SessionIsOfOneBrowser` is then
`PassInv` and `PostInv` together. The theorems hold for any number of tabs,
browsers, users, starts and disturbances.

`StrandedOnlyByAccident` needs to know where a sign-in stands. `SmoothInv` says
that, while there has been no disturbance, every tab is in one of six phases:
it loads (`Loading`), waits for the one start it has asked for (`Asking`), has in
its frame the start that `pending` names, with a page that has not said its last
word unheard (`Framing`), waits for the one callback it has sent (`Posting`), is
signed in, or has no start left to ask for (the bound). At most one thing is under
way per tab: that is what app.js relies on when it keeps a single `pending` and
leaves the panel of an earlier start without a listener. With it go three facts
about the rest: a start is waited for by the panel on screen until it is answered
(`StartsSmooth`), callbacks are sent by app.js (`PostsSmooth`), and a login page
is there only once its start has been answered (`PagesSmooth`), so that the frame
which comes on screen is a new page. A page that comes to show a success or an
error says so in the same step (`Speaks`). A step moves one tab to another phase
(`TabSmoothly`) and leaves the pages of the others on screen (`OthersStay`),
because a start is of one tab.

**SigningKeys.** `TypeOK` needs that a command which is being saved names only
keys that were generated (`OpInv`), and that a keyset with one ACTIVE key
publishes it (`ActivePublished`). `RotationMovesForward` assumes one operator and
`LoadsFail = FALSE`, as its run does: a second operator may save what was
computed before the first one saved, and a generate that could not read the
keyset starts anew. Under the assumption, what is being saved is never behind
what is stored (`SavesForward`), whichever part of it has been written.

`TokensVerify` needs, besides, that a generate is only ever saved into an empty
keyset (`BootstrapInv`, which the violated run shows to fail without the same
assumption), and assumes what the runbook asks of the operator and the
code does not check (`Waits`): a staged key waits until every pod has reloaded and
every verifier may ask again (`Refresh < StageWait`,
`Refresh + Cooldown <= StageWait`), and a retiring one until the last token that a
pod may still sign with it has expired (`Refresh + TokenTtl <= MinRetiring`). The
defaults satisfy it; the settings named in section 3 do not. `RotationInv`, which
holds unless a save was torn, has four parts. `KeysetInv`: a save that is under way
only adds to what is stored, and between commands there is one active key and at
most one staged. `ClockInv`: no pod is older than its interval. `KnownInv`: a key
that signs is published by every pod and known to a verifier that may not ask
again, and a staged key is so once the pods have reloaded; this is what the first
two waits turn into. `TokensInv`: a pod signs with the active key or, until it
reloads, with the one before it, and a token that has not expired has a key that
is not retired; this is what the third wait turns into. `KidsAssumption` makes the
keys finitely many, for the code counts them.

**PortalPage.** Four invariants, each proved from the ones before. `Basics` are
the types, `RightsInv` and that a page without a number shows nothing: while the
request of an administrator is under way, everything its user holds is in its
history, also when an assignment is given or taken meanwhile. `ScreenInv` says that while
the portal opens the page has one call under way, and only then a call for the
assignments: without that, an answer of an earlier screen could take the spinner
of a later one away. `SessionsInv` is about identity. A session that a sign-in
has made and not yet bound is known to that call alone (`Unbound`), so that no
other may end it or give it away; a transaction that still exists serves the
session of the sign-in that completed it or of the page that was opened for it
(`SignedInBy`, `ListedFor`), hence the user on screen (`BoundToShown`); and a
selection under way is of that session or will be refused (`SelectedFor`).
That numbers of sessions are used again does no harm because `Fresh` takes one
that nothing refers to (`OwnerKept`). `HandsInv` says that until the browser
changes hands every selection and every request for the applications is of the
user of the cookie, and that the active workspace is, while the applications
are asked for. Each step lemma names what goes on as it was but for its
histories (`Moves`, `Twin`) and treats the one call that changes. The theorems
hold for any number of users, sessions, pages, workspaces and disturbances.

Every invariant and every action property of the runs is proved, and so are both
refinements. Only model-checked are `RecordedApplicationsAreNotified`,
`SentLogoutTakesEffect`, `SignInCompletes`, `OwnerGetsIn` and `PortalOpens`, which
are liveness under fairness and out of this prover's reach. The violated ones have
no theorem; of `NoSessionAfterLogout`, `SucceededLogoutEndsSessions` is what is
left.

## 5. Plan

In the order in which the behaviour matters; all of it is done.

1. `TransactionScripts`, `SingleUseTransaction`, `LoginTransactions`: one
   assertion per transaction, with proofs and refinement.
2. `FederationLogin`: sessions, revocation, force logout, with proofs.
3. `ClientPolicy`, `ClientRegistry`: what an application may do now, with
   proofs.
4. `SigningKeys`: rotation against pods and verifiers.
5. `BackChannelLogout`: `notifyClient` against the reference application, with
   proofs.
6. `PasswordSignIn`: the two counters, the lock and the migration, concurrent
   attempts.
7. `LoginPage`, `ReferenceApplication`, `ApplicationLogin`: a sign-in from end to
   end.
8. `PortalPage`: the Core Portal in a browser, workspaces and the administrator,
   with proofs.
9. `FederationSession`: the abstract session (absent, open, closed, and who was
   told), with `FederationLogin` shown to implement it.
10. A proof of `ValidTokensVerify` from assumptions about the waits, which the
    runbook asks for and the code does not enforce, and one of
    `StuckOnlyByAccident`.

## 6. Not modelled

* The values of tokens, claims, cookies, hashes and canonical origins: an
  unguessable value is one that nobody else has, an origin is compared by
  equality.
* HTTP: origin and fetch-metadata checks, headers, DTO validation. They refuse
  requests before any state changes; `LoginPage` has one refusal for all of them.
* The logout of a client's `post_logout_redirect_uri`: it only selects where the
  browser goes after the session was revoked.
* The application's cache of authorization decisions and its demo API. Its
  sealed session cookie is the session it names.
* The texts, the layout and the resizing of the login page.
* Audit, health, logging, signing_key_metadata: written, never read back.
* The file key provider (development only), schema migrations, seed and
  smoke scripts, the playground, deployment files, generated documentation.
* Real durations: a second is a tick, and a step takes any number of them where
  the code sets no timeout.
