------------------------ MODULE ApplicationLoginProofs ------------------------
(***************************************************************************)
(* Proofs about ApplicationLogin, for any number of tabs, browsers and     *)
(* login starts: its types, that a local session is of one browser, that a *)
(* transaction is taken once, and that only a disturbance strands a tab.   *)
(***************************************************************************)
EXTENDS ApplicationLogin, TLAPS

Known(n) == start[n].pc # "none"
BrowserOf(n) == TabBrowser[start[n].tab]

(* The transaction of n is used, by a call of browser b.                   *)
UsedBy(n, b) == txn[n] = "COMPLETED" /\ assertion[n].by = b

-----------------------------------------------------------------------------
(* The application on its own.  A key is made with its start, and is gone  *)
(* when it has been taken.                                                 *)
KeysInv ==
  /\ \A n \in pendingKeys : Known(n)
  /\ \A c \in taken : Known(c[1]) /\ c[1] \notin pendingKeys
  /\ TransactionIsTakenOnce

(* The login cookie names a start of its browser.                          *)
CookieInv ==
  \A b \in Browsers, n \in Starts :
    loginCookie[b] = n => Known(n) /\ BrowserOf(n) = b

(* A tab has frames of its own starts.                                     *)
TabInv ==
  \A t \in Tabs, n \in Starts :
    n \in {tab[t].frame, tab[t].pending} => Known(n) /\ start[n].tab = t

(* A callback that is let through has the login cookie.                    *)
Passed(x) == post[x].pc \in {"taken", "verified", "created"}
PassInv ==
  \A x \in Posts :
    post[x].cookie = x[1] \/ Passed(x) \/ x \in local =>
      Known(x[1]) /\ BrowserOf(x[1]) = x[2]

AppInv == AppTypeOK /\ KeysInv /\ CookieInv /\ TabInv /\ PassInv

-----------------------------------------------------------------------------
(* The login page on its own.  An assertion is delivered to the page whose *)
(* call it was issued for.                                                 *)
CallInv ==
  \A p \in Pages, k \in Kinds :
    call[p][k].reply = "delivery" => call[p][k].at # "none" /\ UsedBy(p[1], p[2])

PageInvs == LoginTypeOK /\ CallInv

-----------------------------------------------------------------------------
(* The two together.  A framed login page is in the browser of the tab     *)
(* that asked for it.                                                      *)
Alive(p) == page[p].view # "none" \/ \E k \in Kinds : call[p][k].at # "none"
FrameInv ==
  \A p \in Pages :
    Alive(p) => Known(p[1]) /\ (Framed(p) => BrowserOf(p[1]) = p[2])

InboxInv ==
  \A n \in Starts, i \in Nat :
    i \in DOMAIN inbox[n] /\ inbox[n][i] = "SUCCESS" =>
      Known(n) /\ UsedBy(n, BrowserOf(n))

(* A callback has the assertion of its own browser.                        *)
PostInv ==
  \A x \in Posts : post[x].pc # "none" \/ x \in local => UsedBy(x[1], x[2])

(* The inductive invariant.                                                *)
IInv == AppInv /\ PageInvs /\ FrameInv /\ InboxInv /\ PostInv

-----------------------------------------------------------------------------
LEMMA InitIInv == Init => IInv
  <1> SUFFICES ASSUME Init PROVE IInv
    OBVIOUS
  <1> USE DEF Init, LoginInit, AppInit
  <1>1. LoginTypeOK
    <2>1. NoPage \in Page /\ NoCall \in Call
      BY DEF NoPage, Page, Views, NoCall, Call, Replies, Session
    <2>2. << >> \in Seq(MessageTypes)
      OBVIOUS
    <2> QED
      BY <2>1, <2>2, FailuresAssumption DEF LoginTypeOK, Session
  <1>2. AppTypeOK
    <2>1. Document(FALSE) \in Tab
      BY DEF Document, Tab, MaxLoads
    <2>2. \A t \in Tabs : tab[t] \in Tab
      BY <2>1
    <2>3. start \in [Starts -> Start]
      BY TabBrowserAssumption DEF NoStart, Start
    <2>4. post \in [Posts -> Post]
      BY DEF Post
    <2> QED
      BY <2>2, <2>3, <2>4 DEF AppTypeOK
  <1>3. KeysInv /\ CookieInv
    BY StartsAssumption DEF KeysInv, TransactionIsTakenOnce, CookieInv
  <1>4. TabInv
    BY StartsAssumption DEF TabInv, Document
  <1>5. PassInv /\ PostInv
    BY StartsAssumption DEF PassInv, Passed, PostInv, Posts
  <1>6. CallInv /\ FrameInv
    BY DEF CallInv, FrameInv, Alive, NoPage, NoCall
  <1>7. InboxInv
    BY DEF InboxInv
  <1> QED
    BY <1>1, <1>2, <1>3, <1>4, <1>5, <1>6, <1>7 DEF IInv, AppInv, PageInvs

-----------------------------------------------------------------------------
LEMMA DocumentTypes ==
  /\ \A auto \in BOOLEAN : /\ Document(auto) \in Tab
                           /\ Document(auto).frame = 0 /\ Document(auto).pending = 0
  /\ \A view \in {"away", "leaving"}, n \in Starts \cup {0} :
       /\ Elsewhere(view, n) \in Tab
       /\ Elsewhere(view, n).frame = n /\ Elsewhere(view, n).pending = 0
  <1>1. ASSUME NEW auto \in BOOLEAN
        PROVE  /\ Document(auto) \in Tab
               /\ Document(auto).frame = 0 /\ Document(auto).pending = 0
    BY DEF Document, Tab, MaxLoads
  <1>2. ASSUME NEW view \in {"away", "leaving"}, NEW n \in Starts \cup {0}
        PROVE  /\ Elsewhere(view, n) \in Tab
               /\ Elsewhere(view, n).frame = n /\ Elsewhere(view, n).pending = 0
    <2> DEFINE doc == Document(FALSE)
    <2>1. doc \in Tab /\ doc.pending = 0
      BY <1>1
    <2>2. Elsewhere(view, n) = [doc EXCEPT !.view = view, !.loads = 0, !.frame = n]
      BY DEF Elsewhere
    <2>3. 0 \in 0..MaxLoads /\ view \in {"blank", "signedOut", "signedIn", "away", "leaving"}
      BY DEF MaxLoads
    <2> HIDE DEF doc
    <2>4. Elsewhere(view, n) \in Tab
      BY <2>1, <2>2, <2>3 DEF Tab
    <2>5. Elsewhere(view, n).frame = n /\ Elsewhere(view, n).pending = 0
      BY <2>1, <2>2 DEF Tab
    <2> QED
      BY <2>4, <2>5
  <1> QED
    BY <1>1, <1>2

(* Starts are only added, and keep their tab and their display.            *)
SameStarts(f) ==
  /\ f \in [Starts -> Start]
  /\ \A n \in Starts : /\ f[n].pc = start[n].pc /\ f[n].tab = start[n].tab
                       /\ f[n].display = start[n].display

Grown ==
  /\ start' \in [Starts -> Start]
  /\ \A n \in Starts :
       Known(n) => /\ start'[n].pc # "none" /\ start'[n].tab = start[n].tab
                   /\ start'[n].display = start[n].display

KeysGrown ==
  /\ pendingKeys' \subseteq Starts
  /\ \A n \in pendingKeys' :
       n \in pendingKeys \/ (~Known(n) /\ start'[n].pc # "none")

LEMMA DisplacedStarts ==
  ASSUME AppTypeOK, NEW t, NEW where \in {"replaced", "gone"}
  PROVE  SameStarts(Displaced(<<t, where>>, start))
  <1>1. \A n \in Starts : start[n] \in Start
    BY DEF AppTypeOK
  <1>2. \A n \in Starts : [start[n] EXCEPT !.place = where] \in Start
    BY <1>1 DEF Start
  <1> QED
    BY <1>1, <1>2 DEF SameStarts, Displaced, Start

LEMMA BeginEffect ==
  ASSUME AppTypeOK, NEW t \in Tabs, NEW display \in {"embed", "page"},
         NEW prompt \in {"", "auto"}, NEW f, SameStarts(f),
         Begin(t, display, prompt, f)
  PROVE  Grown /\ KeysGrown
  <1>1. CASE Exhausted
    BY <1>1 DEF Begin, SameStarts, Grown, KeysGrown, Known, AppTypeOK
  <1>2. CASE ~Exhausted
    <2>1. PICK n \in Unused :
            /\ start' = [f EXCEPT ![n] =
                 [pc |-> "sent", tab |-> t, display |-> display,
                  prompt |-> prompt, place |-> "here"]]
            /\ pendingKeys' = pendingKeys \cup {n}
      BY <1>2 DEF Begin
    <2>2. n \in Starts /\ ~Known(n)
      BY DEF Unused, Known
    <2>3. start' \in [Starts -> Start]
      BY <2>1, <2>2 DEF SameStarts, Start
    <2>4. \A m \in Starts \ {n} : start'[m] = f[m]
      BY <2>1 DEF SameStarts
    <2>5. start'[n].pc = "sent"
      BY <2>1, <2>2 DEF SameStarts
    <2>6. KeysGrown
      BY <2>1, <2>2, <2>5 DEF KeysGrown, AppTypeOK
    <2>7. Grown
      BY <2>2, <2>3, <2>4 DEF Grown, SameStarts, Known
    <2> QED
      BY <2>6, <2>7
  <1> QED
    BY <1>1, <1>2

LEMMA DesertedPosts ==
  ASSUME AppTypeOK, NEW t, post' = Deserted(t)
  PROVE  /\ post' \in [Posts -> Post]
         /\ \A x \in Posts : post'[x].pc = post[x].pc /\ post'[x].cookie = post[x].cookie
  <1>1. \A x \in Posts : post[x] \in Post /\ [post[x] EXCEPT !.waiting = FALSE] \in Post
    BY DEF AppTypeOK, Post
  <1>2. \A x \in Posts : post'[x] \in {post[x], [post[x] EXCEPT !.waiting = FALSE]}
    BY DEF Deserted
  <1>3. post' \in [Posts -> Post]
    BY <1>1, <1>2 DEF Deserted
  <1>4. \A x \in Posts : post'[x].pc = post[x].pc /\ post'[x].cookie = post[x].cookie
    BY <1>1, <1>2 DEF Post
  <1> QED
    BY <1>3, <1>4

LEMMA LeaveEffect ==
  ASSUME AppTypeOK, NEW t \in Tabs, NEW doc \in Tab, Leave(t, doc)
  PROVE  /\ Grown
         /\ tab' \in [Tabs -> Tab]
         /\ tab'[t] = doc
         /\ \A u \in Tabs \ {t} : tab'[u] = tab[u]
         /\ post' \in [Posts -> Post]
         /\ \A x \in Posts : post'[x].pc = post[x].pc /\ post'[x].cookie = post[x].cookie
  <1>1. Grown
    BY DisplacedStarts DEF Leave, SameStarts, Grown, Known
  <1>2. /\ tab' \in [Tabs -> Tab] /\ tab'[t] = doc
        /\ \A u \in Tabs \ {t} : tab'[u] = tab[u]
    BY DEF Leave, AppTypeOK
  <1> QED
    BY <1>1, <1>2, DesertedPosts DEF Leave

LEMMA RenderEffect ==
  ASSUME AppTypeOK, NEW t \in Tabs, NEW doc \in Tab, RenderSignedOut(t, doc)
  PROVE  /\ Grown /\ KeysGrown
         /\ tab' \in [Tabs -> Tab]
         /\ tab'[t].frame = 0 /\ tab'[t].pending = doc.pending
         /\ \A u \in Tabs \ {t} : tab'[u] = tab[u]
  <1>1. Grown /\ KeysGrown
    BY DisplacedStarts, BeginEffect DEF RenderSignedOut
  <1>2. [doc EXCEPT !.view = "signedOut", !.frame = 0] \in Tab
    BY DEF Tab
  <1> QED
    BY <1>1, <1>2 DEF RenderSignedOut, AppTypeOK, Tab

(* What keeps each part of AppInv.                                         *)
LEMMA KnownStays ==
  ASSUME Grown, NEW n \in Starts, Known(n)
  PROVE  Known(n)' /\ BrowserOf(n)' = BrowserOf(n)
  BY DEF Grown, Known, BrowserOf

LEMMA NoGrowth ==
  ASSUME AppTypeOK, UNCHANGED start
  PROVE  Grown /\ (pendingKeys' \subseteq pendingKeys => KeysGrown)
  BY DEF AppTypeOK, Grown, KeysGrown, Known

LEMMA KeysStay ==
  ASSUME AppTypeOK, KeysInv, Grown, KeysGrown, UNCHANGED taken
  PROVE  KeysInv'
  <1>1. \A c \in taken : c[1] \in Starts
    BY DEF AppTypeOK, Posts
  <1> QED
    BY <1>1 DEF AppTypeOK, KeysInv, Grown, KeysGrown, Known, TransactionIsTakenOnce

LEMMA CookieStays ==
  ASSUME CookieInv, Grown,
         \A b \in Browsers : loginCookie'[b] \in {loginCookie[b], 0}
  PROVE  CookieInv'
  BY StartsAssumption, KnownStays DEF CookieInv

LEMMA TabStays ==
  ASSUME TabInv, Grown,
         \A t \in Tabs : {tab'[t].frame, tab'[t].pending}
                          \subseteq {tab[t].frame, tab[t].pending, 0}
  PROVE  TabInv'
  <1>1. \A n \in Starts : n # 0
    BY StartsAssumption
  <1> QED
    BY <1>1 DEF TabInv, Grown, Known

LEMMA PassStays ==
  ASSUME PassInv, Grown,
         \A x \in Posts :
           post'[x].cookie = x[1] \/ Passed(x)' \/ x \in local' =>
             post[x].cookie = x[1] \/ Passed(x) \/ x \in local
  PROVE  PassInv'
  <1>1. \A x \in Posts : x[1] \in Starts
    BY DEF Posts
  <1> QED
    BY <1>1, KnownStays DEF PassInv

LEMMA PassIsSame ==
  ASSUME PassInv, Grown, local' \subseteq local,
         \A x \in Posts : post'[x].pc = post[x].pc /\ post'[x].cookie = post[x].cookie
  PROVE  PassInv'
  BY PassStays DEF Passed

-----------------------------------------------------------------------------
(* The frontend keeps AppInv.                                              *)
LEMMA LoadKeeps ==
  ASSUME AppInv, NEW t \in Tabs, Load(t)
  PROVE  AppInv' /\ Grown
  <1> DEFINE doc == [tab[t] EXCEPT !.loads = @ - 1]
  <1>1. /\ tab \in [Tabs -> Tab] /\ doc \in Tab /\ doc.pending = tab[t].pending
        /\ UNCHANGED <<loginCookie, post, sessionCookie, claimed, local, taken>>
    BY DEF AppInv, AppTypeOK, Load, Tab, MaxLoads
  <1>2. /\ Grown /\ KeysGrown /\ tab' \in [Tabs -> Tab]
        /\ tab'[t].frame = 0 /\ tab'[t].pending = tab[t].pending
        /\ \A u \in Tabs \ {t} : tab'[u] = tab[u]
    <2>1. CASE sessionCookie[TabBrowser[t]] \in local
      <3>1. /\ tab' = [tab EXCEPT ![t] = [doc EXCEPT !.view = "signedIn", !.frame = 0]]
            /\ start' = Displaced(<<t, "replaced">>, start)
            /\ UNCHANGED pendingKeys
        BY <2>1 DEF Load
      <3>2. Grown /\ KeysGrown
        BY <3>1, DisplacedStarts DEF SameStarts, Grown, KeysGrown, Known, AppInv, AppTypeOK
      <3>3. [doc EXCEPT !.view = "signedIn", !.frame = 0] \in Tab
        BY <1>1 DEF Tab
      <3>4. /\ tab' \in [Tabs -> Tab] /\ tab'[t].frame = 0 /\ tab'[t].pending = doc.pending
            /\ \A u \in Tabs \ {t} : tab'[u] = tab[u]
        BY <1>1, <3>1, <3>3 DEF Tab
      <3> HIDE DEF doc
      <3> QED
        BY <1>1, <3>2, <3>4
    <2>2. CASE ~(sessionCookie[TabBrowser[t]] \in local)
      <3>1. RenderSignedOut(t, doc)
        BY <2>2 DEF Load
      <3> HIDE DEF doc
      <3> QED
        BY <1>1, <3>1, RenderEffect DEF AppInv
    <2> QED
      BY <2>1, <2>2
  <1>3. AppTypeOK'
    BY <1>1, <1>2 DEF AppInv, AppTypeOK, Grown, KeysGrown
  <1>4. KeysInv' /\ CookieInv'
    BY <1>1, <1>2, KeysStay, CookieStays DEF AppInv
  <1>5. TabInv'
    BY <1>2, TabStays DEF AppInv
  <1>6. PassInv'
    BY <1>1, <1>2, PassIsSame DEF AppInv
  <1> QED
    BY <1>2, <1>3, <1>4, <1>5, <1>6 DEF AppInv

LEMMA LoadRefusedKeeps ==
  ASSUME AppInv, NEW t \in Tabs, LoadRefused(t)
  PROVE  AppInv' /\ Grown
  <1> DEFINE doc == [tab[t] EXCEPT !.loads = @ - 1]
  <1>1. /\ tab \in [Tabs -> Tab] /\ doc \in Tab /\ doc.pending = tab[t].pending
        /\ RenderSignedOut(t, doc)
        /\ UNCHANGED <<loginCookie, post, sessionCookie, claimed, local, taken>>
    BY DEF AppInv, AppTypeOK, LoadRefused, Tab, MaxLoads
  <1> HIDE DEF doc
  <1>2. /\ Grown /\ KeysGrown /\ tab' \in [Tabs -> Tab]
        /\ tab'[t].frame = 0 /\ tab'[t].pending = tab[t].pending
        /\ \A u \in Tabs \ {t} : tab'[u] = tab[u]
    BY <1>1, RenderEffect DEF AppInv
  <1>3. AppTypeOK'
    BY <1>1, <1>2 DEF AppInv, AppTypeOK, Grown, KeysGrown
  <1>4. KeysInv' /\ CookieInv'
    BY <1>1, <1>2, KeysStay, CookieStays DEF AppInv
  <1>5. TabInv'
    BY <1>2, TabStays DEF AppInv
  <1>6. PassInv'
    BY <1>1, <1>2, PassIsSame DEF AppInv
  <1> QED
    BY <1>2, <1>3, <1>4, <1>5, <1>6 DEF AppInv

LEMMA LoseLoadKeeps ==
  ASSUME AppInv, NEW t \in Tabs, LoseLoad(t)
  PROVE  AppInv' /\ Grown
  <1> DEFINE doc == [tab[t] EXCEPT !.loads = @ - 1]
  <1>1. /\ tab \in [Tabs -> Tab] /\ doc \in Tab
        /\ doc.pending = tab[t].pending /\ doc.frame = tab[t].frame
        /\ tab' = [tab EXCEPT ![t] = doc]
        /\ UNCHANGED <<start, loginCookie, post, sessionCookie, backend>>
    BY DEF AppInv, AppTypeOK, LoseLoad, Tab, MaxLoads
  <1> HIDE DEF doc
  <1>2. Grown /\ KeysGrown
    BY <1>1 DEF Grown, KeysGrown, Known, backend, AppInv, AppTypeOK
  <1>3. /\ tab' \in [Tabs -> Tab]
        /\ tab'[t].frame = tab[t].frame /\ tab'[t].pending = tab[t].pending
        /\ \A u \in Tabs \ {t} : tab'[u] = tab[u]
    BY <1>1
  <1>4. AppTypeOK'
    BY <1>1, <1>3 DEF AppInv, AppTypeOK, backend
  <1>5. KeysInv' /\ CookieInv'
    BY <1>1, <1>2, KeysStay, CookieStays DEF AppInv, backend
  <1>6. TabInv'
    BY <1>2, <1>3, TabStays DEF AppInv
  <1>7. PassInv'
    BY <1>1, <1>2, PassIsSame DEF AppInv, backend
  <1> QED
    BY <1>2, <1>4, <1>5, <1>6, <1>7 DEF AppInv

LEMMA ReceiveStartKeeps ==
  ASSUME AppInv, NEW n \in Starts, ReceiveStart(n)
  PROVE  AppInv' /\ Grown
  <1> DEFINE t == start[n].tab
             b == TabBrowser[t]
  <1>1. /\ start[n] \in Start /\ t \in Tabs /\ b \in Browsers /\ Known(n)
        /\ tab[t] \in Tab
        /\ UNCHANGED <<sessionCookie, pendingKeys, claimed, local, taken>>
    BY TabBrowserAssumption
       DEF AppInv, AppTypeOK, Start, ReceiveStart, Known, backend
  <1>2. /\ loginCookie' \in [Browsers -> Starts \cup {0}]
        /\ \A c \in Browsers : loginCookie'[c] = loginCookie[c] \/ (c = b /\ loginCookie'[c] = n)
    BY <1>1 DEF AppInv, AppTypeOK, ReceiveStart
  <1>3. /\ Grown /\ tab' \in [Tabs -> Tab] /\ post' \in [Posts -> Post]
        /\ tab'[t].frame \in {tab[t].frame, n} /\ tab'[t].pending \in {tab[t].pending, n, 0}
        /\ \A u \in Tabs \ {t} : tab'[u] = tab[u]
        /\ \A x \in Posts : post'[x].pc = post[x].pc /\ post'[x].cookie = post[x].cookie
    <2>1. CASE start[n].place = "gone"
      <3>1. /\ start' = [start EXCEPT ![n].pc = "done", ![n].place = "gone"]
            /\ UNCHANGED <<tab, post>>
        BY <2>1 DEF ReceiveStart
      <3>2. Grown
        BY <1>1, <3>1 DEF Grown, AppInv, AppTypeOK, Start, Known
      <3> QED
        BY <3>1, <3>2 DEF AppInv, AppTypeOK
    <2>2. CASE start[n].place # "gone" /\ start[n].display = "embed"
      <3>1. /\ tab' = [tab EXCEPT ![t] =
                  [tab[t] EXCEPT !.pending = n,
                     !.frame = IF start[n].place = "here" THEN n ELSE tab[t].frame]]
            /\ start' = [start EXCEPT ![n].pc = "done", ![n].place = "gone"]
            /\ UNCHANGED post
        BY <2>2 DEF ReceiveStart
      <3>2. Grown
        BY <1>1, <3>1 DEF Grown, AppInv, AppTypeOK, Start, Known
      <3>3. /\ tab' \in [Tabs -> Tab]
            /\ tab'[t].frame \in {tab[t].frame, n} /\ tab'[t].pending = n
            /\ \A u \in Tabs \ {t} : tab'[u] = tab[u]
        BY <1>1, <3>1 DEF AppInv, AppTypeOK, Tab
      <3> QED
        BY <3>1, <3>2, <3>3 DEF AppInv, AppTypeOK
    <2>3. CASE start[n].place # "gone" /\ start[n].display = "page"
      <3>1. /\ tab' = [tab EXCEPT ![t] = Elsewhere("away", n)]
            /\ start' = [Displaced(<<t, "gone">>, start)
                           EXCEPT ![n].pc = "done", ![n].place = "gone"]
            /\ post' = Deserted(t)
        BY <2>3 DEF ReceiveStart
      <3>2. SameStarts(Displaced(<<t, "gone">>, start))
        BY DisplacedStarts DEF AppInv
      <3>3. Grown
        BY <1>1, <3>1, <3>2 DEF Grown, SameStarts, Start, Known
      <3>4. Elsewhere("away", n) \in Tab /\ Elsewhere("away", n).frame = n
            /\ Elsewhere("away", n).pending = 0
        BY DocumentTypes
      <3>5. /\ tab' \in [Tabs -> Tab] /\ tab'[t].frame = n /\ tab'[t].pending = 0
            /\ \A u \in Tabs \ {t} : tab'[u] = tab[u]
        BY <1>1, <3>1, <3>4 DEF AppInv, AppTypeOK
      <3>6. /\ post' \in [Posts -> Post]
            /\ \A x \in Posts : post'[x].pc = post[x].pc /\ post'[x].cookie = post[x].cookie
        BY <3>1, DesertedPosts DEF AppInv
      <3> QED
        BY <3>3, <3>5, <3>6
    <2> QED
      BY <1>1, <2>1, <2>2, <2>3 DEF Start
  <1>4. KeysGrown
    BY <1>1 DEF KeysGrown, AppInv, AppTypeOK
  <1>5. AppTypeOK'
    BY <1>1, <1>2, <1>3 DEF AppInv, AppTypeOK, Grown
  <1>6. KeysInv'
    BY <1>1, <1>3, <1>4, KeysStay DEF AppInv
  <1>7. CookieInv'
    <2> SUFFICES ASSUME NEW c \in Browsers, NEW m \in Starts, loginCookie'[c] = m
                 PROVE  Known(m)' /\ BrowserOf(m)' = c
      BY DEF CookieInv
    <2>1. Known(m) /\ BrowserOf(m) = c
      BY <1>1, <1>2 DEF AppInv, CookieInv, BrowserOf
    <2> QED
      BY <1>3, <2>1, KnownStays
  <1>8. TabInv'
    <2> SUFFICES ASSUME NEW u \in Tabs, NEW m \in Starts,
                        m \in {tab'[u].frame, tab'[u].pending}
                 PROVE  Known(m)' /\ start'[m].tab = u
      BY DEF TabInv
    <2>1. Known(m) /\ start[m].tab = u
      BY <1>1, <1>3, StartsAssumption DEF AppInv, TabInv
    <2> QED
      BY <1>3, <2>1, KnownStays DEF Grown
  <1>9. PassInv'
    BY <1>1, <1>3, PassIsSame DEF AppInv
  <1> QED
    BY <1>3, <1>5, <1>6, <1>7, <1>8, <1>9 DEF AppInv

LEMMA LoseStartKeeps ==
  ASSUME AppInv, NEW n \in Starts, LoseStart(n)
  PROVE  AppInv' /\ Grown
  <1>1. /\ start[n] \in Start /\ Known(n)
        /\ UNCHANGED <<tab, loginCookie, post, sessionCookie, pendingKeys, claimed, local,
                       taken>>
    BY DEF AppInv, AppTypeOK, LoseStart, Known, backend
  <1>2. Grown /\ KeysGrown
    BY <1>1 DEF LoseStart, Grown, KeysGrown, AppInv, AppTypeOK, Start, Known
  <1>3. AppTypeOK'
    BY <1>1, <1>2 DEF AppInv, AppTypeOK, Grown
  <1>4. KeysInv' /\ CookieInv' /\ TabInv'
    BY <1>1, <1>2, KeysStay, CookieStays, TabStays DEF AppInv
  <1>5. PassInv'
    BY <1>1, <1>2, PassIsSame DEF AppInv
  <1> QED
    BY <1>2, <1>3, <1>4, <1>5 DEF AppInv

(* A callback is sent with the login cookie of its browser.                *)
LEMMA SendPostEffect ==
  ASSUME AppTypeOK, CookieInv, PassInv, NEW x \in Posts, NEW form \in BOOLEAN,
         SendPost(x, form), UNCHANGED <<start, local>>
  PROVE  /\ post' \in [Posts -> Post] /\ PassInv'
         /\ \A y \in Posts \ {x} : post'[y] = post[y]
  <1>1. x[1] \in Starts /\ x[2] \in Browsers
    BY DEF Posts
  <1>2. Sent(x, form) \in Post /\ Sent(x, form).pc = "sent"
        /\ Sent(x, form).cookie = loginCookie[x[2]]
    BY <1>1 DEF Sent, Post, AppTypeOK
  <1>3. /\ post' \in [Posts -> Post] /\ post'[x] = Sent(x, form)
        /\ \A y \in Posts \ {x} : post'[y] = post[y]
    BY <1>2 DEF SendPost, AppTypeOK
  <1>4. ASSUME NEW y \in Posts, post'[y].cookie = y[1] \/ Passed(y)' \/ y \in local'
        PROVE  Known(y[1])' /\ BrowserOf(y[1])' = y[2]
    <2>1. CASE y = x /\ x \notin local
      <3>1. loginCookie[x[2]] = x[1]
        BY <1>2, <1>3, <1>4, <2>1 DEF Passed
      <3> QED
        BY <1>1, <2>1, <3>1 DEF CookieInv, Known, BrowserOf
    <2>2. CASE y # x \/ x \in local
      <3>1. Known(y[1]) /\ BrowserOf(y[1]) = y[2]
        BY <1>3, <1>4, <2>2 DEF PassInv, Passed
      <3> QED
        BY <3>1 DEF Known, BrowserOf
    <2> QED
      BY <2>1, <2>2
  <1> QED
    BY <1>3, <1>4 DEF PassInv

LEMMA HearKeeps ==
  ASSUME AppInv, NEW t \in Tabs, NEW message \in MessageTypes, Hear(t, message),
         tab[t].pending # 0
  PROVE  AppInv' /\ Grown
  <1> DEFINE x == <<tab[t].pending, TabBrowser[t], 1>>
  <1>1. /\ tab[t] \in Tab /\ x \in Posts
        /\ UNCHANGED <<loginCookie, sessionCookie, claimed, local, taken>>
    <2>1. tab[t] \in Tab /\ tab[t].pending \in Starts /\ TabBrowser[t] \in Browsers
      BY TabBrowserAssumption DEF AppInv, AppTypeOK, Tab
    <2>2. x \in Posts
      BY <2>1 DEF Posts
    <2> QED
      BY <2>1, <2>2 DEF Hear
  <1>2. /\ Grown /\ KeysGrown /\ tab' \in [Tabs -> Tab]
        /\ \A u \in Tabs : {tab'[u].frame, tab'[u].pending}
                             \subseteq {tab[u].frame, tab[u].pending, 0}
        /\ post' \in [Posts -> Post] /\ PassInv'
    <2>1. CASE message = "TOP_LEVEL_REQUIRED"
      <3>1. Begin(t, "page", "", start) /\ UNCHANGED <<tab, post>>
        BY <2>1 DEF Hear
      <3>2. Grown /\ KeysGrown
        BY <3>1, BeginEffect DEF SameStarts, AppInv, AppTypeOK
      <3> QED
        BY <1>1, <3>1, <3>2, PassIsSame DEF AppInv, AppTypeOK
    <2>2. CASE message = "EXPIRED"
      <3>1. RenderSignedOut(t, tab[t]) /\ UNCHANGED post
        BY <2>2 DEF Hear
      <3>2. /\ Grown /\ KeysGrown /\ tab' \in [Tabs -> Tab]
            /\ tab'[t].frame = 0 /\ tab'[t].pending = tab[t].pending
            /\ \A u \in Tabs \ {t} : tab'[u] = tab[u]
        BY <1>1, <3>1, RenderEffect DEF AppInv
      <3> QED
        BY <1>1, <3>1, <3>2, PassIsSame DEF AppInv, AppTypeOK
    <2>3. CASE message = "SUCCESS"
      <3>1. /\ tab' = [tab EXCEPT ![t].pending = 0]
            /\ SendPost(x, FALSE) /\ UNCHANGED <<start, pendingKeys>>
        BY <2>3 DEF Hear
      <3>2. Grown /\ KeysGrown
        BY <3>1, NoGrowth DEF AppInv
      <3>3. /\ tab' \in [Tabs -> Tab]
            /\ tab'[t].frame = tab[t].frame /\ tab'[t].pending = 0
            /\ \A u \in Tabs \ {t} : tab'[u] = tab[u]
        BY <1>1, <3>1 DEF AppInv, AppTypeOK, Tab
      <3>4. post' \in [Posts -> Post] /\ PassInv'
        BY <1>1, <3>1, SendPostEffect DEF AppInv
      <3> QED
        BY <3>2, <3>3, <3>4
    <2> QED
      BY <2>1, <2>2, <2>3 DEF MessageTypes
  <1>3. AppTypeOK'
    BY <1>1, <1>2 DEF AppInv, AppTypeOK, Grown, KeysGrown
  <1>4. KeysInv' /\ CookieInv' /\ TabInv'
    BY <1>1, <1>2, KeysStay, CookieStays, TabStays DEF AppInv
  <1> QED
    BY <1>2, <1>3, <1>4 DEF AppInv

(* Steps that change neither starts, keys nor frames.                      *)
LEMMA QuietKeeps ==
  ASSUME AppInv, AppTypeOK', UNCHANGED <<start, taken>>, pendingKeys' \subseteq pendingKeys,
         \A b \in Browsers : loginCookie'[b] \in {loginCookie[b], 0},
         \A u \in Tabs : {tab'[u].frame, tab'[u].pending}
                          \subseteq {tab[u].frame, tab[u].pending, 0},
         PassInv'
  PROVE  AppInv' /\ Grown
  <1>1. Grown /\ KeysGrown
    BY NoGrowth DEF AppInv
  <1> QED
    BY <1>1, KeysStay, CookieStays, TabStays DEF AppInv

LEMMA SignOutKeeps ==
  ASSUME AppInv, NEW t \in Tabs, SignOut(t)
  PROVE  AppInv' /\ Grown
  <1>1. tab[t] \in Tab /\ TabBrowser[t] \in Browsers
    BY TabBrowserAssumption DEF AppInv, AppTypeOK
  <1>2. /\ tab' \in [Tabs -> Tab]
        /\ tab'[t].frame = tab[t].frame /\ tab'[t].pending = tab[t].pending
        /\ \A u \in Tabs \ {t} : tab'[u] = tab[u]
    BY <1>1 DEF SignOut, AppInv, AppTypeOK, Tab, MaxLoads
  <1>3. AppTypeOK'
    BY <1>1, <1>2 DEF SignOut, AppInv, AppTypeOK
  <1>4. PassInv'
    BY NoGrowth, PassIsSame DEF SignOut, AppInv
  <1> QED
    BY <1>2, <1>3, <1>4, QuietKeeps DEF SignOut

LEMMA LeavingKeeps ==
  ASSUME AppInv, NEW t \in Tabs, NEW doc \in Tab, Leave(t, doc),
         doc.frame = 0, doc.pending = 0, local' \subseteq local,
         sessionCookie' \in [Browsers -> Posts \cup {NoPost}],
         UNCHANGED <<loginCookie, pendingKeys, claimed, taken>>
  PROVE  AppInv' /\ Grown
  <1>1. /\ Grown /\ tab' \in [Tabs -> Tab] /\ tab'[t] = doc
        /\ \A u \in Tabs \ {t} : tab'[u] = tab[u]
        /\ post' \in [Posts -> Post]
        /\ \A x \in Posts : post'[x].pc = post[x].pc /\ post'[x].cookie = post[x].cookie
    BY LeaveEffect DEF AppInv
  <1>2. KeysGrown
    BY DEF KeysGrown, AppInv, AppTypeOK
  <1>3. AppTypeOK'
    BY <1>1 DEF AppInv, AppTypeOK, Grown
  <1>4. KeysInv' /\ CookieInv' /\ TabInv'
    BY <1>1, <1>2, KeysStay, CookieStays, TabStays DEF AppInv
  <1>5. PassInv'
    BY <1>1, PassIsSame DEF AppInv
  <1> QED
    BY <1>1, <1>3, <1>4, <1>5 DEF AppInv

LEMMA SignOutEverywhereKeeps ==
  ASSUME AppInv, NEW t \in Tabs, NEW sid \in Starts \cup {0}, SignOutEverywhere(t, sid)
  PROVE  AppInv' /\ Grown
  <1> DEFINE away == Elsewhere("leaving", 0)
             doc == [away EXCEPT !.hint = sid]
  <1>1. away \in Tab /\ away.frame = 0 /\ away.pending = 0
    BY DocumentTypes
  <1>2. Leave(t, doc)
    BY DEF SignOutEverywhere
  <1> HIDE DEF away
  <1>3. doc \in Tab /\ doc.frame = 0 /\ doc.pending = 0
    BY <1>1 DEF Tab
  <1>4. /\ local' \subseteq local /\ sessionCookie' \in [Browsers -> Posts \cup {NoPost}]
        /\ UNCHANGED <<loginCookie, pendingKeys, claimed, taken>>
    BY DEF SignOutEverywhere, AppInv, AppTypeOK
  <1> HIDE DEF doc
  <1> QED
    BY <1>2, <1>3, <1>4, LeavingKeeps

LEMMA OpenApplicationKeeps ==
  ASSUME AppInv, NEW t \in Tabs, NEW auto \in BOOLEAN, OpenApplication(t, auto)
  PROVE  AppInv' /\ Grown
  BY DocumentTypes, LeavingKeeps DEF OpenApplication, AppInv, AppTypeOK, backend

-----------------------------------------------------------------------------
(* The backend keeps AppInv, and so do the answers to its callbacks.       *)
LEMMA PostGoesEffect ==
  ASSUME AppTypeOK, NEW x \in Posts,
         NEW pc \in {"taken", "verified", "created", "rejected"}, NEW clears \in BOOLEAN,
         PostGoes(x, pc, clears)
  PROVE  /\ post' \in [Posts -> Post] /\ post'[x].pc = pc /\ post'[x].cookie # x[1]
         /\ \A y \in Posts \ {x} : post'[y] = post[y]
  <1>1. x[1] # 0 /\ post[x] \in Post
    BY StartsAssumption DEF Posts, AppTypeOK
  <1> QED
    BY <1>1 DEF PostGoes, AppTypeOK, Post

LEMMA PostEndsEffect ==
  ASSUME AppTypeOK, NEW x \in Posts, PostEnds(x)
  PROVE  /\ post' \in [Posts -> Post] /\ post'[x].pc = "done"
         /\ post'[x].cookie = post[x].cookie
         /\ \A y \in Posts \ {x} : post'[y] = post[y]
  <1>1. post[x] \in Post
    BY DEF AppTypeOK
  <1> QED
    BY <1>1 DEF PostEnds, AppTypeOK, Post

(* A callback that goes on passed before, or passes now.                   *)
LEMMA PostMoves ==
  ASSUME AppInv, NEW x \in Posts, UNCHANGED start, local' \subseteq local \cup {x},
         \A y \in Posts \ {x} : post'[y] = post[y],
         post'[x].cookie = x[1] \/ Passed(x)' \/ x \in local' =>
           Known(x[1]) /\ BrowserOf(x[1]) = x[2]
  PROVE  PassInv'
  <1> SUFFICES ASSUME NEW y \in Posts,
                      post'[y].cookie = y[1] \/ Passed(y)' \/ y \in local'
               PROVE  Known(y[1])' /\ BrowserOf(y[1])' = y[2]
    BY DEF PassInv
  <1>1. Known(y[1]) /\ BrowserOf(y[1]) = y[2]
    BY DEF AppInv, PassInv, Passed
  <1> QED
    BY <1>1 DEF Known, BrowserOf

LEMMA TakeKeeps ==
  ASSUME AppInv, NEW x \in Posts, Take(x)
  PROVE  AppInv' /\ Grown
  <1> USE DEF AppInv
  <1>1. Grown
    BY NoGrowth DEF Take
  <1>2. x[1] \in Starts /\ x[2] \in Browsers
    BY DEF Posts
  <1>3. CASE post[x].cookie # x[1] \/ x[1] \notin pendingKeys
    <2>1. PostGoes(x, "rejected", post[x].cookie = x[1]) /\ UNCHANGED <<pendingKeys, taken>>
      BY <1>3 DEF Take
    <2>2. (post[x].cookie = x[1]) \in BOOLEAN
      OBVIOUS
    <2>3. /\ post' \in [Posts -> Post] /\ post'[x].pc = "rejected"
          /\ post'[x].cookie # x[1] /\ \A y \in Posts \ {x} : post'[y] = post[y]
      BY <2>1, <2>2, PostGoesEffect
    <2>4. AppTypeOK'
      BY <2>1, <2>3 DEF Take, AppTypeOK
    <2>5. x \in local' => x \in local
      BY DEF Take
    <2>6. PassInv'
      BY <2>3, <2>5, PostMoves DEF Take, Passed, PassInv
    <2> QED
      BY <2>1, <2>4, <2>6, QuietKeeps DEF Take
  <1>4. CASE post[x].cookie = x[1] /\ x[1] \in pendingKeys
    <2>1. /\ PostGoes(x, "taken", TRUE)
          /\ pendingKeys' = pendingKeys \ {x[1]} /\ taken' = taken \cup {x}
      BY <1>4 DEF Take
    <2>2. /\ post' \in [Posts -> Post] /\ \A y \in Posts \ {x} : post'[y] = post[y]
      BY <2>1, PostGoesEffect
    <2>3. AppTypeOK'
      BY <2>1, <2>2 DEF Take, AppTypeOK
    <2>4. Known(x[1]) /\ BrowserOf(x[1]) = x[2]
      BY <1>4 DEF PassInv
    <2>5. PassInv'
      BY <2>2, <2>4, PostMoves DEF Take
    <2>6. KeysInv'
      <3>1. \A c \in taken : c[1] # x[1]
        BY <1>4 DEF KeysInv
      <3> QED
        BY <2>1, <2>4, <3>1 DEF Take, KeysInv, TransactionIsTakenOnce, Known
    <2>7. CookieInv' /\ TabInv'
      BY <1>1, CookieStays, TabStays DEF Take
    <2> QED
      BY <1>1, <2>3, <2>5, <2>6, <2>7
  <1> QED
    BY <1>3, <1>4

LEMMA VerifyKeeps ==
  ASSUME AppInv, NEW x \in Posts, Verify(x)
  PROVE  AppInv' /\ Grown
  <1> USE DEF AppInv
  <1>1. x[1] \in Starts /\ Known(x[1]) /\ BrowserOf(x[1]) = x[2]
    BY DEF Verify, PassInv, Passed, Posts
  <1>2. \E pc \in {"verified", "rejected"} : PostGoes(x, pc, TRUE)
    BY DEF Verify
  <1>3. post' \in [Posts -> Post] /\ \A y \in Posts \ {x} : post'[y] = post[y]
    BY <1>2, PostGoesEffect
  <1>4. AppTypeOK'
    BY <1>1, <1>3 DEF Verify, AppTypeOK
  <1>5. PassInv'
    BY <1>1, <1>3, PostMoves DEF Verify
  <1> QED
    BY <1>4, <1>5, QuietKeeps DEF Verify

LEMMA CreateKeeps ==
  ASSUME AppInv, NEW x \in Posts, Create(x)
  PROVE  AppInv' /\ Grown
  <1> USE DEF AppInv
  <1>1. Known(x[1]) /\ BrowserOf(x[1]) = x[2]
    BY DEF Create, PassInv, Passed
  <1>2. post' \in [Posts -> Post] /\ \A y \in Posts \ {x} : post'[y] = post[y]
    BY PostGoesEffect DEF Create
  <1>3. AppTypeOK'
    BY <1>2 DEF Create, AppTypeOK
  <1>4. PassInv'
    BY <1>1, <1>2, PostMoves DEF Create
  <1> QED
    BY <1>3, <1>4, QuietKeeps DEF Create

LEMMA RejectKeeps ==
  ASSUME AppInv, NEW x \in Posts, Reject(x)
  PROVE  AppInv' /\ Grown
  <1> USE DEF AppInv
  <1>1. Known(x[1]) /\ BrowserOf(x[1]) = x[2]
    BY DEF Reject, PassInv, Passed
  <1>2. post' \in [Posts -> Post] /\ \A y \in Posts \ {x} : post'[y] = post[y]
    BY PostGoesEffect DEF Reject
  <1>3. AppTypeOK'
    BY <1>2 DEF Reject, AppTypeOK, backend
  <1>4. PassInv'
    BY <1>1, <1>2, PostMoves DEF Reject, backend
  <1> QED
    BY <1>3, <1>4, QuietKeeps DEF Reject, backend

LEMMA CookiesEffect ==
  ASSUME AppTypeOK, NEW x \in Posts, CookiesOf(x)
  PROVE  /\ loginCookie' \in [Browsers -> Starts \cup {0}]
         /\ sessionCookie' \in [Browsers -> Posts \cup {NoPost}]
         /\ \A b \in Browsers : loginCookie'[b] \in {loginCookie[b], 0}
  BY DEF CookiesOf, AppTypeOK

LEMMA EndedPass ==
  ASSUME AppInv, Grown, NEW x \in Posts, PostEnds(x), UNCHANGED local
  PROVE  PassInv'
  BY PostEndsEffect, PassStays DEF AppInv, Passed

LEMMA ReceivePostKeeps ==
  ASSUME AppInv, NEW x \in Posts, NEW t \in Tabs, ReceivePost(x, t)
  PROVE  AppInv' /\ Grown
  <1>1. /\ CookiesOf(x) /\ PostEnds(x) /\ UNCHANGED <<claimed, local, taken>>
        /\ tab[t] \in Tab
    BY DEF ReceivePost, AppInv, AppTypeOK
  <1>2. /\ Grown /\ KeysGrown /\ tab' \in [Tabs -> Tab]
        /\ \A u \in Tabs : {tab'[u].frame, tab'[u].pending}
                             \subseteq {tab[u].frame, tab[u].pending, 0}
    <2>1. CASE post[x].pc = "created"
      <3>1. /\ tab[t].loads < MaxLoads
            /\ tab' = [tab EXCEPT ![t].auto = FALSE, ![t].loads = @ + 1]
            /\ UNCHANGED <<start, pendingKeys>>
        BY <2>1 DEF ReceivePost
      <3>2. Grown /\ KeysGrown
        BY <3>1, NoGrowth DEF AppInv
      <3>3. /\ tab' \in [Tabs -> Tab]
            /\ tab'[t].frame = tab[t].frame /\ tab'[t].pending = tab[t].pending
            /\ \A u \in Tabs \ {t} : tab'[u] = tab[u]
        BY <1>1, <3>1 DEF AppInv, AppTypeOK, Tab, MaxLoads
      <3> QED
        BY <3>2, <3>3
    <2>2. CASE post[x].pc # "created"
      <3>1. RenderSignedOut(t, tab[t])
        BY <2>2 DEF ReceivePost
      <3> QED
        BY <1>1, <3>1, RenderEffect DEF AppInv
    <2> QED
      BY <2>1, <2>2
  <1>3. AppTypeOK'
    BY <1>1, <1>2, CookiesEffect, PostEndsEffect DEF AppInv, AppTypeOK, Grown, KeysGrown
  <1>4. KeysInv' /\ CookieInv' /\ TabInv'
    BY <1>1, <1>2, CookiesEffect, KeysStay, CookieStays, TabStays DEF AppInv
  <1>5. PassInv'
    BY <1>1, <1>2, EndedPass
  <1> QED
    BY <1>2, <1>3, <1>4, <1>5 DEF AppInv

LEMMA ReceiveRedirectKeeps ==
  ASSUME AppInv, NEW x \in Posts, ReceiveRedirect(x)
  PROVE  AppInv' /\ Grown
  <1>1. /\ CookiesOf(x) /\ PostEnds(x) /\ UNCHANGED <<start, pendingKeys, claimed, local, taken>>
    BY DEF ReceiveRedirect, backend
  <1>2. /\ tab' \in [Tabs -> Tab]
        /\ \A u \in Tabs : {tab'[u].frame, tab'[u].pending}
                             \subseteq {tab[u].frame, tab[u].pending, 0}
    <2>1. start[x[1]].tab \in Tabs
      BY DEF AppInv, AppTypeOK, Posts, Start
    <2>2. tab' = tab \/ tab' = [tab EXCEPT ![start[x[1]].tab] = Document(FALSE)]
      BY DEF ReceiveRedirect
    <2> QED
      BY <2>1, <2>2, DocumentTypes DEF AppInv, AppTypeOK
  <1>3. AppTypeOK'
    BY <1>1, <1>2, CookiesEffect, PostEndsEffect DEF AppInv, AppTypeOK
  <1>4. PassInv'
    BY <1>1, NoGrowth, EndedPass DEF AppInv
  <1> QED
    BY <1>1, <1>2, <1>3, <1>4, CookiesEffect, QuietKeeps DEF AppInv

LEMMA ReceivePostNowhereKeeps ==
  ASSUME AppInv, NEW x \in Posts, ReceivePostNowhere(x)
  PROVE  AppInv' /\ Grown
  <1>1. /\ CookiesOf(x) \/ UNCHANGED <<loginCookie, sessionCookie>>
        /\ PostEnds(x) /\ UNCHANGED <<tab, start, pendingKeys, claimed, local, taken>>
    BY DEF ReceivePostNowhere, backend
  <1>2. AppTypeOK'
    BY <1>1, CookiesEffect, PostEndsEffect DEF AppInv, AppTypeOK
  <1>3. PassInv'
    BY <1>1, NoGrowth, EndedPass DEF AppInv
  <1> QED
    BY <1>1, <1>2, <1>3, CookiesEffect, QuietKeeps DEF AppInv

LEMMA LosePostKeeps ==
  ASSUME AppInv, NEW x \in Posts, LosePost(x)
  PROVE  AppInv' /\ Grown
  <1>1. post[x] \in Post /\ UNCHANGED <<tab, start, loginCookie, sessionCookie, backend>>
    BY DEF LosePost, AppInv, AppTypeOK
  <1>2. /\ post' \in [Posts -> Post]
        /\ \A y \in Posts : post'[y].pc = post[y].pc /\ post'[y].cookie = post[y].cookie
    BY <1>1 DEF LosePost, AppInv, AppTypeOK, Post
  <1>3. AppTypeOK'
    BY <1>1, <1>2 DEF AppInv, AppTypeOK, backend
  <1>4. PassInv'
    BY <1>1, <1>2, NoGrowth, PassIsSame DEF AppInv, backend
  <1> QED
    BY <1>1, <1>3, <1>4, QuietKeeps DEF backend

LEMMA SendPostKeeps ==
  ASSUME AppInv, NEW x \in Posts, NEW form \in BOOLEAN, SendPost(x, form),
         UNCHANGED <<tab, start, loginCookie, sessionCookie, backend>>
  PROVE  AppInv' /\ Grown
  <1>1. post' \in [Posts -> Post] /\ PassInv'
    BY SendPostEffect DEF AppInv, backend
  <1>2. AppTypeOK'
    BY <1>1 DEF AppInv, AppTypeOK, backend
  <1> QED
    BY <1>1, <1>2, QuietKeeps DEF backend

LEMMA RepeatPostKeeps ==
  ASSUME AppInv, NEW n \in Starts, NEW b \in Browsers, RepeatPost(n, b)
  PROVE  AppInv' /\ Grown
  <1> DEFINE x == <<n, b, 1>>
             again == <<n, b, 2>>
  <1>1. /\ x \in Posts /\ again \in Posts /\ again # x
        /\ again[1] = n /\ again[2] = b
    BY DEF Posts
  <1>2. Sent(again, TRUE) \in Post /\ Sent(again, TRUE).pc = "sent"
        /\ Sent(again, TRUE).cookie = loginCookie[b]
    BY <1>1 DEF Sent, Post, AppInv, AppTypeOK
  <1>3. /\ post' = [post EXCEPT ![x].waiting = FALSE, ![again] = Sent(again, TRUE)]
        /\ UNCHANGED <<tab, start, loginCookie, sessionCookie, backend>>
    BY DEF RepeatPost
  <1> HIDE DEF x, again
  <1>4. /\ post' \in [Posts -> Post] /\ post'[again] = Sent(again, TRUE)
        /\ \A y \in Posts \ {again} : post'[y].pc = post[y].pc /\ post'[y].cookie = post[y].cookie
    BY <1>1, <1>2, <1>3 DEF AppInv, AppTypeOK, Post
  <1>5. AppTypeOK'
    BY <1>3, <1>4 DEF AppInv, AppTypeOK, backend
  <1>6. PassInv'
    <2> SUFFICES ASSUME NEW y \in Posts,
                        post'[y].cookie = y[1] \/ Passed(y)' \/ y \in local'
                 PROVE  Known(y[1])' /\ BrowserOf(y[1])' = y[2]
      BY DEF PassInv
    <2>1. CASE y = again /\ y \notin local
      <3>1. loginCookie[b] = n
        BY <1>1, <1>2, <1>3, <1>4, <2>1 DEF Passed, backend
      <3> QED
        BY <1>1, <1>3, <2>1, <3>1 DEF AppInv, CookieInv, Known, BrowserOf
    <2>2. CASE y # again \/ y \in local
      <3>1. Known(y[1]) /\ BrowserOf(y[1]) = y[2]
        BY <1>3, <1>4, <2>2 DEF AppInv, PassInv, Passed, backend
      <3> QED
        BY <1>3, <3>1 DEF Known, BrowserOf
    <2> QED
      BY <2>1, <2>2
  <1> QED
    BY <1>3, <1>5, <1>6, QuietKeeps DEF backend

LEMMA ExpirePendingKeeps ==
  ASSUME AppInv, NEW n \in Starts, ExpirePending(n)
  PROVE  AppInv' /\ Grown
  <1>1. AppTypeOK'
    BY DEF ExpirePending, AppInv, AppTypeOK
  <1>2. PassInv'
    BY NoGrowth, PassIsSame DEF ExpirePending, AppInv
  <1> QED
    BY <1>1, <1>2, QuietKeeps DEF ExpirePending

LEMMA FederationLogoutKeeps ==
  ASSUME AppInv, NEW t \in Tabs, FederationLogout(t)
  PROVE  AppInv' /\ Grown
  <1>1. /\ local' \subseteq local
        /\ UNCHANGED <<start, pendingKeys, loginCookie, post, claimed, sessionCookie, taken>>
    BY DEF FederationLogout
  <1>2. \E doc \in {Document(FALSE), Elsewhere("away", 0)} : tab' = [tab EXCEPT ![t] = doc]
    BY DEF FederationLogout
  <1>3. /\ tab' \in [Tabs -> Tab]
        /\ \A u \in Tabs : {tab'[u].frame, tab'[u].pending}
                             \subseteq {tab[u].frame, tab[u].pending, 0}
    <2>1. PICK doc \in {Document(FALSE), Elsewhere("away", 0)} : tab' = [tab EXCEPT ![t] = doc]
      BY <1>2
    <2>2. doc \in Tab /\ doc.frame = 0 /\ doc.pending = 0
      <3>1. FALSE \in BOOLEAN /\ "away" \in {"away", "leaving"} /\ 0 \in Starts \cup {0}
        OBVIOUS
      <3> QED
        BY <3>1, DocumentTypes
    <2> QED
      BY <2>1, <2>2 DEF AppInv, AppTypeOK
  <1>4. AppTypeOK'
    BY <1>1, <1>3 DEF AppInv, AppTypeOK
  <1>5. PassInv'
    BY <1>1, NoGrowth, PassIsSame DEF AppInv
  <1> QED
    BY <1>1, <1>3, <1>4, <1>5, QuietKeeps

LEMMA UnmovedKeeps ==
  ASSUME AppInv, UNCHANGED appVars
  PROVE  AppInv' /\ Grown
  <1> USE DEF AppInv, appVars, backend
  <1>1. AppTypeOK'
    BY DEF AppTypeOK
  <1>2. PassInv'
    BY NoGrowth, PassIsSame
  <1> QED
    BY <1>1, <1>2, QuietKeeps

-----------------------------------------------------------------------------
(* The login page keeps PageInvs; what a step of page p does to the rest:  *)
(* a used transaction stays used, other pages are left alone, and "SUCCESS"*)
(* is said in a frame, of a transaction that its own call has used.        *)
UsedStays ==
  \A n \in Starts, b \in Browsers : UsedBy(n, b) => UsedBy(n, b)'

OnlyPage(p) ==
  \A q \in Pages \ {p} : page'[q] = page[q] /\ call'[q] = call[q]

Says(p, embed) ==
  \A n \in Starts :
    \/ inbox'[n] = inbox[n]
    \/ \E m \in MessageTypes :
         /\ n = p[1] /\ inbox'[n] = Append(inbox[n], m)
         /\ m = "SUCCESS" => embed /\ UsedBy(p[1], p[2])

PageStep(p, embed) == PageInvs' /\ UsedStays /\ OnlyPage(p) /\ Says(p, embed)

LEMMA PageParts ==
  ASSUME NEW p \in Pages
  PROVE  p[1] \in Starts /\ p[2] \in Browsers
  BY DEF Pages

(* One call of a page changes.                                             *)
LEMMA CallChanges ==
  ASSUME LoginTypeOK, NEW p \in Pages, NEW k \in Kinds, NEW c \in Call,
         call' = [call EXCEPT ![p][k] = c]
  PROVE  /\ call' \in [Pages -> [Kinds -> Call]]
         /\ call'[p][k] = c
         /\ \A j \in Kinds \ {k} : call'[p][j] = call[p][j]
         /\ \A q \in Pages \ {p} : call'[q] = call[q]
  BY DEF LoginTypeOK

LEMMA AllAbandoned ==
  ASSUME LoginTypeOK, NEW p \in Pages
  PROVE  /\ Abandoned(call[p]) \in [Kinds -> Call]
         /\ \A k \in Kinds : /\ Abandoned(call[p])[k].at = call[p][k].at
                             /\ \/ Abandoned(call[p])[k].reply = call[p][k].reply
                                \/ Abandoned(call[p])[k].reply = ""
                                   /\ call[p][k].at = "none"
  <1> SUFFICES ASSUME NEW k \in Kinds
               PROVE  /\ Abandoned(call[p])[k] \in Call
                      /\ Abandoned(call[p])[k].at = call[p][k].at
                      /\ \/ Abandoned(call[p])[k].reply = call[p][k].reply
                         \/ Abandoned(call[p])[k].reply = "" /\ call[p][k].at = "none"
    BY DEF Abandoned
  <1>1. call[p][k] \in Call
    BY DEF LoginTypeOK
  <1>2. NoCall \in Call /\ NoCall.at = "none" /\ NoCall.reply = ""
    BY DEF NoCall, Call, Replies, Session
  <1>3. Abandoned(call[p])[k] = IF call[p][k].at = "none" THEN NoCall
                                ELSE [call[p][k] EXCEPT !.mine = FALSE]
    BY DEF Abandoned
  <1>4. CASE call[p][k].at = "none"
    BY <1>2, <1>3, <1>4
  <1>5. CASE call[p][k].at # "none"
    BY <1>1, <1>3, <1>5 DEF Call
  <1> QED
    BY <1>4, <1>5

LEMMA CallsStay ==
  ASSUME CallInv, UsedStays,
         \A q \in Pages, k \in Kinds :
           call'[q][k].reply = "delivery" =>
             /\ call'[q][k].at # "none"
             /\ call[q][k].reply = "delivery" \/ UsedBy(q[1], q[2])'
  PROVE  CallInv'
  BY PageParts DEF CallInv, UsedStays

LEMMA SameIdentity ==
  ASSUME UNCHANGED <<txn, assertion>>
  PROVE  UsedStays
  BY DEF UsedStays, UsedBy

LEMMA TellsEffect ==
  ASSUME LoginTypeOK, NEW p \in Pages, NEW embed \in BOOLEAN, NEW m \in MessageTypes,
         Tells(p, embed, m), m = "SUCCESS" => UsedBy(p[1], p[2])
  PROVE  inbox' \in [Starts -> Seq(MessageTypes)] /\ Says(p, embed)
  <1>1. \A n \in Starts : inbox[n] \in Seq(MessageTypes)
                          /\ Append(inbox[n], m) \in Seq(MessageTypes)
    BY DEF LoginTypeOK
  <1>2. CASE embed
    <2>1. /\ inbox' = [inbox EXCEPT ![p[1]] = Append(inbox[p[1]], m)]
      BY <1>2 DEF Tells
    <2>2. inbox' \in [Starts -> Seq(MessageTypes)]
      BY <1>1, <2>1, PageParts DEF LoginTypeOK
    <2>3. \A n \in Starts : inbox'[n] = IF n = p[1] THEN Append(inbox[n], m) ELSE inbox[n]
      BY <2>1, PageParts DEF LoginTypeOK
    <2> QED
      BY <1>2, <2>2, <2>3 DEF Says
  <1>3. CASE ~embed
    BY <1>3 DEF Tells, Says, LoginTypeOK
  <1> QED
    BY <1>2, <1>3

LEMMA ShowsEffect ==
  ASSUME LoginTypeOK, NEW p \in Pages, NEW view \in Views, Shows(p, view)
  PROVE  /\ page' \in [Pages -> Page] /\ \A q \in Pages \ {p} : page'[q] = page[q]
  <1>1. page[p] \in Page /\ [page[p] EXCEPT !.view = view] \in Page
    BY DEF LoginTypeOK, Page
  <1> QED
    BY <1>1 DEF Shows, LoginTypeOK

LEMMA SignInFormEffect ==
  ASSUME LoginTypeOK, NEW p \in Pages, SignInForm(p)
  PROVE  /\ page' \in [Pages -> Page] /\ \A q \in Pages \ {p} : page'[q] = page[q]
  <1>1. page[p] \in Page
    BY DEF LoginTypeOK
  <1>2. [page[p] EXCEPT !.view = "signIn", !.shown = NoUser] \in Page
    BY <1>1 DEF Page, Views
  <1> QED
    BY <1>2 DEF SignInForm, LoginTypeOK

LEMMA SendEffect ==
  ASSUME PageInvs, NEW p \in Pages, NEW k \in Kinds, Send(p, k), UsedStays
  PROVE  /\ call' \in [Pages -> [Kinds -> Call]] /\ CallInv'
         /\ \A q \in Pages \ {p} : call'[q] = call[q]
  <1> DEFINE c == [at |-> "sent", reply |-> "", sid |-> fedCookie[p[2]],
                   csrf |-> page[p].csrf, mine |-> TRUE]
  <1>1. c \in Call /\ c.reply = ""
    BY PageParts DEF PageInvs, LoginTypeOK, Page, Call, Replies, Session
  <1>2. call' = [call EXCEPT ![p][k] = c]
    BY DEF Send
  <1> HIDE DEF c
  <1>3. /\ call' \in [Pages -> [Kinds -> Call]] /\ call'[p][k] = c
        /\ \A j \in Kinds \ {k} : call'[p][j] = call[p][j]
        /\ \A q \in Pages \ {p} : call'[q] = call[q]
    BY <1>1, <1>2, CallChanges DEF PageInvs
  <1>4. CallInv'
    BY <1>1, <1>3, CallsStay DEF PageInvs, CallInv
  <1> QED
    BY <1>3, <1>4

LEMMA AnswerEffect ==
  ASSUME PageInvs, NEW p \in Pages, NEW k \in Kinds, NEW reply \in Replies,
         NEW sid \in Session, Answer(p, k, reply, sid), UsedStays,
         reply = "delivery" => UsedBy(p[1], p[2])'
  PROVE  /\ call' \in [Pages -> [Kinds -> Call]] /\ CallInv'
         /\ \A q \in Pages \ {p} : call'[q] = call[q]
  <1> DEFINE c == [call[p][k] EXCEPT !.at = "answered", !.reply = reply, !.sid = sid]
  <1>1. c \in Call /\ c.reply = reply /\ c.at = "answered"
    <2>1. call[p][k] \in Call
      BY DEF PageInvs, LoginTypeOK
    <2> QED
      BY <2>1 DEF Call
  <1>2. call' = [call EXCEPT ![p][k] = c]
    BY DEF Answer, PageInvs, LoginTypeOK
  <1> HIDE DEF c
  <1>3. /\ call' \in [Pages -> [Kinds -> Call]] /\ call'[p][k] = c
        /\ \A j \in Kinds \ {k} : call'[p][j] = call[p][j]
        /\ \A q \in Pages \ {p} : call'[q] = call[q]
    BY <1>1, <1>2, CallChanges DEF PageInvs
  <1>4. CallInv'
    BY <1>1, <1>3, CallsStay DEF PageInvs, CallInv
  <1> QED
    BY <1>3, <1>4

LEMMA EndsEffect ==
  ASSUME PageInvs, NEW p \in Pages, NEW k \in Kinds, Ends(p, k), UsedStays
  PROVE  /\ call' \in [Pages -> [Kinds -> Call]] /\ CallInv'
         /\ \A q \in Pages \ {p} : call'[q] = call[q]
  <1>1. NoCall \in Call /\ NoCall.reply = ""
    BY DEF NoCall, Call, Replies, Session
  <1>2. /\ call' \in [Pages -> [Kinds -> Call]] /\ call'[p][k] = NoCall
        /\ \A j \in Kinds \ {k} : call'[p][j] = call[p][j]
        /\ \A q \in Pages \ {p} : call'[q] = call[q]
    BY <1>1, CallChanges DEF PageInvs, Ends
  <1>3. CallInv'
    BY <1>1, <1>2, CallsStay DEF PageInvs, CallInv
  <1> QED
    BY <1>2, <1>3

LEMMA AbandonEffect ==
  ASSUME PageInvs, NEW p \in Pages, call' = [call EXCEPT ![p] = Abandoned(@)], UsedStays
  PROVE  /\ call' \in [Pages -> [Kinds -> Call]] /\ CallInv'
         /\ \A q \in Pages \ {p} : call'[q] = call[q]
  <1>1. /\ call' \in [Pages -> [Kinds -> Call]] /\ call'[p] = Abandoned(call[p])
        /\ \A q \in Pages \ {p} : call'[q] = call[q]
    BY AllAbandoned DEF PageInvs, LoginTypeOK
  <1>2. ASSUME NEW q \in Pages, NEW k \in Kinds, call'[q][k].reply = "delivery"
        PROVE  call'[q][k].at # "none" /\ call[q][k].reply = "delivery"
    <2>1. CASE q = p
      <3>1. /\ call'[p][k].at = call[p][k].at
            /\ call'[p][k].reply \in {call[p][k].reply, ""}
        BY <1>1, AllAbandoned DEF PageInvs
      <3> QED
        BY <1>2, <2>1, <3>1 DEF PageInvs, CallInv
    <2>2. CASE q # p
      BY <1>1, <1>2, <2>2 DEF PageInvs, CallInv
    <2> QED
      BY <2>1, <2>2
  <1>3. CallInv'
    BY <1>2, CallsStay DEF PageInvs
  <1> QED
    BY <1>1, <1>3

(* The frame of a step that leaves Identity alone.                         *)
LEMMA PageSteps ==
  ASSUME PageInvs, NEW p \in Pages, NEW embed \in BOOLEAN,
         UsedStays, CallInv',
         page' \in [Pages -> Page], \A q \in Pages \ {p} : page'[q] = page[q],
         call' \in [Pages -> [Kinds -> Call]], \A q \in Pages \ {p} : call'[q] = call[q],
         inbox' \in [Starts -> Seq(MessageTypes)], Says(p, embed),
         fedCookie' \in [Browsers -> Session],
         txn' \in [Starts -> {"none", "PENDING", "COMPLETED"}],
         csrf' \in [Starts -> Nat], alive' \subseteq Starts,
         sessionUser' \in [Starts -> Users \cup {NoUser}],
         assertion' \in [Starts -> Assertion \cup {NoAssertion}],
         failures' \in 0..MaxFailures
  PROVE  PageStep(p, embed)
  BY DEF PageStep, PageInvs, LoginTypeOK, OnlyPage

LEMMA Silent ==
  ASSUME LoginTypeOK, UNCHANGED inbox, NEW p, NEW embed
  PROVE  inbox' \in [Starts -> Seq(MessageTypes)] /\ Says(p, embed)
  BY DEF LoginTypeOK, Says

LEMMA OpenPageStep ==
  ASSUME PageInvs, NEW p \in Pages, NEW embed \in BOOLEAN, NEW prompt,
         OpenPage(p, embed, prompt), failures' \in 0..MaxFailures
  PROVE  PageStep(p, embed)
  <1> USE DEF PageInvs
  <1> DEFINE n == p[1]
             token == IF txn[n] = "none" THEN csrf[n] + 1 ELSE csrf[n]
             user == UserOf(fedCookie[p[2]])
             opened == [view |-> IF user = NoUser THEN "signIn" ELSE "continue",
                        shown |-> user, auto |-> user # NoUser /\ prompt = "auto",
                        csrf |-> token]
  <1>1. n \in Starts /\ p[2] \in Browsers /\ token \in Nat
        /\ user \in Users \cup {NoUser}
    BY PageParts DEF LoginTypeOK, UserOf, Session
  <1>2. opened \in Page
    <2>1. (user # NoUser /\ prompt = "auto") \in BOOLEAN
          /\ (IF user = NoUser THEN "signIn" ELSE "continue") \in Views
      BY DEF Views
    <2> HIDE DEF user, token
    <2> QED
      BY <1>1, <2>1, Zenon DEF Page
  <1>3. /\ txn' \in [Starts -> {"none", "PENDING", "COMPLETED"}]
        /\ csrf' \in [Starts -> Nat]
        /\ UsedStays
        /\ UNCHANGED <<alive, sessionUser, assertion, fedCookie>>
    <2>1. CASE txn[n] = "COMPLETED"
      BY <2>1, SameIdentity DEF OpenPage, LoginTypeOK
    <2>2. CASE txn[n] # "COMPLETED"
      <3>1. /\ txn' = [txn EXCEPT ![n] = "PENDING"]
            /\ csrf' = [csrf EXCEPT ![n] = token]
            /\ UNCHANGED <<alive, sessionUser, assertion, fedCookie>>
        BY <2>2 DEF OpenPage
      <3> HIDE DEF token
      <3> QED
        BY <1>1, <2>2, <3>1 DEF LoginTypeOK, UsedStays, UsedBy
    <2> QED
      BY <2>1, <2>2
  <1>4. /\ page' \in [Pages -> Page] /\ \A q \in Pages \ {p} : page'[q] = page[q]
        /\ inbox' \in [Starts -> Seq(MessageTypes)] /\ Says(p, embed)
    <2>1. CASE txn[n] = "COMPLETED"
      <3>1. page' = [page EXCEPT ![p] = ErrorPage] /\ Tells(p, embed, "EXPIRED")
        BY <2>1 DEF OpenPage, ReportUsed
      <3>2. ErrorPage \in Page
        BY DEF ErrorPage, NoPage, Page, Views
      <3>3. inbox' \in [Starts -> Seq(MessageTypes)] /\ Says(p, embed)
        BY <3>1, TellsEffect DEF MessageTypes
      <3> QED
        BY <3>1, <3>2, <3>3 DEF LoginTypeOK
    <2>2. CASE txn[n] # "COMPLETED"
      <3>1. page' = [page EXCEPT ![p] = opened] /\ UNCHANGED inbox
        BY <2>2 DEF OpenPage
      <3> HIDE DEF opened
      <3> QED
        BY <1>2, <3>1, Silent DEF LoginTypeOK
    <2> QED
      BY <2>1, <2>2
  <1>5. call' = [call EXCEPT ![p] = Abandoned(@)]
    BY DEF OpenPage
  <1>6. /\ call' \in [Pages -> [Kinds -> Call]] /\ CallInv'
        /\ \A q \in Pages \ {p} : call'[q] = call[q]
    BY <1>3, <1>5, AbandonEffect
  <1> QED
    BY <1>3, <1>4, <1>6, PageSteps DEF LoginTypeOK

LEMMA OpenRefusedStep ==
  ASSUME PageInvs, NEW p \in Pages, NEW embed \in BOOLEAN, OpenRefused(p),
         failures' \in 0..MaxFailures
  PROVE  PageStep(p, embed)
  <1> USE DEF PageInvs
  <1>1. UsedStays /\ UNCHANGED <<txn, csrf, alive, sessionUser, assertion, fedCookie, inbox>>
    BY SameIdentity DEF OpenRefused, identity
  <1>2. ErrorPage \in Page
    BY DEF ErrorPage, NoPage, Page, Views
  <1>3. /\ page' \in [Pages -> Page] /\ \A q \in Pages \ {p} : page'[q] = page[q]
    BY <1>2 DEF OpenRefused, LoginTypeOK
  <1>4. call' = [call EXCEPT ![p] = Abandoned(@)]
    BY DEF OpenRefused
  <1>5. /\ call' \in [Pages -> [Kinds -> Call]] /\ CallInv'
        /\ \A q \in Pages \ {p} : call'[q] = call[q]
    BY <1>1, <1>4, AbandonEffect
  <1> QED
    BY <1>1, <1>3, <1>5, Silent, PageSteps DEF LoginTypeOK

LEMMA AskingStep ==
  ASSUME PageInvs, NEW p \in Pages, NEW embed \in BOOLEAN,
         Submit(p) \/ Continue(p) \/ SwitchAccount(p), failures' \in 0..MaxFailures
  PROVE  PageStep(p, embed)
  <1> USE DEF PageInvs
  <1>1. UsedStays /\ UNCHANGED <<txn, csrf, alive, sessionUser, assertion, fedCookie, inbox>>
    BY SameIdentity DEF Submit, Continue, SwitchAccount, identity
  <1>2. /\ page' \in [Pages -> Page] /\ \A q \in Pages \ {p} : page'[q] = page[q]
    <2>1. CASE Submit(p)
      BY <2>1, ShowsEffect DEF Submit, Views
    <2>2. CASE Continue(p)
      <3>1. page[p] \in Page
        BY DEF LoginTypeOK
      <3>2. [page[p] EXCEPT !.view = "continuing", !.auto = FALSE] \in Page
        BY <3>1 DEF Page, Views
      <3> QED
        BY <2>2, <3>2 DEF Continue, LoginTypeOK
    <2>3. CASE SwitchAccount(p)
      BY <2>3 DEF SwitchAccount, LoginTypeOK
    <2> QED
      BY <2>1, <2>2, <2>3
  <1>3. /\ call' \in [Pages -> [Kinds -> Call]] /\ CallInv'
        /\ \A q \in Pages \ {p} : call'[q] = call[q]
    BY <1>1, SendEffect DEF Submit, Continue, SwitchAccount, Kinds
  <1> QED
    BY <1>1, <1>2, <1>3, Silent, PageSteps DEF LoginTypeOK

LEMMA AskTopLevelStep ==
  ASSUME PageInvs, NEW p \in Pages, AskTopLevel(p), failures' \in 0..MaxFailures
  PROVE  PageStep(p, TRUE)
  <1> USE DEF PageInvs
  <1>1. UsedStays /\ UNCHANGED <<txn, csrf, alive, sessionUser, assertion, fedCookie, page, call>>
    BY SameIdentity DEF AskTopLevel, identity
  <1>2. inbox' \in [Starts -> Seq(MessageTypes)] /\ Says(p, TRUE)
    BY TellsEffect DEF AskTopLevel, MessageTypes
  <1>3. CallInv'
    BY <1>1, CallsStay DEF CallInv
  <1> QED
    BY <1>1, <1>2, <1>3, PageSteps DEF LoginTypeOK

(* Whoever completes a pending transaction uses it.                        *)
LEMMA Completes ==
  ASSUME LoginTypeOK, NEW p \in Pages, NEW user \in Users, NEW sid \in Starts,
         txn[p[1]] = "PENDING", txn' = [txn EXCEPT ![p[1]] = "COMPLETED"],
         Issue(p, user, sid)
  PROVE  /\ txn' \in [Starts -> {"none", "PENDING", "COMPLETED"}]
         /\ assertion' \in [Starts -> Assertion \cup {NoAssertion}]
         /\ UsedStays /\ UsedBy(p[1], p[2])'
  <1>1. p[1] \in Starts /\ p[2] \in Browsers
    BY PageParts
  <1>2. [user |-> user, sid |-> sid, by |-> p[2]] \in Assertion
    BY <1>1 DEF Assertion
  <1>3. /\ assertion' \in [Starts -> Assertion \cup {NoAssertion}]
        /\ assertion'[p[1]] = [user |-> user, sid |-> sid, by |-> p[2]]
        /\ \A n \in Starts \ {p[1]} : assertion'[n] = assertion[n]
    BY <1>1, <1>2 DEF Issue, LoginTypeOK
  <1>4. /\ txn' \in [Starts -> {"none", "PENDING", "COMPLETED"}]
        /\ txn'[p[1]] = "COMPLETED" /\ \A n \in Starts \ {p[1]} : txn'[n] = txn[n]
    BY <1>1 DEF LoginTypeOK
  <1> QED
    BY <1>3, <1>4 DEF UsedStays, UsedBy

LEMMA CheckReplies ==
  ASSUME NEW n, NEW c, Checks(n, c) # "ok"
  PROVE  Checks(n, c) \in Replies /\ Checks(n, c) # "delivery"
  BY DEF Checks, Replies

(* A call of p is served, and delivers what it has used.                   *)
Served(p) ==
  /\ txn' \in [Starts -> {"none", "PENDING", "COMPLETED"}]
  /\ alive' \subseteq Starts
  /\ sessionUser' \in [Starts -> Users \cup {NoUser}]
  /\ assertion' \in [Starts -> Assertion \cup {NoAssertion}]
  /\ UsedStays
  /\ \E k \in Kinds, reply \in Replies, sid \in Session :
       Answer(p, k, reply, sid) /\ (reply = "delivery" => UsedBy(p[1], p[2])')

LEMMA ServeStep ==
  ASSUME PageInvs, NEW p \in Pages, NEW embed \in BOOLEAN,
         \/ \E u \in Users : ServeLogin(p, u)
         \/ ServeContinue(p) \/ ServeLogout(p)
         \/ \E k \in Kinds : ServeRefused(p, k),
         failures' \in 0..MaxFailures
  PROVE  PageStep(p, embed)
  <1> USE DEF PageInvs, Served
  <1> DEFINE n == p[1]
  <1>1. UNCHANGED <<csrf, fedCookie, page, inbox>>
    BY DEF ServeLogin, ServeContinue, ServeLogout, ServeRefused, identity
  <1>2. n \in Starts /\ \A k \in Kinds : call[p][k].sid \in Session
    BY PageParts DEF LoginTypeOK, Call
  <1>3. SUFFICES Served(p)
    <2>1. /\ call' \in [Pages -> [Kinds -> Call]] /\ CallInv'
          /\ \A q \in Pages \ {p} : call'[q] = call[q]
      BY <1>3, AnswerEffect
    <2> QED
      BY <1>1, <1>3, <2>1, Silent, PageSteps DEF LoginTypeOK
  <1>4. ASSUME UNCHANGED <<txn, sessionUser, assertion>>, alive' \subseteq alive,
               NEW k \in Kinds, NEW reply \in Replies \ {"delivery"}, NEW sid \in Session,
               Answer(p, k, reply, sid)
        PROVE  Served(p)
    BY <1>4, SameIdentity DEF LoginTypeOK
  <1>5. ASSUME NEW u \in Users, ServeLogin(p, u)
        PROVE  Served(p)
    <2>1. "login" \in Kinds
      BY DEF Kinds
    <2>2. CASE Checks(n, call[p]["login"]) # "ok"
      <3>1. Answer(p, "login", Checks(n, call[p]["login"]), call[p]["login"].sid)
            /\ UNCHANGED identity
        BY <1>5, <2>2 DEF ServeLogin
      <3> QED
        BY <1>2, <1>4, <2>1, <2>2, <3>1, CheckReplies DEF identity
    <2>3. CASE Checks(n, call[p]["login"]) = "ok"
      <3>1. /\ txn' = [txn EXCEPT ![n] = "COMPLETED"]
            /\ alive' = (alive \ {call[p]["login"].sid}) \cup {n}
            /\ sessionUser' = [sessionUser EXCEPT ![n] = u]
            /\ Issue(p, u, n) /\ Answer(p, "login", "delivery", n)
        BY <1>5, <2>3 DEF ServeLogin
      <3>2. txn[n] = "PENDING"
        BY <1>2, <2>3 DEF Checks, LoginTypeOK
      <3>3. "delivery" \in Replies /\ n \in Session
        BY <1>2 DEF Replies, Session
      <3> QED
        BY <1>2, <2>1, <3>1, <3>2, <3>3, Completes DEF LoginTypeOK
    <2> QED
      BY <2>2, <2>3
  <1>6. ASSUME ServeContinue(p)
        PROVE  Served(p)
    <2> DEFINE c == call[p]["continue"]
               user == UserOf(c.sid)
    <2>1. "continue" \in Kinds /\ c.sid \in Session
      BY <1>2 DEF Kinds
    <2>2. CASE Checks(n, c) # "ok"
      <3>1. Answer(p, "continue", Checks(n, c), c.sid) /\ UNCHANGED identity
        BY <1>6, <2>2 DEF ServeContinue
      <3> HIDE DEF c
      <3> QED
        BY <1>4, <2>1, <2>2, <3>1, CheckReplies DEF identity
    <2>3. CASE Checks(n, c) = "ok" /\ user = NoUser
      <3>1. Answer(p, "continue", "session", 0) /\ UNCHANGED identity
        BY <1>6, <2>3 DEF ServeContinue
      <3>2. "session" \in Replies \ {"delivery"} /\ 0 \in Session
        BY DEF Replies, Session
      <3> QED
        BY <1>4, <2>1, <3>1, <3>2 DEF identity
    <2>4. CASE Checks(n, c) = "ok" /\ user # NoUser
      <3>1. /\ txn' = [txn EXCEPT ![n] = "COMPLETED"]
            /\ Issue(p, user, c.sid) /\ Answer(p, "continue", "delivery", c.sid)
            /\ UNCHANGED <<csrf, alive, sessionUser>>
        BY <1>6, <2>4 DEF ServeContinue
      <3>2. txn[n] = "PENDING"
        BY <1>2, <2>4 DEF Checks, LoginTypeOK
      <3>3. c.sid \in Starts /\ user \in Users
        BY <2>1, <2>4 DEF UserOf, Session, LoginTypeOK
      <3>4. "delivery" \in Replies
        BY DEF Replies
      <3> HIDE DEF c, user
      <3> QED
        BY <2>1, <3>1, <3>2, <3>3, <3>4, Completes DEF LoginTypeOK
    <2> QED
      BY <2>2, <2>3, <2>4
  <1>7. ASSUME ServeLogout(p)
        PROVE  \E k \in Kinds, reply \in Replies \ {"delivery"}, sid \in Session :
                 /\ Answer(p, k, reply, sid)
                 /\ UNCHANGED <<txn, sessionUser, assertion>> /\ alive' \subseteq alive
    <2>1. "logout" \in Kinds /\ {"refused", "loggedOut"} \subseteq Replies \ {"delivery"}
          /\ 0 \in Session
      BY DEF Kinds, Replies, Session
    <2>2. \/ Answer(p, "logout", "refused", call[p]["logout"].sid) /\ UNCHANGED alive
          \/ Answer(p, "logout", "loggedOut", 0) /\ alive' \subseteq alive
      BY <1>7 DEF ServeLogout
    <2>3. UNCHANGED <<txn, sessionUser, assertion>>
      BY <1>7 DEF ServeLogout
    <2> QED
      BY <1>2, <2>1, <2>2, <2>3
  <1>8. ASSUME NEW k \in Kinds, ServeRefused(p, k)
        PROVE  \E reply \in Replies \ {"delivery"}, sid \in Session :
                 /\ Answer(p, k, reply, sid)
                 /\ UNCHANGED <<txn, sessionUser, assertion>> /\ alive' \subseteq alive
    <2>1. "refused" \in Replies \ {"delivery"}
      BY DEF Replies
    <2> QED
      BY <1>2, <1>8, <2>1 DEF ServeRefused, identity
  <1> QED
    BY <1>4, <1>5, <1>6, <1>7, <1>8

LEMMA CookieEffect ==
  ASSUME LoginTypeOK, NEW p \in Pages, NEW k \in Kinds,
         fedCookie' \in {fedCookie, CookieAfter(p, k)}
  PROVE  fedCookie' \in [Browsers -> Session]
  <1>1. p[2] \in Browsers /\ call[p][k].sid \in Session
    BY PageParts DEF LoginTypeOK, Call
  <1>2. fedCookie' = fedCookie \/ fedCookie' = [fedCookie EXCEPT ![p[2]] = call[p][k].sid]
    BY DEF CookieAfter
  <1> QED
    BY <1>1, <1>2 DEF LoginTypeOK

LEMMA ReactEffect ==
  ASSUME LoginTypeOK, NEW p \in Pages, NEW k \in Kinds, NEW reply \in Replies,
         NEW embed \in BOOLEAN, React(p, k, reply, embed),
         reply = "delivery" => UsedBy(p[1], p[2])
  PROVE  /\ page' \in [Pages -> Page] /\ \A q \in Pages \ {p} : page'[q] = page[q]
         /\ inbox' \in [Starts -> Seq(MessageTypes)] /\ Says(p, embed)
  <1>1. CASE SignInForm(p) /\ UNCHANGED inbox
    BY <1>1, SignInFormEffect, Silent
  <1>2. CASE k # "logout" /\ reply = "delivery"
    <2>1. Shows(p, "success") /\ Tells(p, embed, "SUCCESS")
      BY <1>2 DEF React, Deliver
    <2> QED
      BY <1>2, <2>1, ShowsEffect, TellsEffect DEF Views, MessageTypes
  <1>3. CASE k # "logout" /\ reply = "transaction"
    <2>1. Shows(p, "expired") /\ Tells(p, embed, "EXPIRED")
      BY <1>3 DEF React, ShowExpired
    <2> QED
      BY <2>1, ShowsEffect, TellsEffect DEF Views, MessageTypes
  <1>4. CASE k # "logout" /\ reply \notin {"delivery", "transaction", "session"}
    <2>1. ShowAgain(p, k) /\ UNCHANGED inbox
      BY <1>4 DEF React
    <2>2. Shows(p, "signIn") \/ Shows(p, "continue") \/ UNCHANGED page
      BY <1>4, <2>1 DEF ShowAgain, Kinds
    <2> QED
      BY <2>1, <2>2, ShowsEffect, Silent DEF Views, LoginTypeOK
  <1> QED
    BY <1>1, <1>2, <1>3, <1>4 DEF React

LEMMA ReceiveStep ==
  ASSUME PageInvs, NEW p \in Pages, NEW k \in Kinds, NEW embed \in BOOLEAN,
         Receive(p, k, embed) \/ LoseCall(p, k, embed), failures' \in 0..MaxFailures
  PROVE  PageStep(p, embed)
  <1> USE DEF PageInvs
  <1>1. /\ UsedStays /\ Ends(p, k)
        /\ UNCHANGED <<txn, csrf, alive, sessionUser, assertion>>
    BY SameIdentity DEF Receive, LoseCall, identity
  <1>2. fedCookie' \in [Browsers -> Session]
    BY CookieEffect DEF Receive, LoseCall
  <1>3. PICK reply \in Replies : /\ React(p, k, reply, embed)
                                 /\ reply = "delivery" => UsedBy(p[1], p[2])
    <2>1. CASE Receive(p, k, embed)
      <3>1. call[p][k].reply \in Replies
        BY DEF LoginTypeOK, Call
      <3> QED
        BY <2>1, <3>1 DEF Receive, CallInv
    <2>2. CASE LoseCall(p, k, embed)
      BY <2>2 DEF LoseCall, Replies
    <2> QED
      BY <2>1, <2>2
  <1>4. /\ page' \in [Pages -> Page] /\ \A q \in Pages \ {p} : page'[q] = page[q]
        /\ inbox' \in [Starts -> Seq(MessageTypes)] /\ Says(p, embed)
    BY <1>3, ReactEffect
  <1>5. /\ call' \in [Pages -> [Kinds -> Call]] /\ CallInv'
        /\ \A q \in Pages \ {p} : call'[q] = call[q]
    BY <1>1, EndsEffect
  <1> QED
    BY <1>1, <1>2, <1>4, <1>5, PageSteps DEF LoginTypeOK

LEMMA LateStep ==
  ASSUME PageInvs, NEW p \in Pages, NEW k \in Kinds, NEW embed \in BOOLEAN,
         GarbleDelivery(p, k) \/ ReceiveNowhere(p, k), failures' \in 0..MaxFailures
  PROVE  PageStep(p, embed)
  <1> USE DEF PageInvs
  <1>1. /\ UsedStays /\ Ends(p, k)
        /\ UNCHANGED <<txn, csrf, alive, sessionUser, assertion, inbox>>
    BY SameIdentity DEF GarbleDelivery, ReceiveNowhere, identity
  <1>2. fedCookie' \in [Browsers -> Session]
    BY CookieEffect DEF GarbleDelivery, ReceiveNowhere
  <1>3. /\ page' \in [Pages -> Page] /\ \A q \in Pages \ {p} : page'[q] = page[q]
    BY ShowsEffect DEF GarbleDelivery, ReceiveNowhere, Views, LoginTypeOK
  <1>4. /\ call' \in [Pages -> [Kinds -> Call]] /\ CallInv'
        /\ \A q \in Pages \ {p} : call'[q] = call[q]
    BY <1>1, EndsEffect
  <1> QED
    BY <1>1, <1>2, <1>3, <1>4, Silent, PageSteps DEF LoginTypeOK

(* Steps that leave the pages as they are.                                 *)
LEMMA EndStep ==
  ASSUME PageInvs, NEW n \in Starts,
         ExpireTransaction(n) \/ EndSession(n) \/ UNCHANGED <<identity, pages>>,
         failures' \in 0..MaxFailures
  PROVE  PageInvs' /\ UsedStays /\ UNCHANGED <<page, call, inbox>>
  <1> USE DEF PageInvs, identity, pages
  <1>1. UNCHANGED <<csrf, sessionUser, assertion, fedCookie, page, call, inbox>>
    BY DEF ExpireTransaction, EndSession
  <1>2. /\ UsedStays /\ alive' \subseteq Starts
        /\ txn' \in [Starts -> {"none", "PENDING", "COMPLETED"}]
    BY DEF ExpireTransaction, EndSession, UsedStays, UsedBy, LoginTypeOK
  <1>3. CallInv'
    BY <1>1, <1>2, CallsStay DEF CallInv
  <1> QED
    BY <1>1, <1>2, <1>3 DEF LoginTypeOK

(* Pages leave the screen.                                                 *)
LEMMA FollowEffect ==
  ASSUME PageInvs, NEW said \in [Starts -> Seq(MessageTypes)], PagesFollow(said),
         failures' \in 0..MaxFailures
  PROVE  /\ PageInvs' /\ UsedStays
         /\ \A p \in Pages : Alive(p)' => Alive(p)
         /\ \A n \in Starts : inbox'[n] = << >> \/ inbox'[n] = said[n]
  <1> USE DEF PageInvs
  <1> DEFINE gone == OnScreen(tab) \ OnScreen(tab')
  <1>1. UsedStays /\ UNCHANGED <<txn, csrf, alive, sessionUser, assertion, fedCookie>>
    BY SameIdentity DEF PagesFollow, identity
  <1>2. /\ page' = [p \in Pages |-> IF p \in gone THEN NoPage ELSE page[p]]
        /\ call' = [p \in Pages |-> IF p \in gone THEN Abandoned(call[p]) ELSE call[p]]
        /\ inbox' = [n \in Starts |-> IF \E p \in gone : p[1] = n THEN << >> ELSE said[n]]
    BY DEF PagesFollow
  <1> HIDE DEF gone
  <1>3. page' \in [Pages -> Page] /\ \A p \in Pages : page'[p] = page[p] \/ page'[p].view = "none"
    <2>1. NoPage \in Page /\ NoPage.view = "none"
      BY DEF NoPage, Page, Views
    <2> QED
      BY <1>2, <2>1 DEF LoginTypeOK
  <1>4. /\ call' \in [Pages -> [Kinds -> Call]]
        /\ \A p \in Pages, k \in Kinds :
             /\ call'[p][k].at = call[p][k].at
             /\ call'[p][k].reply \in {call[p][k].reply, ""}
    BY <1>2, AllAbandoned DEF LoginTypeOK
  <1>5. /\ inbox' \in [Starts -> Seq(MessageTypes)]
        /\ \A n \in Starts : inbox'[n] = << >> \/ inbox'[n] = said[n]
    <2>1. << >> \in Seq(MessageTypes)
      OBVIOUS
    <2> QED
      BY <1>2, <2>1
  <1>6. CallInv'
    <2>1. ASSUME NEW p \in Pages, NEW k \in Kinds, call'[p][k].reply = "delivery"
          PROVE  call[p][k].reply = "delivery" /\ call'[p][k].at # "none"
      BY <1>4, <2>1 DEF CallInv
    <2> QED
      BY <1>1, <2>1, CallsStay
  <1>7. \A p \in Pages : Alive(p)' => Alive(p)
    BY <1>3, <1>4 DEF Alive
  <1> QED
    BY <1>1, <1>3, <1>4, <1>5, <1>6, <1>7 DEF LoginTypeOK

-----------------------------------------------------------------------------
(* The two together.                                                       *)
LEMMA FrameStays ==
  ASSUME FrameInv, Grown,
         \A p \in Pages :
           Alive(p)' => \/ Alive(p)
                        \/ Known(p[1]) /\ (Framed(p) => BrowserOf(p[1]) = p[2])
  PROVE  FrameInv'
  <1> SUFFICES ASSUME NEW p \in Pages, Alive(p)'
               PROVE  Known(p[1])' /\ (Framed(p)' => BrowserOf(p[1])' = p[2])
    BY DEF FrameInv
  <1>1. Known(p[1]) /\ (Framed(p) => BrowserOf(p[1]) = p[2])
    BY DEF FrameInv
  <1>2. p[1] \in Starts
    BY PageParts
  <1> QED
    BY <1>1, <1>2, KnownStays DEF Grown, Framed

LEMMA InboxOfPage ==
  ASSUME LoginTypeOK, InboxInv, Grown, UsedStays, NEW p \in Pages, Says(p, Framed(p)),
         Known(p[1]), Framed(p) => BrowserOf(p[1]) = p[2],
         start \in [Starts -> Start]
  PROVE  InboxInv'
  <1> SUFFICES ASSUME NEW n \in Starts, NEW i \in Nat, i \in DOMAIN inbox'[n],
                      inbox'[n][i] = "SUCCESS"
               PROVE  Known(n)' /\ UsedBy(n, BrowserOf(n))'
    BY DEF InboxInv
  <1>1. Known(n) /\ UsedBy(n, BrowserOf(n)) /\ BrowserOf(n) \in Browsers
    <2>1. inbox[n] \in Seq(MessageTypes) /\ p[2] \in Browsers
      BY PageParts DEF LoginTypeOK
    <2>2. CASE i \in DOMAIN inbox[n] /\ inbox[n][i] = "SUCCESS"
      BY <2>2, TabBrowserAssumption DEF InboxInv, BrowserOf, Start
    <2>3. CASE ~(i \in DOMAIN inbox[n] /\ inbox[n][i] = "SUCCESS")
      <3>1. PICK m \in MessageTypes :
              /\ n = p[1] /\ inbox'[n] = Append(inbox[n], m)
              /\ m = "SUCCESS" => Framed(p) /\ UsedBy(p[1], p[2])
        BY <2>3 DEF Says
      <3>2. m = "SUCCESS"
        BY <2>1, <2>3, <3>1
      <3> QED
        BY <2>1, <3>1, <3>2
    <2> QED
      BY <2>2, <2>3
  <1>2. Known(n)' /\ BrowserOf(n)' = BrowserOf(n)
    BY <1>1, KnownStays
  <1>3. txn'[n] = "COMPLETED" /\ assertion'[n].by = BrowserOf(n)
    BY <1>1 DEF UsedStays, UsedBy
  <1> QED
    BY <1>2, <1>3 DEF UsedBy

(* Messages are heard, or nobody hears them any more.                      *)
Fewer(old, new) ==
  new = old \/ new = << >> \/ (old # << >> /\ new = Tail(old))

LEMMA InboxStays ==
  ASSUME LoginTypeOK, InboxInv, Grown, UsedStays, start \in [Starts -> Start],
         \A n \in Starts : Fewer(inbox[n], inbox'[n])
  PROVE  InboxInv'
  <1> SUFFICES ASSUME NEW n \in Starts, NEW i \in Nat, i \in DOMAIN inbox'[n],
                      inbox'[n][i] = "SUCCESS"
               PROVE  Known(n)' /\ UsedBy(n, BrowserOf(n))'
    BY DEF InboxInv
  <1>1. Known(n) /\ UsedBy(n, BrowserOf(n))
    <2>1. inbox[n] \in Seq(MessageTypes)
      BY DEF LoginTypeOK
    <2>2. CASE inbox'[n] = inbox[n]
      BY <2>2 DEF InboxInv
    <2>3. CASE inbox'[n] = << >>
      BY <2>3
    <2>4. CASE inbox[n] # << >> /\ inbox'[n] = Tail(inbox[n])
      <3>1. i + 1 \in DOMAIN inbox[n] /\ inbox[n][i + 1] = "SUCCESS" /\ i + 1 \in Nat
        BY <2>1, <2>4
      <3> QED
        BY <3>1 DEF InboxInv
    <2> QED
      BY <2>2, <2>3, <2>4 DEF Fewer
  <1>2. BrowserOf(n) \in Browsers
    BY TabBrowserAssumption DEF BrowserOf, Start
  <1>3. Known(n)' /\ BrowserOf(n)' = BrowserOf(n)
    BY <1>1, KnownStays
  <1>4. txn'[n] = "COMPLETED" /\ assertion'[n].by = BrowserOf(n)
    BY <1>1, <1>2 DEF UsedStays, UsedBy
  <1> QED
    BY <1>3, <1>4 DEF UsedBy

LEMMA PostsStay ==
  ASSUME PostInv, UsedStays,
         \A x \in Posts :
           post'[x].pc # "none" \/ x \in local' =>
             post[x].pc # "none" \/ x \in local \/ UsedBy(x[1], x[2])
  PROVE  PostInv'
  <1> SUFFICES ASSUME NEW x \in Posts, post'[x].pc # "none" \/ x \in local'
               PROVE  UsedBy(x[1], x[2])'
    BY DEF PostInv
  <1>1. UsedBy(x[1], x[2]) /\ x[1] \in Starts /\ x[2] \in Browsers
    BY DEF PostInv, Posts
  <1> QED
    BY <1>1 DEF UsedStays

LEMMA FailuresType ==
  ASSUME LoginTypeOK, Calm \/ \E kind \in {"refused", "lost", "expired", "again", "topLevel",
                                          "wandering"} : Disturb(kind)
  PROVE  failures' \in 0..MaxFailures
  BY FailuresAssumption DEF LoginTypeOK, Calm, Disturb

(* A step of the login page alone.                                         *)
LEMMA PageAlone ==
  ASSUME IInv, NEW p \in Pages, PageStep(p, Framed(p)), Unmoved,
         Known(p[1]), Framed(p) => BrowserOf(p[1]) = p[2]
  PROVE  IInv'
  <1>1. AppInv' /\ Grown
    BY UnmovedKeeps DEF IInv, Unmoved
  <1>2. PageInvs' /\ UsedStays /\ OnlyPage(p) /\ Says(p, Framed(p))
    BY DEF PageStep
  <1>3. FrameInv'
    <2>1. \A q \in Pages \ {p} : Alive(q)' <=> Alive(q)
      BY <1>2 DEF OnlyPage, Alive
    <2> QED
      BY <1>1, <2>1, FrameStays DEF IInv
  <1>4. InboxInv'
    BY <1>1, <1>2, InboxOfPage DEF IInv, PageInvs, AppInv, AppTypeOK
  <1>5. PostInv'
    BY <1>2, PostsStay DEF IInv, Unmoved, appVars, backend
  <1> QED
    BY <1>1, <1>2, <1>3, <1>4, <1>5 DEF IInv

(* A step of the application alone.                                        *)
LEMMA ApplicationAlone ==
  ASSUME IInv, AppInv', Grown, UNCHANGED loginVars, failures' \in 0..MaxFailures,
         \A x \in Posts :
           post'[x].pc # "none" \/ x \in local' =>
             post[x].pc # "none" \/ x \in local \/ UsedBy(x[1], x[2])
  PROVE  IInv'
  <1>1. PageInvs' /\ UsedStays /\ UNCHANGED <<page, call, inbox>>
    <2>1. UNCHANGED <<txn, csrf, alive, sessionUser, assertion, fedCookie, page, call, inbox>>
      BY DEF loginVars, identity, pages
    <2>2. UsedStays
      BY <2>1, SameIdentity
    <2>3. CallInv'
      BY <2>1, <2>2, CallsStay DEF IInv, PageInvs, CallInv
    <2> QED
      BY <2>1, <2>2, <2>3 DEF IInv, PageInvs, LoginTypeOK
  <1>2. FrameInv'
    BY <1>1, FrameStays DEF IInv, Alive
  <1>3. InboxInv'
    <2>1. LoginTypeOK /\ start \in [Starts -> Start] /\ InboxInv
      BY DEF IInv, PageInvs, AppInv, AppTypeOK
    <2>2. \A n \in Starts : Fewer(inbox[n], inbox'[n])
      BY <1>1 DEF Fewer
    <2> QED
      BY <1>1, <2>1, <2>2, InboxStays
  <1>4. PostInv'
    BY <1>1, PostsStay DEF IInv
  <1> QED
    BY <1>1, <1>2, <1>3, <1>4 DEF IInv

(* Messages are heard, if any are.                                         *)
Heard(said) ==
  /\ said \in [Starts -> Seq(MessageTypes)]
  /\ \A n \in Starts : Fewer(inbox[n], said[n])

(* A post is made by the browser of the transaction's user.                *)
PostsAreOfUsers ==
  \A x \in Posts :
    post'[x].pc # "none" \/ x \in local' =>
      post[x].pc # "none" \/ x \in local \/ UsedBy(x[1], x[2])

LEMMA NothingHeard ==
  ASSUME LoginTypeOK
  PROVE  Heard(inbox)
  BY DEF LoginTypeOK, Heard, Fewer

(* A step of the application after which pages leave the screen.           *)
LEMMA PagesLeave ==
  ASSUME IInv, AppInv', Grown, NEW said, Heard(said), PagesFollow(said),
         failures' \in 0..MaxFailures, PostsAreOfUsers
  PROVE  IInv'
  <1>1. /\ PageInvs' /\ UsedStays
        /\ \A p \in Pages : Alive(p)' => Alive(p)
        /\ \A n \in Starts : inbox'[n] = << >> \/ inbox'[n] = said[n]
    BY FollowEffect DEF IInv, Heard
  <1>2. FrameInv'
    BY <1>1, FrameStays DEF IInv
  <1>3. InboxInv'
    <2>1. LoginTypeOK /\ start \in [Starts -> Start] /\ InboxInv
      BY DEF IInv, PageInvs, AppInv, AppTypeOK
    <2>2. \A n \in Starts : Fewer(inbox[n], inbox'[n])
      BY <1>1, Zenon DEF Heard, Fewer
    <2> QED
      BY <1>1, <2>1, <2>2, InboxStays
  <1>4. PostInv'
    BY <1>1, PostsStay DEF IInv, PostsAreOfUsers
  <1> QED
    BY <1>1, <1>2, <1>3, <1>4 DEF IInv

(* A step that leaves the pages as they are.                               *)
LEMMA LeavesPages ==
  ASSUME IInv, AppInv', Grown, PageInvs', UsedStays, UNCHANGED <<page, call, inbox>>,
         local' \subseteq local, UNCHANGED post
  PROVE  IInv'
  <1>1. FrameInv'
    BY FrameStays DEF IInv, Alive
  <1>2. InboxInv'
    <2>1. LoginTypeOK /\ start \in [Starts -> Start] /\ InboxInv
      BY DEF IInv, PageInvs, AppInv, AppTypeOK
    <2>2. \A n \in Starts : Fewer(inbox[n], inbox'[n])
      BY DEF Fewer
    <2> QED
      BY <2>1, <2>2, InboxStays
  <1>3. PostInv'
    BY PostsStay DEF IInv
  <1> QED
    BY <1>1, <1>2, <1>3 DEF IInv

-----------------------------------------------------------------------------
(* The steps of the login page.                                            *)
LEMMA FailuresStay ==
  ASSUME IInv, [Next]_vars
  PROVE  failures' \in 0..MaxFailures
  <1>1. LoginTypeOK
    BY DEF IInv, PageInvs
  <1>2. Calm \/ \E kind \in {"refused", "lost", "expired", "again", "topLevel",
                             "wandering"} : Disturb(kind)
    BY DEF Next, vars, Calm, Open, HearMessage, LoadTab, SignOutHere, LeaveEverywhere,
       FederationLogout, ReturnToApp, OpenAnew, SignIn, Wander, Serve, OpenAgain,
       ReceiveAnswer, ReceiveTooLate, AnswerStart, Expire, PostAgain, Callback,
       AnswerCallback
  <1> QED
    BY <1>1, <1>2, FailuresType

LEMMA ScreenIsKnown ==
  ASSUME IInv, NEW t \in Tabs, tab[t].frame # 0
  PROVE  /\ Here(t) \in Pages /\ Known(Here(t)[1]) /\ BrowserOf(Here(t)[1]) = Here(t)[2]
  <1>1. tab[t].frame \in Starts /\ TabBrowser[t] \in Browsers
    BY TabBrowserAssumption DEF IInv, AppInv, AppTypeOK, Tab
  <1> QED
    BY <1>1 DEF Here, Pages, IInv, AppInv, TabInv, BrowserOf

LEMMA OpenKeeps ==
  ASSUME IInv, failures' \in 0..MaxFailures, NEW t \in Tabs, Open(t)
  PROVE  IInv'
  <1>1. /\ Here(t) \in Pages /\ Known(Here(t)[1]) /\ BrowserOf(Here(t)[1]) = Here(t)[2]
    BY ScreenIsKnown DEF Open
  <1>2. Framed(Here(t)) \in BOOLEAN
    BY DEF Framed
  <1>3. PageStep(Here(t), Framed(Here(t)))
    BY <1>1, <1>2, OpenPageStep, OpenRefusedStep DEF Open, IInv
  <1> QED
    BY <1>1, <1>3, PageAlone DEF Open

LEMMA OpenAgainKeeps ==
  ASSUME IInv, failures' \in 0..MaxFailures, NEW p \in Pages, OpenAgain(p)
  PROVE  IInv'
  <1>1. Known(p[1]) /\ (Framed(p) => BrowserOf(p[1]) = p[2])
    <2>1. CASE p \in OnScreen(tab)
      BY <2>1, ScreenIsKnown DEF OnScreen, Here
    <2>2. CASE start[p[1]].pc = "done" /\ ~Framed(p)
      BY <2>2 DEF Known
    <2> QED
      BY <2>1, <2>2 DEF OpenAgain
  <1>2. Framed(p) \in BOOLEAN
    BY DEF Framed
  <1>3. PageStep(p, Framed(p))
    BY <1>2, OpenPageStep DEF OpenAgain, IInv
  <1> QED
    BY <1>1, <1>3, PageAlone DEF OpenAgain

(* A page with something on screen or under way.                           *)
LEMMA AliveIsKnown ==
  ASSUME IInv, NEW p \in Pages, Alive(p)
  PROVE  Known(p[1]) /\ (Framed(p) => BrowserOf(p[1]) = p[2])
  BY DEF IInv, FrameInv

LEMMA UserKeeps ==
  ASSUME IInv, failures' \in 0..MaxFailures, NEW p \in Pages, SignIn(p) \/ Wander(p)
  PROVE  IInv'
  <1>1. Alive(p)
    BY DEF SignIn, Wander, Submit, Continue, SwitchAccount, AskTopLevel, Alive
  <1>2. Framed(p) \in BOOLEAN
    BY DEF Framed
  <1>3. PageStep(p, Framed(p))
    <2>1. CASE Submit(p) \/ Continue(p) \/ SwitchAccount(p)
      BY <1>2, <2>1, AskingStep DEF IInv
    <2>2. CASE Framed(p) /\ AskTopLevel(p)
      <3>1. PageStep(p, TRUE)
        BY <2>2, AskTopLevelStep DEF IInv
      <3> QED
        BY <2>2, <3>1 DEF PageStep, Says
    <2> QED
      BY <2>1, <2>2 DEF SignIn, Wander
  <1> QED
    BY <1>1, <1>3, AliveIsKnown, PageAlone DEF SignIn, Wander

LEMMA ServeKeeps ==
  ASSUME IInv, failures' \in 0..MaxFailures, NEW p \in Pages, Serve(p)
  PROVE  IInv'
  <1>1. Alive(p)
    BY DEF Serve, ServeLogin, ServeContinue, ServeLogout, ServeRefused, Alive, Kinds
  <1>2. Framed(p) \in BOOLEAN
    BY DEF Framed
  <1>3. PageStep(p, Framed(p))
    BY <1>2, ServeStep DEF Serve, IInv
  <1> QED
    BY <1>1, <1>3, AliveIsKnown, PageAlone DEF Serve

LEMMA ReceiveTooLateKeeps ==
  ASSUME IInv, failures' \in 0..MaxFailures, NEW p \in Pages, NEW k \in Kinds,
         ReceiveTooLate(p, k)
  PROVE  IInv'
  <1>1. Alive(p)
    BY DEF ReceiveTooLate, ReceiveNowhere, Alive
  <1>2. Framed(p) \in BOOLEAN
    BY DEF Framed
  <1>3. PageStep(p, Framed(p))
    BY <1>2, LateStep DEF ReceiveTooLate, IInv
  <1> QED
    BY <1>1, <1>3, AliveIsKnown, PageAlone DEF ReceiveTooLate

LEMMA ReceiveAnswerKeeps ==
  ASSUME IInv, failures' \in 0..MaxFailures, NEW p \in Pages, NEW k \in Kinds,
         ReceiveAnswer(p, k)
  PROVE  IInv'
  <1> DEFINE x == <<p[1], p[2], 1>>
  <1>1. Alive(p)
    <2>1. call[p][k].reply = "delivery" => call[p][k].at # "none"
      BY DEF IInv, PageInvs, CallInv
    <2> QED
      BY <2>1 DEF ReceiveAnswer, Receive, LoseCall, GarbleDelivery, Alive
  <1>2. Framed(p) \in BOOLEAN
    BY DEF Framed
  <1>3. PageStep(p, Framed(p))
    BY <1>2, ReceiveStep, LateStep DEF ReceiveAnswer, IInv
  <1>4. Known(p[1]) /\ (Framed(p) => BrowserOf(p[1]) = p[2])
    BY <1>1, AliveIsKnown
  <1>5. CASE Unmoved
    BY <1>3, <1>4, <1>5, PageAlone
  <1>6. CASE /\ ~Framed(p) /\ call[p][k].reply = "delivery" /\ SendPost(x, TRUE)
             /\ UNCHANGED <<tab, start, loginCookie, sessionCookie, backend>>
    <2>1. x \in Posts /\ x[1] = p[1] /\ x[2] = p[2]
      BY PageParts DEF Posts
    <2>2. AppInv' /\ Grown
      BY <1>6, <2>1, SendPostKeeps DEF IInv
    <2>3. PageInvs' /\ UsedStays /\ OnlyPage(p) /\ Says(p, Framed(p))
      BY <1>3 DEF PageStep
    <2>4. FrameInv'
      <3>1. \A q \in Pages \ {p} : Alive(q)' <=> Alive(q)
        BY <2>3 DEF OnlyPage, Alive
      <3> QED
        BY <1>4, <2>2, <3>1, FrameStays DEF IInv
    <2>5. InboxInv'
      BY <1>4, <2>2, <2>3, InboxOfPage DEF IInv, PageInvs, AppInv, AppTypeOK
    <2>6. UsedBy(p[1], p[2])
      BY <1>6 DEF IInv, PageInvs, CallInv
    <2>7. \A y \in Posts \ {x} : post'[y] = post[y]
      BY <1>6, <2>1, SendPostEffect DEF IInv, AppInv, backend
    <2>8. PostInv'
      BY <1>6, <2>1, <2>3, <2>6, <2>7, PostsStay DEF IInv, backend
    <2> QED
      BY <2>2, <2>3, <2>4, <2>5, <2>8 DEF IInv
  <1> QED
    BY <1>5, <1>6 DEF ReceiveAnswer

-----------------------------------------------------------------------------
(* The steps of the application.                                           *)
LEMMA TabKeeps ==
  ASSUME IInv, failures' \in 0..MaxFailures, NEW t \in Tabs,
         \/ LoadTab(t) \/ SignOutHere(t) \/ LeaveEverywhere(t) \/ ReturnToApp(t)
         \/ \E auto \in BOOLEAN : OpenAnew(t, auto)
  PROVE  IInv'
  <1>1. PagesFollow(inbox) /\ Heard(inbox)
    BY NothingHeard
       DEF LoadTab, SignOutHere, LeaveEverywhere, ReturnToApp, OpenAnew, IInv, PageInvs
  <1>2. SUFFICES /\ AppInv' /\ Grown /\ local' \subseteq local
                 /\ \A x \in Posts : post'[x].pc = post[x].pc
    <2>1. PostsAreOfUsers
      BY <1>2 DEF PostsAreOfUsers
    <2> QED
      BY <1>1, <1>2, <2>1, PagesLeave
  <1>3. CASE LoadTab(t)
    BY <1>3, LoadKeeps, LoadRefusedKeeps, LoseLoadKeeps
       DEF LoadTab, Load, LoadRefused, LoseLoad, backend, IInv
  <1>4. CASE SignOutHere(t)
    BY <1>4, SignOutKeeps DEF SignOutHere, SignOut, IInv
  <1>5. CASE LeaveEverywhere(t)
    <2> DEFINE sid == SidOf(sessionCookie[TabBrowser[t]])
    <2>1. SignOutEverywhere(t, sid)
      BY <1>5 DEF LeaveEverywhere
    <2>2. sid \in Starts \cup {0}
      <3>1. \A x \in local : x[1] \in Starts
        BY DEF IInv, AppInv, AppTypeOK, Posts
      <3>2. \A n \in Starts : assertion[n].sid \in Starts \cup {0}
        BY DEF IInv, PageInvs, LoginTypeOK, Assertion, NoAssertion
      <3> QED
        BY <3>1, <3>2 DEF SidOf
    <2> HIDE DEF sid
    <2>3. AppInv' /\ Grown
      BY <2>1, <2>2, SignOutEverywhereKeeps DEF IInv
    <2>4. local' \subseteq local /\ post' = Deserted(t)
      BY <2>1 DEF SignOutEverywhere, Leave
    <2> QED
      BY <2>3, <2>4, DesertedPosts DEF IInv, AppInv
  <1>6. ASSUME NEW auto \in BOOLEAN, OpenApplication(t, auto)
        PROVE  /\ AppInv' /\ Grown /\ local' \subseteq local
               /\ \A x \in Posts : post'[x].pc = post[x].pc
    <2>1. local' = local /\ post' = Deserted(t)
      BY <1>6 DEF OpenApplication, Leave, backend
    <2> QED
      BY <1>6, <2>1, OpenApplicationKeeps, DesertedPosts DEF IInv, AppInv
  <1> QED
    BY <1>3, <1>4, <1>5, <1>6 DEF ReturnToApp, OpenAnew

LEMMA AnswerStartKeeps ==
  ASSUME IInv, failures' \in 0..MaxFailures, NEW n \in Starts, AnswerStart(n)
  PROVE  IInv'
  <1>1. PagesFollow(inbox) /\ Heard(inbox)
    BY NothingHeard DEF AnswerStart, IInv, PageInvs
  <1>2. AppInv' /\ Grown
    BY ReceiveStartKeeps, LoseStartKeeps DEF AnswerStart, IInv
  <1>3. local' = local /\ (post' = post \/ post' = Deserted(start[n].tab))
    <2>1. start[n].display \in {"embed", "page"}
      BY DEF IInv, AppInv, AppTypeOK, Start
    <2>2. CASE ReceiveStart(n) /\ start[n].place = "gone"
      BY <2>2 DEF ReceiveStart, backend
    <2>3. CASE ReceiveStart(n) /\ start[n].place # "gone" /\ start[n].display = "embed"
      BY <2>3 DEF ReceiveStart, backend
    <2>4. CASE ReceiveStart(n) /\ start[n].place # "gone" /\ start[n].display = "page"
      BY <2>4 DEF ReceiveStart, backend
    <2>5. CASE LoseStart(n)
      BY <2>5 DEF LoseStart, backend
    <2> QED
      BY <2>1, <2>2, <2>3, <2>4, <2>5 DEF AnswerStart
  <1>4. PostsAreOfUsers
    <2>1. \A x \in Posts : post'[x].pc = post[x].pc
      BY <1>3, DesertedPosts DEF IInv, AppInv
    <2> QED
      BY <1>3, <2>1 DEF PostsAreOfUsers
  <1> QED
    BY <1>1, <1>2, <1>4, PagesLeave

LEMMA AnswerCallbackKeeps ==
  ASSUME IInv, failures' \in 0..MaxFailures, NEW x \in Posts, AnswerCallback(x)
  PROVE  IInv'
  <1>1. PagesFollow(inbox) /\ Heard(inbox)
    BY NothingHeard DEF AnswerCallback, IInv, PageInvs
  <1>2. AppInv' /\ Grown
    BY ReceivePostKeeps, ReceiveRedirectKeeps, ReceivePostNowhereKeeps, LosePostKeeps
       DEF AnswerCallback, IInv
  <1>3. /\ local' = local
        /\ \/ Answered(x) /\ PostEnds(x)
           \/ post' = [post EXCEPT ![x].waiting = FALSE]
    BY DEF AnswerCallback, ReceivePost, ReceiveRedirect, ReceivePostNowhere, LosePost,
         backend
  <1>4. \A y \in Posts : post'[y].pc # "none" => post[y].pc # "none"
    <2>1. CASE Answered(x) /\ PostEnds(x)
      BY <2>1, PostEndsEffect DEF Answered, IInv, AppInv
    <2>2. CASE post' = [post EXCEPT ![x].waiting = FALSE]
      BY <2>2 DEF IInv, AppInv, AppTypeOK, Post
    <2> QED
      BY <1>3, <2>1, <2>2
  <1>5. PostsAreOfUsers
    BY <1>3, <1>4 DEF PostsAreOfUsers
  <1> QED
    BY <1>1, <1>2, <1>5, PagesLeave

LEMMA CallbackKeeps ==
  ASSUME IInv, failures' \in 0..MaxFailures, NEW x \in Posts, Callback(x)
  PROVE  IInv'
  <1>1. AppInv' /\ Grown
    BY TakeKeeps, VerifyKeeps, CreateKeeps, RejectKeeps DEF Callback, IInv
  <1>2. post[x].pc # "none" /\ local' \subseteq local \cup {x}
    BY DEF Callback, Take, Verify, Create, Reject, backend
  <1>3. \A y \in Posts \ {x} : post'[y] = post[y]
    BY DEF Callback, Take, Verify, Create, Reject, PostGoes, IInv, AppInv, AppTypeOK
  <1>4. UNCHANGED loginVars
    BY DEF Callback
  <1> QED
    BY <1>1, <1>2, <1>3, <1>4, ApplicationAlone

LEMMA PostAgainKeeps ==
  ASSUME IInv, failures' \in 0..MaxFailures, NEW n \in Starts, NEW b \in Browsers,
         PostAgain(n, b)
  PROVE  IInv'
  <1> DEFINE x == <<n, b, 1>>
             again == <<n, b, 2>>
  <1>1. /\ x \in Posts /\ again \in Posts
        /\ x[1] = n /\ x[2] = b /\ again[1] = n /\ again[2] = b
    BY DEF Posts
  <1>2. AppInv' /\ Grown
    BY RepeatPostKeeps DEF PostAgain, IInv
  <1>3. /\ post[x].pc # "none" /\ local' = local
        /\ post' = [post EXCEPT ![x].waiting = FALSE, ![again] = Sent(again, TRUE)]
    BY DEF PostAgain, RepeatPost, backend
  <1>4. UNCHANGED loginVars
    BY DEF PostAgain
  <1> HIDE DEF x, again
  <1>5. UsedBy(again[1], again[2])
    BY <1>1, <1>3 DEF IInv, PostInv
  <1>6. \A y \in Posts \ {again} : post'[y].pc = post[y].pc
    BY <1>1, <1>3 DEF IInv, AppInv, AppTypeOK, Post
  <1> QED
    BY <1>2, <1>3, <1>4, <1>5, <1>6, ApplicationAlone

LEMMA ExpireKeeps ==
  ASSUME IInv, failures' \in 0..MaxFailures, NEW n \in Starts, Expire(n)
  PROVE  IInv'
  <1>1. CASE ExpirePending(n) /\ UNCHANGED loginVars
    BY <1>1, ExpirePendingKeeps, ApplicationAlone DEF ExpirePending, IInv
  <1>2. CASE (ExpireTransaction(n) \/ EndSession(n)) /\ Unmoved
    <2>1. PageInvs' /\ UsedStays /\ UNCHANGED <<page, call, inbox>>
      BY <1>2, EndStep DEF IInv
    <2>2. AppInv' /\ Grown
      BY <1>2, UnmovedKeeps DEF IInv, Unmoved
    <2> QED
      BY <1>2, <2>1, <2>2, LeavesPages DEF Unmoved, appVars, backend
  <1> QED
    BY <1>1, <1>2 DEF Expire

LEMMA FederationLogoutStep ==
  ASSUME IInv, failures' \in 0..MaxFailures, NEW t \in Tabs, FederationLogout(t)
  PROVE  IInv'
  <1>1. AppInv' /\ Grown
    BY FederationLogoutKeeps DEF IInv
  <1>2. /\ UNCHANGED <<txn, csrf, sessionUser, assertion, page, call, inbox, post>>
        /\ local' \subseteq local /\ alive' \subseteq alive
        /\ fedCookie' = fedCookie \/ fedCookie' = [fedCookie EXCEPT ![TabBrowser[t]] = 0]
    BY DEF FederationLogout
  <1>3. PageInvs' /\ UsedStays
    <2>1. UsedStays
      BY <1>2, SameIdentity
    <2>2. CallInv'
      BY <1>2, <2>1, CallsStay DEF IInv, PageInvs, CallInv
    <2>3. LoginTypeOK'
      BY <1>2, TabBrowserAssumption DEF IInv, PageInvs, LoginTypeOK, Session
    <2> QED
      BY <2>1, <2>2, <2>3 DEF PageInvs
  <1> QED
    BY <1>1, <1>2, <1>3, LeavesPages

LEMMA HearMessageKeeps ==
  ASSUME IInv, failures' \in 0..MaxFailures, NEW t \in Tabs, HearMessage(t)
  PROVE  IInv'
  <1> DEFINE n == tab[t].frame
             said == [inbox EXCEPT ![n] = Tail(@)]
             x == <<n, TabBrowser[t], 1>>
  <1>1. /\ n \in Starts /\ TabBrowser[t] \in Browsers /\ inbox[n] # << >>
        /\ inbox \in [Starts -> Seq(MessageTypes)]
        /\ Known(n) /\ BrowserOf(n) = TabBrowser[t]
    BY TabBrowserAssumption
       DEF HearMessage, IInv, AppInv, AppTypeOK, Tab, PageInvs, LoginTypeOK, TabInv, BrowserOf
  <1>2. /\ said \in [Starts -> Seq(MessageTypes)] /\ Head(inbox[n]) \in MessageTypes
        /\ Head(inbox[n]) = inbox[n][1] /\ 1 \in DOMAIN inbox[n]
        /\ \A m \in Starts : Fewer(inbox[m], said[m])
    <2>1. inbox[n] \in Seq(MessageTypes)
      BY <1>1
    <2>2. /\ Tail(inbox[n]) \in Seq(MessageTypes) /\ Head(inbox[n]) \in MessageTypes
          /\ Head(inbox[n]) = inbox[n][1] /\ 1 \in DOMAIN inbox[n]
      BY <1>1, <2>1
    <2>3. \A m \in Starts : said[m] = IF m = n THEN Tail(inbox[n]) ELSE inbox[m]
      BY <1>1
    <2>4. \A m \in Starts : Fewer(inbox[m], said[m])
      BY <1>1, <2>3 DEF Fewer
    <2>5. said \in [Starts -> Seq(MessageTypes)]
      BY <1>1, <2>2
    <2> QED
      BY <2>2, <2>4, <2>5
  <1>3. PagesFollow(said) /\ Heard(said)
    BY <1>2 DEF HearMessage, Heard
  <1> HIDE DEF said
  <1>4. CASE tab[t].pending = n
    <2>1. Hear(t, Head(inbox[n])) /\ tab[t].pending # 0
      BY <1>4 DEF HearMessage
    <2>2. AppInv' /\ Grown
      BY <1>2, <2>1, HearKeeps DEF IInv
    <2>3. local' = local
      BY <2>1 DEF Hear
    <2>4. CASE Head(inbox[n]) = "SUCCESS"
      <3>1. x \in Posts /\ x[1] = n /\ x[2] = TabBrowser[t]
        BY <1>1 DEF Posts
      <3>2. post' = [post EXCEPT ![x] = Sent(x, FALSE)]
        BY <1>4, <2>1, <2>4 DEF Hear, SendPost
      <3>3. UsedBy(x[1], x[2])
        BY <1>1, <1>2, <2>4, <3>1 DEF IInv, InboxInv
      <3> HIDE DEF x
      <3>4. \A y \in Posts \ {x} : post'[y] = post[y]
        BY <3>2 DEF IInv, AppInv, AppTypeOK
      <3>5. PostsAreOfUsers
        BY <2>3, <3>3, <3>4 DEF PostsAreOfUsers
      <3> QED
        BY <1>3, <2>2, <3>5, PagesLeave
    <2>5. CASE Head(inbox[n]) # "SUCCESS"
      <3>1. post' = post
        BY <1>2, <2>1, <2>5 DEF Hear, MessageTypes
      <3>2. PostsAreOfUsers
        BY <2>3, <3>1 DEF PostsAreOfUsers
      <3> QED
        BY <1>3, <2>2, <3>2, PagesLeave
    <2> QED
      BY <2>4, <2>5
  <1>5. CASE tab[t].pending # n
    <2>1. Unmoved
      BY <1>5 DEF HearMessage
    <2>2. AppInv' /\ Grown
      BY <2>1, UnmovedKeeps DEF IInv, Unmoved
    <2>3. post' = post /\ local' = local
      BY <2>1 DEF Unmoved, appVars, backend
    <2>4. PostsAreOfUsers
      BY <2>3 DEF PostsAreOfUsers
    <2> QED
      BY <1>3, <2>2, <2>4, PagesLeave
  <1> QED
    BY <1>4, <1>5

-----------------------------------------------------------------------------
LEMMA NextIInv == IInv /\ [Next]_vars => IInv'
  <1> SUFFICES ASSUME IInv, [Next]_vars PROVE IInv'
    OBVIOUS
  <1>1. failures' \in 0..MaxFailures
    BY FailuresStay
  <1>2. CASE UNCHANGED vars
    BY <1>1, <1>2, UnmovedKeeps, ApplicationAlone DEF vars, IInv, appVars, backend
  <1>3. ASSUME NEW t \in Tabs,
               \/ Open(t) \/ HearMessage(t) \/ LoadTab(t) \/ SignOutHere(t)
               \/ LeaveEverywhere(t) \/ FederationLogout(t) \/ ReturnToApp(t)
               \/ \E auto \in BOOLEAN : OpenAnew(t, auto)
        PROVE  IInv'
    BY <1>1, <1>3, OpenKeeps, HearMessageKeeps, TabKeeps, FederationLogoutStep
  <1>4. ASSUME NEW p \in Pages,
               \/ SignIn(p) \/ Wander(p) \/ Serve(p) \/ OpenAgain(p)
               \/ \E k \in Kinds : ReceiveAnswer(p, k) \/ ReceiveTooLate(p, k)
        PROVE  IInv'
    BY <1>1, <1>4, UserKeeps, ServeKeeps, OpenAgainKeeps, ReceiveAnswerKeeps,
       ReceiveTooLateKeeps
  <1>5. ASSUME NEW n \in Starts,
               \/ AnswerStart(n) \/ Expire(n)
               \/ \E b \in Browsers : PostAgain(n, b)
        PROVE  IInv'
    BY <1>1, <1>5, AnswerStartKeeps, ExpireKeeps, PostAgainKeeps
  <1>6. ASSUME NEW x \in Posts, Callback(x) \/ AnswerCallback(x)
        PROVE  IInv'
    BY <1>1, <1>6, CallbackKeeps, AnswerCallbackKeeps
  <1> QED
    BY <1>2, <1>3, <1>4, <1>5, <1>6 DEF Next

LEMMA SpecIInv == SafetySpec => []IInv
  BY InitIInv, NextIInv, PTL DEF SafetySpec

(* Every value is of its type (TypeOK).                                    *)
THEOREM TypeCorrect == Spec => []TypeOK
  <1>1. IInv => TypeOK
    BY DEF IInv, AppInv, PageInvs, TypeOK
  <1> QED
    BY <1>1, InitIInv, NextIInv, PTL DEF Spec

(* A local session is of one browser (SessionIsOfOneBrowser): the start,   *)
(* the sign-in and the callback were all made in it.                       *)
THEOREM SessionsAreOfOneBrowser == SafetySpec => []SessionIsOfOneBrowser
  <1>1. IInv => SessionIsOfOneBrowser
    <2> SUFFICES ASSUME IInv, NEW x \in local
                 PROVE  BrowserOf(x[1]) = x[2] /\ assertion[x[1]].by = x[2]
      BY DEF SessionIsOfOneBrowser, BrowserOf
    <2>1. x \in Posts
      BY DEF IInv, AppInv, AppTypeOK
    <2> QED
      BY <2>1 DEF IInv, AppInv, PassInv, PostInv, UsedBy
  <1> QED
    BY <1>1, SpecIInv, PTL

(* One callback takes the transaction of a start (TransactionIsTakenOnce), *)
(* however often and from wherever it is posted.                           *)
THEOREM TransactionsAreTakenOnce == SafetySpec => []TransactionIsTakenOnce
  <1>1. IInv => TransactionIsTakenOnce
    BY DEF IInv, AppInv, KeysInv
  <1> QED
    BY <1>1, SpecIInv, PTL

-----------------------------------------------------------------------------
(* A sign-in that nothing has disturbed so far: every tab waits for one    *)
(* thing, a load, a start, the page in its frame or a callback; or it is   *)
(* signed in, or there is no start left (the bound).                       *)
Asked(t) == {n \in Starts : start[n].pc = "sent" /\ start[n].tab = t}
Awaiting(t) == {x \in Posts : post[x].waiting /\ start[x[1]].tab = t}
At(t, view) == tab[t].view = view /\ tab[t].loads = 0

(* The page on screen has said its last word, and it has been heard.       *)
Silenced(t) ==
  page[Here(t)].view \in {"success", "error"} /\ inbox[tab[t].frame] = << >>

Loading(t) ==
  /\ tab[t].view \in {"blank", "signedOut"} /\ tab[t].loads = 1 /\ tab[t].pending = 0
  /\ Asked(t) = {} /\ Awaiting(t) = {}
Asking(t) ==
  /\ At(t, "signedOut") /\ tab[t].frame = 0
  /\ (\E n \in Starts : Asked(t) = {n}) /\ Awaiting(t) = {}
Framing(t) ==
  /\ At(t, "signedOut") /\ tab[t].frame # 0 /\ tab[t].pending = tab[t].frame
  /\ Asked(t) = {} /\ Awaiting(t) = {} /\ ~Silenced(t)
Posting(t) ==
  /\ At(t, "signedOut") /\ tab[t].pending = 0
  /\ Asked(t) = {} /\ \E x \in Posts : Awaiting(t) = {x}
SignedIn(t) ==
  /\ At(t, "signedIn") /\ tab[t].frame = 0 /\ Asked(t) = {} /\ Awaiting(t) = {}
Spent(t) ==
  /\ At(t, "signedOut") /\ tab[t].frame = 0 /\ Exhausted
  /\ Asked(t) = {} /\ Awaiting(t) = {}

Phase(t) ==
  Loading(t) \/ Asking(t) \/ Framing(t) \/ Posting(t) \/ SignedIn(t) \/ Spent(t)

(* Every start is for a frame, whose panel stays until it is answered.     *)
StartsSmooth ==
  \A n \in Starts : /\ start[n].display = "embed" /\ start[n].place # "replaced"
                    /\ start[n].pc = "sent" <=> start[n].place = "here"

(* Callbacks are sent by app.js, for starts there are.                     *)
PostsSmooth == \A x \in Posts : ~post[x].form /\ (post[x].waiting => Known(x[1]))

(* A login page is there when its start has been answered, and asks for no *)
(* window of its own.                                                      *)
PagesSmooth ==
  /\ \A p \in Pages : Alive(p) => start[p[1]].pc # "sent"
  /\ \A t \in Tabs, n \in Starts : tab[t].frame = n => start[n].pc # "sent"
  /\ \A n \in Starts, i \in Nat :
       i \in DOMAIN inbox[n] => inbox[n][i] # "TOP_LEVEL_REQUIRED"

Smooth == (\A t \in Tabs : Phase(t)) /\ StartsSmooth /\ PostsSmooth /\ PagesSmooth
SmoothInv == failures = 0 => Smooth

(* A tab in a phase is not stranded.                                       *)
LEMMA PhaseNotStranded ==
  ASSUME IInv, StartsSmooth, PostsSmooth, NEW t \in Tabs, Phase(t)
  PROVE  ~Stranded(t)
  <1>1. CASE Loading(t)
    BY <1>1 DEF Loading, Stranded, Awaited
  <1>2. CASE Asking(t)
    <2>1. PICK n \in Starts : n \in Asked(t)
      BY <1>2 DEF Asking
    <2>2. start[n].pc = "sent" /\ start[n].tab = t /\ start[n].place # "gone"
      BY <2>1 DEF Asked, StartsSmooth
    <2> QED
      BY <2>2 DEF Stranded, Awaited
  <1>3. CASE Framing(t)
    BY <1>3 DEF Framing, Silenced, Stranded
  <1>4. CASE Posting(t)
    <2>1. PICK x \in Posts : x \in Awaiting(t)
      BY <1>4 DEF Posting
    <2>2. post[x].waiting /\ ~post[x].form /\ start[x[1]].tab = t
      BY <2>1 DEF Awaiting, PostsSmooth
    <2> QED
      BY <2>2 DEF Stranded, Awaited
  <1>5. CASE SignedIn(t)
    BY <1>5 DEF SignedIn, At, Stranded
  <1>6. CASE Spent(t)
    BY <1>6 DEF Spent, At, Stranded
  <1> QED
    BY <1>1, <1>2, <1>3, <1>4, <1>5, <1>6 DEF Phase

LEMMA InitSmooth == Init => SmoothInv
  <1> SUFFICES ASSUME Init PROVE Smooth
    BY DEF SmoothInv
  <1> USE DEF Init, LoginInit, AppInit
  <1>1. \A n \in Starts : /\ start[n].pc = "none" /\ start[n].display = "embed"
                          /\ start[n].place = "gone"
    BY DEF NoStart
  <1>2. \A x \in Posts : ~post[x].form /\ ~post[x].waiting
    OBVIOUS
  <1>3. \A t \in Tabs : /\ tab[t].view = "blank" /\ tab[t].loads = 1
                        /\ tab[t].pending = 0
    BY DEF Document
  <1>4. \A t \in Tabs : Phase(t)
    BY <1>1, <1>2, <1>3 DEF Phase, Loading, Asked, Awaiting
  <1>5. StartsSmooth /\ PostsSmooth
    BY <1>1, <1>2 DEF StartsSmooth, PostsSmooth
  <1>6. PagesSmooth
    <2>1. \A n \in Starts, i \in Nat : ~(i \in DOMAIN inbox[n])
      OBVIOUS
    <2>2. \A n \in Starts : start[n].pc # "sent"
      BY <1>1
    <2>3. \A p \in Pages : p[1] \in Starts
      BY PageParts
    <2> QED
      BY <2>1, <2>2, <2>3, Zenon DEF PagesSmooth
  <1> QED
    BY <1>4, <1>5, <1>6 DEF Smooth

(* A tab that a step leaves alone stays in its phase.                      *)
LEMMA PhaseStays ==
  ASSUME NEW u \in Tabs, Phase(u), Exhausted => Exhausted', tab'[u] = tab[u],
         Asked(u)' = Asked(u), Awaiting(u)' = Awaiting(u),
         tab[u].frame # 0 /\ Silenced(u)' => Silenced(u)
  PROVE  Phase(u)'
  <1>1. CASE Loading(u)
    BY <1>1 DEF Phase, Loading
  <1>2. CASE Asking(u)
    BY <1>2 DEF Phase, Asking, At
  <1>3. CASE Framing(u)
    BY <1>3 DEF Phase, Framing, At
  <1>4. CASE Posting(u)
    BY <1>4 DEF Phase, Posting, At
  <1>5. CASE SignedIn(u)
    BY <1>5 DEF Phase, SignedIn, At
  <1>6. CASE Spent(u)
    BY <1>6 DEF Phase, Spent, At
  <1> QED
    BY <1>1, <1>2, <1>3, <1>4, <1>5, <1>6 DEF Phase

-----------------------------------------------------------------------------
(* A step of a login page: what it comes to show last, it says.            *)
Speaks(p) ==
  /\ \/ inbox' = inbox
     \/ \E m \in {"SUCCESS", "EXPIRED"} :
          inbox' = [inbox EXCEPT ![p[1]] = Append(inbox[p[1]], m)]
  /\ \/ page'[p].view \notin {"success", "error"}
     \/ page'[p].view = page[p].view
     \/ inbox' # inbox

LEMMA PageSmoothly ==
  ASSUME IInv, Smooth, NEW p \in Pages, OnlyPage(p), Unmoved, Speaks(p),
         start[p[1]].pc # "sent"
  PROVE  Smooth'
  <1>1. /\ UNCHANGED <<tab, start, post>>
        /\ p[1] \in Starts /\ inbox \in [Starts -> Seq(MessageTypes)]
    BY PageParts DEF Unmoved, appVars, IInv, PageInvs, LoginTypeOK
  <1>2. ASSUME NEW n \in Starts
        PROVE  \/ inbox'[n] = inbox[n]
               \/ \E m \in {"SUCCESS", "EXPIRED"} :
                    n = p[1] /\ inbox'[n] = Append(inbox[n], m)
    BY <1>1 DEF Speaks
  <1>3. ASSUME NEW s \in Seq(MessageTypes), NEW m \in MessageTypes
        PROVE  Append(s, m) # << >> /\ Append(s, m) # s
    BY <1>3
  <1>4. inbox' # inbox => inbox'[p[1]] # << >>
    BY <1>1, <1>3 DEF Speaks, MessageTypes
  <1>5. ASSUME NEW t \in Tabs PROVE Phase(t)'
    <2>1. Phase(t)
      BY DEF Smooth
    <2>2. Asked(t)' = Asked(t) /\ Awaiting(t)' = Awaiting(t) /\ Here(t)' = Here(t)
          /\ (Exhausted => Exhausted')
      BY <1>1 DEF Asked, Awaiting, Here, Exhausted, Unused
    <2>3. ASSUME tab[t].frame # 0, Silenced(t)' PROVE Silenced(t)
      <3>1. Here(t) \in Pages /\ tab[t].frame = Here(t)[1] /\ tab[t].frame \in Starts
        BY <2>3, ScreenIsKnown, PageParts DEF Here
      <3>2. page'[Here(t)].view \in {"success", "error"} /\ inbox'[tab[t].frame] = << >>
        BY <1>1, <2>2, <2>3 DEF Silenced
      <3>3. inbox[tab[t].frame] = << >>
        BY <1>1, <1>2, <1>3, <3>1, <3>2 DEF MessageTypes
      <3>4. page[Here(t)].view = page'[Here(t)].view
        BY <1>4, <3>1, <3>2 DEF OnlyPage, Speaks
      <3> QED
        BY <3>2, <3>3, <3>4 DEF Silenced
    <2> QED
      BY <1>1, <2>1, <2>2, <2>3, PhaseStays
  <1>6. StartsSmooth' /\ PostsSmooth'
    BY <1>1 DEF Smooth, StartsSmooth, PostsSmooth, Known
  <1>7. PagesSmooth'
    <2>1. ASSUME NEW q \in Pages, Alive(q)' PROVE start'[q[1]].pc # "sent"
      BY <1>1, <2>1 DEF OnlyPage, Alive, Smooth, PagesSmooth
    <2>2. ASSUME NEW n \in Starts, NEW i \in Nat, i \in DOMAIN inbox'[n]
          PROVE  inbox'[n][i] # "TOP_LEVEL_REQUIRED"
      <3>1. inbox[n] \in Seq(MessageTypes)
        BY <1>1
      <3>2. CASE inbox'[n] = inbox[n]
        BY <2>2, <3>2 DEF Smooth, PagesSmooth
      <3>3. CASE \E m \in {"SUCCESS", "EXPIRED"} : inbox'[n] = Append(inbox[n], m)
        BY <2>2, <3>1, <3>3 DEF Smooth, PagesSmooth
      <3> QED
        BY <1>2, <3>2, <3>3
    <2> QED
      BY <1>1, <2>1, <2>2 DEF Smooth, PagesSmooth
  <1> QED
    BY <1>5, <1>6, <1>7 DEF Smooth

(* A step that is no disturbance.                                          *)
LEMMA NoDisturbance ==
  ASSUME IInv, failures = 0, failures' = 0, NEW kind
  PROVE  ~Disturb(kind)
  BY DEF Disturb

LEMMA FramedPages ==
  ASSUME StartsSmooth, NEW p \in Pages
  PROVE  Framed(p) = TRUE
  BY PageParts DEF StartsSmooth, Framed

LEMMA OpenSmoothly ==
  ASSUME IInv, Smooth, failures = 0, failures' = 0, NEW t \in Tabs, Open(t)
  PROVE  Smooth'
  <1> DEFINE p == Here(t)
  <1>1. p \in Pages /\ p[1] \in Starts /\ tab[t].frame = p[1] /\ Framed(p) = TRUE
        /\ inbox \in [Starts -> Seq(MessageTypes)] /\ page \in [Pages -> Page]
    BY ScreenIsKnown, PageParts, FramedPages
       DEF Open, Here, Smooth, IInv, PageInvs, LoginTypeOK
  <1>2. OpenPage(p, TRUE, start[p[1]].prompt) /\ Unmoved
    BY <1>1, NoDisturbance DEF Open
  <1> HIDE DEF p
  <1>3. start[p[1]].pc # "sent"
    BY <1>1 DEF Smooth, PagesSmooth
  <1>4. PageStep(p, TRUE)
    <2>1. failures' \in 0..MaxFailures /\ PageInvs /\ TRUE \in BOOLEAN
      BY FailuresAssumption DEF IInv
    <2> QED
      BY <1>1, <1>2, <2>1, OpenPageStep
  <1>5. Speaks(p)
    <2>1. CASE txn[p[1]] = "COMPLETED"
      <3>1. inbox' = [inbox EXCEPT ![p[1]] = Append(inbox[p[1]], "EXPIRED")]
        BY <1>2, <2>1 DEF OpenPage, ReportUsed, Tells
      <3>2. inbox[p[1]] \in Seq(MessageTypes)
        BY <1>1
      <3>3. Append(inbox[p[1]], "EXPIRED") # inbox[p[1]]
        BY <3>2 DEF MessageTypes
      <3>4. inbox' # inbox
        BY <1>1, <3>1, <3>3
      <3> QED
        BY <3>1, <3>4 DEF Speaks
    <2>2. CASE txn[p[1]] # "COMPLETED"
      <3> DEFINE user == UserOf(fedCookie[p[2]])
                 token == IF txn[p[1]] = "none" THEN csrf[p[1]] + 1 ELSE csrf[p[1]]
                 opened == [view |-> IF user = NoUser THEN "signIn" ELSE "continue",
                            shown |-> user,
                            auto |-> user # NoUser /\ start[p[1]].prompt = "auto",
                            csrf |-> token]
      <3>1. page' = [page EXCEPT ![p] = opened] /\ inbox' = inbox
        BY <1>2, <2>2, Zenon DEF OpenPage
      <3>2. opened.view \in {"signIn", "continue"}
        OBVIOUS
      <3> HIDE DEF opened
      <3> QED
        BY <1>1, <3>1, <3>2 DEF Speaks
    <2> QED
      BY <2>1, <2>2
  <1> QED
    BY <1>1, <1>2, <1>3, <1>4, <1>5, PageSmoothly DEF PageStep

(* The user and Identity say nothing.                                      *)
LEMMA CallSmoothly ==
  ASSUME IInv, Smooth, failures = 0, failures' = 0, NEW p \in Pages,
         SignIn(p) \/ Serve(p) \/ \E k \in Kinds : ReceiveTooLate(p, k)
  PROVE  Smooth'
  <1>1. Alive(p) /\ Unmoved
    BY DEF SignIn, Submit, Continue, Serve, ServeLogin, ServeContinue, ServeLogout,
           ServeRefused, ReceiveTooLate, ReceiveNowhere, Alive, Kinds
  <1>2. page \in [Pages -> Page]
    BY DEF IInv, PageInvs, LoginTypeOK
  <1>3. inbox' = inbox
    BY DEF SignIn, Submit, Continue, Serve, ServeLogin, ServeContinue, ServeLogout,
           ServeRefused, ReceiveTooLate, ReceiveNowhere
  <1>4. PageStep(p, TRUE)
    <2>0. failures' \in 0..MaxFailures /\ PageInvs /\ TRUE \in BOOLEAN
      BY FailuresAssumption DEF IInv
    <2>1. CASE SignIn(p)
      BY <2>0, <2>1, AskingStep DEF SignIn
    <2>2. CASE Serve(p)
      BY <2>0, <2>2, ServeStep DEF Serve
    <2>3. CASE \E k \in Kinds : ReceiveTooLate(p, k)
      BY <2>0, <2>3, LateStep DEF ReceiveTooLate
    <2> QED
      BY <2>1, <2>2, <2>3
  <1>5. page'[p].view \notin {"success", "error"} \/ page'[p].view = page[p].view
    <2>1. CASE Submit(p)
      BY <1>2, <2>1 DEF Submit, Shows, Page
    <2>2. CASE Continue(p)
      BY <1>2, <2>2 DEF Continue, Page
    <2>3. CASE page' = page
      BY <2>3
    <2> QED
      BY <2>1, <2>2, <2>3
         DEF SignIn, Serve, ServeLogin, ServeContinue, ServeLogout, ServeRefused,
             ReceiveTooLate, ReceiveNowhere
  <1>6. start[p[1]].pc # "sent"
    BY <1>1 DEF Smooth, PagesSmooth
  <1> QED
    BY <1>1, <1>3, <1>4, <1>5, <1>6, PageSmoothly DEF Speaks, PageStep

LEMMA AnswerSmoothly ==
  ASSUME IInv, Smooth, failures = 0, failures' = 0, NEW p \in Pages, NEW k \in Kinds,
         ReceiveAnswer(p, k)
  PROVE  Smooth'
  <1>1. Framed(p) = TRUE /\ p[1] \in Starts
        /\ inbox \in [Starts -> Seq(MessageTypes)] /\ page \in [Pages -> Page]
    BY PageParts, FramedPages DEF Smooth, IInv, PageInvs, LoginTypeOK
  <1>2. Receive(p, k, TRUE) /\ Unmoved
    BY <1>1, NoDisturbance DEF ReceiveAnswer
  <1>3. OnlyPage(p)
    <2>1. failures' \in 0..MaxFailures /\ PageInvs /\ TRUE \in BOOLEAN
      BY FailuresAssumption DEF IInv
    <2>2. PageStep(p, TRUE)
      BY <1>2, <2>1, ReceiveStep
    <2> QED
      BY <2>2 DEF PageStep
  <1>4. start[p[1]].pc # "sent"
    BY <1>2 DEF Receive, Alive, Smooth, PagesSmooth
  <1>5. ASSUME NEW view \in Views, NEW m \in {"SUCCESS", "EXPIRED"},
               Shows(p, view), Tells(p, TRUE, m)
        PROVE  Speaks(p)
    <2>1. inbox' = [inbox EXCEPT ![p[1]] = Append(inbox[p[1]], m)]
      BY <1>5 DEF Tells
    <2>2. inbox[p[1]] \in Seq(MessageTypes)
      BY <1>1
    <2>3. Append(inbox[p[1]], m) # inbox[p[1]]
      BY <2>2 DEF MessageTypes
    <2>4. inbox' # inbox
      BY <1>1, <2>1, <2>3
    <2> QED
      BY <2>1, <2>4 DEF Speaks
  <1>6. ASSUME NEW view \in {"signIn", "continue"}, Shows(p, view), inbox' = inbox
        PROVE  Speaks(p)
    BY <1>1, <1>6 DEF Shows, Speaks, Page
  <1>7. ASSUME SignInForm(p), inbox' = inbox PROVE Speaks(p)
    <2>1. page'[p].view = "signIn"
      BY <1>1, <1>7 DEF SignInForm, Page
    <2> QED
      BY <1>7, <2>1 DEF Speaks
  <1>8. Speaks(p)
    <2> DEFINE reply == call[p][k].reply
    <2>1. React(p, k, reply, TRUE)
      BY <1>2 DEF Receive
    <2>2. CASE k # "logout" /\ reply = "delivery"
      BY <1>5, <2>1, <2>2 DEF React, Deliver, Views
    <2>3. CASE k # "logout" /\ reply = "transaction"
      BY <1>5, <2>1, <2>3 DEF React, ShowExpired, Views
    <2>4. CASE k = "logout" \/ reply = "session"
      BY <1>7, <2>1, <2>4 DEF React
    <2>5. CASE k # "logout" /\ reply \notin {"delivery", "transaction", "session"}
      <3>1. ShowAgain(p, k) /\ inbox' = inbox
        BY <2>1, <2>5 DEF React
      <3>2. Shows(p, "signIn") \/ Shows(p, "continue") \/ page' = page
        BY <2>5, <3>1 DEF ShowAgain, Kinds
      <3> QED
        BY <1>6, <3>1, <3>2 DEF Speaks
    <2> QED
      BY <2>2, <2>3, <2>4, <2>5
  <1> QED
    BY <1>2, <1>3, <1>4, <1>8, PageSmoothly

(* The backend goes on with a callback.                                    *)
LEMMA CallbackSmoothly ==
  ASSUME IInv, Smooth, failures = 0, failures' = 0, NEW x \in Posts, Callback(x)
  PROVE  Smooth'
  <1>1. UNCHANGED <<tab, start>> /\ UNCHANGED loginVars
        /\ \E pc, clears : PostGoes(x, pc, clears)
    BY NoDisturbance DEF Callback, Take, Verify, Create
  <1>2. UNCHANGED <<page, call, inbox>>
    BY <1>1 DEF loginVars, pages
  <1>3. \A y \in Posts : post'[y].waiting = post[y].waiting /\ post'[y].form = post[y].form
    BY <1>1 DEF PostGoes, IInv, AppInv, AppTypeOK, Post
  <1>4. ASSUME NEW t \in Tabs PROVE Phase(t)'
    <2>1. /\ Asked(t)' = Asked(t) /\ Awaiting(t)' = Awaiting(t)
          /\ (Exhausted => Exhausted') /\ Silenced(t)' = Silenced(t)
      BY <1>1, <1>2, <1>3 DEF Asked, Awaiting, Exhausted, Unused, Silenced, Here
    <2> QED
      BY <1>1, <2>1, PhaseStays DEF Smooth
  <1>5. StartsSmooth' /\ PostsSmooth' /\ PagesSmooth'
    BY <1>1, <1>2, <1>3 DEF Smooth, StartsSmooth, PostsSmooth, PagesSmooth, Known, Alive
  <1> QED
    BY <1>4, <1>5 DEF Smooth

-----------------------------------------------------------------------------
(* A start that is not waited for is not waited for again.                 *)
Settled ==
  \A n \in Starts : Known(n) /\ start[n].pc # "sent" => start'[n].pc # "sent"

(* No tab but t changes, and none but t's frame is heard.                  *)
OnlyTab(t, said) ==
  /\ \A u \in Tabs \ {t} : tab'[u] = tab[u]
  /\ \A n \in Starts : n # tab[t].frame => said[n] = inbox[n]

(* The pages of the other tabs stay on screen.                             *)
LEMMA OthersStay ==
  ASSUME IInv, NEW t \in Tabs, NEW said, Heard(said), OnlyTab(t, said),
         PagesFollow(said), NEW u \in Tabs \ {t}, tab[u].frame # 0, Silenced(u)'
  PROVE  Silenced(u)
  <1> DEFINE n == tab[u].frame
             gone == OnScreen(tab) \ OnScreen(tab')
  <1>1. n \in Starts /\ Here(u) \in Pages /\ start[n].tab = u /\ tab'[u] = tab[u]
    BY ScreenIsKnown, PageParts DEF Here, OnlyTab, IInv, AppInv, TabInv
  <1>2. Here(u)' = Here(u) /\ Here(u) \in OnScreen(tab')
    BY <1>1 DEF Here, OnScreen
  <1>3. ASSUME NEW p \in gone PROVE p[1] # n
    <2>1. PICK v \in Tabs : tab[v].frame # 0 /\ p = Here(v)
      BY DEF OnScreen, Here
    <2>2. p[1] = tab[v].frame /\ p[1] \in Starts
      BY <2>1, ScreenIsKnown, PageParts DEF Here
    <2>3. start[p[1]].tab = v
      BY <2>2 DEF IInv, AppInv, TabInv
    <2> QED
      BY <1>1, <1>2, <2>1, <2>3
  <1>4. /\ page' = [p \in Pages |-> IF p \in gone THEN NoPage ELSE page[p]]
        /\ inbox' = [m \in Starts |-> IF \E p \in gone : p[1] = m THEN << >> ELSE said[m]]
    BY DEF PagesFollow
  <1>5. page'[Here(u)] = page[Here(u)]
    BY <1>1, <1>2, <1>4
  <1>6. inbox'[n] = said[n]
    BY <1>1, <1>3, <1>4, Zenon
  <1>7. n # tab[t].frame
    BY <1>1 DEF IInv, AppInv, TabInv
  <1>8. inbox'[n] = inbox[n]
    BY <1>1, <1>6, <1>7 DEF OnlyTab
  <1> QED
    BY <1>1, <1>2, <1>5, <1>8 DEF Silenced

(* A step of the application in tab t.                                     *)
LEMMA TabSmoothly ==
  ASSUME IInv, Smooth, failures' \in 0..MaxFailures,
         NEW t \in Tabs, NEW said, Heard(said), OnlyTab(t, said), PagesFollow(said),
         StartsSmooth', PostsSmooth', Settled, Exhausted => Exhausted', Phase(t)',
         \A u \in Tabs \ {t} : Asked(u)' = Asked(u) /\ Awaiting(u)' = Awaiting(u),
         \A n \in Starts : tab'[t].frame = n => start'[n].pc # "sent"
  PROVE  Smooth'
  <1>1. /\ \A p \in Pages : Alive(p)' => Alive(p)
        /\ \A n \in Starts : inbox'[n] = << >> \/ inbox'[n] = said[n]
    BY FollowEffect DEF IInv, Heard
  <1>2. ASSUME NEW u \in Tabs PROVE Phase(u)'
    <2>1. CASE u = t
      BY <2>1
    <2>2. CASE u # t
      <3>1. Phase(u) /\ tab'[u] = tab[u]
        BY <2>2 DEF Smooth, OnlyTab
      <3>2. tab[u].frame # 0 /\ Silenced(u)' => Silenced(u)
        BY <2>2, OthersStay
      <3> QED
        BY <2>2, <3>1, <3>2, PhaseStays
    <2> QED
      BY <2>1, <2>2
  <1>3. ASSUME NEW p \in Pages, Alive(p)' PROVE start'[p[1]].pc # "sent"
    <2>1. Alive(p) /\ p[1] \in Starts
      BY <1>1, <1>3, PageParts
    <2>2. Known(p[1]) /\ start[p[1]].pc # "sent"
      BY <2>1, AliveIsKnown DEF Smooth, PagesSmooth
    <2> QED
      BY <2>1, <2>2 DEF Settled
  <1>4. ASSUME NEW u \in Tabs, NEW n \in Starts, tab'[u].frame = n
        PROVE  start'[n].pc # "sent"
    <2>1. CASE u = t
      BY <1>4, <2>1
    <2>2. CASE u # t
      <3>1. tab[u].frame = n
        BY <1>4, <2>2 DEF OnlyTab
      <3>2. Known(n) /\ start[n].pc # "sent"
        BY <3>1 DEF IInv, AppInv, TabInv, Smooth, PagesSmooth
      <3> QED
        BY <3>2 DEF Settled
    <2> QED
      BY <2>1, <2>2
  <1>5. ASSUME NEW n \in Starts, NEW i \in Nat, i \in DOMAIN inbox'[n]
        PROVE  inbox'[n][i] # "TOP_LEVEL_REQUIRED"
    <2>1. inbox'[n] = said[n]
      BY <1>1, <1>5
    <2>2. Fewer(inbox[n], said[n]) /\ inbox[n] \in Seq(MessageTypes)
      BY DEF Heard, IInv, PageInvs, LoginTypeOK
    <2>3. CASE said[n] = inbox[n]
      BY <1>5, <2>1, <2>3 DEF Smooth, PagesSmooth
    <2>4. CASE inbox[n] # << >> /\ said[n] = Tail(inbox[n])
      <3>1. i + 1 \in DOMAIN inbox[n] /\ Tail(inbox[n])[i] = inbox[n][i + 1]
            /\ i + 1 \in Nat
        BY <1>5, <2>1, <2>2, <2>4
      <3> QED
        BY <2>1, <2>4, <3>1 DEF Smooth, PagesSmooth
    <2> QED
      BY <1>5, <2>1, <2>2, <2>3, <2>4 DEF Fewer
  <1>6. PagesSmooth'
    BY <1>3, <1>4, <1>5 DEF PagesSmooth
  <1> QED
    BY <1>2, <1>6 DEF Smooth

(* With no start under way nothing is displaced.                           *)
LEMMA NothingDisplaced ==
  ASSUME AppTypeOK, StartsSmooth, NEW t \in Tabs, Asked(t) = {}
  PROVE  Displaced(<<t, "replaced">>, start) = start
  <1>1. ASSUME NEW n \in Starts PROVE ~(start[n].tab = t /\ start[n].place # "gone")
    <2>1. start[n].place \in {"here", "replaced", "gone"}
      BY DEF AppTypeOK, Start
    <2> QED
      BY <2>1 DEF StartsSmooth, Asked
  <1>2. start = [n \in Starts |-> start[n]]
    BY DEF AppTypeOK
  <1>3. Displaced(<<t, "replaced">>, start) = [n \in Starts |-> start[n]]
    BY <1>1 DEF Displaced
  <1> QED
    BY <1>2, <1>3

(* The panel is rendered anew, and a start asked for.                      *)
LEMMA RenderSmoothly ==
  ASSUME AppTypeOK, StartsSmooth, NEW t \in Tabs, NEW doc \in Tab,
         RenderSignedOut(t, doc), Asked(t) = {}
  PROVE  /\ StartsSmooth' /\ Settled /\ (Exhausted => Exhausted')
         /\ tab'[t].view = "signedOut" /\ tab'[t].frame = 0 /\ tab'[t].loads = doc.loads
         /\ \A u \in Tabs \ {t} : tab'[u] = tab[u] /\ Asked(u)' = Asked(u)
         /\ \/ \E n \in Starts : Asked(t)' = {n}
            \/ Exhausted' /\ Asked(t)' = {}
  <1> DEFINE prompt == IF doc.auto THEN "auto" ELSE ""
  <1>1. /\ tab' = [tab EXCEPT ![t] = [doc EXCEPT !.view = "signedOut", !.frame = 0]]
        /\ Begin(t, "embed", prompt, start)
    BY NothingDisplaced DEF RenderSignedOut
  <1>2. /\ tab'[t] = [doc EXCEPT !.view = "signedOut", !.frame = 0]
        /\ \A u \in Tabs \ {t} : tab'[u] = tab[u]
    BY <1>1 DEF AppTypeOK
  <1>3. tab'[t].view = "signedOut" /\ tab'[t].frame = 0 /\ tab'[t].loads = doc.loads
    BY <1>2 DEF Tab
  <1>4. CASE Exhausted
    <2>1. start' = start
      BY <1>1, <1>4 DEF Begin
    <2> QED
      BY <1>2, <1>3, <1>4, <2>1
         DEF StartsSmooth, Settled, Known, Asked, Exhausted, Unused
  <1>5. CASE ~Exhausted
    <2> DEFINE new == [pc |-> "sent", tab |-> t, display |-> "embed",
                       prompt |-> prompt, place |-> "here"]
    <2>1. PICK n \in Unused : start' = [start EXCEPT ![n] = new]
      BY <1>1, <1>5 DEF Begin
    <2>2. /\ new.pc = "sent" /\ new.tab = t /\ new.display = "embed" /\ new.place = "here"
      OBVIOUS
    <2> HIDE DEF new
    <2>3. n \in Starts /\ start[n].pc = "none"
      BY DEF Unused
    <2>4. start'[n] = new /\ \A m \in Starts \ {n} : start'[m] = start[m]
      BY <2>1, <2>3 DEF AppTypeOK
    <2>5. StartsSmooth'
      BY <2>2, <2>4 DEF StartsSmooth
    <2>6. Settled
      BY <2>3, <2>4 DEF Settled, Known
    <2>7. Asked(t)' = {n} /\ \A u \in Tabs \ {t} : Asked(u)' = Asked(u)
      BY <2>2, <2>3, <2>4 DEF Asked
    <2> QED
      BY <1>2, <1>3, <1>5, <2>3, <2>5, <2>6, <2>7
  <1> QED
    BY <1>4, <1>5

(* Callbacks that are waited for no more, and no other change of them.     *)
LEMMA AwaitingLess ==
  ASSUME PostsSmooth, Grown, NEW D,
         \A x \in Posts : /\ post'[x].waiting <=> post[x].waiting /\ x \notin D
                          /\ post'[x].form = post[x].form
  PROVE  PostsSmooth' /\ \A u \in Tabs : Awaiting(u)' = Awaiting(u) \ D
  <1>1. ASSUME NEW x \in Posts, post[x].waiting
        PROVE  Known(x[1])' /\ start'[x[1]].tab = start[x[1]].tab
    <2>1. x[1] \in Starts /\ Known(x[1])
      BY <1>1 DEF PostsSmooth, Posts
    <2> QED
      BY <2>1 DEF Grown, Known
  <1>2. PostsSmooth'
    BY <1>1 DEF PostsSmooth
  <1>3. ASSUME NEW u \in Tabs PROVE Awaiting(u)' = Awaiting(u) \ D
    BY <1>1 DEF Awaiting
  <1> QED
    BY <1>2, <1>3

LEMMA LoadSmoothly ==
  ASSUME IInv, Smooth, failures = 0, failures' = 0, NEW t \in Tabs, LoadTab(t)
  PROVE  Smooth'
  <1> DEFINE doc == [tab[t] EXCEPT !.loads = @ - 1]
  <1>1. /\ AppInv /\ AppTypeOK /\ StartsSmooth /\ PostsSmooth /\ LoginTypeOK
        /\ failures' \in 0..MaxFailures
    BY FailuresAssumption DEF IInv, AppInv, PageInvs, Smooth
  <1>2. Load(t) /\ PagesFollow(inbox) /\ Heard(inbox)
    <2>1. ASSUME NEW kind PROVE ~Disturb(kind)
      BY <1>1, NoDisturbance
    <2> QED
      BY <1>1, <2>1, NothingHeard DEF LoadTab
  <1>3. tab[t] \in Tab /\ tab[t].loads > 0
    BY <1>1, <1>2 DEF Load, AppTypeOK
  <1>4. Loading(t)
    <2>1. tab[t].loads # 0
      BY <1>3 DEF Tab, MaxLoads
    <2> QED
      BY <2>1 DEF Smooth, Phase, Asking, Framing, Posting, SignedIn, Spent, At
  <1>5. Asked(t) = {} /\ Awaiting(t) = {} /\ tab[t].loads = 1
    BY <1>4 DEF Loading
  <1>6. doc \in Tab /\ doc.loads = 0
    BY <1>3, <1>5 DEF Tab, MaxLoads
  <1>7. Grown /\ post' = post
    BY <1>1, <1>2, LoadKeeps DEF Load
  <1>8. PostsSmooth' /\ \A u \in Tabs : Awaiting(u)' = Awaiting(u)
    <2>1. PostsSmooth' /\ \A u \in Tabs : Awaiting(u)' = Awaiting(u) \ {}
      BY <1>1, <1>7, AwaitingLess
    <2> QED
      BY <2>1
  <1>9. CASE sessionCookie[TabBrowser[t]] \in local
    <2>1. tab' = [tab EXCEPT ![t] = [doc EXCEPT !.view = "signedIn", !.frame = 0]]
      BY <1>2, <1>9 DEF Load
    <2>2. start' = start
      BY <1>1, <1>2, <1>5, <1>9, NothingDisplaced DEF Load
    <2>3. /\ tab'[t] = [doc EXCEPT !.view = "signedIn", !.frame = 0]
          /\ \A u \in Tabs \ {t} : tab'[u] = tab[u]
      BY <1>1, <2>1 DEF AppTypeOK
    <2>4. tab'[t].view = "signedIn" /\ tab'[t].frame = 0 /\ tab'[t].loads = 0
      BY <1>6, <2>3 DEF Tab
    <2>5. StartsSmooth' /\ Settled /\ (Exhausted => Exhausted')
          /\ \A u \in Tabs : Asked(u)' = Asked(u)
      BY <1>1, <2>2 DEF StartsSmooth, Settled, Exhausted, Unused, Asked
    <2>6. Phase(t)'
      BY <1>5, <1>8, <2>4, <2>5 DEF Phase, SignedIn, At
    <2>7. OnlyTab(t, inbox)
      BY <2>3 DEF OnlyTab
    <2> QED
      BY <1>1, <1>2, <1>8, <2>4, <2>5, <2>6, <2>7, TabSmoothly, StartsAssumption
  <1>10. CASE ~(sessionCookie[TabBrowser[t]] \in local)
    <2>1. RenderSignedOut(t, doc)
      BY <1>2, <1>10 DEF Load
    <2> HIDE DEF doc
    <2>2. /\ StartsSmooth' /\ Settled /\ (Exhausted => Exhausted')
          /\ tab'[t].view = "signedOut" /\ tab'[t].frame = 0 /\ tab'[t].loads = 0
          /\ \A u \in Tabs \ {t} : tab'[u] = tab[u] /\ Asked(u)' = Asked(u)
          /\ \/ \E n \in Starts : Asked(t)' = {n}
             \/ Exhausted' /\ Asked(t)' = {}
      BY <1>1, <1>5, <1>6, <2>1, RenderSmoothly
    <2>3. Phase(t)'
      BY <1>5, <1>8, <2>2 DEF Phase, Asking, Spent, At
    <2>4. OnlyTab(t, inbox)
      BY <2>2 DEF OnlyTab
    <2> QED
      BY <1>1, <1>2, <1>8, <2>2, <2>3, <2>4, TabSmoothly, StartsAssumption
  <1> QED
    BY <1>9, <1>10

LEMMA StartSmoothly ==
  ASSUME IInv, Smooth, failures = 0, failures' = 0, NEW n \in Starts, AnswerStart(n)
  PROVE  Smooth'
  <1>1. /\ AppInv /\ AppTypeOK /\ StartsSmooth /\ PostsSmooth /\ LoginTypeOK
        /\ failures' \in 0..MaxFailures
    BY FailuresAssumption DEF IInv, AppInv, PageInvs, Smooth
  <1>2. ReceiveStart(n) /\ PagesFollow(inbox) /\ Heard(inbox)
    BY <1>1, NoDisturbance, NothingHeard DEF AnswerStart
  <1>0. PICK t \in Tabs : t = start[n].tab
    BY <1>1 DEF AppTypeOK, Start
  <1> DEFINE p == <<n, TabBrowser[t]>>
  <1>3. /\ start[n] \in Start /\ start[n].tab = t /\ start[n].pc = "sent"
        /\ start[n].place = "here" /\ start[n].display = "embed" /\ n \in Asked(t)
    BY <1>0, <1>1, <1>2 DEF ReceiveStart, AppTypeOK, Start, StartsSmooth, Asked
  <1>4. Asking(t)
    BY <1>3 DEF Smooth, Phase, Loading, Framing, Posting, SignedIn, Spent
  <1>5. Asked(t) = {n} /\ Awaiting(t) = {} /\ tab[t].view = "signedOut" /\ tab[t].loads = 0
    BY <1>3, <1>4 DEF Asking, At
  <1>6. /\ tab' = [tab EXCEPT ![t] = [tab[t] EXCEPT !.pending = n, !.frame = n]]
        /\ start' = [start EXCEPT ![n].pc = "done", ![n].place = "gone"]
        /\ UNCHANGED post
    BY <1>2, <1>3, Zenon DEF ReceiveStart
  <1>7. /\ start'[n].pc = "done" /\ start'[n].place = "gone"
        /\ start'[n].display = "embed" /\ start'[n].tab = t
        /\ \A m \in Starts \ {n} : start'[m] = start[m]
    BY <1>1, <1>3, <1>6 DEF AppTypeOK, Start
  <1>8. /\ tab[t] \in Tab /\ tab'[t] = [tab[t] EXCEPT !.pending = n, !.frame = n]
        /\ \A u \in Tabs \ {t} : tab'[u] = tab[u]
    BY <1>1, <1>3, <1>6 DEF AppTypeOK
  <1>9. /\ tab'[t].view = "signedOut" /\ tab'[t].loads = 0
        /\ tab'[t].pending = n /\ tab'[t].frame = n
    BY <1>5, <1>8 DEF Tab
  <1>10. /\ StartsSmooth' /\ Settled /\ (Exhausted => Exhausted')
    BY <1>1, <1>3, <1>7 DEF StartsSmooth, Settled, Exhausted, Unused
  <1>11. Asked(t)' = {} /\ \A u \in Tabs \ {t} : Asked(u)' = Asked(u)
    BY <1>3, <1>5, <1>7 DEF Asked
  <1>12. PostsSmooth' /\ \A u \in Tabs : Awaiting(u)' = Awaiting(u)
    <2>1. Grown
      BY <1>1, <1>2, ReceiveStartKeeps
    <2>2. PostsSmooth' /\ \A u \in Tabs : Awaiting(u)' = Awaiting(u) \ {}
      BY <1>1, <1>6, <2>1, AwaitingLess
    <2> QED
      BY <2>2
  <1>13. ~Silenced(t)'
    <2> SUFFICES ASSUME Silenced(t)' PROVE FALSE
      OBVIOUS
    <2>1. p \in Pages /\ p[1] = n /\ Here(t)' = p
      BY <1>3, <1>9, TabBrowserAssumption DEF Pages, Here
    <2>2. Alive(p)'
      BY <2>1 DEF Silenced, Alive
    <2>3. Alive(p)
      BY <1>1, <1>2, <2>1, <2>2, FollowEffect DEF IInv, Heard
    <2> QED
      BY <1>3, <2>1, <2>3 DEF Smooth, PagesSmooth
  <1>14. Phase(t)'
    BY <1>5, <1>9, <1>11, <1>12, <1>13, StartsAssumption DEF Phase, Framing, At
  <1>15. OnlyTab(t, inbox)
    BY <1>8 DEF OnlyTab
  <1> QED
    BY <1>1, <1>2, <1>3, <1>7, <1>9, <1>10, <1>11, <1>12, <1>14, <1>15, TabSmoothly

LEMMA AnswerCallbackSmoothly ==
  ASSUME IInv, Smooth, failures = 0, failures' = 0, NEW x \in Posts, AnswerCallback(x)
  PROVE  Smooth'
  <1>1. /\ AppInv /\ AppTypeOK /\ StartsSmooth /\ PostsSmooth /\ LoginTypeOK
        /\ failures' \in 0..MaxFailures
    BY FailuresAssumption DEF IInv, AppInv, PageInvs, Smooth
  <1>2. /\ PagesFollow(inbox) /\ Heard(inbox)
        /\ (\E t \in Tabs : ReceivePost(x, t)) \/ ReceivePostNowhere(x)
    BY <1>1, NoDisturbance, NothingHeard
       DEF AnswerCallback, ReceiveRedirect, PostsSmooth
  <1>3. ASSUME PostEnds(x)
        PROVE  \A y \in Posts : /\ post'[y].waiting <=> post[y].waiting /\ y \notin {x}
                                /\ post'[y].form = post[y].form
    BY <1>1, <1>3 DEF PostEnds, AppTypeOK, Post
  <1>4. ASSUME NEW t \in Tabs, ReceivePost(x, t) PROVE Smooth'
    <2>1. Grown /\ tab[t] \in Tab /\ post[x].waiting /\ start[x[1]].tab = t
      BY <1>1, <1>4, ReceivePostKeeps DEF ReceivePost, AppTypeOK
    <2>2. x \in Awaiting(t)
      BY <2>1 DEF Awaiting
    <2>3. Posting(t)
      BY <2>2 DEF Smooth, Phase, Loading, Asking, Framing, SignedIn, Spent
    <2>4. /\ Asked(t) = {} /\ Awaiting(t) = {x} /\ tab[t].view = "signedOut"
          /\ tab[t].loads = 0 /\ tab[t].pending = 0
      BY <2>2, <2>3 DEF Posting, At
    <2>5. PostsSmooth' /\ \A u \in Tabs : Awaiting(u)' = Awaiting(u) \ {x}
      BY <1>1, <1>3, <1>4, <2>1, AwaitingLess DEF ReceivePost
    <2>6. Awaiting(t)' = {} /\ \A u \in Tabs \ {t} : Awaiting(u)' = Awaiting(u)
      BY <2>1, <2>4, <2>5 DEF Awaiting
    <2>7. CASE post[x].pc = "created"
      <3>1. /\ tab' = [tab EXCEPT ![t].auto = FALSE, ![t].loads = @ + 1]
            /\ UNCHANGED start
        BY <1>4, <2>7 DEF ReceivePost
      <3>2. /\ tab'[t].view = "signedOut" /\ tab'[t].loads = 1
            /\ tab'[t].pending = 0 /\ tab'[t].frame = tab[t].frame
            /\ \A u \in Tabs \ {t} : tab'[u] = tab[u]
        BY <1>1, <2>1, <2>4, <3>1 DEF AppTypeOK, Tab, MaxLoads
      <3>3. StartsSmooth' /\ Settled /\ (Exhausted => Exhausted')
            /\ \A u \in Tabs : Asked(u)' = Asked(u)
        BY <1>1, <3>1 DEF StartsSmooth, Settled, Exhausted, Unused, Asked
      <3>4. Phase(t)'
        BY <2>4, <2>6, <3>2, <3>3 DEF Phase, Loading
      <3>5. OnlyTab(t, inbox)
        BY <3>2 DEF OnlyTab
      <3>6. \A n \in Starts : tab'[t].frame = n => start'[n].pc # "sent"
        BY <3>1, <3>2 DEF Smooth, PagesSmooth
      <3> QED
        BY <1>1, <1>2, <2>5, <2>6, <3>3, <3>4, <3>5, <3>6, TabSmoothly
    <2>8. CASE post[x].pc # "created"
      <3>1. RenderSignedOut(t, tab[t])
        BY <1>4, <2>8 DEF ReceivePost
      <3>2. /\ StartsSmooth' /\ Settled /\ (Exhausted => Exhausted')
            /\ tab'[t].view = "signedOut" /\ tab'[t].frame = 0 /\ tab'[t].loads = 0
            /\ \A u \in Tabs \ {t} : tab'[u] = tab[u] /\ Asked(u)' = Asked(u)
            /\ \/ \E n \in Starts : Asked(t)' = {n}
               \/ Exhausted' /\ Asked(t)' = {}
        BY <1>1, <2>1, <2>4, <3>1, RenderSmoothly
      <3>3. Phase(t)'
        BY <2>6, <3>2 DEF Phase, Asking, Spent, At
      <3>4. OnlyTab(t, inbox)
        BY <3>2 DEF OnlyTab
      <3> QED
        BY <1>1, <1>2, <2>5, <2>6, <3>2, <3>3, <3>4, TabSmoothly, StartsAssumption
    <2> QED
      BY <2>7, <2>8
  <1>5. CASE ReceivePostNowhere(x)
    <2>1. /\ UNCHANGED <<tab, start>> /\ PostEnds(x) /\ ~post[x].waiting
      BY <1>5 DEF ReceivePostNowhere
    <2>2. Grown
      BY <1>1, <2>1, NoGrowth
    <2>3. PostsSmooth' /\ \A u \in Tabs : Awaiting(u)' = Awaiting(u) \ {x}
      BY <1>1, <1>3, <2>1, <2>2, AwaitingLess
    <2>4. \A u \in Tabs : Awaiting(u)' = Awaiting(u)
      BY <2>1, <2>3 DEF Awaiting
    <2>5. UNCHANGED <<page, inbox>>
      <3>1. OnScreen(tab) \ OnScreen(tab') = {}
        BY <2>1
      <3>2. page' = [p \in Pages |-> page[p]] /\ inbox' = [n \in Starts |-> inbox[n]]
        BY <1>2, <3>1 DEF PagesFollow
      <3> QED
        BY <1>1, <3>2 DEF LoginTypeOK
    <2>6. PICK t \in Tabs : TRUE
      BY TabBrowserAssumption
    <2>7. Phase(t)'
      <3>1. Asked(t)' = Asked(t) /\ (Exhausted => Exhausted') /\ Silenced(t)' = Silenced(t)
        BY <2>1, <2>5 DEF Asked, Exhausted, Unused, Silenced, Here
      <3> QED
        BY <2>1, <2>4, <3>1, PhaseStays DEF Smooth
    <2>8. /\ StartsSmooth' /\ Settled /\ (Exhausted => Exhausted')
          /\ \A u \in Tabs : Asked(u)' = Asked(u)
      BY <1>1, <2>1 DEF StartsSmooth, Settled, Exhausted, Unused, Asked
    <2>9. OnlyTab(t, inbox)
      BY <2>1 DEF OnlyTab
    <2>10. \A n \in Starts : tab'[t].frame = n => start'[n].pc # "sent"
      BY <2>1 DEF Smooth, PagesSmooth
    <2> QED
      BY <1>1, <1>2, <2>3, <2>4, <2>7, <2>8, <2>9, <2>10, TabSmoothly
  <1> QED
    BY <1>2, <1>4, <1>5

LEMMA HearSmoothly ==
  ASSUME IInv, Smooth, failures = 0, failures' = 0, NEW t \in Tabs, HearMessage(t)
  PROVE  Smooth'
  <1>1. /\ AppInv /\ AppTypeOK /\ StartsSmooth /\ PostsSmooth /\ LoginTypeOK
        /\ failures' \in 0..MaxFailures /\ tab[t] \in Tab /\ Phase(t)
    BY FailuresAssumption DEF IInv, AppInv, PageInvs, Smooth, AppTypeOK
  <1>2. PICK n \in Starts :
          /\ n = tab[t].frame /\ n # 0 /\ inbox[n] # << >>
          /\ inbox[n] \in Seq(MessageTypes) /\ start[n].tab = t /\ Known(n)
    <2>1. tab[t].frame # 0 /\ inbox[tab[t].frame] # << >> /\ tab[t].frame \in Starts
      BY <1>1 DEF HearMessage, Tab
    <2>2. start[tab[t].frame].tab = t /\ Known(tab[t].frame)
      BY <1>1, <2>1 DEF AppInv, TabInv
    <2> QED
      BY <1>1, <2>1, <2>2 DEF LoginTypeOK
  <1>3. PICK message \in {"SUCCESS", "EXPIRED"} : message = Head(inbox[n])
    <2>1. 1 \in DOMAIN inbox[n] /\ Head(inbox[n]) = inbox[n][1] /\ Head(inbox[n]) \in MessageTypes
      BY <1>2
    <2> QED
      BY <2>1 DEF Smooth, PagesSmooth, MessageTypes
  <1>4. PICK said : said = [inbox EXCEPT ![n] = Tail(inbox[n])]
    OBVIOUS
  <1>5. /\ PagesFollow(said) /\ tab[t].view = "signedOut"
        /\ IF tab[t].pending = n THEN Hear(t, message) ELSE Unmoved
    BY <1>2, <1>3, <1>4 DEF HearMessage
  <1>6. Heard(said) /\ \A m \in Starts : m # n => said[m] = inbox[m]
    <2>1. /\ Tail(inbox[n]) \in Seq(MessageTypes)
          /\ \A m \in Starts : said[m] = IF m = n THEN Tail(inbox[n]) ELSE inbox[m]
      BY <1>1, <1>2, <1>4 DEF LoginTypeOK
    <2>2. said \in [Starts -> Seq(MessageTypes)]
      BY <1>1, <1>4, <2>1 DEF LoginTypeOK
    <2> QED
      BY <1>2, <2>1, <2>2 DEF Heard, Fewer
  <1>7. CASE tab[t].pending # n
    <2>1. UNCHANGED <<tab, start, post>>
      BY <1>5, <1>7 DEF Unmoved, appVars
    <2>2. ~Framing(t) /\ ~SignedIn(t) /\ ~Asking(t) /\ ~Spent(t)
      BY <1>2, <1>7 DEF Framing, SignedIn, Asking, Spent
    <2>3. /\ \A u \in Tabs : Asked(u)' = Asked(u) /\ Awaiting(u)' = Awaiting(u)
          /\ StartsSmooth' /\ PostsSmooth' /\ Settled /\ (Exhausted => Exhausted')
      BY <1>1, <2>1 DEF Asked, Awaiting, StartsSmooth, PostsSmooth, Known, Settled,
                        Exhausted, Unused
    <2>4. Phase(t)'
      BY <1>1, <2>1, <2>2, <2>3 DEF Phase, Loading, Posting, At
    <2>5. OnlyTab(t, said)
      BY <1>2, <1>6, <2>1 DEF OnlyTab
    <2>6. \A m \in Starts : tab'[t].frame = m => start'[m].pc # "sent"
      BY <2>1 DEF Smooth, PagesSmooth
    <2> QED
      BY <1>1, <1>5, <1>6, <2>3, <2>4, <2>5, <2>6, TabSmoothly
  <1>8. CASE tab[t].pending = n
    <2>1. Framing(t) /\ Hear(t, message)
      <3>1. ~Loading(t) /\ ~Posting(t)
        BY <1>2, <1>8 DEF Loading, Posting
      <3>2. ~Asking(t) /\ ~SignedIn(t) /\ ~Spent(t)
        BY <1>2 DEF Asking, SignedIn, Spent
      <3> QED
        BY <1>1, <1>5, <1>8, <3>1, <3>2 DEF Phase
    <2>2. Asked(t) = {} /\ Awaiting(t) = {} /\ tab[t].loads = 0
      BY <2>1 DEF Framing, At
    <2>3. Grown
      BY <1>1, <1>2, <1>8, <2>1, HearKeeps DEF MessageTypes
    <2>4. CASE message = "EXPIRED"
      <3>1. RenderSignedOut(t, tab[t]) /\ UNCHANGED post
        BY <2>1, <2>4 DEF Hear
      <3>2. /\ StartsSmooth' /\ Settled /\ (Exhausted => Exhausted')
            /\ tab'[t].view = "signedOut" /\ tab'[t].frame = 0 /\ tab'[t].loads = 0
            /\ \A u \in Tabs \ {t} : tab'[u] = tab[u] /\ Asked(u)' = Asked(u)
            /\ \/ \E m \in Starts : Asked(t)' = {m}
               \/ Exhausted' /\ Asked(t)' = {}
        BY <1>1, <2>2, <3>1, RenderSmoothly
      <3>3. PostsSmooth' /\ \A u \in Tabs : Awaiting(u)' = Awaiting(u)
        <4>1. PostsSmooth' /\ \A u \in Tabs : Awaiting(u)' = Awaiting(u) \ {}
          BY <1>1, <2>3, <3>1, AwaitingLess
        <4> QED
          BY <4>1
      <3>4. Phase(t)'
        BY <2>2, <3>2, <3>3 DEF Phase, Asking, Spent, At
      <3>5. OnlyTab(t, said)
        BY <1>2, <1>6, <3>2 DEF OnlyTab
      <3> QED
        BY <1>1, <1>5, <1>6, <3>2, <3>3, <3>4, <3>5, TabSmoothly, StartsAssumption
    <2>5. CASE message = "SUCCESS"
      <3> DEFINE x == <<n, TabBrowser[t], 1>>
      <3>1. /\ tab' = [tab EXCEPT ![t].pending = 0]
            /\ post' = [post EXCEPT ![x] = Sent(x, FALSE)] /\ UNCHANGED start
        BY <1>8, <2>1, <2>5 DEF Hear, SendPost
      <3>2. x \in Posts /\ x[1] = n
        BY TabBrowserAssumption DEF Posts
      <3>3. Sent(x, FALSE).waiting = TRUE /\ Sent(x, FALSE).form = FALSE
        BY DEF Sent
      <3> HIDE DEF x
      <3>4. /\ post'[x].waiting = TRUE /\ post'[x].form = FALSE
            /\ \A y \in Posts \ {x} : post'[y] = post[y]
        BY <1>1, <3>1, <3>2, <3>3 DEF AppTypeOK
      <3>5. /\ tab'[t].view = "signedOut" /\ tab'[t].loads = 0
            /\ tab'[t].pending = 0 /\ tab'[t].frame = n
            /\ \A u \in Tabs \ {t} : tab'[u] = tab[u]
        BY <1>1, <1>2, <1>5, <2>2, <3>1 DEF AppTypeOK, Tab
      <3>6. /\ \A u \in Tabs : Asked(u)' = Asked(u)
            /\ StartsSmooth' /\ Settled /\ (Exhausted => Exhausted')
        BY <1>1, <3>1 DEF Asked, StartsSmooth, Settled, Exhausted, Unused
      <3>7. PostsSmooth'
        BY <1>1, <1>2, <3>1, <3>2, <3>4 DEF PostsSmooth, Known
      <3>8. Awaiting(t)' = {x}
        <4>1. start[x[1]].tab = t
          BY <1>2, <3>2
        <4>2. \A y \in Posts \ {x} : ~(post[y].waiting /\ start[y[1]].tab = t)
          BY <2>2 DEF Awaiting
        <4> QED
          BY <3>1, <3>2, <3>4, <4>1, <4>2 DEF Awaiting
      <3>9. \A u \in Tabs \ {t} : Awaiting(u)' = Awaiting(u)
        BY <1>2, <3>1, <3>2, <3>4 DEF Awaiting
      <3>10. Phase(t)'
        BY <2>2, <3>2, <3>5, <3>6, <3>8 DEF Phase, Posting, At
      <3>11. OnlyTab(t, said)
        BY <1>2, <1>6, <3>5 DEF OnlyTab
      <3>12. \A m \in Starts : tab'[t].frame = m => start'[m].pc # "sent"
        BY <1>2, <3>1, <3>5 DEF Smooth, PagesSmooth
      <3> QED
        BY <1>1, <1>5, <1>6, <3>6, <3>7, <3>9, <3>10, <3>11, <3>12, TabSmoothly
    <2> QED
      BY <2>4, <2>5
  <1> QED
    BY <1>7, <1>8

-----------------------------------------------------------------------------
LEMMA NextSmooth == IInv /\ SmoothInv /\ [Next]_vars => SmoothInv'
  <1> SUFFICES ASSUME IInv, SmoothInv, [Next]_vars, failures' = 0
               PROVE  Smooth'
    BY DEF SmoothInv
  <1>1. CASE UNCHANGED vars
    <2>1. UNCHANGED <<page, inbox, call, failures>> /\ UNCHANGED <<tab, start, post>>
      BY <1>1 DEF vars, loginVars, pages, appVars
    <2> QED
      BY <2>1 DEF SmoothInv, Smooth, Phase, Loading, Asking, Framing, Posting, SignedIn,
                  Spent, At, Asked, Awaiting, Silenced, Here, Exhausted, Unused,
                  StartsSmooth, PostsSmooth, PagesSmooth, Known, Alive
  <1>2. CASE Next
    <2>1. failures = 0
      <3>1. failures \in Nat
        BY FailuresAssumption DEF IInv, PageInvs, LoginTypeOK
      <3>2. Calm \/ \E kind \in Disturbances : Disturb(kind)
        BY <1>2 DEF Next, Open, OpenAgain, SignIn, Wander, Serve, ReceiveAnswer,
                    ReceiveTooLate, HearMessage, LoadTab, AnswerStart, Callback,
                    AnswerCallback, PostAgain, SignOutHere, LeaveEverywhere,
                    FederationLogout, ReturnToApp, OpenAnew, Expire, Disturb
      <3> QED
        BY <3>1, <3>2 DEF Calm, Disturb
    <2>2. Smooth
      BY <2>1 DEF SmoothInv
    <2>3. ASSUME NEW kind PROVE ~Disturb(kind)
      BY <2>1, NoDisturbance
    <2>4. ASSUME NEW t \in Tabs,
                 \/ Open(t) \/ HearMessage(t) \/ LoadTab(t) \/ SignOutHere(t)
                 \/ LeaveEverywhere(t) \/ FederationLogout(t) \/ ReturnToApp(t)
                 \/ \E auto \in BOOLEAN : OpenAnew(t, auto)
          PROVE  Smooth'
      <3>1. tab[t].view \notin {"away", "leaving"}
        BY <2>2 DEF Smooth, Phase, Loading, Asking, Framing, Posting, SignedIn, Spent, At
      <3>2. Open(t) \/ HearMessage(t) \/ LoadTab(t)
        BY <2>3, <2>4, <3>1 DEF SignOutHere, LeaveEverywhere, FederationLogout,
                                ReturnToApp, DeadEnd, OpenAnew
      <3> QED
        BY <2>1, <2>2, <3>2, OpenSmoothly, HearSmoothly, LoadSmoothly
    <2>5. ASSUME NEW p \in Pages,
                 \/ SignIn(p) \/ Wander(p) \/ Serve(p) \/ OpenAgain(p)
                 \/ \E k \in Kinds : ReceiveAnswer(p, k) \/ ReceiveTooLate(p, k)
          PROVE  Smooth'
      <3>1. ~Wander(p) /\ ~OpenAgain(p)
        BY <2>3 DEF Wander, OpenAgain
      <3> QED
        BY <2>1, <2>2, <2>5, <3>1, CallSmoothly, AnswerSmoothly
    <2>6. ASSUME NEW n \in Starts,
                 \/ AnswerStart(n) \/ Expire(n)
                 \/ \E b \in Browsers : PostAgain(n, b)
          PROVE  Smooth'
      <3>1. AnswerStart(n)
        BY <2>3, <2>6 DEF Expire, PostAgain
      <3> QED
        BY <2>1, <2>2, <3>1, StartSmoothly
    <2>7. ASSUME NEW x \in Posts, Callback(x) \/ AnswerCallback(x)
          PROVE  Smooth'
      BY <2>1, <2>2, <2>7, CallbackSmoothly, AnswerCallbackSmoothly
    <2> QED
      BY <1>2, <2>4, <2>5, <2>6, <2>7 DEF Next
  <1> QED
    BY <1>1, <1>2

(* Nothing but a disturbance strands a tab (StuckOnlyByAccident): as long  *)
(* as no request is refused or lost, nothing expires and the user keeps    *)
(* to the flow, `pending` of app.js is the start of the frame on screen    *)
(* whenever the tab has to hear it, in whatever order the tabs' starts,    *)
(* messages and callbacks are answered.                                    *)
THEOREM StrandedOnlyByAccident == SafetySpec => []StuckOnlyByAccident
  <1>1. IInv /\ SmoothInv => StuckOnlyByAccident
    <2> SUFFICES ASSUME IInv, SmoothInv, NEW t \in Tabs, Stranded(t)
                 PROVE  failures > 0
      BY DEF StuckOnlyByAccident
    <2>1. failures # 0
      BY PhaseNotStranded DEF SmoothInv, Smooth
    <2> QED
      BY <2>1, FailuresAssumption DEF IInv, PageInvs, LoginTypeOK
  <1>2. Init => SmoothInv
    BY InitSmooth
  <1>3. IInv /\ SmoothInv /\ [Next]_vars => SmoothInv'
    BY NextSmooth
  <1> QED
    BY <1>1, <1>2, <1>3, SpecIInv, PTL DEF SafetySpec
=============================================================================
