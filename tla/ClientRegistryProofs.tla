------------------------ MODULE ClientRegistryProofs ------------------------
(***************************************************************************)
(* Proofs about ClientRegistry, for any numbers of requests, versions and  *)
(* seconds, any configurations and any TTLs.                               *)
(***************************************************************************)
EXTENDS ClientRegistry, TLAPS

(* What bounds the age of an answer that is handed out at time t: the      *)
(* version it holds was replaced at t - d or later, if at all.             *)
ReplacedSince(v, t) == v < Current => history[v + 1].since >= t

Limit(v) == IF ConfigOf(v) = NoClient THEN NegativeTtl ELSE Ttl

HistoryInv ==
  /\ history \in Seq(Version) /\ Current >= 1
  /\ \A i \in 1 .. Current : history[i].since <= now

(* An answer that has still to be stored, and an entry, know when they were *)
(* read.                                                                    *)
PendingInv ==
  \A r \in Requests : req[r].pc = "store" =>
    /\ CacheOn
    /\ req[r].version \in 1 .. Current
    /\ req[r].at <= now /\ now <= req[r].at + Latency
    /\ ReplacedSince(req[r].version, req[r].at)

CacheInv ==
  cache # Empty =>
    /\ CacheOn
    /\ cache.version \in 1 .. Current
    /\ now < cache.until /\ cache.until <= now + EntryTtl(cache.version)
    /\ ReplacedSince(cache.version,
                     cache.until - EntryTtl(cache.version) - Latency)

(* While a fresh read that was not overlapped is under way, nothing older  *)
(* than it waits to be stored; once it has removed the entry, nothing      *)
(* older is cached.                                                        *)
Undisturbed(r) ==
  req[r].kind \in Fresh /\ ~ req[r].overlapped /\ req[r].pc \notin {"new", "done"}

FreshInv ==
  \A r \in Requests : Undisturbed(r) =>
    /\ \A p \in Requests : req[p].pc = "store" => req[p].version >= req[r].began
    /\ req[r].pc # "invalidate" /\ cache # Empty => cache.version >= req[r].began

IInv ==
  /\ TypeOK /\ HistoryInv /\ PendingInv /\ CacheInv /\ FreshInv
  /\ FreshReadsAreCurrent

-----------------------------------------------------------------------------
(* Bindings are made of registered values only (ClientPolicy).             *)
LEMMA BindingsType ==
  ASSUME NEW c \in ClientConfig,
         NEW ask \in [display : Displays, origin : Origins \cup {NoValue},
                      callback : Callbacks \cup {NoValue}]
  PROVE  Bindings(c, ask) \subseteq Binding
<1>1. ResolvedCallbacks(c, ask.callback) \subseteq Callbacks
  BY DEF ResolvedCallbacks, ClientConfig
<1>2. ResolvedOrigins(c, ask.origin) \subseteq Origins
  BY DEF ResolvedOrigins, ClientConfig
<1>3. QED
  BY <1>1, <1>2 DEF Bindings, Binding

(* What a step of one request leaves behind in the table of requests.      *)
LEMMA BecomesType ==
  ASSUME TypeOK, NEW r \in Requests, NEW q, q \in Request, Becomes(r, q)
  PROVE  /\ req' \in [Requests -> Request]
         /\ req'[r] = q
         /\ \A p \in Requests : p # r => req'[p] = req[p]
BY DEF TypeOK, Becomes

LEMMA DecideType ==
  ASSUME TypeOK, NEW r \in Requests, NEW v \in 1 .. Current, Decide(r, v),
         UNCHANGED history
  PROVE  /\ req' \in [Requests -> Request]
         /\ req'[r] = [req[r] EXCEPT !.pc = "done", !.version = v, !.at = 0,
              !.result = IF Allowed(req[r], v) THEN "allowed" ELSE "refused"]
         /\ \A p \in Requests : p # r => req'[p] = req[p]
         /\ bound' \in SUBSET Binding
<1> DEFINE res == IF Allowed(req[r], v) THEN "allowed" ELSE "refused"
           q == [req[r] EXCEPT !.pc = "done", !.version = v, !.at = 0, !.result = res]
<1>1. req[r] \in Request
  BY DEF TypeOK
<1>2. res \in Results
  BY DEF Results
<1>3. "done" \in PC /\ v \in Nat /\ 0 \in Nat
  BY DEF PC, Current, TypeOK
<1> HIDE DEF res
<1>4. q \in Request
  BY <1>1, <1>2, <1>3 DEF Request
<1>5. Becomes(r, q)
  BY DEF Decide, res
<1>6. bound' \in SUBSET Binding
  <2>1. CASE req[r].kind = "create" /\ ConfigOf(v) # NoClient
    <3>0. history[v] \in Version
      BY DEF TypeOK, Current
    <3>1. ConfigOf(v) \in ClientConfig
      BY <2>1, <3>0, ConfigsAssumption DEF ConfigOf, Version
    <3>2. bound' = bound \cup Bindings(ConfigOf(v), req[r].ask)
      BY <2>1 DEF Decide
    <3>3. req[r].ask \in [display : Displays, origin : Origins \cup {NoValue},
                           callback : Callbacks \cup {NoValue}]
      BY <2>1, AsksAssumption DEF TypeOK
    <3>4. Bindings(ConfigOf(v), req[r].ask) \subseteq Binding
      BY <3>1, <3>3, BindingsType
    <3> QED
      BY <3>2, <3>4 DEF TypeOK
  <2>2. QED
    BY <2>1 DEF Decide, TypeOK
<1>7. QED
  BY <1>4, <1>5, <1>6, BecomesType DEF res

(* The answer of a request that stands before Decide.                      *)
LEMMA AnswerInRange ==
  ASSUME TypeOK, HistoryInv, PendingInv, CacheInv, NEW r \in Requests
  PROVE  /\ Get(r) /\ cache # Empty => cache.version \in 1 .. Current
         /\ Store(r) => req[r].version \in 1 .. Current
         /\ Current \in 1 .. Current
BY DEF CacheInv, PendingInv, HistoryInv, Store, Current

(* Every step changes the type-correct state into one.                     *)
LEMMA TypeNext ==
  ASSUME TypeOK, HistoryInv, PendingInv, CacheInv, [Next]_vars
  PROVE  TypeOK'
<1> DEFINE Rows(r) ==
      /\ req[r].version <= Current /\ req[r].began <= Current
      /\ req[r].kind = "create" => req[r].ask \in Asks
      /\ req[r].kind = "sign-in" => req[r].ask \in bound
<1>t. /\ history \in Seq(Version) /\ history # << >>
      /\ cache \in Cached /\ now \in Nat
      /\ req \in [Requests -> Request] /\ bound \in SUBSET Binding
      /\ cache.version <= Current
      /\ \A p \in Requests : Rows(p)
  BY DEF TypeOK
<1>c. Current \in Nat
  BY <1>t DEF Current
<1>e. Empty \in Cached /\ Empty.version = 0
  BY DEF Empty, Cached
<1>1. ASSUME NEW r \in Requests, NEW v \in 1 .. Current, Decide(r, v),
             UNCHANGED history, now' = now,
             cache' \in Cached, cache'.version <= Current
      PROVE  TypeOK'
  <2>1. /\ req' \in [Requests -> Request]
        /\ req'[r] = [req[r] EXCEPT !.pc = "done", !.version = v, !.at = 0,
              !.result = IF Allowed(req[r], v) THEN "allowed" ELSE "refused"]
        /\ \A p \in Requests : p # r => req'[p] = req[p]
        /\ bound' \in SUBSET Binding
    BY <1>1, DecideType
  <2>2. bound \subseteq bound'
    BY <1>1 DEF Decide
  <2>3. Current' = Current
    BY <1>1 DEF Current
  <2>r. req[r] \in Request
    BY <1>t
  <2>4. ASSUME NEW p \in Requests PROVE Rows(p)'
    <3>1. CASE p = r
      <4>1. /\ req'[r].version = v /\ req'[r].began = req[r].began
            /\ req'[r].kind = req[r].kind /\ req'[r].ask = req[r].ask
        BY <2>1, <2>r DEF Request
      <4> QED
        BY <3>1, <4>1, <2>2, <2>3, <1>t
    <3>2. CASE p # r
      BY <3>2, <2>1, <2>2, <2>3, <1>t
    <3> QED
      BY <3>1, <3>2
  <2> QED
    BY <1>1, <1>t, <2>1, <2>3, <2>4 DEF TypeOK
<1>2. ASSUME NEW r \in Requests, NEW q \in Request, Becomes(r, q),
             UNCHANGED <<history, now, bound>>,
             cache' \in Cached, cache'.version <= Current,
             q.version <= Current, q.began <= Current,
             q.kind = "create" => q.ask \in Asks,
             q.kind = "sign-in" => q.ask \in bound
      PROVE  TypeOK'
  <2>1. /\ req' \in [Requests -> Request] /\ req'[r] = q
        /\ \A p \in Requests : p # r => req'[p] = req[p]
    BY <1>2, BecomesType
  <2>2. Current' = Current
    BY <1>2 DEF Current
  <2>3. ASSUME NEW p \in Requests PROVE Rows(p)'
    BY <2>1, <2>2, <1>2, <1>t
  <2> QED
    BY <1>2, <1>t, <2>1, <2>2, <2>3 DEF TypeOK
<1>r. ASSUME NEW r \in Requests
      PROVE  req[r] \in Request /\ Rows(r)
  BY <1>t
<1> HIDE DEF Rows
<1>3. ASSUME NEW r \in Requests, NEW kind \in Kinds,
             NEW ask \in Asks \cup bound \cup {NoValue}, Start(r, kind, ask)
      PROVE  TypeOK'
  <2> DEFINE pc == IF kind \in Fresh THEN "invalidate" ELSE "get"
             over == \E p \in Requests :
                       req[p].pc = "store" /\ req[p].version # Current
             q == [req[r] EXCEPT !.pc = pc, !.kind = kind, !.ask = ask,
                                 !.began = Current, !.overlapped = over]
  <2>1. pc \in PC /\ over \in BOOLEAN /\ ask \in Asks \cup Binding \cup {NoValue}
    BY <1>t DEF PC
  <2>2. Becomes(r, q) /\ UNCHANGED <<history, cache, now, bound>>
    BY <1>3 DEF Start
  <2>3. kind = "create" => ask \in Asks
    BY <1>3 DEF Start
  <2>4. kind = "sign-in" => ask \in bound
    BY <1>3 DEF Start
  <2> HIDE DEF pc, over
  <2>5. q \in Request
    BY <1>r, <1>c, <2>1 DEF Request
  <2>6. q.version = req[r].version /\ q.began = Current /\ q.kind = kind /\ q.ask = ask
    BY <1>r DEF Request
  <2>7. q.version <= Current
    BY <1>r, <2>6 DEF Rows
  <2>8. cache' \in Cached /\ cache'.version <= Current /\ q.began <= Current
    BY <1>t, <1>c, <2>2, <2>6
  <2> HIDE DEF q
  <2> QED
    BY <2>8, <1>2, <1>t, <1>c, <2>2, <2>3, <2>4, <2>5, <2>6, <2>7
<1>4. ASSUME NEW r \in Requests, NEW pc \in PC,
             Becomes(r, [req[r] EXCEPT !.pc = pc]),
             UNCHANGED <<history, now, bound>>, cache' \in {cache, Empty}
      PROVE  TypeOK'
  <2> DEFINE q == [req[r] EXCEPT !.pc = pc]
  <2>1. q \in Request
    BY <1>r DEF Request
  <2>2. /\ q.version = req[r].version /\ q.began = req[r].began
        /\ q.kind = req[r].kind /\ q.ask = req[r].ask
    BY <1>r DEF Request
  <2>3. cache' \in Cached /\ cache'.version <= Current
    BY <1>4, <1>t, <1>c, <1>e
  <2> HIDE DEF q
  <2> QED
    BY <1>2, <1>4, <1>r, <2>1, <2>2, <2>3 DEF Rows, q
<1>5. ASSUME NEW r \in Requests, Invalidate(r) PROVE TypeOK'
  <2>1. "get" \in PC
    BY DEF PC
  <2> QED
    BY <1>4, <1>5, <2>1 DEF Invalidate
<1>6. ASSUME NEW r \in Requests, Get(r) PROVE TypeOK'
  <2>1. CASE CacheOn /\ cache # Empty
    <3>1. cache.version \in 1 .. Current
      BY <1>6, <2>1, AnswerInRange
    <3>2. Decide(r, cache.version) /\ UNCHANGED <<history, cache, now>>
      BY <1>6, <2>1 DEF Get
    <3> QED
      BY <1>1, <1>t, <3>1, <3>2
  <2>2. CASE ~ (CacheOn /\ cache # Empty)
    <3>1. "fetch" \in PC
      BY DEF PC
    <3>2. Becomes(r, [req[r] EXCEPT !.pc = "fetch"]) /\ UNCHANGED <<history, cache, now, bound>>
      BY <1>6, <2>2 DEF Get
    <3> QED
      BY <1>4, <3>1, <3>2
  <2> QED
    BY <2>1, <2>2
<1>7. ASSUME NEW r \in Requests, Fetch(r) PROVE TypeOK'
  <2>1. CASE CacheOn
    <3> DEFINE q == [req[r] EXCEPT !.pc = "store", !.version = Current, !.at = now]
    <3>1. "store" \in PC
      BY DEF PC
    <3>2. q \in Request
      BY <1>r, <1>c, <1>t, <3>1 DEF Request
    <3>3. /\ q.version = Current /\ q.began = req[r].began
          /\ q.kind = req[r].kind /\ q.ask = req[r].ask
      BY <1>r DEF Request
    <3>4. Becomes(r, q) /\ UNCHANGED <<history, cache, now, bound>>
      BY <1>7, <2>1 DEF Fetch
    <3> HIDE DEF q
    <3> QED
      BY <1>2, <1>t, <1>c, <1>r, <3>2, <3>3, <3>4 DEF Rows
  <2>2. CASE ~ CacheOn
    <3>1. Decide(r, Current) /\ UNCHANGED <<history, cache, now>>
      BY <1>7, <2>2 DEF Fetch
    <3> QED
      BY <1>1, <1>t, <3>1, AnswerInRange
  <2> QED
    BY <2>1, <2>2
<1>8. ASSUME NEW r \in Requests, Unavailable(r) PROVE TypeOK'
  <2> DEFINE q == [req[r] EXCEPT !.pc = "done", !.result = "unavailable", !.at = 0]
  <2>1. "done" \in PC /\ "unavailable" \in Results
    BY DEF PC, Results
  <2>2. q \in Request
    BY <1>r, <2>1 DEF Request
  <2>3. /\ q.version = req[r].version /\ q.began = req[r].began
        /\ q.kind = req[r].kind /\ q.ask = req[r].ask
    BY <1>r DEF Request
  <2>4. Becomes(r, q) /\ UNCHANGED <<history, cache, now, bound>>
    BY <1>8 DEF Unavailable
  <2> HIDE DEF q
  <2> QED
    BY <1>2, <1>t, <1>r, <2>2, <2>3, <2>4 DEF Rows
<1>9. ASSUME NEW r \in Requests, Store(r) PROVE TypeOK'
  <2> DEFINE v == req[r].version
  <2>1. v \in 1 .. Current
    BY <1>9, AnswerInRange
  <2>2. now + EntryTtl(v) \in Nat
    BY <1>t, TimesAssumption DEF EntryTtl
  <2>3. cache' = [version |-> v, until |-> now + EntryTtl(v)]
    BY <1>9 DEF Store
  <2>4. cache' \in Cached /\ cache'.version <= Current
    BY <2>1, <2>2, <2>3, <1>c DEF Cached
  <2>5. Decide(r, v) /\ UNCHANGED <<history, now>>
    BY <1>9 DEF Store
  <2> QED
    BY <1>1, <2>1, <2>4, <2>5
<1>10. ASSUME NEW c \in Configs \cup {NoClient}, Change(c) PROVE TypeOK'
  <2>1. /\ history' = Append(history, [config |-> c, since |-> now])
        /\ UNCHANGED <<cache, now, req, bound>>
    BY <1>10 DEF Change
  <2>2. [config |-> c, since |-> now] \in Version
    BY <1>t DEF Version
  <2>3. history' \in Seq(Version) /\ history' # << >> /\ Current' = Current + 1
    BY <1>t, <2>1, <2>2 DEF Current
  <2>4. ASSUME NEW p \in Requests PROVE Rows(p)'
    <3>1. req[p] \in Request
      BY <1>r
    <3>2. req[p].version \in Nat /\ req[p].began \in Nat
      BY <3>1 DEF Request
    <3> QED
      BY <1>r, <1>c, <2>1, <2>3, <3>2 DEF Rows
  <2>5. cache'.version <= Current'
    BY <1>t, <1>c, <2>1, <2>3 DEF Cached
  <2> QED
    BY <1>t, <2>1, <2>3, <2>4, <2>5 DEF TypeOK, Rows
<1>11. ASSUME Tick PROVE TypeOK'
  <2>1. /\ now' = now + 1 /\ cache' \in {cache, Empty}
        /\ UNCHANGED <<history, req, bound>>
    BY <1>11 DEF Tick
  <2>2. Current' = Current
    BY <2>1 DEF Current
  <2>3. cache' \in Cached /\ cache'.version <= Current
    BY <2>1, <1>t, <1>c, <1>e
  <2> QED
    BY <1>t, <2>1, <2>2, <2>3 DEF TypeOK, Rows
<1>12. ASSUME UNCHANGED vars PROVE TypeOK'
  BY <1>12, <1>t DEF TypeOK, vars, Current, Rows
<1> QED
  BY <1>3, <1>5, <1>6, <1>7, <1>8, <1>9, <1>10, <1>11, <1>12 DEF Next

-----------------------------------------------------------------------------
(* Where the table of requests changes: the row of one request, to a pc.   *)
LEMMA DecideRow ==
  ASSUME TypeOK, NEW r \in Requests, NEW v \in 1 .. Current, Decide(r, v),
         UNCHANGED history
  PROVE  /\ req'[r].pc = "done" /\ req'[r].version = v
         /\ req'[r].began = req[r].began /\ req'[r].kind = req[r].kind
         /\ req'[r].overlapped = req[r].overlapped
         /\ \A p \in Requests : p # r => req'[p] = req[p]
<1> DEFINE res == IF Allowed(req[r], v) THEN "allowed" ELSE "refused"
<1>1. req[r] \in Request
  BY DEF TypeOK
<1>2. /\ req'[r] = [req[r] EXCEPT !.pc = "done", !.version = v, !.at = 0, !.result = res]
      /\ \A p \in Requests : p # r => req'[p] = req[p]
  BY DecideType
<1> HIDE DEF res
<1>3. QED
  BY <1>1, <1>2 DEF Request

(* The versions of the configuration are never in the future.              *)
LEMMA HistoryNext ==
  ASSUME TypeOK, HistoryInv, [Next]_vars
  PROVE  HistoryInv'
<1>1. CASE UNCHANGED <<history, now>>
  BY <1>1 DEF HistoryInv, Current
<1>2. ASSUME NEW c \in Configs \cup {NoClient}, Change(c) PROVE HistoryInv'
  <2>1. [config |-> c, since |-> now] \in Version /\ now' = now
    BY <1>2 DEF TypeOK, Version, Change
  <2>2. history' = Append(history, [config |-> c, since |-> now])
    BY <1>2 DEF Change
  <2> QED
    BY <2>1, <2>2 DEF HistoryInv, Current, TypeOK
<1>3. CASE Tick
  <2>1. \A i \in 1 .. Current : history[i] \in Version
    BY DEF HistoryInv, Current
  <2> QED
    BY <1>3, <2>1 DEF Tick, HistoryInv, Current, TypeOK, Version
<1>4. ASSUME NEW r \in Requests,
             \/ \E kind \in Kinds, ask \in Asks \cup bound \cup {NoValue} : Start(r, kind, ask)
             \/ Invalidate(r) \/ Get(r) \/ Fetch(r) \/ Store(r) \/ Unavailable(r)
      PROVE  HistoryInv'
  BY <1>1, <1>4 DEF Start, Invalidate, Get, Fetch, Store, Unavailable
<1> QED
  BY <1>1, <1>2, <1>3, <1>4 DEF Next, vars

(* A step of a request: which part of the state it leaves alone, and how   *)
(* its own row changes.  Start is not among them.                          *)
LEMMA RequestStep ==
  ASSUME TypeOK, HistoryInv, PendingInv, CacheInv, NEW r \in Requests,
         Invalidate(r) \/ Get(r) \/ Fetch(r) \/ Store(r) \/ Unavailable(r)
  PROVE  /\ UNCHANGED <<history, now>>
         /\ \A p \in Requests : p # r => req'[p] = req[p]
         /\ req'[r].kind = req[r].kind /\ req'[r].began = req[r].began
         /\ req'[r].overlapped = req[r].overlapped
         /\ req[r].pc \notin {"new", "done"}
         /\ req'[r].pc = "store" =>
              Fetch(r) /\ CacheOn /\ req'[r].version = Current /\ req'[r].at = now
<1>r. req[r] \in Request
  BY DEF TypeOK
<1>a. ASSUME NEW q \in Request, Becomes(r, q)
      PROVE  req'[r] = q /\ \A p \in Requests : p # r => req'[p] = req[p]
  BY <1>a, BecomesType
<1>c. Current \in Nat /\ now \in Nat
  BY DEF Current, TypeOK
<1>1. CASE Invalidate(r)
  <2> DEFINE q == [req[r] EXCEPT !.pc = "get"]
  <2>1. "get" \in PC
    BY DEF PC
  <2>2. q \in Request /\ q.pc = "get" /\ q.kind = req[r].kind
        /\ q.began = req[r].began /\ q.overlapped = req[r].overlapped
    BY <1>r, <2>1 DEF Request
  <2>3. Becomes(r, q) /\ UNCHANGED <<history, now>> /\ req[r].pc = "invalidate"
    BY <1>1 DEF Invalidate
  <2> HIDE DEF q
  <2> QED
    BY <1>a, <2>2, <2>3
<1>2. CASE Unavailable(r)
  <2> DEFINE q == [req[r] EXCEPT !.pc = "done", !.result = "unavailable", !.at = 0]
  <2>1. "done" \in PC /\ "unavailable" \in Results
    BY DEF PC, Results
  <2>2. q \in Request /\ q.pc = "done" /\ q.kind = req[r].kind
        /\ q.began = req[r].began /\ q.overlapped = req[r].overlapped
    BY <1>r, <2>1 DEF Request
  <2>3. /\ Becomes(r, q) /\ UNCHANGED <<history, now>>
        /\ req[r].pc \notin {"new", "done"}
    BY <1>2 DEF Unavailable
  <2> HIDE DEF q
  <2> QED
    BY <1>a, <2>2, <2>3
<1>3. CASE Get(r) /\ ~ (CacheOn /\ cache # Empty)
  <2> DEFINE q == [req[r] EXCEPT !.pc = "fetch"]
  <2>1. "fetch" \in PC
    BY DEF PC
  <2>2. q \in Request /\ q.pc = "fetch" /\ q.kind = req[r].kind
        /\ q.began = req[r].began /\ q.overlapped = req[r].overlapped
    BY <1>r, <2>1 DEF Request
  <2>3. Becomes(r, q) /\ UNCHANGED <<history, now>> /\ req[r].pc = "get"
    BY <1>3 DEF Get
  <2> HIDE DEF q
  <2> QED
    BY <1>a, <2>2, <2>3
<1>4. CASE Fetch(r) /\ CacheOn
  <2> DEFINE q == [req[r] EXCEPT !.pc = "store", !.version = Current, !.at = now]
  <2>1. "store" \in PC
    BY DEF PC
  <2>2. q \in Request /\ q.pc = "store" /\ q.kind = req[r].kind
        /\ q.began = req[r].began /\ q.overlapped = req[r].overlapped
        /\ q.version = Current /\ q.at = now
    BY <1>r, <1>c, <2>1 DEF Request
  <2>3. Becomes(r, q) /\ UNCHANGED <<history, now>> /\ req[r].pc = "fetch"
    BY <1>4 DEF Fetch
  <2> HIDE DEF q
  <2> QED
    BY <1>a, <1>4, <2>2, <2>3
<1>5. ASSUME NEW v \in 1 .. Current, Decide(r, v), UNCHANGED <<history, now>>,
             req[r].pc \notin {"new", "done"}
      PROVE  /\ \A p \in Requests : p # r => req'[p] = req[p]
             /\ req'[r].kind = req[r].kind /\ req'[r].began = req[r].began
             /\ req'[r].overlapped = req[r].overlapped /\ req'[r].pc = "done"
  BY <1>5, DecideRow
<1>6. CASE Get(r) /\ CacheOn /\ cache # Empty
  <2>1. cache.version \in 1 .. Current
    BY <1>6, AnswerInRange
  <2>2. Decide(r, cache.version) /\ UNCHANGED <<history, now>> /\ req[r].pc = "get"
    BY <1>6 DEF Get
  <2> QED
    BY <1>5, <2>1, <2>2
<1>7. CASE Fetch(r) /\ ~ CacheOn
  <2>1. Decide(r, Current) /\ UNCHANGED <<history, now>> /\ req[r].pc = "fetch"
    BY <1>7 DEF Fetch
  <2> QED
    BY <1>5, <2>1, AnswerInRange
<1>8. CASE Store(r)
  <2>1. req[r].version \in 1 .. Current
    BY <1>8, AnswerInRange
  <2>2. /\ Decide(r, req[r].version) /\ UNCHANGED <<history, now>>
        /\ req[r].pc = "store"
    BY <1>8 DEF Store
  <2> QED
    BY <1>5, <2>1, <2>2
<1> QED
  BY <1>1, <1>2, <1>3, <1>4, <1>6, <1>7, <1>8

(* Start only makes one row begin.                                         *)
LEMMA StartStep ==
  ASSUME TypeOK, NEW r \in Requests, NEW kind \in Kinds,
         NEW ask \in Asks \cup bound \cup {NoValue}, Start(r, kind, ask)
  PROVE  /\ UNCHANGED <<history, now, cache, bound>>
         /\ \A p \in Requests : p # r => req'[p] = req[p]
         /\ req'[r].pc = (IF kind \in Fresh THEN "invalidate" ELSE "get")
         /\ req'[r].kind = kind /\ req'[r].began = Current
         /\ req'[r].overlapped = \E p \in Requests :
                       req[p].pc = "store" /\ req[p].version # Current
<1> DEFINE pc == IF kind \in Fresh THEN "invalidate" ELSE "get"
           over == \E p \in Requests :
                       req[p].pc = "store" /\ req[p].version # Current
           q == [req[r] EXCEPT !.pc = pc, !.kind = kind, !.ask = ask,
                               !.began = Current, !.overlapped = over]
<1>1. pc \in PC /\ over \in BOOLEAN /\ ask \in Asks \cup Binding \cup {NoValue}
  BY DEF PC, TypeOK
<1>2. Becomes(r, q) /\ UNCHANGED <<history, cache, now, bound>>
  BY DEF Start
<1>3. req[r] \in Request /\ Current \in Nat
  BY DEF TypeOK, Current
<1> HIDE DEF pc, over
<1>4. /\ q \in Request /\ q.pc = pc /\ q.kind = kind /\ q.began = Current
      /\ q.overlapped = over
  BY <1>1, <1>3 DEF Request
<1> HIDE DEF q
<1>5. req'[r] = q /\ \A p \in Requests : p # r => req'[p] = req[p]
  BY <1>2, <1>4, BecomesType
<1> QED
  BY <1>2, <1>4, <1>5 DEF pc, over

(* Where the answer of a request that ends with one comes from.            *)
LEMMA AnswerStep ==
  ASSUME TypeOK, HistoryInv, PendingInv, CacheInv, NEW r \in Requests,
         Invalidate(r) \/ Get(r) \/ Fetch(r) \/ Store(r) \/ Unavailable(r),
         req'[r].pc = "done", req'[r].result # "unavailable"
  PROVE  \/ /\ Get(r) /\ CacheOn /\ cache # Empty
            /\ req'[r].version = cache.version
         \/ Fetch(r) /\ req'[r].version = Current
         \/ Store(r) /\ req'[r].version = req[r].version
<1>r. req[r] \in Request
  BY DEF TypeOK
<1>1. ASSUME NEW v \in 1 .. Current, Decide(r, v), UNCHANGED history
      PROVE  req'[r].version = v
  BY <1>1, DecideRow
<1>2. CASE Get(r) /\ CacheOn /\ cache # Empty
  <2>1. cache.version \in 1 .. Current
    BY <1>2, AnswerInRange
  <2> QED
    BY <1>1, <1>2, <2>1 DEF Get
<1>3. CASE Fetch(r) /\ ~ CacheOn
  <2>1. Decide(r, Current) /\ UNCHANGED history
    BY <1>3 DEF Fetch
  <2> QED
    BY <1>1, <1>3, <2>1, AnswerInRange
<1>4. CASE Store(r)
  <2>1. req[r].version \in 1 .. Current
    BY <1>4, AnswerInRange
  <2> QED
    BY <1>1, <1>4, <2>1 DEF Store
<1>5. CASE Invalidate(r)
  BY <1>5, <1>r DEF Invalidate, Becomes, TypeOK, Request
<1>6. CASE Get(r) /\ ~ (CacheOn /\ cache # Empty)
  BY <1>6, <1>r DEF Get, Becomes, TypeOK, Request
<1>7. CASE Fetch(r) /\ CacheOn
  BY <1>7, <1>r DEF Fetch, Becomes, TypeOK, Request
<1>8. CASE Unavailable(r)
  BY <1>8, <1>r DEF Unavailable, Becomes, TypeOK, Request
<1> QED
  BY <1>2, <1>3, <1>4, <1>5, <1>6, <1>7, <1>8

-----------------------------------------------------------------------------
LEMMA PendingNext ==
  ASSUME TypeOK, HistoryInv, PendingInv, CacheInv, [Next]_vars
  PROVE  PendingInv'
<1>t. /\ now \in Nat /\ Current \in Nat /\ Current >= 1 /\ Latency \in Nat
      /\ \A i \in 1 .. Current : history[i] \in Version
      /\ \A p \in Requests : req[p] \in Request
  BY TimesAssumption DEF TypeOK, HistoryInv, Current
<1>1. ASSUME NEW r \in Requests,
             Invalidate(r) \/ Get(r) \/ Fetch(r) \/ Store(r) \/ Unavailable(r)
      PROVE  PendingInv'
  <2>1. /\ UNCHANGED <<history, now>>
        /\ \A p \in Requests : p # r => req'[p] = req[p]
        /\ req'[r].pc = "store" =>
             CacheOn /\ req'[r].version = Current /\ req'[r].at = now
    BY <1>1, RequestStep
  <2>2. Current' = Current
    BY <2>1 DEF Current
  <2> QED
    BY <2>1, <2>2, <1>t DEF PendingInv, ReplacedSince, CacheOn
<1>2. ASSUME NEW r \in Requests, NEW kind \in Kinds,
             NEW ask \in Asks \cup bound \cup {NoValue}, Start(r, kind, ask)
      PROVE  PendingInv'
  <2>1. /\ UNCHANGED <<history, now>>
        /\ \A p \in Requests : p # r => req'[p] = req[p]
        /\ req'[r].pc = (IF kind \in Fresh THEN "invalidate" ELSE "get")
    BY <1>2, StartStep
  <2>2. Current' = Current
    BY <2>1 DEF Current
  <2> QED
    BY <2>1, <2>2 DEF PendingInv, ReplacedSince, CacheOn
<1>3. ASSUME NEW c \in Configs \cup {NoClient}, Change(c) PROVE PendingInv'
  <2>1. /\ history' = Append(history, [config |-> c, since |-> now])
        /\ UNCHANGED <<now, req>>
    BY <1>3 DEF Change
  <2>2. /\ Current' = Current + 1
        /\ history'[Current + 1].since = now
        /\ \A i \in 1 .. Current : history'[i] = history[i]
    BY <2>1 DEF HistoryInv, Current
  <2>3. ASSUME NEW p \in Requests, req[p].pc = "store"
        PROVE  /\ req[p].version \in 1 .. Current'
               /\ ReplacedSince(req[p].version, req[p].at)'
    <3>1. /\ req[p].version \in 1 .. Current
          /\ req[p].at <= now /\ ReplacedSince(req[p].version, req[p].at)
      BY <2>3 DEF PendingInv
    <3>0. req' = req
      BY <2>1
    <3>2. CASE req[p].version = Current
      <4>1. history'[req[p].version + 1].since >= req[p].at
        BY <3>1, <3>2, <2>2, <1>t
      <4> QED
        BY <3>0, <3>2, <4>1, <2>2, <1>t DEF ReplacedSince
    <3>3. CASE req[p].version < Current
      <4>1. /\ req[p].version + 1 \in 1 .. Current
            /\ history[req[p].version + 1].since >= req[p].at
        BY <3>1, <3>3, <1>t DEF ReplacedSince
      <4>2. history'[req[p].version + 1].since >= req[p].at
        BY <4>1, <2>2
      <4> QED
        BY <3>0, <3>1, <3>3, <4>2, <2>2, <1>t DEF ReplacedSince
    <3> QED
      BY <3>1, <3>2, <3>3, <1>t
  <2> QED
    BY <2>1, <2>3 DEF PendingInv, CacheOn
<1>4. CASE Tick
  <2>1. /\ UNCHANGED <<history, req>> /\ now' = now + 1
        /\ \A r \in Requests : req[r].pc = "store" => now < req[r].at + Latency
    BY <1>4 DEF Tick
  <2>2. Current' = Current
    BY <2>1 DEF Current
  <2>3. ASSUME NEW p \in Requests, req[p].pc = "store"
        PROVE  req[p].at <= now + 1 /\ now + 1 <= req[p].at + Latency
    <3>1. req[p].at \in Nat
      BY <1>t DEF Request
    <3> QED
      BY <1>t, <2>1, <2>3, <3>1 DEF PendingInv
  <2> QED
    BY <2>1, <2>2, <2>3 DEF PendingInv, ReplacedSince, CacheOn
<1>5. CASE UNCHANGED vars
  BY <1>5 DEF vars, PendingInv, ReplacedSince, CacheOn, Current
<1> QED
  BY <1>1, <1>2, <1>3, <1>4, <1>5 DEF Next

LEMMA CacheNext ==
  ASSUME TypeOK, HistoryInv, PendingInv, CacheInv, [Next]_vars
  PROVE  CacheInv'
<1>t. /\ now \in Nat /\ Current \in Nat /\ Current >= 1 /\ Latency \in Nat
      /\ cache \in Cached
      /\ \A i \in 1 .. Current : history[i] \in Version
      /\ \A p \in Requests : req[p] \in Request
  BY TimesAssumption DEF TypeOK, HistoryInv, Current
<1>l. \A v : EntryTtl(v) \in Nat
  BY TimesAssumption DEF EntryTtl
<1>1. ASSUME UNCHANGED <<history, now>>, cache' \in {cache, Empty}
      PROVE  CacheInv'
  <2>1. Current' = Current /\ \A v : EntryTtl(v)' = EntryTtl(v)
    BY <1>1 DEF Current, EntryTtl, ConfigOf
  <2> QED
    BY <1>1, <2>1 DEF CacheInv, ReplacedSince, CacheOn
<1>2. ASSUME NEW r \in Requests, Store(r) PROVE CacheInv'
  <2>0. PICK v \in Nat : v = req[r].version
    BY <1>t DEF Request
  <2>1. /\ UNCHANGED <<history, now>> /\ req[r].pc = "store"
        /\ cache' = [version |-> v, until |-> now + EntryTtl(v)]
    BY <1>2, <2>0 DEF Store
  <2>2. /\ CacheOn /\ v \in 1 .. Current
        /\ req[r].at <= now /\ now <= req[r].at + Latency
        /\ ReplacedSince(v, req[r].at)
    BY <2>0, <2>1 DEF PendingInv
  <2>3. Current' = Current
    BY <2>1 DEF Current
  <2>4. EntryTtl(v) > 0
    BY <2>2, TimesAssumption DEF EntryTtl, CacheOn
  <2>5. req[r].at \in Nat
    BY <1>t DEF Request
  <2>6. ReplacedSince(v, now - Latency)
    <3>1. CASE v < Current
      <4>1. history[v + 1].since \in Nat
        BY <3>1, <2>2, <1>t DEF Version
      <4> QED
        BY <4>1, <2>2, <2>5, <1>t DEF ReplacedSince
    <3> QED
      BY <3>1 DEF ReplacedSince
  <2>7. cache'.version = v /\ cache'.until = now + EntryTtl(v)
    BY <2>1
  <2>8. (EntryTtl(cache.version))' = EntryTtl(v)
    BY <2>7, <2>1 DEF EntryTtl, ConfigOf
  <2>11. (cache.until - EntryTtl(cache.version) - Latency)' = now - Latency
    <3>1. PICK d \in Nat : d = EntryTtl(v)
      BY <1>l
    <3>2. PICK e \in Nat : e = (EntryTtl(cache.version))'
      BY <2>8, <1>l
    <3>3. e = d /\ cache'.until = now + d
      BY <2>7, <2>8, <3>1, <3>2
    <3>4. cache'.until - e - Latency = now - Latency
      BY <3>3, <1>t
    <3> QED
      BY <3>2, <3>4
  <2>10. (ReplacedSince(cache.version, cache.until - EntryTtl(cache.version) - Latency))'
    BY <2>1, <2>3, <2>6, <2>7, <2>11 DEF ReplacedSince
  <2> QED
    BY <2>1, <2>2, <2>3, <2>4, <2>7, <2>8, <2>10, <1>t, <1>l DEF CacheInv, CacheOn
<1>3. ASSUME NEW c \in Configs \cup {NoClient}, Change(c) PROVE CacheInv'
  <2>1. /\ history' = Append(history, [config |-> c, since |-> now])
        /\ UNCHANGED <<now, cache>>
    BY <1>3 DEF Change
  <2>2. /\ Current' = Current + 1
        /\ history'[Current + 1].since = now
        /\ \A i \in 1 .. Current : history'[i] = history[i]
    BY <2>1 DEF HistoryInv, Current
  <2>3. SUFFICES ASSUME cache # Empty PROVE CacheInv'
    BY <2>1 DEF CacheInv
  <2> DEFINE v == cache.version
             t == cache.until - EntryTtl(v) - Latency
  <2>4. /\ CacheOn /\ v \in 1 .. Current /\ now < cache.until
        /\ cache.until <= now + EntryTtl(v) /\ ReplacedSince(v, t)
    BY <2>3 DEF CacheInv
  <2>5. EntryTtl(v)' = EntryTtl(v)
    BY <2>1, <2>2, <2>4 DEF EntryTtl, ConfigOf
  <2>6. t <= now
    BY <2>4, <1>t, <1>l DEF Cached
  <2>7. ReplacedSince(v, t)'
    <3>1. t' = t /\ v' = v
      BY <2>1, <2>5
    <3>2. CASE v = Current
      BY <2>2, <2>6, <3>1, <3>2 DEF ReplacedSince
    <3>3. CASE v < Current
      <4>1. v + 1 \in 1 .. Current /\ history[v + 1].since >= t
        BY <3>3, <2>4, <1>t DEF ReplacedSince
      <4> QED
        BY <2>2, <3>1, <4>1 DEF ReplacedSince
    <3> QED
      BY <3>2, <3>3, <2>4, <1>t
  <2> QED
    BY <2>1, <2>2, <2>4, <2>5, <2>7, <1>t DEF CacheInv, CacheOn
<1>4. CASE Tick
  <2>1. /\ UNCHANGED history /\ now' = now + 1
        /\ cache' = IF cache.until <= now + 1 THEN Empty ELSE cache
    BY <1>4 DEF Tick
  <2>2. Current' = Current /\ \A v : EntryTtl(v)' = EntryTtl(v)
    BY <2>1 DEF Current, EntryTtl, ConfigOf
  <2>3. CASE cache' = Empty
    BY <2>3 DEF CacheInv
  <2>4. CASE cache' = cache /\ cache.until > now + 1 /\ cache # Empty
    BY <2>4, <2>1, <2>2, <1>t, <1>l DEF CacheInv, CacheOn, ReplacedSince, Cached
  <2> QED
    BY <2>1, <2>3, <2>4, <1>t DEF Cached
<1>5. CASE UNCHANGED vars
  BY <1>1, <1>5 DEF vars
<1>6. ASSUME NEW r \in Requests,
             \/ \E kind \in Kinds, ask \in Asks \cup bound \cup {NoValue} : Start(r, kind, ask)
             \/ Invalidate(r) \/ Get(r) \/ Fetch(r) \/ Unavailable(r)
      PROVE  CacheInv'
  BY <1>1, <1>6 DEF Start, Invalidate, Get, Fetch, Unavailable
<1> QED
  BY <1>2, <1>3, <1>4, <1>5, <1>6 DEF Next

-----------------------------------------------------------------------------
(* Nothing older than an undisturbed fresh read comes in its way: a request *)
(* that stores later has asked later, since none was waiting at the start.  *)
LEMMA FreshNext ==
  ASSUME TypeOK, HistoryInv, PendingInv, CacheInv, FreshInv, [Next]_vars
  PROVE  FreshInv'
<1>t. /\ Current \in Nat /\ \A p \in Requests : req[p] \in Request
      /\ \A p \in Requests : req[p].began <= Current /\ req[p].began \in Nat
  BY DEF TypeOK, Current, Request
<1>1. ASSUME NEW r \in Requests,
             Invalidate(r) \/ Get(r) \/ Fetch(r) \/ Store(r) \/ Unavailable(r)
      PROVE  FreshInv'
  <2>1. /\ \A p \in Requests : p # r => req'[p] = req[p]
        /\ req'[r].kind = req[r].kind /\ req'[r].began = req[r].began
        /\ req'[r].overlapped = req[r].overlapped
        /\ req[r].pc \notin {"new", "done"}
        /\ req'[r].pc = "store" => req'[r].version = Current
    BY <1>1, RequestStep
  <2>2. ASSUME NEW a \in Requests, Undisturbed(a)'
        PROVE  Undisturbed(a) /\ req'[a].began = req[a].began
    BY <2>1, <2>2 DEF Undisturbed
  <2>3. ASSUME NEW a \in Requests, Undisturbed(a)', NEW p \in Requests,
               req'[p].pc = "store"
        PROVE  req'[p].version >= req'[a].began
    <3>1. CASE p = r
      BY <3>1, <2>1, <2>2, <2>3, <1>t
    <3>2. CASE p # r
      BY <3>2, <2>1, <2>2, <2>3 DEF FreshInv
    <3> QED
      BY <3>1, <3>2
  <2>4. ASSUME NEW a \in Requests, Undisturbed(a)', req'[a].pc # "invalidate",
               cache' # Empty
        PROVE  cache'.version >= req'[a].began
    <3>1. CASE Store(r)
      <4>1. cache'.version = req[r].version /\ req[r].pc = "store"
        BY <3>1 DEF Store
      <4> QED
        BY <4>1, <2>2, <2>4 DEF FreshInv
    <3>2. CASE Invalidate(r)
      BY <3>2, <2>4 DEF Invalidate
    <3>3. CASE Get(r) \/ Fetch(r) \/ Unavailable(r)
      <4>1. cache' = cache
        BY <3>3 DEF Get, Fetch, Unavailable
      <4>2. req[a].pc # "invalidate"
        <5>1. CASE a = r
          <6>1. CASE Get(r) \/ Fetch(r)
            BY <5>1, <6>1 DEF Get, Fetch
          <6>2. CASE Unavailable(r)
            <7>1. req'[r].pc = "done"
              BY <6>2, <1>t DEF Unavailable, Becomes, TypeOK, Request
            <7> QED
              BY <5>1, <7>1, <2>4 DEF Undisturbed
          <6> QED
            BY <3>3, <6>1, <6>2
        <5>2. CASE a # r
          BY <5>2, <2>1, <2>4
        <5> QED
          BY <5>1, <5>2
      <4> QED
        BY <4>1, <4>2, <2>2, <2>4 DEF FreshInv
    <3> QED
      BY <1>1, <3>1, <3>2, <3>3
  <2> QED
    BY <2>3, <2>4 DEF FreshInv
<1>2. ASSUME NEW r \in Requests, NEW kind \in Kinds,
             NEW ask \in Asks \cup bound \cup {NoValue}, Start(r, kind, ask)
      PROVE  FreshInv'
  <2>1. /\ UNCHANGED cache
        /\ \A p \in Requests : p # r => req'[p] = req[p]
        /\ req'[r].pc = (IF kind \in Fresh THEN "invalidate" ELSE "get")
        /\ req'[r].kind = kind /\ req'[r].began = Current
        /\ req'[r].overlapped = \E p \in Requests :
                       req[p].pc = "store" /\ req[p].version # Current
    BY <1>2, StartStep
  <2>2. ASSUME NEW a \in Requests, Undisturbed(a)'
        PROVE  /\ \A p \in Requests : req'[p].pc = "store" =>
                    req'[p].version >= req'[a].began
               /\ req'[a].pc # "invalidate" /\ cache' # Empty =>
                    cache'.version >= req'[a].began
    <3>1. CASE a = r
      <4>1. \A p \in Requests : req[p].pc = "store" => req[p].version = Current
        BY <3>1, <2>1, <2>2 DEF Undisturbed
      <4>2. req'[r].pc = "invalidate"
        BY <3>1, <2>1, <2>2 DEF Undisturbed
      <4> QED
        BY <3>1, <4>1, <4>2, <2>1, <1>t
    <3>2. CASE a # r
      <4>1. Undisturbed(a) /\ req'[a] = req[a]
        BY <3>2, <2>1, <2>2 DEF Undisturbed
      <4> QED
        BY <4>1, <2>1 DEF FreshInv
    <3> QED
      BY <3>1, <3>2
  <2> QED
    BY <2>2 DEF FreshInv
<1>3. CASE UNCHANGED <<req, cache>>
  BY <1>3 DEF FreshInv, Undisturbed
<1>4. CASE Tick
  BY <1>4 DEF Tick, FreshInv, Undisturbed
<1> QED
  BY <1>1, <1>2, <1>3, <1>4 DEF Next, Change, vars

LEMMA AnswersNext ==
  ASSUME IInv, [Next]_vars
  PROVE  FreshReadsAreCurrent'
<1>t. /\ Current \in Nat /\ \A p \in Requests : req[p] \in Request
      /\ \A p \in Requests : req[p].began <= Current /\ req[p].began \in Nat
  BY DEF IInv, TypeOK, Current, Request
<1>1. ASSUME NEW r \in Requests,
             Invalidate(r) \/ Get(r) \/ Fetch(r) \/ Store(r) \/ Unavailable(r)
      PROVE  FreshReadsAreCurrent'
  <2>1. /\ \A p \in Requests : p # r => req'[p] = req[p]
        /\ req'[r].kind = req[r].kind /\ req'[r].began = req[r].began
        /\ req'[r].overlapped = req[r].overlapped
        /\ req[r].pc \notin {"new", "done"}
    BY <1>1, RequestStep DEF IInv
  <2>2. ASSUME req'[r].pc = "done", req'[r].result # "unavailable",
               req[r].kind \in Fresh, ~ req[r].overlapped
        PROVE  req'[r].version >= req[r].began
    <3>1. Undisturbed(r)
      BY <2>1, <2>2 DEF Undisturbed
    <3>2. CASE Get(r) /\ cache # Empty /\ req'[r].version = cache.version
      BY <3>1, <3>2 DEF Get, IInv, FreshInv
    <3>3. CASE req'[r].version = Current
      BY <3>3, <1>t
    <3>4. CASE Store(r) /\ req'[r].version = req[r].version
      BY <3>1, <3>4 DEF Store, IInv, FreshInv
    <3> QED
      BY <1>1, <2>2, <3>2, <3>3, <3>4, AnswerStep DEF IInv
  <2> QED
    BY <2>1, <2>2 DEF IInv, FreshReadsAreCurrent, Answered
<1>2. ASSUME NEW r \in Requests, NEW kind \in Kinds,
             NEW ask \in Asks \cup bound \cup {NoValue}, Start(r, kind, ask)
      PROVE  FreshReadsAreCurrent'
  <2>1. /\ \A p \in Requests : p # r => req'[p] = req[p]
        /\ req'[r].pc \in {"invalidate", "get"}
    BY <1>2, StartStep DEF IInv
  <2> QED
    BY <2>1 DEF IInv, FreshReadsAreCurrent, Answered
<1>3. CASE UNCHANGED req
  BY <1>3 DEF IInv, FreshReadsAreCurrent, Answered
<1> QED
  BY <1>1, <1>2, <1>3 DEF Next, Change, Tick, vars

-----------------------------------------------------------------------------
LEMMA Inductive ==
  /\ Init => IInv
  /\ IInv /\ [Next]_vars => IInv'
<1>1. ASSUME Init PROVE IInv
  <2>1. PICK c \in Configs \cup {NoClient} : history = <<[config |-> c, since |-> 0]>>
    BY <1>1 DEF Init
  <2>2. /\ history \in Seq(Version) /\ history # << >> /\ Current = 1
        /\ history[1].since = 0
    BY <2>1 DEF Version, Current
  <2>3. "new" \in PC /\ "none" \in Results
    BY DEF PC, Results
  <2>4. \A r \in Requests : req[r].pc = "new" /\ req[r].version = 0
          /\ req[r].began = 0 /\ req[r].kind = "none"
    BY <1>1 DEF Init
  <2>5. req \in [Requests -> Request]
    BY <1>1, <2>3 DEF Init, Request
  <2>6. TypeOK
    <3>1. /\ cache \in Cached /\ now \in Nat /\ bound \in SUBSET Binding
          /\ cache.version <= Current
      BY <1>1, <2>2 DEF Init, Empty, Cached
    <3>2. \A r \in Requests :
            /\ req[r].version <= Current /\ req[r].began <= Current
            /\ req[r].kind # "create" /\ req[r].kind # "sign-in"
      BY <2>2, <2>4
    <3> QED
      BY <2>2, <2>5, <3>1, <3>2 DEF TypeOK
  <2>7. HistoryInv /\ PendingInv /\ CacheInv /\ FreshInv /\ FreshReadsAreCurrent
    BY <1>1, <2>2, <2>4 DEF Init, HistoryInv, PendingInv, CacheInv, FreshInv,
      FreshReadsAreCurrent, Undisturbed, Answered
  <2> QED
    BY <2>6, <2>7 DEF IInv
<1>2. ASSUME IInv, [Next]_vars PROVE IInv'
  BY <1>2, TypeNext, HistoryNext, PendingNext, CacheNext, FreshNext, AnswersNext
    DEF IInv
<1> QED
  BY <1>1, <1>2

(* The state of the registry always has its type: a cached version and a   *)
(* pending answer are versions the configuration has had.                  *)
THEOREM TypeCorrect == Spec => []TypeOK
<1>1. IInv => TypeOK
  BY DEF IInv
<1> QED
  BY <1>1, Inductive, PTL DEF Spec

(* getFresh: unless an older answer was waiting to be stored at its start, *)
(* what it returns is as new as the request.                               *)
THEOREM FreshReadsHold == Spec => []FreshReadsAreCurrent
<1>1. IInv => FreshReadsAreCurrent
  BY DEF IInv
<1> QED
  BY <1>1, Inductive, PTL DEF Spec

-----------------------------------------------------------------------------
(* The age of an answer that was replaced at t or later.                   *)
LEMMA StaleBound ==
  ASSUME TypeOK, HistoryInv, NEW v \in 1 .. Current, NEW t \in Int,
         ReplacedSince(v, t), t <= now
  PROVE  Stale(v) <= now - t
<1>1. now \in Nat /\ Current \in Nat
  BY DEF TypeOK, Current
<1>2. CASE v = Current
  BY <1>1, <1>2 DEF Stale
<1>3. CASE v < Current
  <2>1. v + 1 \in 1 .. Current
    BY <1>1, <1>3
  <2>0. history[v + 1] \in Version
    BY <2>1 DEF HistoryInv, Current
  <2>2. history[v + 1].since \in Nat
    BY <2>0 DEF Version
  <2> QED
    BY <1>1, <1>3, <2>2 DEF Stale, ReplacedSince
<1> QED
  BY <1>1, <1>2, <1>3

LEMMA StalenessStep ==
  ASSUME IInv, [Next]_vars, NEW r \in Requests, ~ Answered(r), Answered(r)'
  PROVE  LET v == req'[r].version IN
         Stale(v) <= (IF ConfigOf(v) = NoClient THEN NegativeTtl ELSE Ttl) + Latency
<1>t. /\ now \in Nat /\ Current \in Nat /\ cache \in Cached
      /\ Latency \in Nat /\ Ttl \in Nat /\ NegativeTtl \in Nat
      /\ req[r] \in Request
  BY TimesAssumption DEF IInv, TypeOK, Current
<1>l. \A v : EntryTtl(v) \in Nat /\ EntryTtl(v) <= Limit(v) /\ Limit(v) \in Nat
  BY TimesAssumption DEF EntryTtl, Limit
<1>1. Invalidate(r) \/ Get(r) \/ Fetch(r) \/ Store(r) \/ Unavailable(r)
  <2>1. SUFFICES ASSUME req'[r] # req[r]
                 PROVE  Invalidate(r) \/ Get(r) \/ Fetch(r) \/ Store(r) \/ Unavailable(r)
    BY DEF Answered
  <2>2. ASSUME NEW p \in Requests, NEW kind \in Kinds,
               NEW ask \in Asks \cup bound \cup {NoValue}, Start(p, kind, ask)
        PROVE  FALSE
    <3>1. /\ \A a \in Requests : a # p => req'[a] = req[a]
          /\ req'[p].pc \in {"invalidate", "get"}
      BY <2>2, StartStep DEF IInv
    <3> QED
      BY <2>1, <3>1 DEF Answered
  <2>3. ASSUME NEW p \in Requests,
               Invalidate(p) \/ Get(p) \/ Fetch(p) \/ Store(p) \/ Unavailable(p)
        PROVE  p = r
    BY <2>1, <2>3, RequestStep DEF IInv
  <2> QED
    BY <2>1, <2>2, <2>3 DEF Next, Change, Tick, vars
<1>2. ASSUME NEW v \in 1 .. Current, NEW t \in Int, ReplacedSince(v, t),
             t <= now, now - t <= Limit(v) + Latency
      PROVE  Stale(v) <= Limit(v) + Latency
  <2>1. Stale(v) <= now - t
    BY <1>2, StaleBound DEF IInv
  <2>2. Stale(v) \in Int
    <3>1. v < Current => history[v + 1] \in Version
      BY <1>t DEF IInv, HistoryInv, Current
    <3>2. v < Current => history[v + 1].since \in Nat
      BY <3>1 DEF Version
    <3> QED
      BY <3>2, <1>t DEF Stale
  <2> QED
    BY <2>1, <2>2, <1>2, <1>t, <1>l
<1>3. CASE Get(r) /\ cache # Empty /\ req'[r].version = cache.version
  <2>1. PICK v \in Nat : v = cache.version
    BY <1>t DEF Cached
  <2>2. PICK d \in Nat : d = EntryTtl(v)
    BY <1>l
  <2>3. PICK u \in Nat : u = cache.until
    BY <1>t DEF Cached
  <2>4. /\ v \in 1 .. Current /\ now < u /\ u <= now + d
        /\ ReplacedSince(v, u - d - Latency)
    BY <1>3, <2>1, <2>2, <2>3 DEF IInv, CacheInv
  <2>5. d <= Limit(v)
    BY <1>l, <2>2
  <2>6. /\ u - d - Latency \in Int /\ u - d - Latency <= now
        /\ now - (u - d - Latency) <= Limit(v) + Latency
    BY <2>4, <2>5, <1>t, <1>l
  <2>7. Stale(v) <= Limit(v) + Latency
    BY <1>2, <2>4, <2>6
  <2> QED
    BY <1>3, <2>1, <2>7 DEF Limit
<1>4. CASE req'[r].version = Current
  BY <1>4, <1>t DEF Stale
<1>5. CASE Store(r) /\ req'[r].version = req[r].version
  <2>1. PICK v \in Nat : v = req[r].version
    BY <1>t DEF Request
  <2>2. PICK t \in Nat : t = req[r].at
    BY <1>t DEF Request
  <2>3. v \in 1 .. Current /\ t <= now /\ now <= t + Latency /\ ReplacedSince(v, t)
    BY <1>5, <2>1, <2>2 DEF Store, IInv, PendingInv
  <2>4. now - t <= Limit(v) + Latency
    BY <2>3, <1>t, <1>l
  <2>5. Stale(v) <= Limit(v) + Latency
    BY <1>2, <2>3, <2>4
  <2> QED
    BY <1>5, <2>1, <2>5 DEF Limit
<1> QED
  BY <1>1, <1>3, <1>4, <1>5, AnswerStep DEF Answered, IInv

(* Whoever reads it, and however many requests pass it on: no answer is    *)
(* older than the TTL of its entry plus the time it waited to be stored.   *)
THEOREM StalenessHolds == Spec => StalenessIsBounded
<1>1. IInv /\ [Next]_vars =>
        [\A r \in Requests :
           ~ Answered(r) /\ Answered(r)' =>
             LET v == req'[r].version IN
             Stale(v) <= (IF ConfigOf(v) = NoClient THEN NegativeTtl ELSE Ttl) + Latency]_vars
  BY StalenessStep
<1> QED
  BY <1>1, Inductive, PTL DEF Spec, StalenessIsBounded

-----------------------------------------------------------------------------
(* What a sign-in was allowed on, and what a transaction is bound to: an   *)
(* embedded one has an origin.                                             *)
AllowedInv ==
  \A r \in Requests :
    /\ req[r].result # "none" => req[r].pc = "done"
    /\ req[r].kind = "sign-in" /\ req[r].result = "allowed" =>
         /\ req[r].version \in 1 .. Current
         /\ ConfigOf(req[r].version) # NoClient
         /\ StillAllowed(ConfigOf(req[r].version), req[r].ask)

BoundInv == \A b \in bound : b.display = "embed" => b.origin # NoValue

SignInInv == IInv /\ AllowedInv /\ BoundInv

LEMMA EmbeddedBindings ==
  ASSUME NEW c \in ClientConfig,
         NEW ask \in [display : Displays, origin : Origins \cup {NoValue},
                      callback : Callbacks \cup {NoValue}],
         NEW b \in Bindings(c, ask), b.display = "embed"
  PROVE  b.origin # NoValue
<1>1. ResolvedOrigins(c, ask.origin) \subseteq Origins
  BY DEF ResolvedOrigins, ClientConfig
<1>2. PICK o, u : /\ b = [display |-> ask.display, origin |-> o, callback |-> u]
                  /\ o \in IF ask.display = "embed"
                           THEN ResolvedOrigins(c, ask.origin) ELSE {NoValue}
  BY DEF Bindings
<1> QED
  BY <1>1, <1>2, NoValueAssumption

(* A decision is made under the version it is recorded with.               *)
LEMMA DecisionStep ==
  ASSUME SignInInv, NEW r \in Requests, NEW v \in 1 .. Current, Decide(r, v),
         UNCHANGED history
  PROVE  /\ req'[r].pc = "done" /\ req'[r].version = v
         /\ req'[r].kind = req[r].kind /\ req'[r].ask = req[r].ask
         /\ req'[r].result = "allowed" => Allowed(req[r], v)
         /\ BoundInv'
<1> DEFINE res == IF Allowed(req[r], v) THEN "allowed" ELSE "refused"
<1>1. TypeOK /\ req[r] \in Request
  BY DEF SignInInv, IInv, TypeOK
<1>2. req'[r] = [req[r] EXCEPT !.pc = "done", !.version = v, !.at = 0, !.result = res]
  BY <1>1, DecideType
<1>3. BoundInv'
  <2>1. CASE req[r].kind = "create" /\ ConfigOf(v) # NoClient
    <3>1. history[v] \in Version
      BY <1>1 DEF TypeOK, Current
    <3>2. ConfigOf(v) \in ClientConfig
      BY <2>1, <3>1, ConfigsAssumption DEF ConfigOf, Version
    <3>3. bound' = bound \cup Bindings(ConfigOf(v), req[r].ask)
      BY <2>1 DEF Decide
    <3>4. req[r].ask \in [display : Displays, origin : Origins \cup {NoValue},
                           callback : Callbacks \cup {NoValue}]
      BY <1>1, <2>1, AsksAssumption DEF TypeOK
    <3> QED
      BY <3>2, <3>3, <3>4, EmbeddedBindings DEF BoundInv, SignInInv
  <2> QED
    BY <2>1 DEF Decide, BoundInv, SignInInv
<1> QED
  BY <1>1, <1>2, <1>3 DEF Request

(* The other answers, and the steps before an answer.                      *)
Undecided(r) ==
  /\ req'[r].result \in {"none", "unavailable"}
  /\ req'[r].result # "none" => req'[r].pc = "done"
  /\ UNCHANGED bound

LEMMA UndecidedStep ==
  ASSUME SignInInv, NEW r \in Requests,
         Invalidate(r) \/ Get(r) \/ Fetch(r) \/ Store(r) \/ Unavailable(r)
  PROVE  Undecided(r) \/ \E v \in 1 .. Current : Decide(r, v)
<1>1. /\ TypeOK /\ HistoryInv /\ PendingInv /\ CacheInv
      /\ req[r] \in Request /\ req \in [Requests -> Request]
  BY DEF SignInInv, IInv, TypeOK
<1>2. req[r].result = "none"
  BY <1>1, RequestStep DEF SignInInv, AllowedInv
<1>3. CASE Invalidate(r)
  BY <1>1, <1>2, <1>3 DEF Invalidate, Becomes, Request, Undecided
<1>4. CASE Get(r) /\ CacheOn /\ cache # Empty
  BY <1>1, <1>4, AnswerInRange DEF Get
<1>5. CASE Get(r) /\ ~ (CacheOn /\ cache # Empty)
  BY <1>1, <1>2, <1>5 DEF Get, Becomes, Request, Undecided
<1>6. CASE Fetch(r) /\ CacheOn
  BY <1>1, <1>2, <1>6 DEF Fetch, Becomes, Request, Undecided
<1>7. CASE Fetch(r) /\ ~ CacheOn
  BY <1>1, <1>7, AnswerInRange DEF Fetch
<1>8. CASE Store(r)
  BY <1>1, <1>8, AnswerInRange DEF Store
<1>9. CASE Unavailable(r)
  BY <1>1, <1>2, <1>9 DEF Unavailable, Becomes, Request, Undecided
<1> QED
  BY <1>3, <1>4, <1>5, <1>6, <1>7, <1>8, <1>9

(* What a version was stays what it was.                                   *)
LEMMA VersionsStay ==
  ASSUME IInv, [Next]_vars
  PROVE  \A v \in 1 .. Current : v \in 1 .. Current' /\ ConfigOf(v)' = ConfigOf(v)
<1>1. history \in Seq(Version)
  BY DEF IInv, TypeOK
<1>2. CASE UNCHANGED history
  BY <1>2 DEF Current, ConfigOf
<1>3. ASSUME NEW c, history' = Append(history, [config |-> c, since |-> now]),
             c \in Configs \cup {NoClient}
      PROVE  \A v \in 1 .. Current : v \in 1 .. Current' /\ ConfigOf(v)' = ConfigOf(v)
  <2>1. [config |-> c, since |-> now] \in Version
    BY <1>3 DEF Version, IInv, TypeOK
  <2> QED
    BY <1>1, <1>3, <2>1 DEF Current, ConfigOf
<1> QED
  BY <1>2, <1>3 DEF Next, Start, Invalidate, Get, Fetch, Store, Unavailable, Change,
     Tick, vars

LEMMA SignInNext ==
  ASSUME SignInInv, [Next]_vars
  PROVE  SignInInv'
<1>1. IInv /\ IInv'
  BY Inductive DEF SignInInv
<1>2. \A v \in 1 .. Current : v \in 1 .. Current' /\ ConfigOf(v)' = ConfigOf(v)
  BY <1>1, VersionsStay
<1>3. ASSUME NEW r \in Requests,
             Invalidate(r) \/ Get(r) \/ Fetch(r) \/ Store(r) \/ Unavailable(r)
      PROVE  AllowedInv' /\ BoundInv'
  <2>1. UNCHANGED history /\ \A p \in Requests : p # r => req'[p] = req[p]
    BY <1>1, <1>3, RequestStep DEF IInv
  <2>2. CASE Undecided(r)
    BY <1>2, <2>1, <2>2 DEF Undecided, SignInInv, AllowedInv, BoundInv
  <2>3. ASSUME NEW v \in 1 .. Current, Decide(r, v)
        PROVE  AllowedInv' /\ BoundInv'
    <3>1. /\ req'[r].pc = "done" /\ req'[r].version = v
          /\ req'[r].kind = req[r].kind /\ req'[r].ask = req[r].ask
          /\ req'[r].result = "allowed" => Allowed(req[r], v)
          /\ BoundInv'
      BY <2>1, <2>3, DecisionStep
    <3>2. ASSUME req[r].kind = "sign-in", req'[r].result = "allowed"
          PROVE  ConfigOf(v) # NoClient /\ StillAllowed(ConfigOf(v), req[r].ask)
      BY <3>1, <3>2 DEF Allowed
    <3> QED
      BY <1>2, <2>1, <2>3, <3>1, <3>2 DEF SignInInv, AllowedInv
  <2> QED
    BY <1>3, <2>2, <2>3, UndecidedStep
<1>4. ASSUME NEW r \in Requests, NEW kind \in Kinds,
             NEW ask \in Asks \cup bound \cup {NoValue}, Start(r, kind, ask)
      PROVE  AllowedInv' /\ BoundInv'
  <2>1. /\ \A p \in Requests : p # r => req'[p] = req[p]
        /\ UNCHANGED bound
    BY <1>1, <1>4, StartStep DEF IInv
  <2>2. req[r].result = "none"
    BY <1>4 DEF Start, SignInInv, AllowedInv
  <2>3. req'[r].result = "none"
    BY <1>1, <1>4, <2>2 DEF Start, Becomes, IInv, TypeOK, Request
  <2> QED
    BY <1>2, <2>1, <2>3 DEF SignInInv, AllowedInv, BoundInv
<1>5. CASE UNCHANGED <<req, bound>>
  <2>1. req' = req /\ bound' = bound
    BY <1>5
  <2>2. \A r \in Requests : req'[r] = req[r]
    BY <2>1
  <2>3. AllowedInv'
    BY <1>2, <2>2 DEF SignInInv, AllowedInv
  <2>4. BoundInv
    BY DEF SignInInv
  <2>5. BoundInv'
    BY <2>1, <2>4 DEF BoundInv
  <2> QED
    BY <1>1, <2>3, <2>5 DEF SignInInv
<1> QED
  BY <1>1, <1>3, <1>4, <1>5 DEF Next, Change, Tick, vars, SignInInv

(* SignInsAreStillAllowed (LoginService.revalidateClient): the version a   *)
(* sign-in was decided on allows it, and it is not older than the sign-in. *)
THEOREM SignInsHold == Spec => []SignInsAreStillAllowed
<1>1. Init => SignInInv
  <2> SUFFICES ASSUME Init PROVE SignInInv
    OBVIOUS
  <2>1. IInv
    BY Inductive
  <2> QED
    BY <2>1 DEF Init, SignInInv, AllowedInv, BoundInv
<1>2. SignInInv => SignInsAreStillAllowed
  <2> SUFFICES ASSUME SignInInv, NEW r \in Requests,
                      req[r].kind = "sign-in", req[r].result = "allowed",
                      ~ req[r].overlapped
               PROVE  \E v \in req[r].began .. Current :
                        /\ ConfigOf(v) # NoClient
                        /\ ConfigOf(v).status = "ACTIVE"
                        /\ req[r].ask.display = "embed"
                             => req[r].ask.origin \in ConfigOf(v).origins
                        /\ req[r].ask.callback \in ConfigOf(v).callbacks
    BY DEF SignInsAreStillAllowed
  <2> DEFINE v == req[r].version
  <2>1. /\ v \in 1 .. Current /\ ConfigOf(v) # NoClient
        /\ StillAllowed(ConfigOf(v), req[r].ask)
        /\ req[r].pc = "done"
    BY DEF SignInInv, AllowedInv
  <2>2. v >= req[r].began /\ req[r].began \in Nat /\ Current \in Nat
    BY <2>1 DEF SignInInv, IInv, FreshReadsAreCurrent, Answered, Fresh, TypeOK, Request,
         Current
  <2>3. req[r].ask.display = "embed" => req[r].ask.origin # NoValue
    BY DEF SignInInv, BoundInv, IInv, TypeOK
  <2>4. v \in req[r].began .. Current
    BY <2>1, <2>2
  <2> QED
    BY <2>1, <2>3, <2>4 DEF StillAllowed, CanAuthenticate
<1> QED
  BY <1>1, <1>2, SignInNext, PTL DEF Spec
=============================================================================
