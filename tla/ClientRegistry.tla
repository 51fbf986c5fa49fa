--------------------------- MODULE ClientRegistry ---------------------------
(***************************************************************************)
(* ClientRegistry: the configuration of one client, kept by the            *)
(* Authorization service and cached in Redis, as requests of any number of *)
(* pods read it.  One action is one Redis command or one call to the       *)
(* Authorization service of one request; the policy decision and the use   *)
(* of it follow the last of them without an await.                         *)
(*                                                                         *)
(* Requests:                                                               *)
(*   create    POST /auth/transaction, GET /embed/login      getFresh      *)
(*   sign-in   POST /embed/login, POST /embed/continue       getFresh      *)
(*   refresh   POST /federation/clients/:id/refresh          DEL, get      *)
(*   lookup    GET /auth/client/:id, logout, notifyClient    get           *)
(*                                                                         *)
(* The keys of two clients have nothing in common: one client is enough.   *)
(***************************************************************************)
EXTENDS ClientPolicy, Integers, Sequences

CONSTANTS Requests,
          Configs,        \* the configurations an administrator may give it
          NoClient,       \* the client is not registered (404)
          Asks,           \* what a create asks for
          Kinds,          \* the kinds of request that occur
          Ttl,            \* CLIENT_CACHE_TTL_SECONDS; 0 turns the cache off
          NegativeTtl,    \* NEGATIVE_TTL_SECONDS
          Latency,        \* the longest an answer is held before it is stored
          MaxVersion,     \* bound: versions of the configuration
          MaxTime         \* bound: seconds of a behaviour

ASSUME ConfigsAssumption == Configs \subseteq ClientConfig /\ NoClient \notin Configs
ASSUME AsksAssumption ==
  Asks \subseteq [display : Displays, origin : Origins \cup {NoValue},
                  callback : Callbacks \cup {NoValue}]
ASSUME KindsAssumption == Kinds \subseteq {"create", "sign-in", "refresh", "lookup"}
ASSUME TimesAssumption ==
  /\ Ttl \in Nat /\ NegativeTtl \in Nat \ {0} /\ Latency \in Nat
  /\ MaxVersion \in Nat /\ MaxTime \in Nat

VARIABLES history,   \* the versions so far: what it is and since when
          cache,     \* client-cfg:<id>: a version, 0 when there is no key
          now,       \* seconds
          req,
          bound      \* bindings of the transactions created so far

vars == <<history, cache, now, req, bound>>

Fresh == {"create", "sign-in", "refresh"}
PC == {"new", "invalidate", "get", "fetch", "store", "done"}
Results == {"none", "allowed", "refused", "unavailable"}

Version == [config : Configs \cup {NoClient}, since : Nat]
Cached == [version : Nat, until : Nat]
Empty == [version |-> 0, until |-> 0]

(* version is what the request read (0: nothing yet), began the newest     *)
(* version at its start; overlapped says that another request then held an *)
(* answer it had still to store.                                           *)
Request ==
  [pc : PC, kind : Kinds \cup {"none"}, ask : Asks \cup Binding \cup {NoValue},
   version : Nat, at : Nat, began : Nat, overlapped : BOOLEAN, result : Results]

CacheOn == Ttl > 0

Current == Len(history)
ConfigOf(v) == history[v].config

(* How long ago version v was replaced.                                    *)
Stale(v) == IF v = Current THEN 0 ELSE now - history[v + 1].since

(* Mutant: the marker lives as long as a configuration.                    *)
EntryTtlUniform(v) == Ttl

(* EX: a marker for an unknown client lives NegativeTtl at most (Math.min).*)
EntryTtl(v) ==
  IF ConfigOf(v) = NoClient /\ NegativeTtl < Ttl THEN NegativeTtl ELSE Ttl

Becomes(r, q) == req' = [req EXCEPT ![r] = q]

(* The answer is there: what the handler does with it (sync).              *)
Allowed(q, v) ==
  /\ ConfigOf(v) # NoClient
  /\ CASE q.kind = "create" -> Bindings(ConfigOf(v), q.ask) # {}
       [] q.kind = "sign-in" -> StillAllowed(ConfigOf(v), q.ask)
       [] OTHER -> TRUE

Decide(r, v) ==
  LET q == req[r] IN
  /\ Becomes(r, [q EXCEPT !.pc = "done", !.version = v, !.at = 0,
       !.result = IF Allowed(q, v) THEN "allowed" ELSE "refused"])
  /\ bound' = IF q.kind = "create" /\ ConfigOf(v) # NoClient
              THEN bound \cup Bindings(ConfigOf(v), q.ask) ELSE bound

-----------------------------------------------------------------------------
Init ==
  /\ \E c \in Configs \cup {NoClient} : history = <<[config |-> c, since |-> 0]>>
  /\ cache = Empty
  /\ now = 0
  /\ req = [r \in Requests |->
       [pc |-> "new", kind |-> "none", ask |-> NoValue, version |-> 0, at |-> 0,
        began |-> 0, overlapped |-> FALSE, result |-> "none"]]
  /\ bound = {}

(* A request arrives.  A sign-in is for a transaction created before.      *)
Start(r, kind, ask) ==
  /\ req[r].pc = "new"
  /\ CASE kind = "create" -> ask \in Asks
       [] kind = "sign-in" -> ask \in bound
       [] OTHER -> ask = NoValue
  /\ Becomes(r, [req[r] EXCEPT
       !.pc = IF kind \in Fresh THEN "invalidate" ELSE "get",
       !.kind = kind, !.ask = ask, !.began = Current,
       !.overlapped = \E p \in Requests :
                        req[p].pc = "store" /\ req[p].version # Current])
  /\ UNCHANGED <<history, cache, now, bound>>

(* Mutant: getFresh is get.                                                *)
InvalidateSkipped(r) ==
  /\ req[r].pc = "invalidate"
  /\ Becomes(r, [req[r] EXCEPT !.pc = "get"])
  /\ UNCHANGED <<history, cache, now, bound>>

(* invalidate(): DEL.                                                      *)
Invalidate(r) ==
  /\ req[r].pc = "invalidate"
  /\ cache' = Empty
  /\ Becomes(r, [req[r] EXCEPT !.pc = "get"])
  /\ UNCHANGED <<history, now, bound>>

(* Mutant: a hit gives the entry a new lifetime.                           *)
GetProlongs(r) ==
  /\ req[r].pc = "get"
  /\ IF CacheOn /\ cache # Empty
     THEN /\ Decide(r, cache.version)
          /\ cache' = [cache EXCEPT !.until = now + EntryTtl(cache.version)]
     ELSE Becomes(r, [req[r] EXCEPT !.pc = "fetch"]) /\ UNCHANGED <<cache, bound>>
  /\ UNCHANGED <<history, now>>

(* get(): the cached answer, the marker included, unless the cache is off. *)
Get(r) ==
  /\ req[r].pc = "get"
  /\ IF CacheOn /\ cache # Empty
     THEN Decide(r, cache.version)
     ELSE Becomes(r, [req[r] EXCEPT !.pc = "fetch"]) /\ UNCHANGED bound
  /\ UNCHANGED <<history, cache, now>>

(* AuthzClient.getClient: the Authorization service answers with what is   *)
(* true now (404: null).                                                   *)
Fetch(r) ==
  /\ req[r].pc = "fetch"
  /\ IF CacheOn
     THEN /\ Becomes(r, [req[r] EXCEPT !.pc = "store", !.version = Current,
                                       !.at = now])
          /\ UNCHANGED bound
     ELSE Decide(r, Current)
  /\ UNCHANGED <<history, cache, now>>

(* ... it is down, answers 5xx, or names another client; or Redis fails.   *)
Unavailable(r) ==
  /\ req[r].pc \in {"invalidate", "get", "fetch", "store"}
  /\ Becomes(r, [req[r] EXCEPT !.pc = "done", !.result = "unavailable", !.at = 0])
  /\ UNCHANGED <<history, cache, now, bound>>

(* SET EX, then the handler goes on with the answer it holds.              *)
Store(r) ==
  LET v == req[r].version IN
  /\ req[r].pc = "store"
  /\ cache' = [version |-> v, until |-> now + EntryTtl(v)]
  /\ Decide(r, v)
  /\ UNCHANGED <<history, now>>

(* An administrator of the Authorization service changes, adds or removes  *)
(* the client.                                                             *)
Change(c) ==
  /\ Current < MaxVersion
  /\ c # ConfigOf(Current)
  /\ history' = Append(history, [config |-> c, since |-> now])
  /\ UNCHANGED <<cache, now, req, bound>>

(* A second passes; Redis drops an entry whose time is over.               *)
Tick ==
  /\ now < MaxTime
  /\ \A r \in Requests : req[r].pc = "store" => now < req[r].at + Latency
  /\ now' = now + 1
  /\ cache' = IF cache.until <= now + 1 THEN Empty ELSE cache
  /\ UNCHANGED <<history, req, bound>>

Next ==
  \/ \E r \in Requests :
       \/ \E kind \in Kinds, ask \in Asks \cup bound \cup {NoValue} : Start(r, kind, ask)
       \/ Invalidate(r) \/ Get(r) \/ Fetch(r) \/ Store(r) \/ Unavailable(r)
  \/ \E c \in Configs \cup {NoClient} : Change(c)
  \/ Tick

Spec == Init /\ [][Next]_vars

-----------------------------------------------------------------------------
TypeOK ==
  /\ history \in Seq(Version) /\ history # << >>
  /\ cache \in Cached
  /\ now \in Nat
  /\ req \in [Requests -> Request]
  /\ bound \in SUBSET Binding
  /\ cache.version <= Current
  /\ \A r \in Requests :
       /\ req[r].version <= Current /\ req[r].began <= Current
       /\ req[r].kind = "create" => req[r].ask \in Asks
       /\ req[r].kind = "sign-in" => req[r].ask \in bound

Answered(r) == req[r].pc = "done" /\ req[r].result # "unavailable"

(* What a request that reads the configuration fresh decides on is no      *)
(* older than the request (ClientRegistry.getFresh), unless, when it       *)
(* began, another request held an older answer it had still to store.      *)
FreshReadsAreCurrent ==
  \A r \in Requests :
    Answered(r) /\ req[r].kind \in Fresh /\ ~ req[r].overlapped =>
      req[r].version >= req[r].began

(* No request acts on a configuration that was replaced more than the TTL  *)
(* and one store before: a hit never prolongs an entry, and no chain of    *)
(* requests hands an old configuration on.  An added client is found after *)
(* NEGATIVE_TTL_SECONDS at the latest (ClientRegistry.get).                *)
StalenessIsBounded ==
  [][\A r \in Requests :
       ~ Answered(r) /\ Answered(r)' =>
         LET v == req'[r].version IN
         Stale(v) <= (IF ConfigOf(v) = NoClient THEN NegativeTtl ELSE Ttl) + Latency]_vars

(* A sign-in goes ahead only to an origin and a callback that the client   *)
(* has registered, with the client active, in a configuration in force     *)
(* since the sign-in began (LoginService.revalidateClient): what the       *)
(* transaction was bound to at its creation is not enough.                 *)
SignInsAreStillAllowed ==
  \A r \in Requests :
    LET q == req[r] IN
    q.kind = "sign-in" /\ q.result = "allowed" /\ ~ q.overlapped =>
      \E v \in q.began .. Current :
        /\ ConfigOf(v) # NoClient
        /\ ConfigOf(v).status = "ACTIVE"
        /\ q.ask.display = "embed" => q.ask.origin \in ConfigOf(v).origins
        /\ q.ask.callback \in ConfigOf(v).callbacks
=============================================================================
