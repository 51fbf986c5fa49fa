---------------------------- MODULE SigningKeys ----------------------------
(***************************************************************************)
(* The RS256 signing keys: the keyset in AWS (Secrets Manager or SSM), the *)
(* rotation commands that operators run on it, the pods of Identity that   *)
(* reload it, sign tokens with it and publish it as JWKS, and a verifier   *)
(* (a Business Unit backend, the Authorization service) that caches the    *)
(* JWKS of whichever pod answers.                                          *)
(*                                                                         *)
(* There is one clock.  StageWait is the wait that the tool asks operators *)
(* for between stage and promote; the code enforces only the wait before   *)
(* retire.                                                                 *)
(***************************************************************************)
EXTENDS Integers, FiniteSets

CONSTANTS Kids,            \* key ids: random, never used twice
          NoKid,
          Operators,       \* runs of scripts/signing-keys.ts
          Pods,
          Provider,        \* "secretsmanager" or "ssm"
          Refresh,         \* KEY_REFRESH_INTERVAL_SECONDS
          AssertionTtl,    \* ASSERTION_TTL_SECONDS
          TokenTtl,        \* longest lifetime of a token, ACCESS_TOKEN_TTL_SECONDS
          RetireFloor,     \* 3600
          RetireMargin,    \* 300
          StageWait,       \* runbook: between stage and promote
          CacheMaxAge,     \* verifier: age at which its JWKS is read again
          Cooldown,        \* verifier: pause between reads for an unknown kid
          LoadsFail,       \* the provider may be unreachable
          MaxTime          \* bound: seconds of a behaviour

ASSUME KidsAssumption == NoKid \notin Kids /\ IsFiniteSet(Kids)
ASSUME ProviderAssumption == Provider \in {"secretsmanager", "ssm"}
ASSUME TimesAssumption ==
  /\ Refresh \in Nat \ {0} /\ AssertionTtl \in Nat /\ TokenTtl \in Nat
  /\ RetireFloor \in Nat /\ RetireMargin \in Nat /\ StageWait \in Nat
  /\ CacheMaxAge \in Nat /\ Cooldown \in Nat /\ MaxTime \in Nat
ASSUME LoadsFailAssumption == LoadsFail \in BOOLEAN

VARIABLES stored,      \* the keyset: the stored keys and nothing for the rest
          used,        \* kids generated so far
          op,          \* what an operator has computed and has still to save
          pod,         \* what a pod holds in memory
          cached,      \* the verifier's JWKS and since when it holds it
          expires,     \* when the last token signed with a key expires
          refused,     \* history: a valid token was refused for its kid
          overwritten, \* history: generate replaced stored keys
          torn,        \* history: a save ended between two parameters
          now

vars == <<stored, used, op, pod, cached, expires, refused, overwritten, torn, now>>

Statuses == {"NEXT", "ACTIVE", "RETIRING", "RETIRED"}
Actions == {"generate", "stage", "promote", "retire"}

(* changedAt: of the status (createdAt, activatedAt, retiringAt).          *)
Row == [status : Statuses, changedAt : Nat]
None == [status |-> "none", changedAt |-> 0]
Keyset == [Kids -> Row \cup {None}]
EmptyKeyset == [k \in Kids |-> None]

With(keys, status) == {k \in Kids : keys[k].status = status}
Present(keys) == {k \in Kids : keys[k] # None}

(* validateKeyset: the sizes; formats and key lengths are not modelled.    *)
Valid(keys) ==
  /\ Cardinality(With(keys, "ACTIVE")) = 1
  /\ Cardinality(With(keys, "NEXT")) <= 1

PublishedKeys(keys) == Present(keys) \ With(keys, "RETIRED")

Larger(a, b) == IF a > b THEN a ELSE b

(* main(): the default of --min-retiring-seconds.                          *)
MinRetiring == Larger(RetireFloor, AssertionTtl + Refresh + RetireMargin)

(* Mutant: retire at once.                                                 *)
RipeAtOnce(row) == row.status = "RETIRING"

Ripe(row) == row.status = "RETIRING" /\ now - row.changedAt >= MinRetiring

(* Mutant: the two keys change places.                                     *)
PromotedSwap(keys, staged) ==
  [k \in Kids |->
     IF k = staged THEN [status |-> "ACTIVE", changedAt |-> now]
     ELSE IF keys[k].status = "ACTIVE"
          THEN [status |-> "NEXT", changedAt |-> now] ELSE keys[k]]

Promoted(keys, staged) ==
  [k \in Kids |->
     IF k = staged THEN [status |-> "ACTIVE", changedAt |-> now]
     ELSE IF keys[k].status = "ACTIVE"
          THEN [status |-> "RETIRING", changedAt |-> now] ELSE keys[k]]

(* rotateKeyset: the keysets a command can compute from the loaded one;    *)
(* none when it throws.                                                    *)
Rotated(keys, action) ==
  {next \in
     CASE action = "generate" ->
            {[keys EXCEPT ![k] = [status |-> "ACTIVE", changedAt |-> now]] :
               k \in IF Present(keys) = {} THEN Kids \ used ELSE {}}
       [] action = "stage" ->
            {[keys EXCEPT ![k] = [status |-> "NEXT", changedAt |-> now]] :
               k \in IF With(keys, "NEXT") = {} THEN Kids \ used ELSE {}}
       [] action = "promote" ->
            {Promoted(keys, staged) : staged \in With(keys, "NEXT")}
       [] action = "retire" ->
            {[k \in Kids |-> IF Ripe(keys[k])
                THEN [status |-> "RETIRED", changedAt |-> now] ELSE keys[k]]}
   : Valid(next)}

Idle == [pc |-> "idle", action |-> "none", keys |-> EmptyKeyset, todo |-> {}]
NoJwks == [keys |-> {}, at |-> 0]
Down == [active |-> NoKid, published |-> {}, at |-> 0]

-----------------------------------------------------------------------------
Init ==
  /\ stored = EmptyKeyset
  /\ used = {}
  /\ op = [o \in Operators |-> Idle]
  /\ pod = [p \in Pods |-> Down]
  /\ cached = NoJwks
  /\ expires = [k \in Kids |-> 0]
  /\ refused = FALSE
  /\ overwritten = FALSE
  /\ torn = FALSE
  /\ now = 0

(* main(): load the keyset, compute the next one.  Operators promote a key *)
(* when it has been staged for StageWait.                                  *)
Compute(o, action, keys) ==
  /\ op[o].pc = "idle"
  /\ action = "promote" =>
       \A k \in With(keys, "NEXT") : now - keys[k].changedAt >= StageWait
  /\ \E next \in Rotated(keys, action) :
       /\ op' = [op EXCEPT ![o] = [pc |-> "save", action |-> action, keys |-> next,
                                   todo |-> Present(next)]]
       /\ used' = used \cup Present(next)
  /\ UNCHANGED <<stored, pod, cached, expires, refused, overwritten, torn, now>>

Command(o) == \E action \in Actions : Compute(o, action, stored)

(* ... the load fails.  "generate" takes that for an empty keyset, whatever *)
(* the error; the other commands end.                                       *)
GenerateWithoutLoad(o) ==
  /\ LoadsFail \/ stored = EmptyKeyset
  /\ Compute(o, "generate", EmptyKeyset)

(* Secrets Manager: one new version of the secret.  SSM: one parameter per *)
(* key, in the order GetParametersByPath gave them.                        *)
Save(o) ==
  /\ op[o].pc = "save"
  /\ \E part \in IF Provider = "ssm" THEN {{k} : k \in op[o].todo} ELSE {op[o].todo} :
       /\ stored' = IF Provider = "ssm"
                    THEN [k \in Kids |-> IF k \in part THEN op[o].keys[k] ELSE stored[k]]
                    ELSE op[o].keys
       /\ op' = [op EXCEPT ![o] =
            IF op[o].todo = part THEN Idle
            ELSE [op[o] EXCEPT !.todo = op[o].todo \ part]]
  /\ overwritten' = (overwritten \/
       (op[o].action = "generate" /\ stored # EmptyKeyset))
  /\ UNCHANGED <<used, pod, cached, expires, refused, torn, now>>

(* The command is interrupted before its next write.                       *)
Interrupt(o) ==
  /\ op[o].pc = "save"
  /\ op' = [op EXCEPT ![o] = Idle]
  /\ torn' = (torn \/ op[o].todo # Present(op[o].keys))
  /\ UNCHANGED <<stored, used, pod, cached, expires, refused, overwritten, now>>

(* Mutant: only the signing key is taken over, the JWKS stays.             *)
AdoptedKeepsJwks(p) ==
  [active |-> CHOOSE k \in With(stored, "ACTIVE") : TRUE,
   published |-> IF pod[p] = Down THEN PublishedKeys(stored) ELSE pod[p].published,
   at |-> now]

Adopted(p) ==
  [active |-> CHOOSE k \in With(stored, "ACTIVE") : TRUE,
   published |-> PublishedKeys(stored), at |-> now]

(* onModuleInit and, every Refresh seconds, reload(): a valid keyset is    *)
(* adopted; a pod that cannot load one keeps what it has, or does not boot.*)
Due(p) == pod[p] = Down \/ now = pod[p].at + Refresh

Reload(p) ==
  /\ Due(p)
  /\ Valid(stored)
  /\ pod' = [pod EXCEPT ![p] = Adopted(p)]
  /\ UNCHANGED <<stored, used, op, cached, expires, refused, overwritten, torn, now>>

ReloadFails(p) ==
  /\ Due(p)
  /\ LoadsFail \/ ~ Valid(stored)
  /\ pod[p] # Down
  /\ pod' = [pod EXCEPT ![p].at = now]
  /\ UNCHANGED <<stored, used, op, cached, expires, refused, overwritten, torn, now>>

Restart(p) ==
  /\ pod[p] # Down
  /\ pod' = [pod EXCEPT ![p] = Down]
  /\ UNCHANGED <<stored, used, op, cached, expires, refused, overwritten, torn, now>>

(* AssertionService: a token with the longest lifetime there is.           *)
Sign(p) ==
  /\ pod[p] # Down
  /\ expires' = [expires EXCEPT ![pod[p].active] = now + TokenTtl]
  /\ UNCHANGED <<stored, used, op, pod, cached, refused, overwritten, torn, now>>

(* createRemoteJWKSet: the JWKS is read again when it is too old and, after *)
(* the cooldown, when it lacks the kid of the token.                        *)
MustFetch(k) ==
  \/ cached = NoJwks
  \/ k \notin cached.keys /\ now - cached.at >= Cooldown

(* A token that has not expired comes to the verifier.                     *)
VerifyFromCache(k) ==
  /\ now < expires[k]
  /\ ~ MustFetch(k)
  /\ refused' = (refused \/ k \notin cached.keys)
  /\ UNCHANGED <<stored, used, op, pod, cached, expires, overwritten, torn, now>>

VerifyFetched(k, p) ==
  /\ now < expires[k]
  /\ MustFetch(k)
  /\ pod[p] # Down
  /\ cached' = [keys |-> pod[p].published, at |-> now]
  /\ refused' = (refused \/ k \notin pod[p].published)
  /\ UNCHANGED <<stored, used, op, pod, expires, overwritten, torn, now>>

(* A second passes; no pod that is up is late with its reload, and no      *)
(* command takes that long.  Tokens expire, and a JWKS that is too old is  *)
(* no longer used.                                                         *)
Tick ==
  /\ now < MaxTime
  /\ \A o \in Operators : op[o].pc = "idle"
  /\ \A p \in Pods : pod[p] # Down => now < pod[p].at + Refresh
  /\ now' = now + 1
  /\ expires' = [k \in Kids |-> IF expires[k] <= now + 1 THEN 0 ELSE expires[k]]
  /\ cached' = IF now + 1 - cached.at > CacheMaxAge THEN NoJwks ELSE cached
  /\ UNCHANGED <<stored, used, op, pod, refused, overwritten, torn>>

Next ==
  \/ \E o \in Operators : Command(o) \/ GenerateWithoutLoad(o) \/ Save(o) \/ Interrupt(o)
  \/ \E p \in Pods : Reload(p) \/ ReloadFails(p) \/ Restart(p) \/ Sign(p)
  \/ \E k \in Kids : VerifyFromCache(k) \/ \E p \in Pods : VerifyFetched(k, p)
  \/ Tick

Spec == Init /\ [][Next]_vars

-----------------------------------------------------------------------------
TypeOK ==
  /\ stored \in Keyset
  /\ used \subseteq Kids
  /\ op \in [Operators -> [pc : {"idle", "save"}, action : Actions \cup {"none"},
                           keys : Keyset, todo : SUBSET Kids]]
  /\ pod \in [Pods -> [active : Kids \cup {NoKid}, published : SUBSET Kids, at : Nat]]
  /\ \A p \in Pods : pod[p] # Down => pod[p].active \in pod[p].published
  /\ cached \in [keys : SUBSET Kids, at : Nat]
  /\ expires \in [Kids -> Nat]
  /\ refused \in BOOLEAN /\ overwritten \in BOOLEAN /\ torn \in BOOLEAN /\ now \in Nat
  /\ Present(stored) \subseteq used

(* No token is refused for its key while it is valid: a new key is known   *)
(* to every verifier before it signs, an old one stays published for the   *)
(* tokens in flight ("RETIRING (verifying in-flight tokens)", keyset.ts:81),*)
(* whichever pods signed them and whichever answered the verifier, also    *)
(* while SSM holds half of a command.  A save that ended half-way is       *)
(* excepted: a promote repeated later keeps the first retiringAt.          *)
ValidTokensVerify == ~ torn => ~ refused

(* "Rotation state machine: NEXT -> ACTIVE -> RETIRING -> RETIRED"         *)
(* (keyset.ts:96): whatever ends half-way and is repeated, and although    *)
(* every command writes every parameter again, no stored key goes back or  *)
(* disappears (one operator at a time, SSM).                               *)
Progress == [none |-> 0, NEXT |-> 1, ACTIVE |-> 2, RETIRING |-> 3, RETIRED |-> 4]
KeysOnlyMoveForward ==
  [][\A k \in Kids : Progress[stored'[k].status] >= Progress[stored[k].status]]_vars

(* "generate : bootstrap an empty keyset with one ACTIVE key"              *)
(* (keyset.ts:98): it never replaces keys.                                 *)
GenerateOnlyBootstraps == ~ overwritten
=============================================================================
