---------------------------- MODULE PasswordSignIn ----------------------------
(***************************************************************************)
(* The password step of a sign-in (login.service.ts, loginWithPassword):   *)
(* LoginThrottleService counts the attempts of an address and the failures *)
(* of an identifier in Redis, CredentialService checks the password and    *)
(* counts and locks in the users table, PasswordHasher compares and        *)
(* upgrades hashes.  scripts/migrate-legacy-users.ts writes the same rows. *)
(*                                                                         *)
(* Every command to Redis and every statement to the database is one step, *)
(* and other requests run between two of them.  An account has one         *)
(* identifier; a password stands for its hash, which is weak if it was     *)
(* made with a smaller cost than today's.                                  *)
(***************************************************************************)
EXTENDS Naturals, FiniteSets

CONSTANTS
  Accounts, Addresses, Passwords,
  Requests,         \* requests of POST /embed/login there can be at a time
  Owner,            \* one of them, of somebody who knows the password
  MaxPerIdentifier, \* LOGIN_MAX_FAILURES_PER_IDENTIFIER
  MaxPerIp,         \* LOGIN_MAX_ATTEMPTS_PER_IP
  MaxAttempts,      \* bound: attempts other than the owner's with the password
  MaxEvents         \* bound: crashes, migrations, changes of password and status

ASSUME RequestsAssumption == IsFiniteSet(Requests) /\ Owner \in Requests
ASSUME LimitsAssumption ==
  /\ MaxPerIdentifier \in Nat \ {0} /\ MaxPerIp \in Nat \ {0}
  /\ MaxAttempts \in Nat /\ MaxEvents \in Nat

VARIABLES
  user,        \* the row of each account in users
  idFailures,  \* Redis counter of an identifier's failures
  ipAttempts,  \* Redis counter of an address's attempts
  attempt,     \* the request under way
  legacy,      \* the account's password in the legacy system
  migration,   \* the account's turn in a run of the migration
  wrong,       \* history: wrong passwords told to be wrong, see Told
  attempts, events

redis == <<idFailures, ipAttempts>>
budget == <<attempts, events>>
others == <<legacy, migration>>
vars == <<user, redis, attempt, others, wrong, budget>>

(* count is failed_login_count; locked: locked_until is ahead.             *)
User == [known : BOOLEAN, password : Passwords, weak : BOOLEAN,
         active : BOOLEAN, count : Nat, locked : BOOLEAN]

(* A key with its TTL; 0 stands for no key.                                *)
Counter == [n : Nat, ttl : BOOLEAN]
NoKey == [n |-> 0, ttl |-> FALSE]

(* The progress of a request, and what it remembers of the row it has read.*)
Attempt ==
  [pc : {"sent", "allowed", "read", "failed", "rehash", "verified"},
   account : Accounts, ip : Addresses, password : Passwords,
   right : BOOLEAN, weak : BOOLEAN, active : BOOLEAN]
Idle == [pc |-> "idle"]
SignedIn == [pc |-> "in"]

(* The plaintext of the legacy row, and how it compares with the user's.   *)
Migration == [pc : {"read"}, plaintext : Passwords, known : BOOLEAN,
              unchanged : BOOLEAN, weak : BOOLEAN]

(* unlocked: since the account was last unlocked; inWindow: since the      *)
(* failures of the identifier were last forgotten; lost: those of them     *)
(* that never got to the counter.                                          *)
Told == [unlocked : Nat, inWindow : Nat, lost : Nat]
NoneTold == [unlocked |-> 0, inWindow |-> 0, lost |-> 0]

TypeOK ==
  /\ user \in [Accounts -> User]
  /\ idFailures \in [Accounts -> Counter]
  /\ ipAttempts \in [Addresses -> Counter]
  /\ attempt \in [Requests -> Attempt \cup {Idle, SignedIn}]
  /\ legacy \in [Accounts -> Passwords]
  /\ migration \in [Accounts -> Migration \cup {Idle}]
  /\ wrong \in [Accounts -> Told]
  /\ attempts \in 0..MaxAttempts /\ events \in 0..MaxEvents

(* Accounts come from the legacy system; one that is not migrated yet has  *)
(* no row, and what stands here is not looked at.                          *)
Fresh == [known : BOOLEAN, password : Passwords, weak : BOOLEAN,
          active : {TRUE}, count : {0}, locked : {FALSE}]

Init ==
  /\ user \in [Accounts -> Fresh]
  /\ legacy = [a \in Accounts |-> user[a].password]
  /\ idFailures = [a \in Accounts |-> NoKey]
  /\ ipAttempts = [i \in Addresses |-> NoKey]
  /\ attempt = [r \in Requests |-> Idle]
  /\ migration = [a \in Accounts |-> Idle]
  /\ wrong = [a \in Accounts |-> NoneTold]
  /\ attempts = 0 /\ events = 0

-----------------------------------------------------------------------------
(* Requests.                                                               *)
Goes(r, pc) == attempt' = [attempt EXCEPT ![r].pc = pc]
Ends(r, how) == attempt' = [attempt EXCEPT ![r] = how]

(* A request that has passed the checks of its transaction.  The owner can *)
(* type the password as often as it takes.                                 *)
Begin(r, a, i, password) ==
  /\ attempt[r] = Idle
  /\ IF r = Owner /\ password = user[a].password THEN UNCHANGED attempts
     ELSE attempts < MaxAttempts /\ attempts' = attempts + 1
  /\ attempt' = [attempt EXCEPT ![r] =
       [pc |-> "sent", account |-> a, ip |-> i, password |-> password,
        right |-> FALSE, weak |-> FALSE, active |-> FALSE]]
  /\ UNCHANGED <<user, redis, others, wrong, events>>

(* Mutant: EXPIRE is sent on its own, and is not.                          *)
CountWithoutTtl(key) == [key EXCEPT !.n = @ + 1]

(* INCR and EXPIRE NX in one MULTI.                                        *)
Count(key) == [n |-> key.n + 1, ttl |-> TRUE]

(* Mutant: the limit itself is still allowed.                              *)
WithinLimits(ip, failures) == ip <= MaxPerIp /\ failures <= MaxPerIdentifier

(* assertAllowed, from the replies of its MULTI.  Above the limit the      *)
(* count of an address need not go up any more (bound).                    *)
Allowed(ip, failures) == ip <= MaxPerIp /\ failures < MaxPerIdentifier

AssertAllowed(r) ==
  LET c == attempt[r]
      now == ipAttempts[c.ip]
      key == IF now.n > MaxPerIp THEN now ELSE Count(now) IN
  /\ c.pc = "sent"
  /\ ipAttempts' = [ipAttempts EXCEPT ![c.ip] = key]
  /\ IF Allowed(key.n, idFailures[c.account].n)
     THEN Goes(r, "allowed") ELSE Ends(r, Idle)
  /\ UNCHANGED <<user, idFailures, others, wrong, budget>>

(* An attempt is told that its password is wrong.                          *)
Tell(a, row) ==
  wrong' = [wrong EXCEPT ![a].inWindow = @ + 1,
                         ![a].unlocked = IF row THEN @ + 1 ELSE @]

(* verify: SELECT, and the comparison of the password with what was read.  *)
(* A locked account and an unknown one are answered whatever was typed.    *)
ReadUser(r) ==
  LET c == attempt[r]
      row == user[c.account] IN
  /\ c.pc = "allowed"
  /\ CASE ~row.known -> Goes(r, "failed") /\ Tell(c.account, FALSE)
       [] row.known /\ row.locked -> Ends(r, Idle) /\ UNCHANGED wrong
       [] row.known /\ ~row.locked ->
            /\ attempt' = [attempt EXCEPT ![r].pc = "read",
                 ![r].right = (c.password = row.password),
                 ![r].weak = row.weak, ![r].active = row.active]
            /\ UNCHANGED wrong
  /\ UNCHANGED <<user, redis, others, budget>>

(* Mutant: the count that was read, and not the one in the row, goes up.   *)
FailedRowAnew(row) == [row EXCEPT !.count = 1, !.locked = @ \/ 1 >= MaxPerIdentifier]

(* UPDATE users after a wrong password.                                    *)
FailedRow(row) ==
  [row EXCEPT !.count = @ + 1,
              !.locked = @ \/ row.count + 1 >= MaxPerIdentifier]

RejectPassword(r) ==
  LET c == attempt[r] IN
  /\ c.pc = "read" /\ ~c.right
  /\ user' = [user EXCEPT ![c.account] = FailedRow(@)]
  /\ Tell(c.account, TRUE)
  /\ Goes(r, "failed")
  /\ UNCHANGED <<redis, others, budget>>

(* Mutant: the request is left as it is, in a state nobody takes it from.  *)
RejectStatusAndWait(r) ==
  /\ attempt[r].pc = "read" /\ attempt[r].right /\ ~attempt[r].active
  /\ Goes(r, "disabled")
  /\ UNCHANGED <<user, redis, others, wrong, budget>>

(* The status is told only to those who know the password.                 *)
RejectStatus(r) ==
  /\ attempt[r].pc = "read" /\ attempt[r].right /\ ~attempt[r].active
  /\ Ends(r, Idle)
  /\ UNCHANGED <<user, redis, others, wrong, budget>>

(* UPDATE users after the right one: whatever was counted or locked since  *)
(* the row was read is undone.                                             *)
AcceptPassword(r) ==
  LET c == attempt[r] IN
  /\ c.pc = "read" /\ c.right /\ c.active
  /\ user' = [user EXCEPT ![c.account].count = 0, ![c.account].locked = FALSE]
  /\ wrong' = [wrong EXCEPT ![c.account].unlocked = 0]
  /\ Goes(r, IF c.weak THEN "rehash" ELSE "verified")
  /\ UNCHANGED <<redis, others, budget>>

(* needsRehash: the hash of the password typed, over whichever is there.   *)
Rehash(r) ==
  LET c == attempt[r] IN
  /\ c.pc = "rehash"
  /\ user' = [user EXCEPT ![c.account].password = c.password,
                          ![c.account].weak = FALSE]
  /\ Goes(r, "verified")
  /\ UNCHANGED <<redis, others, wrong, budget>>

RecordFailure(r) ==
  LET a == attempt[r].account IN
  /\ attempt[r].pc = "failed"
  /\ idFailures' = [idFailures EXCEPT ![a] = Count(@)]
  /\ Ends(r, Idle)
  /\ UNCHANGED <<user, ipAttempts, others, wrong, budget>>

Forget(a) ==
  /\ idFailures' = [idFailures EXCEPT ![a] = NoKey]
  /\ wrong' = [wrong EXCEPT ![a].inWindow = 0, ![a].lost = 0]

RecordSuccess(r) ==
  /\ attempt[r].pc = "verified"
  /\ Forget(attempt[r].account)
  /\ Ends(r, SignedIn)
  /\ UNCHANGED <<user, ipAttempts, others, budget>>

-----------------------------------------------------------------------------
(* Time.                                                                   *)
ExpireFailures(a) ==
  /\ idFailures[a].ttl
  /\ Forget(a)
  /\ UNCHANGED <<user, ipAttempts, attempt, others, budget>>

ExpireIp(i) ==
  /\ ipAttempts[i].ttl
  /\ ipAttempts' = [ipAttempts EXCEPT ![i] = NoKey]
  /\ UNCHANGED <<user, idFailures, attempt, others, wrong, budget>>

(* The failed count stays, and the next wrong password locks again.        *)
ExpireLock(a) ==
  /\ user[a].locked
  /\ user' = [user EXCEPT ![a].locked = FALSE]
  /\ wrong' = [wrong EXCEPT ![a].unlocked = 0]
  /\ UNCHANGED <<redis, attempt, others, budget>>

-----------------------------------------------------------------------------
(* What need not happen.                                                   *)
Event == events < MaxEvents /\ events' = events + 1

(* The pod dies, or a statement or a command fails: the request is over.   *)
Crash(r) ==
  LET c == attempt[r] IN
  /\ c \notin {Idle, SignedIn} /\ Event
  /\ Ends(r, Idle)
  /\ IF c.pc = "failed" THEN wrong' = [wrong EXCEPT ![c.account].lost = @ + 1]
     ELSE UNCHANGED wrong
  /\ UNCHANGED <<user, redis, others, attempts>>

(* The user's password changes in the legacy system, the user is disabled. *)
ChangeLegacy(a, password) ==
  /\ password # legacy[a] /\ Event
  /\ legacy' = [legacy EXCEPT ![a] = password]
  /\ UNCHANGED <<user, redis, attempt, migration, wrong, attempts>>

Disable(a) ==
  /\ user[a].known /\ user[a].active /\ Event
  /\ user' = [user EXCEPT ![a].active = FALSE]
  /\ UNCHANGED <<redis, attempt, others, wrong, attempts>>

(* A run of the migration: the legacy row decrypted, the user's row read.  *)
MigrateRead(a) ==
  /\ migration[a] = Idle /\ Event
  /\ migration' = [migration EXCEPT ![a] =
       [pc |-> "read", plaintext |-> legacy[a], known |-> user[a].known,
        unchanged |-> user[a].known /\ user[a].password = legacy[a],
        weak |-> user[a].weak]]
  /\ UNCHANGED <<user, redis, attempt, legacy, wrong, attempts>>

(* UPDATE with the hash that was read, if it is of the legacy password, or *)
(* with a new one; INSERT.  The status is ACTIVE whatever it was.          *)
MigrateWrite(a) ==
  LET m == migration[a] IN
  /\ m # Idle
  /\ user' = [user EXCEPT ![a].known = TRUE, ![a].active = TRUE,
                          ![a].password = m.plaintext,
                          ![a].weak = m.unchanged /\ m.weak]
  /\ migration' = [migration EXCEPT ![a] = Idle]
  /\ UNCHANGED <<redis, attempt, legacy, wrong, budget>>

(* The run dies in between.                                                *)
AbortMigration(a) ==
  /\ migration[a] # Idle
  /\ migration' = [migration EXCEPT ![a] = Idle]
  /\ UNCHANGED <<user, redis, attempt, legacy, wrong, budget>>

Step(r) ==
  \/ AssertAllowed(r) \/ ReadUser(r) \/ RejectPassword(r) \/ RejectStatus(r)
  \/ AcceptPassword(r) \/ Rehash(r) \/ RecordFailure(r) \/ RecordSuccess(r)

Begins(r) ==
  \E a \in Accounts, i \in Addresses, p \in Passwords : Begin(r, a, i, p)

OwnerTries(a) == \E i \in Addresses : Begin(Owner, a, i, user[a].password)

Next ==
  \/ \E r \in Requests : Begins(r) \/ Step(r) \/ Crash(r)
  \/ \E i \in Addresses : ExpireIp(i)
  \/ \E a \in Accounts :
       \/ ExpireFailures(a) \/ ExpireLock(a) \/ Disable(a)
       \/ MigrateRead(a) \/ MigrateWrite(a) \/ AbortMigration(a)
       \/ \E p \in Passwords : ChangeLegacy(a, p)

(* The owner keeps trying, requests go on, and time passes.                *)
Fairness ==
  /\ \A a \in Accounts : WF_vars(OwnerTries(a))
  /\ \A r \in Requests : WF_vars(Step(r))
  /\ \A i \in Addresses : WF_vars(ExpireIp(i))
  /\ \A a \in Accounts : /\ WF_vars(ExpireFailures(a)) /\ WF_vars(ExpireLock(a))
                         /\ WF_vars(MigrateWrite(a))

Spec == Init /\ [][Next]_vars /\ Fairness

-----------------------------------------------------------------------------
(* Attempts that have read an unlocked row go on to verify the password    *)
(* while others lock it (credential.service.ts): all the same, between two *)
(* unlockings of an account no more passwords are told to be wrong than    *)
(* the limit and one for every other request there can be at a time.       *)
GuessesBeforeLock ==
  \A a \in Accounts :
    wrong[a].unlocked <= MaxPerIdentifier + Cardinality(Requests) - 1

(* The same of the counter in Redis, which is read before the password is  *)
(* checked and incremented after (login-throttle.service.ts), for unknown  *)
(* identifiers too; what a crash keeps from the counter comes on top.      *)
GuessesInWindow ==
  \A a \in Accounts :
    wrong[a].inWindow <=
      MaxPerIdentifier + Cardinality(Requests) - 1 + wrong[a].lost

(* Locked out by others, the owner of the account gets in once they stop:  *)
(* every counter and lock ends by itself.                                  *)
OwnerGetsIn ==
  \A a \in Accounts :
    (user[a].known /\ []user[a].active) ~> attempt[Owner] = SignedIn
=============================================================================
