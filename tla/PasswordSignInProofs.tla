------------------------- MODULE PasswordSignInProofs -------------------------
(***************************************************************************)
(* Proofs about PasswordSignIn, for any number of accounts, addresses and  *)
(* requests and any limits: its types, and how many wrong passwords can be *)
(* told to be wrong before the lock and before the throttle take effect.   *)
(***************************************************************************)
EXTENDS PasswordSignIn, FiniteSetTheorems, TLAPS

R == Cardinality(Requests)

(* Requests that have read an unlocked row and will be told that their     *)
(* password is wrong.                                                      *)
Guessing(a) ==
  {r \in Requests : attempt[r].pc = "read" /\ attempt[r].account = a
                    /\ ~attempt[r].right}

(* Requests the throttle has let through, and those it has still to count. *)
Admitted(a) ==
  {r \in Requests : attempt[r].pc \in {"allowed", "read"} /\ attempt[r].account = a}
Uncounted(a) ==
  {r \in Requests : attempt[r].pc = "failed" /\ attempt[r].account = a}

(* An unlocked row has counted every wrong password since it was unlocked, *)
(* or has not told of one since its lock ended; with a locked row only     *)
(* those go on that have read it before.                                   *)
LockInv(a) ==
  LET told == wrong[a].unlocked IN
  /\ ~user[a].locked /\ user[a].count < MaxPerIdentifier => told <= user[a].count
  /\ ~user[a].locked /\ user[a].count >= MaxPerIdentifier => told = 0
  /\ user[a].locked =>
       told + Cardinality(Guessing(a)) <= MaxPerIdentifier + R - 1

(* What was told is counted, is about to be, or is lost; what was admitted *)
(* may still be told.                                                      *)
WindowInv(a) ==
  LET told == wrong[a].inWindow IN
  /\ told <= idFailures[a].n + Cardinality(Uncounted(a)) + wrong[a].lost
  /\ told + Cardinality(Admitted(a)) <= MaxPerIdentifier + R - 1 + wrong[a].lost

(* The inductive invariant.                                                *)
IInv ==
  /\ TypeOK
  /\ \A a \in Accounts : LockInv(a) /\ WindowInv(a)

-----------------------------------------------------------------------------
LEMMA RIsPositive == R \in Nat \ {0}
  <1>1. R \in Nat /\ R # 0
    BY RequestsAssumption, FS_CardinalityType, FS_EmptySet DEF R
  <1> QED
    BY <1>1

LEMMA Counts ==
  ASSUME NEW S, S \subseteq Requests
  PROVE  Cardinality(S) \in Nat /\ Cardinality(S) <= R
  BY RequestsAssumption, FS_Subset, FS_CardinalityType DEF R

(* What r alone does to the number of those in a set.                      *)
Moved(S, T, r) ==
  /\ Cardinality(S) \in Nat /\ Cardinality(T) \in Nat
  /\ Cardinality(S) <= R /\ Cardinality(T) <= R
  /\ r \in S <=> r \in T => Cardinality(T) = Cardinality(S)
  /\ r \in S /\ r \notin T => Cardinality(T) = Cardinality(S) - 1
  /\ r \notin S /\ r \in T => Cardinality(T) = Cardinality(S) + 1

LEMMA CountMoves ==
  ASSUME NEW S, NEW T, NEW r, S \subseteq Requests, T \subseteq Requests,
         S \ {r} = T \ {r}
  PROVE  Moved(S, T, r)
  <1>1. IsFiniteSet(S) /\ IsFiniteSet(T)
    BY RequestsAssumption, FS_Subset
  <1>2. /\ Cardinality(S \ {r}) = IF r \in S THEN Cardinality(S) - 1 ELSE Cardinality(S)
        /\ Cardinality(T \ {r}) = IF r \in T THEN Cardinality(T) - 1 ELSE Cardinality(T)
    BY <1>1, FS_RemoveElement
  <1>3. (r \in S <=> r \in T) => S = T
    OBVIOUS
  <1>4. /\ Cardinality(S) \in Nat /\ Cardinality(T) \in Nat
        /\ Cardinality(S) <= R /\ Cardinality(T) <= R
    BY Counts
  <1> QED
    BY <1>2, <1>3, <1>4 DEF Moved

(* A step of r moves no other request between the sets.                    *)
OnlyMoves(r) == \A q \in Requests \ {r} : attempt'[q] = attempt[q]

LEMMA SetsMove ==
  ASSUME NEW r, OnlyMoves(r), NEW a
  PROVE  /\ Moved(Guessing(a), Guessing(a)', r)
         /\ Moved(Admitted(a), Admitted(a)', r)
         /\ Moved(Uncounted(a), Uncounted(a)', r)
  <1>1. /\ Guessing(a) \subseteq Requests /\ Guessing(a)' \subseteq Requests
        /\ Guessing(a) \ {r} = Guessing(a)' \ {r}
    BY DEF Guessing, OnlyMoves
  <1>2. /\ Admitted(a) \subseteq Requests /\ Admitted(a)' \subseteq Requests
        /\ Admitted(a) \ {r} = Admitted(a)' \ {r}
    BY DEF Admitted, OnlyMoves
  <1>3. /\ Uncounted(a) \subseteq Requests /\ Uncounted(a)' \subseteq Requests
        /\ Uncounted(a) \ {r} = Uncounted(a)' \ {r}
    BY DEF Uncounted, OnlyMoves
  <1> QED
    BY <1>1, <1>2, <1>3, CountMoves

LEMMA DisjointCounts ==
  ASSUME NEW S, NEW T, S \subseteq Requests, T \subseteq Requests, S \cap T = {}
  PROVE  Cardinality(S) + Cardinality(T) <= R
  <1>1. IsFiniteSet(S) /\ IsFiniteSet(T)
    BY RequestsAssumption, FS_Subset
  <1>2. Cardinality(S \cup T) = Cardinality(S) + Cardinality(T) - 0
    BY <1>1, FS_Union, FS_EmptySet
  <1>3. Cardinality(S \cup T) <= R
    BY Counts
  <1> QED
    BY <1>2, <1>3, Counts

-----------------------------------------------------------------------------
LEMMA InitIInv == Init => IInv
  <1> SUFFICES ASSUME Init PROVE IInv
    OBVIOUS
  <1>1. TypeOK
    <2>1. Fresh \subseteq User /\ NoKey \in Counter /\ NoneTold \in Told
      <3>1. {TRUE} \subseteq BOOLEAN /\ {FALSE} \subseteq BOOLEAN /\ {0} \subseteq Nat
        OBVIOUS
      <3>2. Fresh \subseteq User
        BY <3>1 DEF Fresh, User
      <3>3. NoKey \in Counter
        BY DEF NoKey, Counter
      <3>4. NoneTold \in Told
        BY DEF NoneTold, Told
      <3> QED
        BY <3>2, <3>3, <3>4
    <2>2. user \in [Accounts -> User] /\ legacy \in [Accounts -> Passwords]
      BY <2>1 DEF Init, Fresh
    <2>3. /\ idFailures \in [Accounts -> Counter]
          /\ ipAttempts \in [Addresses -> Counter]
          /\ wrong \in [Accounts -> Told]
      BY <2>1 DEF Init
    <2>4. /\ attempt \in [Requests -> Attempt \cup {Idle, SignedIn}]
          /\ migration \in [Accounts -> Migration \cup {Idle}]
      BY DEF Init
    <2>5. attempts \in 0..MaxAttempts /\ events \in 0..MaxEvents
      BY LimitsAssumption DEF Init
    <2> QED
      BY <2>2, <2>3, <2>4, <2>5 DEF TypeOK
  <1>2. ASSUME NEW a \in Accounts PROVE LockInv(a) /\ WindowInv(a)
    <2>1. Guessing(a) = {} /\ Admitted(a) = {} /\ Uncounted(a) = {}
      BY DEF Init, Guessing, Admitted, Uncounted, Idle
    <2>2. user[a].count = 0 /\ ~user[a].locked /\ wrong[a] = NoneTold
          /\ idFailures[a] = NoKey
      BY DEF Init, Fresh
    <2>3. Cardinality({}) = 0
      BY FS_EmptySet
    <2> QED
      BY <2>1, <2>2, <2>3, RIsPositive, LimitsAssumption
         DEF LockInv, WindowInv, NoneTold, NoKey
  <1> QED
    BY <1>1, <1>2 DEF IInv

-----------------------------------------------------------------------------
(* Types.  A request under way has all its fields.                         *)
LEMMA UnderWay ==
  ASSUME TypeOK, NEW r \in Requests, attempt[r].pc \notin {"idle", "in"}
  PROVE  attempt[r] \in Attempt
  BY DEF TypeOK, Idle, SignedIn

LEMMA TypeOfTell ==
  ASSUME wrong \in [Accounts -> Told], NEW a \in Accounts, NEW row \in BOOLEAN,
         Tell(a, row)
  PROVE  wrong' \in [Accounts -> Told]
  <1>1. wrong[a] \in Told /\ wrong[a].inWindow + 1 \in Nat
        /\ wrong[a].unlocked + 1 \in Nat
    BY DEF Told
  <1>2. CASE row
    BY <1>1, <1>2 DEF Tell, Told
  <1>3. CASE ~row
    BY <1>1, <1>3 DEF Tell, Told
  <1> QED
    BY <1>2, <1>3

LEMMA Telling ==
  ASSUME wrong \in [Accounts -> Told], NEW a \in Accounts, NEW row \in BOOLEAN,
         Tell(a, row)
  PROVE  /\ wrong'[a].inWindow = wrong[a].inWindow + 1
         /\ wrong'[a].unlocked = wrong[a].unlocked + (IF row THEN 1 ELSE 0)
         /\ wrong'[a].lost = wrong[a].lost
         /\ \A b \in Accounts \ {a} : wrong'[b] = wrong[b]
  <1>1. wrong[a] \in Told
    OBVIOUS
  <1>2. CASE row
    BY <1>1, <1>2 DEF Tell, Told
  <1>3. CASE ~row
    BY <1>1, <1>3 DEF Tell, Told
  <1> QED
    BY <1>2, <1>3

LEMMA TypeOfFailedRow ==
  ASSUME NEW row \in User
  PROVE  FailedRow(row) \in User
  <1>1. row.count + 1 \in Nat
    BY DEF User
  <1>2. (row.locked \/ row.count + 1 >= MaxPerIdentifier) \in BOOLEAN
    OBVIOUS
  <1> DEFINE late == row.locked \/ row.count + 1 >= MaxPerIdentifier
  <1> HIDE DEF late
  <1>3. [row EXCEPT !.count = row.count + 1, !.locked = late] \in User
    BY <1>1, <1>2 DEF User, late
  <1> QED
    BY <1>3 DEF FailedRow, late

LEMMA TypeOfRequest ==
  ASSUME TypeOK, NEW r \in Requests, Begins(r) \/ Step(r) \/ Crash(r)
  PROVE  TypeOK'
  <1>1. CASE Begins(r)
    <2>1. PICK a \in Accounts, i \in Addresses, p \in Passwords : Begin(r, a, i, p)
      BY <1>1 DEF Begins
    <2>2. [pc |-> "sent", account |-> a, ip |-> i, password |-> p, right |-> FALSE,
           weak |-> FALSE, active |-> FALSE] \in Attempt
      BY DEF Attempt
    <2>3. attempt' \in [Requests -> Attempt \cup {Idle, SignedIn}]
      BY <2>1, <2>2 DEF Begin, TypeOK
    <2>4. attempts' \in 0..MaxAttempts
      BY <2>1, LimitsAssumption DEF Begin, TypeOK
    <2> QED
      BY <2>1, <2>3, <2>4 DEF Begin, TypeOK, redis, others
  <1>2. CASE AssertAllowed(r)
    <2>1. attempt[r] \in Attempt
      BY <1>2, UnderWay DEF AssertAllowed
    <2>2. attempt' \in [Requests -> Attempt \cup {Idle, SignedIn}]
      BY <1>2, <2>1 DEF AssertAllowed, TypeOK, Attempt, Goes, Ends
    <2>3. ipAttempts' \in [Addresses -> Counter]
      BY <1>2, <2>1 DEF AssertAllowed, TypeOK, Attempt, Counter, Count
    <2> QED
      BY <1>2, <2>2, <2>3 DEF AssertAllowed, TypeOK, others, budget
  <1>3. CASE ReadUser(r)
    <2>1. attempt[r] \in Attempt
      BY <1>3, UnderWay DEF ReadUser
    <2>2. user[attempt[r].account] \in User
      BY <2>1 DEF TypeOK, Attempt
    <2>3. attempt' \in [Requests -> Attempt \cup {Idle, SignedIn}]
      <3>1. CASE attempt' = [attempt EXCEPT ![r].pc = "failed"]
        BY <2>1, <3>1 DEF TypeOK, Attempt
      <3>2. CASE attempt' = [attempt EXCEPT ![r] = Idle]
        BY <3>2 DEF TypeOK
      <3>3. ASSUME NEW row \in User,
                   attempt' = [attempt EXCEPT ![r].pc = "read",
                     ![r].right = (attempt[r].password = row.password),
                     ![r].weak = row.weak, ![r].active = row.active]
            PROVE  attempt' \in [Requests -> Attempt \cup {Idle, SignedIn}]
        <4>1. (attempt[r].password = row.password) \in BOOLEAN
          OBVIOUS
        <4> DEFINE right == attempt[r].password = row.password
        <4> HIDE DEF right
        <4>2. [attempt[r] EXCEPT !.pc = "read", !.right = right, !.weak = row.weak,
                                 !.active = row.active] \in Attempt
          BY <2>1, <4>1 DEF Attempt, User, right
        <4>3. attempt' = [attempt EXCEPT ![r] =
                [attempt[r] EXCEPT !.pc = "read", !.right = right, !.weak = row.weak,
                                   !.active = row.active]]
          BY <3>3 DEF TypeOK, right
        <4> QED
          BY <4>2, <4>3 DEF TypeOK
      <3> QED
        BY <1>3, <2>2, <3>1, <3>2, <3>3 DEF ReadUser, Goes, Ends
    <2>4. wrong' \in [Accounts -> Told]
      <3>1. attempt[r].account \in Accounts /\ wrong \in [Accounts -> Told]
        BY <2>1 DEF TypeOK, Attempt
      <3>2. UNCHANGED wrong \/ Tell(attempt[r].account, FALSE)
        BY <1>3 DEF ReadUser
      <3> QED
        BY <3>1, <3>2, TypeOfTell
    <2> QED
      BY <1>3, <2>3, <2>4 DEF ReadUser, TypeOK, redis, others, budget
  <1>4. CASE RejectPassword(r)
    <2>1. attempt[r] \in Attempt
      BY <1>4, UnderWay DEF RejectPassword
    <2>2. attempt' \in [Requests -> Attempt \cup {Idle, SignedIn}]
      BY <1>4, <2>1 DEF RejectPassword, TypeOK, Attempt, Goes
    <2>3. wrong' \in [Accounts -> Told]
      BY <1>4, <2>1, TypeOfTell DEF RejectPassword, TypeOK, Attempt
    <2>4. user' \in [Accounts -> User]
      BY <1>4, <2>1, TypeOfFailedRow DEF RejectPassword, TypeOK, Attempt
    <2> QED
      BY <1>4, <2>2, <2>3, <2>4 DEF RejectPassword, TypeOK, redis, others, budget
  <1>5. CASE RejectStatus(r)
    BY <1>5 DEF RejectStatus, TypeOK, Ends, redis, others, budget
  <1>6. CASE AcceptPassword(r)
    <2>1. attempt[r] \in Attempt
      BY <1>6, UnderWay DEF AcceptPassword
    <2>2. attempt' \in [Requests -> Attempt \cup {Idle, SignedIn}]
      BY <1>6, <2>1 DEF AcceptPassword, TypeOK, Attempt, Goes
    <2>3. wrong' \in [Accounts -> Told]
      BY <1>6, <2>1 DEF AcceptPassword, TypeOK, Attempt, Told
    <2>4. user' \in [Accounts -> User]
      BY <1>6, <2>1 DEF AcceptPassword, TypeOK, Attempt, User
    <2> QED
      BY <1>6, <2>2, <2>3, <2>4 DEF AcceptPassword, TypeOK, redis, others, budget
  <1>7. CASE Rehash(r)
    <2>1. attempt[r] \in Attempt
      BY <1>7, UnderWay DEF Rehash
    <2>2. attempt' \in [Requests -> Attempt \cup {Idle, SignedIn}]
      BY <1>7, <2>1 DEF Rehash, TypeOK, Attempt, Goes
    <2>3. user' \in [Accounts -> User]
      BY <1>7, <2>1 DEF Rehash, TypeOK, Attempt, User
    <2> QED
      BY <1>7, <2>2, <2>3 DEF Rehash, TypeOK, redis, others, budget
  <1>8. CASE RecordFailure(r)
    <2>1. attempt[r] \in Attempt
      BY <1>8, UnderWay DEF RecordFailure
    <2>2. idFailures' \in [Accounts -> Counter]
      BY <1>8, <2>1 DEF RecordFailure, TypeOK, Attempt, Count, Counter
    <2> QED
      BY <1>8, <2>2 DEF RecordFailure, TypeOK, Ends, redis, others, budget
  <1>9. CASE RecordSuccess(r)
    <2>1. attempt[r] \in Attempt
      BY <1>9, UnderWay DEF RecordSuccess
    <2>2. idFailures' \in [Accounts -> Counter] /\ wrong' \in [Accounts -> Told]
      BY <1>9, <2>1 DEF RecordSuccess, Forget, TypeOK, Attempt, NoKey, Counter, Told
    <2> QED
      BY <1>9, <2>2 DEF RecordSuccess, TypeOK, Ends, redis, others, budget
  <1>10. CASE Crash(r)
    <2>1. events' \in 0..MaxEvents
      BY <1>10, LimitsAssumption DEF Crash, Event, TypeOK
    <2>2. attempt[r].pc = "failed" => attempt[r] \in Attempt
      BY UnderWay
    <2>3. wrong' \in [Accounts -> Told]
      BY <1>10, <2>2 DEF Crash, TypeOK, Attempt, Told
    <2> QED
      BY <1>10, <2>1, <2>3 DEF Crash, TypeOK, Ends, redis, others
  <1> QED
    BY <1>1, <1>2, <1>3, <1>4, <1>5, <1>6, <1>7, <1>8, <1>9, <1>10 DEF Step

LEMMA TypeOfRest ==
  ASSUME TypeOK, Next,
         ~ \E r \in Requests : Begins(r) \/ Step(r) \/ Crash(r)
  PROVE  TypeOK'
  <1> USE DEF Event, redis, others, budget
  <1>1. ASSUME NEW i \in Addresses, ExpireIp(i) PROVE TypeOK'
    BY <1>1 DEF ExpireIp, TypeOK, NoKey, Counter
  <1>2. ASSUME NEW a \in Accounts, ExpireFailures(a) PROVE TypeOK'
    BY <1>2 DEF ExpireFailures, Forget, TypeOK, NoKey, Counter, Told
  <1>3. ASSUME NEW a \in Accounts, ExpireLock(a) PROVE TypeOK'
    BY <1>3 DEF ExpireLock, TypeOK, User, Told
  <1>4. ASSUME NEW a \in Accounts, Disable(a) PROVE TypeOK'
    <2>1. events' \in 0..MaxEvents
      BY <1>4, LimitsAssumption DEF Disable, TypeOK
    <2>2. user' \in [Accounts -> User]
      BY <1>4 DEF Disable, TypeOK, User
    <2> QED
      BY <1>4, <2>1, <2>2 DEF Disable, TypeOK
  <1>5. ASSUME NEW a \in Accounts, MigrateRead(a) PROVE TypeOK'
    <2>1. [pc |-> "read", plaintext |-> legacy[a], known |-> user[a].known,
           unchanged |-> user[a].known /\ user[a].password = legacy[a],
           weak |-> user[a].weak] \in Migration
      BY DEF TypeOK, User, Migration
    <2>2. events' \in 0..MaxEvents
      BY <1>5, LimitsAssumption DEF MigrateRead, TypeOK
    <2> QED
      BY <1>5, <2>1, <2>2 DEF MigrateRead, TypeOK
  <1>6. ASSUME NEW a \in Accounts, MigrateWrite(a) PROVE TypeOK'
    <2>1. migration[a] \in Migration
      BY <1>6 DEF MigrateWrite, TypeOK
    <2> DEFINE weak == migration[a].unchanged /\ migration[a].weak
    <2>2. weak \in BOOLEAN /\ migration[a].plaintext \in Passwords /\ user[a] \in User
      BY <2>1 DEF TypeOK, Migration
    <2> HIDE DEF weak
    <2>3. [user[a] EXCEPT !.known = TRUE, !.active = TRUE,
             !.password = migration[a].plaintext, !.weak = weak] \in User
      BY <2>2 DEF User
    <2>4. user' = [user EXCEPT ![a] =
            [user[a] EXCEPT !.known = TRUE, !.active = TRUE,
               !.password = migration[a].plaintext, !.weak = weak]]
      BY <1>6 DEF MigrateWrite, TypeOK, weak
    <2>5. user' \in [Accounts -> User]
      BY <2>3, <2>4 DEF TypeOK
    <2> QED
      BY <1>6, <2>5 DEF MigrateWrite, TypeOK
  <1>7. ASSUME NEW a \in Accounts, AbortMigration(a) PROVE TypeOK'
    BY <1>7 DEF AbortMigration, TypeOK
  <1>8. ASSUME NEW a \in Accounts, NEW p \in Passwords, ChangeLegacy(a, p) PROVE TypeOK'
    BY <1>8, LimitsAssumption DEF ChangeLegacy, TypeOK
  <1> QED
    BY <1>1, <1>2, <1>3, <1>4, <1>5, <1>6, <1>7, <1>8 DEF Next

LEMMA TypeOfStep == TypeOK /\ [Next]_vars => TypeOK'
  <1> SUFFICES ASSUME TypeOK, [Next]_vars PROVE TypeOK'
    OBVIOUS
  <1>1. CASE UNCHANGED vars
    BY <1>1 DEF TypeOK, vars, redis, others, budget
  <1> QED
    BY <1>1, TypeOfRequest, TypeOfRest

(* Every value is of its type (TypeOK), whatever the requests, the clock,  *)
(* the administrator and the migration do in between.                      *)
THEOREM TypeCorrect == Spec => []TypeOK
  <1>1. Init => TypeOK
    BY InitIInv DEF IInv
  <1> QED
    BY <1>1, TypeOfStep, PTL DEF Spec

-----------------------------------------------------------------------------
(* The steps of a request.                                                 *)
LEMMA RequestKeepsCounts ==
  ASSUME IInv, NEW r \in Requests, Begins(r) \/ Step(r) \/ Crash(r),
         NEW a \in Accounts
  PROVE  LockInv(a)' /\ WindowInv(a)'
  <1> DEFINE G == Cardinality(Guessing(a))
             A == Cardinality(Admitted(a))
             U == Cardinality(Uncounted(a))
  <1>1. /\ user[a] \in User /\ wrong[a] \in Told /\ idFailures[a] \in Counter
        /\ LockInv(a) /\ WindowInv(a)
    BY DEF IInv, TypeOK
  <1>2. attempt \in [Requests -> Attempt \cup {Idle, SignedIn}]
    BY DEF IInv, TypeOK
  <1>3. OnlyMoves(r)
    BY <1>2 DEF OnlyMoves, Begins, Begin, Step, AssertAllowed, ReadUser, RejectPassword,
         RejectStatus, AcceptPassword, Rehash, RecordFailure, RecordSuccess, Crash,
         Goes, Ends
  <1>4. /\ G \in Nat /\ A \in Nat /\ U \in Nat
        /\ G' \in Nat /\ A' \in Nat /\ U' \in Nat
        /\ G <= R /\ A <= R /\ U <= R /\ G' <= R /\ A' <= R /\ U' <= R
    BY <1>3, SetsMove DEF Moved
  <1>5. R \in Nat \ {0} /\ MaxPerIdentifier \in Nat \ {0}
    BY RIsPositive, LimitsAssumption
  <1>6. A' + U' <= R
    <2>1. /\ Admitted(a)' \subseteq Requests /\ Uncounted(a)' \subseteq Requests
          /\ Admitted(a)' \cap Uncounted(a)' = {}
      BY DEF Admitted, Uncounted
    <2> QED
      BY <2>1, DisjointCounts
  <1>7. /\ Moved(Guessing(a), Guessing(a)', r)
        /\ Moved(Admitted(a), Admitted(a)', r)
        /\ Moved(Uncounted(a), Uncounted(a)', r)
    BY <1>3, SetsMove
  <1>8. ASSUME UNCHANGED <<user[a], wrong[a], idFailures[a]>>,
               user[a].locked => G' <= G, A' <= A, U' = U
        PROVE  LockInv(a)' /\ WindowInv(a)'
    <2>1. LockInv(a)'
      BY <1>1, <1>4, <1>5, <1>8 DEF LockInv, User, Told
    <2>2. WindowInv(a)'
      BY <1>1, <1>4, <1>5, <1>8 DEF WindowInv, Counter, Told
    <2> QED
      BY <2>1, <2>2
  <1> HIDE DEF G, A, U
  <1>9. CASE Begins(r)
    <2>1. PICK c \in Accounts, i \in Addresses, p \in Passwords : Begin(r, c, i, p)
      BY <1>9 DEF Begins
    <2>2. attempt[r].pc = "idle" /\ attempt'[r].pc = "sent"
      BY <2>1, <1>2 DEF Begin, Idle
    <2>3. G' = G /\ A' = A /\ U' = U
      BY <2>2, <1>7 DEF G, A, U, Moved, Guessing, Admitted, Uncounted
    <2> QED
      BY <2>1, <2>3, <1>4, <1>8 DEF Begin, redis
  <1>10. CASE AssertAllowed(r)
    <2>1. attempt[r].pc = "sent"
      BY <1>10 DEF AssertAllowed
    <2>2. UNCHANGED <<user[a], wrong[a], idFailures[a]>>
      BY <1>10 DEF AssertAllowed
    <2>3. \/ attempt'[r].pc = "idle"
          \/ /\ attempt'[r].pc = "allowed" /\ attempt'[r].account = attempt[r].account
             /\ idFailures[attempt[r].account].n < MaxPerIdentifier
      BY <1>10, <1>2, UnderWay DEF AssertAllowed, Allowed, Goes, Ends, Idle, IInv, Attempt
    <2>4. G' = G /\ U' = U
      BY <2>1, <2>3, <1>7 DEF G, U, Moved, Guessing, Uncounted
    <2>5. CASE A' = A
      BY <2>2, <2>4, <2>5, <1>4, <1>8
    <2>6. CASE A' # A
      <3>1. idFailures[a].n < MaxPerIdentifier
        BY <2>1, <2>3, <2>6, <1>7 DEF A, Moved, Admitted
      <3>2. LockInv(a)'
        BY <2>2, <2>4, <1>1, <1>4, <1>5 DEF LockInv, User, Told, G
      <3>3. WindowInv(a)'
        BY <2>2, <2>4, <3>1, <1>1, <1>4, <1>5, <1>6 DEF WindowInv, Counter, Told, A, U
      <3> QED
        BY <3>2, <3>3
    <2> QED
      BY <2>5, <2>6
  <1>11. CASE ReadUser(r)
    <2>1. attempt[r] \in Attempt /\ attempt[r].pc = "allowed"
      BY <1>11, UnderWay DEF ReadUser, IInv
    <2>2. UNCHANGED <<user[a], idFailures[a]>>
      BY <1>11 DEF ReadUser, redis
    <2>3. CASE ~user[attempt[r].account].known
      <3>1. attempt'[r].pc = "failed" /\ attempt'[r].account = attempt[r].account
        BY <1>11, <1>2, <2>1, <2>3 DEF ReadUser, Goes, Attempt
      <3>2. G' = G
        BY <2>1, <3>1, <1>7 DEF G, Moved, Guessing
      <3>3. CASE attempt[r].account # a
        <4>1. wrong'[a] = wrong[a]
          BY <1>11, <2>3, <3>3 DEF ReadUser, Tell, IInv, TypeOK
        <4>2. A' = A /\ U' = U
          BY <2>1, <3>1, <3>3, <1>7 DEF A, U, Moved, Admitted, Uncounted
        <4> QED
          BY <2>2, <3>2, <4>1, <4>2, <1>4, <1>8
      <3>4. CASE attempt[r].account = a
        <4>1. /\ wrong'[a].inWindow = wrong[a].inWindow + 1
              /\ wrong'[a].unlocked = wrong[a].unlocked
              /\ wrong'[a].lost = wrong[a].lost
          <5>1. Tell(a, FALSE) /\ wrong \in [Accounts -> Told]
            BY <1>11, <2>3, <3>4 DEF ReadUser, IInv, TypeOK
          <5>2. /\ wrong'[a].inWindow = wrong[a].inWindow + 1
                /\ wrong'[a].unlocked = wrong[a].unlocked + (IF FALSE THEN 1 ELSE 0)
                /\ wrong'[a].lost = wrong[a].lost
            BY <5>1, Telling, Zenon
          <5> QED
            BY <5>2, <1>1 DEF Told
        <4>2. A' = A - 1 /\ U' = U + 1
          BY <2>1, <3>1, <3>4, <1>7 DEF A, U, Moved, Admitted, Uncounted
        <4>3. LockInv(a)'
          BY <2>2, <3>2, <4>1, <1>1, <1>4, <1>5 DEF LockInv, User, Told, G
        <4>4. WindowInv(a)'
          BY <2>2, <4>1, <4>2, <1>1, <1>4, <1>5 DEF WindowInv, Counter, Told, A, U
        <4> QED
          BY <4>3, <4>4
      <3> QED
        BY <3>3, <3>4
    <2>4. CASE user[attempt[r].account].known /\ user[attempt[r].account].locked
      <3>1. attempt'[r].pc = "idle" /\ wrong' = wrong
        BY <1>11, <1>2, <2>4 DEF ReadUser, Ends, Idle
      <3>2. G' = G /\ A' <= A /\ U' = U
        BY <2>1, <3>1, <1>4, <1>7
           DEF G, A, U, Moved, Guessing, Admitted, Uncounted
      <3> QED
        BY <2>2, <3>1, <3>2, <1>4, <1>8
    <2>5. CASE user[attempt[r].account].known /\ ~user[attempt[r].account].locked
      <3>1. /\ attempt'[r].pc = "read" /\ attempt'[r].account = attempt[r].account
            /\ wrong' = wrong
        <4>1. /\ wrong' = wrong
              /\ attempt' = [attempt EXCEPT ![r].pc = "read",
                   ![r].right = (attempt[r].password = user[attempt[r].account].password),
                   ![r].weak = user[attempt[r].account].weak,
                   ![r].active = user[attempt[r].account].active]
          BY <1>11, <2>5, Zenon DEF ReadUser
        <4> QED
          BY <4>1, <1>2, <2>1 DEF Attempt
      <3>2. A' = A /\ U' = U
        BY <2>1, <3>1, <1>7 DEF A, U, Moved, Admitted, Uncounted
      <3>3. user[a].locked => G' = G
        BY <2>1, <2>5, <3>1, <1>7 DEF G, Moved, Guessing
      <3> QED
        BY <2>2, <3>1, <3>2, <3>3, <1>4, <1>8
    <2> QED
      BY <2>3, <2>4, <2>5
  <1>12. CASE RejectPassword(r)
    <2>1. attempt[r] \in Attempt /\ attempt[r].pc = "read" /\ ~attempt[r].right
      BY <1>12, UnderWay DEF RejectPassword, IInv
    <2>2. attempt'[r].pc = "failed" /\ attempt'[r].account = attempt[r].account
      BY <1>12, <1>2, <2>1 DEF RejectPassword, Goes, Attempt
    <2>3. UNCHANGED idFailures
      BY <1>12 DEF RejectPassword, redis
    <2>4. CASE attempt[r].account # a
      <3>1. user'[a] = user[a] /\ wrong'[a] = wrong[a]
        BY <1>12, <2>4 DEF RejectPassword, Tell, IInv, TypeOK
      <3>2. G' = G /\ A' = A /\ U' = U
        BY <2>1, <2>2, <2>4, <1>7 DEF G, A, U, Moved, Guessing, Admitted, Uncounted
      <3> QED
        BY <2>3, <3>1, <3>2, <1>4, <1>8
    <2>5. CASE attempt[r].account = a
      <3>1. Tell(a, TRUE) /\ wrong \in [Accounts -> Told]
        BY <1>12, <2>5 DEF RejectPassword, IInv, TypeOK
      <3>2. /\ wrong'[a].inWindow = wrong[a].inWindow + 1
            /\ wrong'[a].unlocked = wrong[a].unlocked + (IF TRUE THEN 1 ELSE 0)
            /\ wrong'[a].lost = wrong[a].lost
        BY <3>1, Telling, Zenon
      <3>3. user'[a] = FailedRow(user[a])
        BY <1>12, <2>5 DEF RejectPassword, IInv, TypeOK
      <3>4. /\ user'[a].count = user[a].count + 1
            /\ user'[a].locked <=> user[a].locked \/ user[a].count + 1 >= MaxPerIdentifier
        BY <3>3, <1>1 DEF FailedRow, User
      <3>5. G' = G - 1 /\ A' = A - 1 /\ U' = U + 1
        BY <2>1, <2>2, <2>5, <1>7 DEF G, A, U, Moved, Guessing, Admitted, Uncounted
      <3>6. LockInv(a)'
        BY <3>2, <3>4, <3>5, <1>1, <1>4, <1>5 DEF LockInv, User, Told, G
      <3>7. WindowInv(a)'
        BY <2>3, <3>2, <3>5, <1>1, <1>4, <1>5 DEF WindowInv, Counter, Told, A, U
      <3> QED
        BY <3>6, <3>7
    <2> QED
      BY <2>4, <2>5
  <1>13. CASE RejectStatus(r)
    <2>1. attempt[r].pc = "read" /\ attempt'[r].pc = "idle"
      BY <1>13, <1>2 DEF RejectStatus, Ends, Idle
    <2>2. G' <= G /\ A' <= A /\ U' = U
      BY <2>1, <1>4, <1>7 DEF G, A, U, Moved, Guessing, Admitted, Uncounted
    <2> QED
      BY <1>13, <2>2, <1>8 DEF RejectStatus, redis
  <1>14. CASE AcceptPassword(r)
    <2>1. attempt[r] \in Attempt /\ attempt[r].pc = "read" /\ attempt[r].right
      BY <1>14, UnderWay DEF AcceptPassword, IInv
    <2>2. attempt'[r].pc \in {"rehash", "verified"}
      BY <1>14, <1>2, <2>1 DEF AcceptPassword, Goes, Attempt
    <2>3. G' = G /\ A' <= A /\ U' = U
      BY <2>1, <2>2, <1>4, <1>7 DEF G, A, U, Moved, Guessing, Admitted, Uncounted
    <2>4. UNCHANGED idFailures
      BY <1>14 DEF AcceptPassword, redis
    <2>5. CASE attempt[r].account # a
      <3>1. user'[a] = user[a] /\ wrong'[a] = wrong[a]
        BY <1>14, <2>5 DEF AcceptPassword, IInv, TypeOK
      <3> QED
        BY <2>3, <2>4, <3>1, <1>4, <1>8
    <2>6. CASE attempt[r].account = a
      <3>1. /\ user'[a].count = 0 /\ ~user'[a].locked
            /\ wrong'[a].unlocked = 0 /\ wrong'[a].inWindow = wrong[a].inWindow
            /\ wrong'[a].lost = wrong[a].lost
        BY <1>14, <2>6, <1>1 DEF AcceptPassword, IInv, TypeOK, User, Told
      <3>2. LockInv(a)'
        BY <3>1, <1>5 DEF LockInv
      <3>3. WindowInv(a)'
        BY <2>3, <2>4, <3>1, <1>1, <1>4, <1>5 DEF WindowInv, Counter, Told, A, U
      <3> QED
        BY <3>2, <3>3
    <2> QED
      BY <2>5, <2>6
  <1>15. CASE Rehash(r)
    <2>1. attempt[r] \in Attempt /\ attempt[r].pc = "rehash"
      BY <1>15, UnderWay DEF Rehash, IInv
    <2>2. attempt'[r].pc = "verified"
      BY <1>15, <1>2, <2>1 DEF Rehash, Goes, Attempt
    <2>3. G' = G /\ A' = A /\ U' = U
      BY <2>1, <2>2, <1>7 DEF G, A, U, Moved, Guessing, Admitted, Uncounted
    <2>4. user'[a].count = user[a].count /\ user'[a].locked = user[a].locked
      BY <1>15, <1>1 DEF Rehash, IInv, TypeOK, User
    <2>5. UNCHANGED <<idFailures, wrong>>
      BY <1>15 DEF Rehash, redis
    <2>6. LockInv(a)'
      BY <2>3, <2>4, <2>5, <1>1 DEF LockInv, G
    <2>7. WindowInv(a)'
      BY <2>3, <2>5, <1>1 DEF WindowInv, A, U
    <2> QED
      BY <2>6, <2>7
  <1>16. CASE RecordFailure(r)
    <2>1. attempt[r] \in Attempt /\ attempt[r].pc = "failed"
      BY <1>16, UnderWay DEF RecordFailure, IInv
    <2>2. attempt'[r].pc = "idle"
      BY <1>16, <1>2 DEF RecordFailure, Ends, Idle
    <2>3. UNCHANGED <<user, wrong>>
      BY <1>16 DEF RecordFailure
    <2>4. G' = G /\ A' = A
      BY <2>1, <2>2, <1>7 DEF G, A, Moved, Guessing, Admitted
    <2>5. LockInv(a)'
      BY <2>3, <2>4, <1>1 DEF LockInv, G
    <2>6. U' + idFailures'[a].n = U + idFailures[a].n
      <3>1. CASE attempt[r].account = a
        <4>1. idFailures'[a].n = idFailures[a].n + 1
          BY <1>16, <3>1, <1>1 DEF RecordFailure, Count, IInv, TypeOK
        <4>2. U' = U - 1
          BY <2>1, <2>2, <3>1, <1>7 DEF U, Moved, Uncounted
        <4> QED
          BY <4>1, <4>2, <1>1, <1>4 DEF Counter
      <3>2. CASE attempt[r].account # a
        <4>1. idFailures'[a] = idFailures[a]
          BY <1>16, <3>2 DEF RecordFailure, IInv, TypeOK
        <4>2. U' = U
          BY <2>1, <2>2, <3>2, <1>7 DEF U, Moved, Uncounted
        <4> QED
          BY <4>1, <4>2
      <3> QED
        BY <3>1, <3>2
    <2>7. idFailures'[a].n \in Nat
      BY <1>16, TypeOfRequest DEF IInv, TypeOK, Counter
    <2>8. WindowInv(a)'
      BY <2>3, <2>4, <2>6, <2>7, <1>1, <1>4, <1>5 DEF WindowInv, Counter, Told, A, U
    <2> QED
      BY <2>5, <2>8
  <1>17. CASE RecordSuccess(r)
    <2>1. attempt[r] \in Attempt /\ attempt[r].pc = "verified"
      BY <1>17, UnderWay DEF RecordSuccess, IInv
    <2>2. attempt'[r].pc = "in"
      BY <1>17, <1>2 DEF RecordSuccess, Ends, SignedIn
    <2>3. G' = G /\ A' = A /\ U' = U
      BY <2>1, <2>2, <1>7 DEF G, A, U, Moved, Guessing, Admitted, Uncounted
    <2>4. CASE attempt[r].account # a
      <3>1. UNCHANGED <<user[a], wrong[a], idFailures[a]>>
        BY <1>17, <2>4 DEF RecordSuccess, Forget, IInv, TypeOK
      <3> QED
        BY <2>3, <3>1, <1>4, <1>8
    <2>5. CASE attempt[r].account = a
      <3>1. /\ user' = user /\ idFailures'[a].n = 0
            /\ wrong'[a].unlocked = wrong[a].unlocked
            /\ wrong'[a].inWindow = 0 /\ wrong'[a].lost = 0
        BY <1>17, <2>5, <1>1 DEF RecordSuccess, Forget, NoKey, IInv, TypeOK, Told
      <3>2. LockInv(a)'
        BY <2>3, <3>1, <1>1 DEF LockInv, G
      <3>3. WindowInv(a)'
        BY <3>1, <1>4, <1>5 DEF WindowInv, A, U
      <3> QED
        BY <3>2, <3>3
    <2> QED
      BY <2>4, <2>5
  <1>18. CASE Crash(r)
    <2>1. attempt'[r].pc = "idle"
      BY <1>18, <1>2 DEF Crash, Ends, Idle
    <2>2. UNCHANGED <<user, idFailures>>
      BY <1>18 DEF Crash, redis
    <2>3. G' <= G /\ A' <= A
      BY <2>1, <1>4, <1>7 DEF G, A, Moved, Guessing, Admitted
    <2>4. CASE attempt[r].pc # "failed" \/ attempt[r].account # a
      <3>1. wrong'[a] = wrong[a]
        BY <1>18, <2>4 DEF Crash, IInv, TypeOK
      <3>2. U' = U
        BY <2>1, <2>4, <1>7 DEF U, Moved, Uncounted
      <3> QED
        BY <2>2, <2>3, <3>1, <3>2, <1>8
    <2>5. CASE attempt[r].pc = "failed" /\ attempt[r].account = a
      <3>1. /\ wrong'[a].unlocked = wrong[a].unlocked
            /\ wrong'[a].inWindow = wrong[a].inWindow
            /\ wrong'[a].lost = wrong[a].lost + 1
        BY <1>18, <2>5, <1>1 DEF Crash, IInv, TypeOK, Told
      <3>2. U' = U - 1
        BY <2>1, <2>5, <1>7 DEF U, Moved, Uncounted
      <3>3. LockInv(a)'
        BY <2>2, <2>3, <3>1, <1>1, <1>4, <1>5 DEF LockInv, User, Told, G
      <3>4. WindowInv(a)'
        BY <2>2, <2>3, <3>1, <3>2, <1>1, <1>4, <1>5 DEF WindowInv, Counter, Told, A, U
      <3> QED
        BY <3>3, <3>4
    <2> QED
      BY <2>4, <2>5
  <1> QED
    BY <1>9, <1>10, <1>11, <1>12, <1>13, <1>14, <1>15, <1>16, <1>17, <1>18 DEF Step

-----------------------------------------------------------------------------
(* Time, the migration, and what else happens to the rows.                 *)
LEMMA RestKeepsCounts ==
  ASSUME IInv, Next, ~ \E r \in Requests : Begins(r) \/ Step(r) \/ Crash(r),
         NEW a \in Accounts
  PROVE  LockInv(a)' /\ WindowInv(a)'
  <1>1. /\ user[a] \in User /\ wrong[a] \in Told /\ idFailures[a] \in Counter
        /\ LockInv(a) /\ WindowInv(a)
    BY DEF IInv, TypeOK
  <1>2. attempt' = attempt
    BY DEF Next, ExpireIp, ExpireFailures, ExpireLock, Disable, MigrateRead, MigrateWrite,
       AbortMigration, ChangeLegacy
  <1>3. /\ Guessing(a)' = Guessing(a) /\ Admitted(a)' = Admitted(a)
        /\ Uncounted(a)' = Uncounted(a)
    BY <1>2 DEF Guessing, Admitted, Uncounted
  <1>4. /\ Cardinality(Admitted(a)) \in Nat /\ Cardinality(Uncounted(a)) \in Nat
        /\ Cardinality(Admitted(a)) <= R
    <2>1. Admitted(a) \subseteq Requests /\ Uncounted(a) \subseteq Requests
      BY DEF Admitted, Uncounted
    <2> QED
      BY <2>1, Counts
  <1>5. R \in Nat \ {0} /\ MaxPerIdentifier \in Nat \ {0}
    BY RIsPositive, LimitsAssumption
  <1>6. ASSUME user'[a].locked = user[a].locked, user'[a].count = user[a].count,
               UNCHANGED <<idFailures[a], wrong[a]>>
        PROVE  LockInv(a)' /\ WindowInv(a)'
    BY <1>1, <1>3, <1>6 DEF LockInv, WindowInv
  <1>7. ASSUME NEW i \in Addresses, ExpireIp(i) PROVE LockInv(a)' /\ WindowInv(a)'
    BY <1>6, <1>7 DEF ExpireIp
  <1>8. ASSUME NEW c \in Accounts, ExpireFailures(c) PROVE LockInv(a)' /\ WindowInv(a)'
    <2>1. CASE c # a
      BY <1>6, <1>8, <2>1 DEF ExpireFailures, Forget, IInv, TypeOK
    <2>2. CASE c = a
      <3>1. /\ user' = user /\ idFailures'[a].n = 0
            /\ wrong'[a].unlocked = wrong[a].unlocked
            /\ wrong'[a].inWindow = 0 /\ wrong'[a].lost = 0
        BY <1>8, <2>2, <1>1 DEF ExpireFailures, Forget, NoKey, IInv, TypeOK, Told
      <3> QED
        BY <3>1, <1>1, <1>3, <1>4, <1>5 DEF LockInv, WindowInv
    <2> QED
      BY <2>1, <2>2
  <1>9. ASSUME NEW c \in Accounts, ExpireLock(c) PROVE LockInv(a)' /\ WindowInv(a)'
    <2>1. CASE c # a
      BY <1>6, <1>9, <2>1 DEF ExpireLock, redis, IInv, TypeOK
    <2>2. CASE c = a
      <3>1. /\ user'[a].count = user[a].count /\ ~user'[a].locked
            /\ wrong'[a].unlocked = 0 /\ wrong'[a].inWindow = wrong[a].inWindow
            /\ wrong'[a].lost = wrong[a].lost /\ idFailures' = idFailures
        BY <1>9, <2>2, <1>1 DEF ExpireLock, redis, IInv, TypeOK, User, Told
      <3> QED
        BY <3>1, <1>1, <1>3, <1>5 DEF LockInv, WindowInv, User
    <2> QED
      BY <2>1, <2>2
  <1>10. ASSUME NEW c \in Accounts, Disable(c) PROVE LockInv(a)' /\ WindowInv(a)'
    BY <1>1, <1>6, <1>10 DEF Disable, redis, IInv, TypeOK, User
  <1>11. ASSUME NEW c \in Accounts, MigrateWrite(c) PROVE LockInv(a)' /\ WindowInv(a)'
    BY <1>1, <1>6, <1>11 DEF MigrateWrite, redis, IInv, TypeOK, User
  <1>12. ASSUME NEW c \in Accounts,
                \/ MigrateRead(c) \/ AbortMigration(c)
                \/ \E p \in Passwords : ChangeLegacy(c, p)
         PROVE  LockInv(a)' /\ WindowInv(a)'
    BY <1>6, <1>12 DEF MigrateRead, AbortMigration, ChangeLegacy, redis
  <1> QED
    BY <1>7, <1>8, <1>9, <1>10, <1>11, <1>12 DEF Next

LEMMA NextIInv == IInv /\ [Next]_vars => IInv'
  <1> SUFFICES ASSUME IInv, [Next]_vars PROVE IInv'
    OBVIOUS
  <1>1. TypeOK'
    BY TypeOfStep DEF IInv
  <1>2. CASE UNCHANGED vars
    BY <1>1, <1>2 DEF IInv, vars, redis, LockInv, WindowInv, Guessing, Admitted, Uncounted
  <1>3. CASE Next
    BY <1>1, <1>3, RequestKeepsCounts, RestKeepsCounts DEF IInv
  <1> QED
    BY <1>2, <1>3

LEMMA SpecIInv == Spec => []IInv
  BY InitIInv, NextIInv, PTL DEF Spec

(* Between two unlockings of an account no more passwords are told to be   *)
(* wrong than the limit and one for every other request there can be at a  *)
(* time (GuessesBeforeLock), although the lock is looked at before the     *)
(* password is compared and set after.                                     *)
THEOREM LockBoundsGuesses == Spec => []GuessesBeforeLock
  <1>1. IInv => GuessesBeforeLock
    <2> SUFFICES ASSUME IInv, NEW a \in Accounts
                 PROVE  wrong[a].unlocked <= MaxPerIdentifier + R - 1
      BY DEF GuessesBeforeLock, R
    <2>1. user[a] \in User /\ wrong[a] \in Told /\ LockInv(a)
      BY DEF IInv, TypeOK
    <2>2. Cardinality(Guessing(a)) \in Nat
      BY Counts DEF Guessing
    <2> QED
      BY <2>1, <2>2, RIsPositive, LimitsAssumption DEF LockInv, User, Told
  <1> QED
    BY <1>1, SpecIInv, PTL

(* The same of the counter in Redis (GuessesInWindow), which is read when  *)
(* a request comes in and incremented when it has failed; what a crash     *)
(* keeps from the counter comes on top.                                    *)
THEOREM WindowBoundsGuesses == Spec => []GuessesInWindow
  <1>1. IInv => GuessesInWindow
    <2> SUFFICES ASSUME IInv, NEW a \in Accounts
                 PROVE  wrong[a].inWindow <= MaxPerIdentifier + R - 1 + wrong[a].lost
      BY DEF GuessesInWindow, R
    <2>1. wrong[a] \in Told /\ WindowInv(a)
      BY DEF IInv, TypeOK
    <2>2. Cardinality(Admitted(a)) \in Nat
      BY Counts DEF Admitted
    <2> QED
      BY <2>1, <2>2, RIsPositive, LimitsAssumption DEF WindowInv, Told
  <1> QED
    BY <1>1, SpecIInv, PTL
=============================================================================
