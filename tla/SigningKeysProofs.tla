------------------------- MODULE SigningKeysProofs -------------------------
(***************************************************************************)
(* Proofs about SigningKeys, for any number of keys, pods and seconds, for *)
(* either provider: types, and, for one operator at a time and a provider  *)
(* that answers, that a key never goes back in its rotation, and, with the *)
(* waits of the runbook, that no token is refused while it is valid.       *)
(***************************************************************************)
EXTENDS SigningKeys, FiniteSetTheorems, TLAPS

(* A command that is being saved names only keys that were generated.      *)
OpInv == \A o \in Operators : /\ op[o].pc = "save" => Present(op[o].keys) \subseteq used
                              /\ op[o].todo \subseteq Present(op[o].keys)

IInv == TypeOK /\ OpInv

LEMMA NoneFacts ==
  /\ None \in Row \cup {None} /\ None.status = "none"
  /\ EmptyKeyset \in Keyset /\ Present(EmptyKeyset) = {}
  /\ Down.active = NoKid /\ Down.published = {} /\ Down.at = 0
  BY DEF None, EmptyKeyset, Keyset, Present, Down

(* A valid keyset has an active key, which it publishes.                   *)
LEMMA ActivePublished ==
  ASSUME NEW keys \in Keyset, Valid(keys)
  PROVE  /\ (CHOOSE k \in With(keys, "ACTIVE") : TRUE) \in PublishedKeys(keys)
         /\ PublishedKeys(keys) \subseteq Kids
  <1>1. With(keys, "ACTIVE") # {}
    BY FS_EmptySet DEF Valid
  <1>2. PICK k \in With(keys, "ACTIVE") : k = CHOOSE c \in With(keys, "ACTIVE") : TRUE
    BY <1>1
  <1>3. k \in PublishedKeys(keys)
    BY <1>2, NoneFacts DEF With, PublishedKeys, Present
  <1> QED
    BY <1>2, <1>3 DEF PublishedKeys, Present

(* What a command computes: a keyset of generated and fresh keys, in which *)
(* no key has gone back.                                                   *)
Forward(old, new) ==
  \A k \in Kids : Progress[new[k].status] >= Progress[old[k].status]

LEMMA ProgressFacts ==
  /\ Progress["none"] = 0 /\ Progress["NEXT"] = 1 /\ Progress["ACTIVE"] = 2
  /\ Progress["RETIRING"] = 3 /\ Progress["RETIRED"] = 4
  /\ \A row \in Row \cup {None} :
       row.status \in {"none", "NEXT", "ACTIVE", "RETIRING", "RETIRED"}
  BY DEF Progress, Row, Statuses, None

LEMMA RotatedFacts ==
  ASSUME NEW keys \in Keyset, NEW action \in Actions, now \in Nat,
         Present(keys) \subseteq used, NEW new \in Rotated(keys, action)
  PROVE  new \in Keyset /\ Forward(keys, new)
  <1> DEFINE Fresh(k, status) == [keys EXCEPT ![k] = [status |-> status, changedAt |-> now]]
  <1>1. \A status \in Statuses : [status |-> status, changedAt |-> now] \in Row
    BY DEF Row
  <1>2. \A k \in Kids : keys[k] \in Row \cup {None}
    BY DEF Keyset
  <1>3. ASSUME NEW k \in Kids \ used, NEW status \in {"ACTIVE", "NEXT"},
               new = Fresh(k, status)
        PROVE  new \in Keyset /\ Forward(keys, new)
    <2>1. keys[k] = None
      BY <1>3 DEF Present
    <2>2. [status |-> status, changedAt |-> now] \in Row
      BY <1>1 DEF Statuses
    <2>3. new \in Keyset
      BY <1>2, <1>3, <2>2 DEF Keyset
    <2>4. ASSUME NEW c \in Kids
          PROVE  Progress[new[c].status] >= Progress[keys[c].status]
      BY <1>2, <1>3, <2>1, NoneFacts, ProgressFacts DEF Keyset
    <2> QED
      BY <2>3, <2>4 DEF Forward
  <1>4. ASSUME NEW staged \in With(keys, "NEXT"), new = Promoted(keys, staged)
        PROVE  new \in Keyset /\ Forward(keys, new)
    <2>1. new \in Keyset
      BY <1>1, <1>2, <1>4 DEF Promoted, Keyset, Statuses
    <2>2. ASSUME NEW c \in Kids
          PROVE  Progress[new[c].status] >= Progress[keys[c].status]
      BY <1>2, <1>4, ProgressFacts DEF Promoted, With
    <2> QED
      BY <2>1, <2>2 DEF Forward
  <1>5. ASSUME new = [k \in Kids |-> IF Ripe(keys[k])
                        THEN [status |-> "RETIRED", changedAt |-> now] ELSE keys[k]]
        PROVE  new \in Keyset /\ Forward(keys, new)
    <2>1. new \in Keyset
      BY <1>1, <1>2, <1>5 DEF Keyset, Statuses
    <2>2. ASSUME NEW c \in Kids
          PROVE  Progress[new[c].status] >= Progress[keys[c].status]
      BY <1>2, <1>5, ProgressFacts DEF Ripe
    <2> QED
      BY <2>1, <2>2 DEF Forward
  <1>6. CASE action = "generate"
    BY <1>3, <1>6 DEF Rotated
  <1>7. CASE action = "stage"
    BY <1>3, <1>7 DEF Rotated
  <1>8. CASE action = "promote"
    BY <1>4, <1>8 DEF Rotated
  <1>9. CASE action = "retire"
    BY <1>5, <1>9 DEF Rotated
  <1> QED
    BY <1>6, <1>7, <1>8, <1>9 DEF Actions

-----------------------------------------------------------------------------
(* The invariant, one step per action.                                     *)
LEMMA ComputeStep ==
  ASSUME IInv, NEW o \in Operators, NEW action \in Actions, NEW keys \in Keyset,
         Present(keys) \subseteq used, Compute(o, action, keys)
  PROVE  IInv' /\ Forward(keys, op'[o].keys)
  <1> DEFINE Saving(new) == [pc |-> "save", action |-> action, keys |-> new,
                             todo |-> Present(new)]
  <1>1. TypeOK /\ now \in Nat
    BY DEF IInv, TypeOK
  <1>2. PICK new \in Rotated(keys, action) :
          op' = [op EXCEPT ![o] = Saving(new)] /\ used' = used \cup Present(new)
    BY DEF Compute
  <1>3. new \in Keyset /\ Forward(keys, new)
    BY <1>1, RotatedFacts
  <1>4. Present(new) \subseteq Kids
    BY DEF Present
  <1>5. Saving(new) \in [pc : {"idle", "save"}, action : Actions \cup {"none"},
                         keys : Keyset, todo : SUBSET Kids]
    BY <1>3, <1>4
  <1>6. op'[o] = Saving(new) /\ \A p \in Operators : p # o => op'[p] = op[p]
    BY <1>1, <1>2 DEF TypeOK
  <1>7. TypeOK'
    BY <1>1, <1>2, <1>4, <1>5 DEF TypeOK, Compute, Present
  <1>8. OpInv'
    BY <1>2, <1>6 DEF IInv, OpInv, Present
  <1> QED
    BY <1>3, <1>6, <1>7, <1>8 DEF IInv

(* A save writes values of the command or leaves those there are.          *)
LEMMA SaveStep ==
  ASSUME IInv, NEW o \in Operators, Save(o)
  PROVE  /\ IInv'
         /\ \A k \in Kids : stored'[k] \in {op[o].keys[k], stored[k]}
         /\ op'[o] = Idle \/ op'[o].keys = op[o].keys
         /\ op'[o].pc = "save" => op'[o].keys = op[o].keys
         /\ \A p \in Operators : p # o => op'[p] = op[p]
  <1>1. TypeOK /\ op[o].keys \in Keyset /\ op[o].pc = "save"
    BY DEF IInv, TypeOK, Save
  <1>2. PICK part :
          /\ stored' = IF Provider = "ssm"
                       THEN [k \in Kids |-> IF k \in part THEN op[o].keys[k] ELSE stored[k]]
                       ELSE op[o].keys
          /\ op' = [op EXCEPT ![o] =
               IF op[o].todo = part THEN Idle ELSE [op[o] EXCEPT !.todo = op[o].todo \ part]]
    BY DEF Save
  <1>3. stored' \in Keyset /\ \A k \in Kids : stored'[k] \in {op[o].keys[k], stored[k]}
    BY <1>1, <1>2 DEF TypeOK, Keyset
  <1>4. Present(stored') \subseteq used
    BY <1>1, <1>3 DEF IInv, OpInv, TypeOK, Present
  <1>5. PICK n : n = IF op[o].todo = part THEN Idle
                     ELSE [op[o] EXCEPT !.todo = op[o].todo \ part]
    OBVIOUS
  <1>6. /\ n \in [pc : {"idle", "save"}, action : Actions \cup {"none"},
                  keys : Keyset, todo : SUBSET Kids]
        /\ n = Idle \/ n.keys = op[o].keys
        /\ n.pc = "save" => n.keys = op[o].keys
        /\ n.todo \subseteq Present(n.keys)
    <2>1. CASE op[o].todo = part
      BY <1>5, <2>1, NoneFacts DEF Idle
    <2>2. CASE op[o].todo # part
      BY <1>1, <1>5, <2>2 DEF TypeOK, IInv, OpInv
    <2> QED
      BY <2>1, <2>2
  <1>7. op'[o] = n /\ \A p \in Operators : p # o => op'[p] = op[p]
    BY <1>1, <1>2, <1>5 DEF TypeOK
  <1>8. op' \in [Operators -> [pc : {"idle", "save"}, action : Actions \cup {"none"},
                               keys : Keyset, todo : SUBSET Kids]]
    BY <1>1, <1>2, <1>5, <1>6 DEF TypeOK
  <1>9. TypeOK'
    <2>1. overwritten' \in BOOLEAN
      BY <1>1 DEF Save, TypeOK
    <2> QED
      BY <1>1, <1>3, <1>4, <1>8, <2>1 DEF TypeOK, Save, Present
  <1>10. OpInv'
    BY <1>1, <1>6, <1>7 DEF IInv, OpInv, Save, Present
  <1> QED
    BY <1>3, <1>6, <1>7, <1>9, <1>10 DEF IInv

LEMMA InterruptStep ==
  ASSUME IInv, NEW o \in Operators, Interrupt(o)
  PROVE  IInv' /\ op'[o] = Idle /\ \A p \in Operators : p # o => op'[p] = op[p]
  <1>1. TypeOK
    BY DEF IInv
  <1>2. /\ Idle \in [pc : {"idle", "save"}, action : Actions \cup {"none"},
                     keys : Keyset, todo : SUBSET Kids]
        /\ Idle.pc = "idle" /\ Idle.todo = {}
    BY NoneFacts DEF Idle
  <1>3. op'[o] = Idle /\ \A p \in Operators : p # o => op'[p] = op[p]
    BY <1>1 DEF Interrupt, TypeOK
  <1>4. torn' \in BOOLEAN
    BY <1>1 DEF Interrupt, TypeOK
  <1>5. TypeOK'
    BY <1>1, <1>2, <1>4 DEF Interrupt, TypeOK, Present
  <1>6. OpInv'
    BY <1>2, <1>3 DEF IInv, OpInv, Interrupt, Present
  <1> QED
    BY <1>3, <1>5, <1>6 DEF IInv

PodState == [active : Kids \cup {NoKid}, published : SUBSET Kids, at : Nat]

PodBecomes(p, n) ==
  /\ pod' = [pod EXCEPT ![p] = n]
  /\ UNCHANGED <<stored, used, op, cached, expires, refused, overwritten, torn, now>>

LEMMA PodType ==
  ASSUME TypeOK, NEW p \in Pods, NEW n \in PodState,
         n # Down => n.active \in n.published, PodBecomes(p, n)
  PROVE  TypeOK'
  <1>1. pod' \in [Pods -> PodState]
    BY DEF TypeOK, PodState, PodBecomes
  <1>2. \A q \in Pods : pod'[q] # Down => pod'[q].active \in pod'[q].published
    BY DEF TypeOK, PodBecomes
  <1> QED
    BY <1>1, <1>2 DEF TypeOK, Present, PodState, PodBecomes, Down

LEMMA PodStep ==
  ASSUME IInv, NEW p \in Pods,
         Reload(p) \/ ReloadFails(p) \/ Restart(p) \/ Sign(p)
  PROVE  IInv'
  <1>1. TypeOK
    BY DEF IInv
  <1>2. OpInv'
    BY DEF IInv, OpInv, Reload, ReloadFails, Restart, Sign, Present
  <1>3. ASSUME NEW n \in PodState, n # Down => n.active \in n.published,
               PodBecomes(p, n)
        PROVE  TypeOK'
    BY <1>1, <1>3, PodType
  <1>4. CASE Reload(p)
    <2>1. Adopted(p) \in PodState /\ Adopted(p).active \in Adopted(p).published
      BY <1>1, <1>4, ActivePublished DEF Adopted, Reload, TypeOK, PodState
    <2>2. PodBecomes(p, Adopted(p))
      BY <1>4 DEF Reload, PodBecomes
    <2> QED
      BY <1>2, <1>3, <2>1, <2>2 DEF IInv
  <1>5. CASE ReloadFails(p)
    <2>1. PICK n : n = [pod[p] EXCEPT !.at = now]
      OBVIOUS
    <2>2. n \in PodState /\ n.active \in n.published
      BY <1>1, <1>5, <2>1 DEF ReloadFails, TypeOK, PodState
    <2>3. PodBecomes(p, n)
      BY <1>5, <2>1 DEF ReloadFails, PodBecomes
    <2> QED
      BY <1>2, <1>3, <2>2, <2>3 DEF IInv
  <1>6. CASE Restart(p)
    <2>1. Down \in PodState
      BY DEF Down, PodState
    <2>2. PodBecomes(p, Down)
      BY <1>6 DEF Restart, PodBecomes
    <2> QED
      BY <1>2, <1>3, <2>1, <2>2 DEF IInv
  <1>7. CASE Sign(p)
    <2>1. pod[p].active \in Kids
      BY <1>1, <1>7 DEF Sign, TypeOK
    <2>2. expires' \in [Kids -> Nat]
      BY <1>1, <1>7, <2>1, TimesAssumption DEF Sign, TypeOK
    <2>3. UNCHANGED <<stored, used, op, pod, cached, refused, overwritten, torn, now>>
      BY <1>7 DEF Sign
    <2> QED
      BY <1>1, <1>2, <2>2, <2>3 DEF IInv, TypeOK, Present, Down
  <1> QED
    BY <1>2, <1>4, <1>5, <1>6, <1>7 DEF IInv

LEMMA OtherStep ==
  ASSUME IInv,
         \/ \E k \in Kids : VerifyFromCache(k) \/ \E p \in Pods : VerifyFetched(k, p)
         \/ Tick
  PROVE  IInv'
  <1>1. TypeOK
    BY DEF IInv
  <1>2. OpInv'
    BY DEF IInv, OpInv, VerifyFromCache, VerifyFetched, Tick, Present
  <1>3. ASSUME NEW k \in Kids, VerifyFromCache(k) PROVE TypeOK'
    <2>1. refused' \in BOOLEAN
      BY <1>1, <1>3 DEF VerifyFromCache, TypeOK
    <2> QED
      BY <1>1, <1>3, <2>1 DEF VerifyFromCache, TypeOK, Present
  <1>4. ASSUME NEW k \in Kids, NEW p \in Pods, VerifyFetched(k, p) PROVE TypeOK'
    <2>1. refused' \in BOOLEAN
      BY <1>1, <1>4 DEF VerifyFetched, TypeOK
    <2>2. cached' \in [keys : SUBSET Kids, at : Nat]
      BY <1>1, <1>4 DEF VerifyFetched, TypeOK
    <2> QED
      BY <1>1, <1>4, <2>1, <2>2 DEF VerifyFetched, TypeOK, Present
  <1>5. CASE Tick
    <2>1. expires' \in [Kids -> Nat] /\ now' \in Nat
      BY <1>1, <1>5 DEF Tick, TypeOK
    <2>2. cached' \in [keys : SUBSET Kids, at : Nat]
      BY <1>1, <1>5 DEF Tick, TypeOK, NoJwks
    <2>3. UNCHANGED <<stored, used, op, pod, refused, overwritten, torn>>
      BY <1>5 DEF Tick
    <2> QED
      BY <1>1, <1>2, <2>1, <2>2, <2>3 DEF IInv, TypeOK, Present, Down
  <1> QED
    BY <1>2, <1>3, <1>4, <1>5 DEF IInv

LEMMA InitIInv == Init => IInv
  <1> SUFFICES ASSUME Init PROVE IInv
    OBVIOUS
  <1>1. /\ Idle \in [pc : {"idle", "save"}, action : Actions \cup {"none"},
                     keys : Keyset, todo : SUBSET Kids]
        /\ Idle.pc = "idle" /\ Idle.todo = {}
    BY NoneFacts DEF Idle
  <1>2. OpInv
    BY <1>1 DEF Init, OpInv
  <1>3. TypeOK
    BY <1>1, NoneFacts DEF Init, TypeOK, Down, NoJwks
  <1> QED
    BY <1>2, <1>3 DEF IInv

LEMMA InvStep == IInv /\ [Next]_vars => IInv'
  <1> SUFFICES ASSUME IInv, [Next]_vars PROVE IInv'
    OBVIOUS
  <1>1. ASSUME NEW o \in Operators, Command(o) \/ GenerateWithoutLoad(o) PROVE IInv'
    <2>1. stored \in Keyset /\ Present(stored) \subseteq used
      BY DEF IInv, TypeOK
    <2> QED
      BY <1>1, <2>1, ComputeStep, NoneFacts DEF Command, GenerateWithoutLoad, Actions
  <1>2. CASE UNCHANGED vars
    BY <1>2 DEF vars, IInv, TypeOK, OpInv, Present
  <1> QED
    BY <1>1, <1>2, SaveStep, InterruptStep, PodStep, OtherStep DEF Next

(* TypeOK: the keyset, the commands, the pods and the verifier.            *)
THEOREM TypeCorrect == Spec => []TypeOK
  <1>1. IInv => TypeOK
    BY DEF IInv
  <1> QED
    BY <1>1, InitIInv, InvStep, PTL DEF Spec

-----------------------------------------------------------------------------
(* One operator at a time: what is being saved is not behind the keyset,   *)
(* whatever part of it has been written and however often it was repeated. *)
SavesForward ==
  \A o \in Operators : op[o].pc = "save" => Forward(stored, op[o].keys)

LEMMA SavesForwardStep ==
  ASSUME \A o, p \in Operators : o = p, LoadsFail = FALSE,
         IInv, SavesForward, [Next]_vars
  PROVE  SavesForward' /\ Forward(stored, stored')
  <1>1. TypeOK /\ stored \in Keyset /\ Present(stored) \subseteq used
    BY DEF IInv, TypeOK
  <1>2. \A keys \in Keyset : Forward(keys, keys)
    BY ProgressFacts DEF Forward, Keyset
  <1>3. ASSUME NEW o \in Operators, Command(o) \/ GenerateWithoutLoad(o)
        PROVE  SavesForward' /\ Forward(stored, stored')
    <2>1. PICK action \in Actions : Compute(o, action, stored)
      BY <1>3 DEF Command, GenerateWithoutLoad, Actions
    <2>2. Forward(stored, op'[o].keys) /\ stored' = stored
      BY <1>1, <2>1, ComputeStep DEF Compute
    <2> QED
      BY <1>1, <1>2, <2>2 DEF SavesForward
  <1>4. ASSUME NEW o \in Operators, Save(o)
        PROVE  SavesForward' /\ Forward(stored, stored')
    <2>1. Forward(stored, op[o].keys)
      BY <1>4 DEF SavesForward, Save
    <2>2. /\ \A k \in Kids : stored'[k] \in {op[o].keys[k], stored[k]}
          /\ op'[o].pc = "save" => op'[o].keys = op[o].keys
      BY <1>4, SaveStep
    <2>3. op[o].keys \in Keyset
      BY <1>1 DEF TypeOK
    <2>4. Forward(stored, stored') /\ Forward(stored', op[o].keys)
      BY <1>1, <1>2, <2>1, <2>2, <2>3 DEF Forward
    <2> QED
      BY <2>2, <2>4 DEF SavesForward
  <1>5. ASSUME NEW o \in Operators, Interrupt(o)
        PROVE  SavesForward' /\ Forward(stored, stored')
    <2>1. op'[o] = Idle
      BY <1>5, InterruptStep
    <2>2. op'[o].pc = "idle" /\ stored' = stored
      BY <1>5, <2>1 DEF Interrupt, Idle
    <2> QED
      BY <1>1, <1>2, <2>2 DEF SavesForward
  <1>6. CASE UNCHANGED <<stored, op>>
    BY <1>1, <1>2, <1>6 DEF SavesForward
  <1> QED
    BY <1>3, <1>4, <1>5, <1>6
       DEF Next, Reload, ReloadFails, Restart, Sign, VerifyFromCache, VerifyFetched,
           Tick, vars

(* KeysOnlyMoveForward (keyset.ts, rotateKeyset; the providers' saves).    *)
THEOREM RotationMovesForward ==
  ASSUME \A o, p \in Operators : o = p, LoadsFail = FALSE
  PROVE  Spec => KeysOnlyMoveForward
  <1>1. Init => SavesForward
    BY DEF Init, SavesForward, Idle
  <1>2. IInv /\ SavesForward /\ [Next]_vars => SavesForward'
    BY SavesForwardStep
  <1>3. IInv /\ SavesForward /\ [Next]_vars =>
          [\A k \in Kids : Progress[stored'[k].status] >= Progress[stored[k].status]]_vars
    BY SavesForwardStep DEF Forward
  <1> QED
    BY <1>1, <1>2, <1>3, InitIInv, InvStep, PTL DEF Spec, KeysOnlyMoveForward
-----------------------------------------------------------------------------
(* One operator at a time: generate starts from an empty keyset and saves  *)
(* the one key it made.                                                    *)
Bootstrap(o) ==
  op[o].pc = "save" /\ op[o].action = "generate" =>
    Present(stored) = {} /\ \E k \in Kids : Present(op[o].keys) = {k}

BootstrapInv == ~overwritten /\ \A o \in Operators : Bootstrap(o)

(* What a command may do to a row.                                         *)
Advance(action, old, new) ==
  \/ new = old
  \/ /\ action = "generate" /\ old = None
     /\ new = [status |-> "ACTIVE", changedAt |-> now]
  \/ /\ action = "stage" /\ old = None
     /\ new = [status |-> "NEXT", changedAt |-> now]
  \/ /\ action = "promote" /\ old.status = "NEXT"
     /\ now - old.changedAt >= StageWait
     /\ new = [status |-> "ACTIVE", changedAt |-> now]
  \/ /\ action = "promote" /\ old.status = "ACTIVE"
     /\ new = [status |-> "RETIRING", changedAt |-> now]
  \/ /\ action = "retire" /\ Ripe(old)
     /\ new = [status |-> "RETIRED", changedAt |-> now]

Advances(action, old, new) == \A k \in Kids : Advance(action, old[k], new[k])

(* stage and retire leave the active key alone and drop no staged one.     *)
Calm(old, new) ==
  With(old, "ACTIVE") = With(new, "ACTIVE") /\ With(old, "NEXT") \subseteq With(new, "NEXT")

LEMMA FiniteKids ==
  ASSUME NEW keys, NEW status
  PROVE  IsFiniteSet(With(keys, status)) /\ Cardinality(With(keys, status)) \in Nat
  <1>1. With(keys, status) \in SUBSET Kids
    BY DEF With
  <1> QED
    BY <1>1, KidsAssumption, FS_Subset, FS_CardinalityType

(* A valid keyset has at most one staged key.                              *)
LEMMA OneStaged ==
  ASSUME NEW keys, Valid(keys), NEW a \in With(keys, "NEXT"), NEW b \in With(keys, "NEXT")
  PROVE  a = b
  <1> SUFFICES ASSUME a # b PROVE FALSE
    OBVIOUS
  <1>1. IsFiniteSet({a}) /\ Cardinality({a}) = 1
    BY FS_Singleton
  <1>2. IsFiniteSet({a} \cup {b}) /\ Cardinality({a} \cup {b}) = 2
    BY <1>1, FS_AddElement
  <1>3. {a} \cup {b} \in SUBSET With(keys, "NEXT")
    OBVIOUS
  <1>4. Cardinality({a} \cup {b}) <= Cardinality(With(keys, "NEXT"))
    BY <1>3, FiniteKids, FS_Subset
  <1> QED
    BY <1>2, <1>4, FiniteKids DEF Valid

LEMMA CalmValid ==
  ASSUME NEW old, NEW new, Calm(old, new), Valid(new)
  PROVE  Valid(old)
  <1>1. With(old, "NEXT") \in SUBSET With(new, "NEXT")
    BY DEF Calm
  <1>2. Cardinality(With(old, "NEXT")) <= Cardinality(With(new, "NEXT"))
    BY <1>1, FiniteKids, FS_Subset
  <1> QED
    BY <1>2, FiniteKids DEF Calm, Valid

(* generate makes one key, for an empty keyset.                            *)
LEMMA GeneratedOne ==
  ASSUME NEW keys \in Keyset, Present(keys) \subseteq used, NEW new \in Rotated(keys, "generate")
  PROVE  Present(keys) = {} /\ \E k \in Kids : Present(new) = {k}
  <1>1. PICK k \in IF Present(keys) = {} THEN Kids \ used ELSE {} :
          new = [keys EXCEPT ![k] = [status |-> "ACTIVE", changedAt |-> now]]
    BY DEF Rotated
  <1>2. Present(keys) = {} /\ k \in Kids
    BY <1>1
  <1>3. new[k] = [status |-> "ACTIVE", changedAt |-> now] /\ \A c \in Kids : c # k => new[c] = keys[c]
    BY <1>1, <1>2 DEF Keyset
  <1>4. new[k] # None
    BY <1>3 DEF None
  <1> QED
    BY <1>2, <1>3, <1>4 DEF Present

(* What a command computes from a keyset.                                  *)
LEMMA RotatedAdvances ==
  ASSUME NEW keys \in Keyset, NEW action \in Actions, now \in Nat,
         Present(keys) \subseteq used, NEW new \in Rotated(keys, action),
         Present(keys) = {} \/ Valid(keys),
         action = "promote" =>
           \A k \in With(keys, "NEXT") : now - keys[k].changedAt >= StageWait
  PROVE  /\ Valid(new) /\ Advances(action, keys, new)
         /\ action = "generate" =>
              Present(keys) = {} /\ \E k \in Kids : Present(new) = {k}
         /\ action = "promote" => \A k \in With(keys, "NEXT") : new[k].status = "ACTIVE"
         /\ action \in {"stage", "retire"} => Calm(keys, new)
  <1> DEFINE Fresh(k, status) == [keys EXCEPT ![k] = [status |-> status, changedAt |-> now]]
             Swept == [k \in Kids |-> IF Ripe(keys[k])
                         THEN [status |-> "RETIRED", changedAt |-> now] ELSE keys[k]]
  <1>1. Valid(new)
    BY DEF Rotated
  <1>2. /\ action = "generate" => Present(keys) = {} /\ \E k \in Kids \ used : new = Fresh(k, "ACTIVE")
        /\ action = "stage" => \E k \in Kids \ used : new = Fresh(k, "NEXT")
        /\ action = "promote" => \E k \in With(keys, "NEXT") : new = Promoted(keys, k)
        /\ action = "retire" => new = Swept
    <2>1. CASE action = "generate"
      BY <2>1 DEF Rotated
    <2>2. CASE action = "stage"
      BY <2>2 DEF Rotated
    <2>3. CASE action = "promote"
      BY <2>3 DEF Rotated
    <2>4. CASE action = "retire"
      BY <2>4 DEF Rotated
    <2> QED
      BY <2>1, <2>2, <2>3, <2>4 DEF Actions
  <1>3. ASSUME NEW k \in Kids \ used, NEW status, new = Fresh(k, status)
        PROVE  /\ keys[k] = None /\ new[k] = [status |-> status, changedAt |-> now]
               /\ \A c \in Kids : c # k => new[c] = keys[c]
    BY <1>3 DEF Keyset, Present
  <1>4. CASE action = "generate"
    <2>1. PICK k \in Kids \ used : new = Fresh(k, "ACTIVE")
      BY <1>2, <1>4
    <2>2. Advances(action, keys, new)
      BY <1>3, <1>4, <2>1 DEF Advances, Advance
    <2> QED
      BY <1>1, <1>4, <2>2, GeneratedOne
  <1>5. CASE action = "stage"
    <2>1. PICK k \in Kids \ used : new = Fresh(k, "NEXT")
      BY <1>2, <1>5
    <2>2. Advances(action, keys, new)
      BY <1>3, <1>5, <2>1 DEF Advances, Advance
    <2>3. keys[k] = None /\ new[k] = [status |-> "NEXT", changedAt |-> now]
      BY <1>3, <2>1
    <2>4. \A c \in Kids : c # k => new[c] = keys[c]
      BY <1>3, <2>1
    <2>5. Calm(keys, new)
      BY <2>3, <2>4, NoneFacts DEF Calm, With
    <2> QED
      BY <1>1, <1>5, <2>2, <2>5
  <1>6. CASE action = "promote"
    <2>1. PICK staged \in With(keys, "NEXT") : new = Promoted(keys, staged)
      BY <1>2, <1>6
    <2>2. Valid(keys)
      BY <2>1, NoneFacts DEF With, Present
    <2>3. \A k \in With(keys, "NEXT") : k = staged
      BY <2>1, <2>2, OneStaged
    <2>4. staged \in Kids /\ keys[staged].status = "NEXT" /\ now - keys[staged].changedAt >= StageWait
      BY <1>6, <2>1 DEF With
    <2>5. new[staged] = [status |-> "ACTIVE", changedAt |-> now]
      BY <2>1, <2>4 DEF Promoted
    <2>6. ASSUME NEW c \in Kids, c # staged
          PROVE  \/ new[c] = keys[c]
                 \/ /\ keys[c].status = "ACTIVE"
                    /\ new[c] = [status |-> "RETIRING", changedAt |-> now]
      BY <2>1, <2>6 DEF Promoted
    <2>7. Advances(action, keys, new)
      BY <1>6, <2>4, <2>5, <2>6 DEF Advances, Advance
    <2> QED
      BY <1>1, <1>6, <2>3, <2>5, <2>7
  <1>7. CASE action = "retire"
    <2>1. ASSUME NEW c \in Kids
          PROVE  \/ new[c] = keys[c]
                 \/ Ripe(keys[c]) /\ new[c] = [status |-> "RETIRED", changedAt |-> now]
      BY <1>2, <1>7, <2>1
    <2>2. Advances(action, keys, new)
      BY <1>7, <2>1 DEF Advances, Advance
    <2>3. Calm(keys, new)
      BY <2>1 DEF Calm, With, Ripe
    <2> QED
      BY <1>1, <1>7, <2>2, <2>3
  <1> QED
    BY <1>4, <1>5, <1>6, <1>7 DEF Actions

(* What one write leaves: the command is over and the keyset is the one it *)
(* computed, or rows of it are missing.                                    *)
LEMMA SaveEffect ==
  ASSUME IInv, NEW o \in Operators, Save(o),
         \A k \in Kids \ op[o].todo : stored[k] = op[o].keys[k]
  PROVE  \/ op'[o] = Idle /\ stored' = op[o].keys
         \/ /\ op'[o].pc = "save" /\ op'[o].keys = op[o].keys
            /\ op'[o].action = op[o].action
            /\ op'[o].todo # Present(op[o].keys)
            /\ \A k \in Kids \ op'[o].todo : stored'[k] = op[o].keys[k]
  <1>1. TypeOK /\ op[o].keys \in Keyset /\ op[o].pc = "save"
        /\ op[o].todo \subseteq Present(op[o].keys)
    BY DEF IInv, OpInv, TypeOK, Save
  <1>2. PICK part \in IF Provider = "ssm" THEN {{k} : k \in op[o].todo} ELSE {op[o].todo} :
          /\ stored' = IF Provider = "ssm"
                       THEN [k \in Kids |-> IF k \in part THEN op[o].keys[k] ELSE stored[k]]
                       ELSE op[o].keys
          /\ op' = [op EXCEPT ![o] =
               IF op[o].todo = part THEN Idle ELSE [op[o] EXCEPT !.todo = op[o].todo \ part]]
    BY DEF Save
  <1>3. CASE op[o].todo = part
    <2>1. op'[o] = Idle
      BY <1>1, <1>2, <1>3 DEF TypeOK
    <2>2. \A k \in Kids : stored'[k] = op[o].keys[k]
      BY <1>2, <1>3
    <2>3. stored' \in Keyset
      BY <1>1, <1>2 DEF Keyset, TypeOK
    <2>4. stored' = op[o].keys
      BY <1>1, <2>2, <2>3 DEF Keyset
    <2> QED
      BY <2>1, <2>4
  <1>4. CASE op[o].todo # part
    <2>1. PICK k \in op[o].todo : part = {k}
      BY <1>2, <1>4
    <2>2. PICK n : n = [op[o] EXCEPT !.todo = op[o].todo \ part]
      OBVIOUS
    <2>3. op'[o] = n
      BY <1>1, <1>2, <1>4, <2>2 DEF TypeOK
    <2>4. /\ n.pc = "save" /\ n.keys = op[o].keys /\ n.action = op[o].action
          /\ n.todo = op[o].todo \ part
      BY <1>1, <2>2 DEF TypeOK
    <2>5. Provider = "ssm"
      BY <1>2, <1>4
    <2>6. \A c \in Kids \ n.todo : stored'[c] = op[o].keys[c]
      BY <1>2, <2>4, <2>5
    <2>7. n.todo # Present(op[o].keys)
      BY <1>1, <2>1, <2>4
    <2> QED
      BY <2>3, <2>4, <2>6, <2>7
  <1> QED
    BY <1>3, <1>4

Single == \A o, p \in Operators : o = p

LEMMA BootstrapStep ==
  ASSUME Single, LoadsFail = FALSE, IInv, BootstrapInv, [Next]_vars
  PROVE  BootstrapInv'
  <1>1. TypeOK /\ stored \in Keyset /\ Present(stored) \subseteq used /\ now \in Nat
    BY DEF IInv, TypeOK
  <1>2. ASSUME NEW o \in Operators, NEW action \in Actions, Compute(o, action, stored)
        PROVE  BootstrapInv'
    <2>1. PICK new \in Rotated(stored, action) :
            op' = [op EXCEPT ![o] = [pc |-> "save", action |-> action, keys |-> new,
                                     todo |-> Present(new)]]
      BY <1>2 DEF Compute
    <2>2. op'[o].action = action /\ op'[o].keys = new
      BY <1>1, <2>1 DEF TypeOK
    <2>3. action = "generate" => Present(stored) = {} /\ \E k \in Kids : Present(new) = {k}
      <3> SUFFICES ASSUME action = "generate"
                   PROVE  Present(stored) = {} /\ \E k \in Kids : Present(new) = {k}
        OBVIOUS
      <3>1. new \in Rotated(stored, "generate")
        BY <2>1
      <3> QED
        BY <1>1, <3>1, GeneratedOne
    <2>4. UNCHANGED <<stored, overwritten>>
      BY <1>2 DEF Compute
    <2> QED
      BY <2>2, <2>3, <2>4 DEF Single, BootstrapInv, Bootstrap, Present
  <1>3. ASSUME NEW o \in Operators, Save(o) PROVE BootstrapInv'
    <2>1. op[o].pc = "save" /\ op[o].todo \subseteq Present(op[o].keys)
      BY <1>3 DEF Save, IInv, OpInv
    <2>2. op[o].action = "generate" => stored = EmptyKeyset
      BY <1>1, <2>1, <1>3 DEF BootstrapInv, Bootstrap, Present, EmptyKeyset, Keyset
    <2>3. overwritten' = FALSE
      BY <1>3, <2>2 DEF Save, BootstrapInv
    <2>4. op'[o].pc = "save" => op'[o].action = op[o].action /\ op[o].action # "generate"
      <3>1. PICK part \in IF Provider = "ssm" THEN {{k} : k \in op[o].todo} ELSE {op[o].todo} :
              op' = [op EXCEPT ![o] =
                IF op[o].todo = part THEN Idle ELSE [op[o] EXCEPT !.todo = op[o].todo \ part]]
        BY <1>3 DEF Save
      <3>2. CASE op[o].todo = part
        BY <1>1, <3>1, <3>2 DEF TypeOK, Idle
      <3>3. CASE op[o].todo # part
        <4>1. PICK k \in op[o].todo : part = {k}
          BY <3>1, <3>3
        <4>2. op[o].action # "generate"
          BY <2>1, <3>3, <4>1 DEF BootstrapInv, Bootstrap
        <4>3. PICK n : n = [op[o] EXCEPT !.todo = op[o].todo \ part]
          OBVIOUS
        <4>4. op'[o] = n
          BY <1>1, <3>1, <3>3, <4>3 DEF TypeOK
        <4>5. n.action = op[o].action
          BY <1>1, <4>3 DEF TypeOK
        <4> QED
          BY <4>2, <4>4, <4>5
      <3> QED
        BY <3>2, <3>3
    <2> QED
      BY <2>3, <2>4 DEF Single, BootstrapInv, Bootstrap
  <1>4. ASSUME NEW o \in Operators, Interrupt(o) PROVE BootstrapInv'
    <2>1. op'[o].pc = "idle"
      BY <1>4, InterruptStep DEF Idle
    <2> QED
      BY <1>4, <2>1 DEF Interrupt, Single, BootstrapInv, Bootstrap
  <1>5. CASE UNCHANGED <<stored, op, overwritten>>
    BY <1>5 DEF BootstrapInv, Bootstrap, Present
  <1>6. ASSUME NEW o \in Operators, Command(o) \/ GenerateWithoutLoad(o)
        PROVE  \E action \in Actions : Compute(o, action, stored)
    BY <1>6 DEF Command, GenerateWithoutLoad, Actions
  <1> QED
    BY <1>2, <1>3, <1>4, <1>5, <1>6
       DEF Next, Reload, ReloadFails, Restart, Sign, VerifyFromCache, VerifyFetched,
           Tick, vars

-----------------------------------------------------------------------------
(* The waits of the runbook (docs/aws-signing-keys.md:73-84): between stage *)
(* and promote a pod reloads and a verifier's cooldown passes; between     *)
(* promote and retire the tokens expire that a pod signed with the old key *)
(* before it reloaded.  The defaults satisfy them; the code enforces only  *)
(* that a retire waits MinRetiring, whatever TokenTtl is.                  *)
Waits ==
  /\ Refresh < StageWait /\ Refresh + Cooldown <= StageWait
  /\ Refresh + TokenTtl <= MinRetiring

Status(k) == stored[k].status
Since(k) == stored[k].changedAt
Used(k) == Status(k) \in {"ACTIVE", "RETIRING"}
Up(p) == pod[p] # Down

(* A promote under way: every staged key becomes active, and the pods have *)
(* reloaded since the promote before it.                                   *)
Promoting(keys) ==
  \A k \in Kids :
    /\ Status(k) = "NEXT" => keys[k].status = "ACTIVE"
    /\ Status(k) = "RETIRING" => Since(k) = now \/ now - Since(k) > Refresh

(* A command that saves: what it has written is as it computed it, what is *)
(* missing are steps of its action.                                        *)
Saving(o) ==
  LET q == op[o] IN
  q.pc = "save" =>
    /\ Valid(q.keys) /\ q.action \in Actions
    /\ Advances(q.action, stored, q.keys)
    /\ \A k \in Kids \ q.todo : stored[k] = q.keys[k]
    /\ q.action = "promote" => Promoting(q.keys)
    /\ q.action \in {"stage", "retire"} => Calm(stored, q.keys)

Untouched(o) == op[o].pc = "idle" \/ op[o].todo = Present(op[o].keys)
Whole == Present(stored) = {} \/ Valid(stored)

(* A key is staged after the promote before it.                            *)
InOrder ==
  \A k, c \in Kids : Status(k) = "RETIRING" /\ Status(c) = "NEXT" => Since(k) <= Since(c)

KeysetInv ==
  /\ \A o \in Operators : Saving(o)
  /\ (\A o \in Operators : Untouched(o)) => Whole
  /\ (\A o \in Operators : Untouched(o) \/ op[o].action # "promote") => InOrder

(* Nothing lies ahead, no pod is late, and nothing is up before the first key. *)
ClockInv ==
  /\ \A p \in Pods : Up(p) => pod[p].at <= now /\ now <= pod[p].at + Refresh
  /\ \A k \in Kids : Since(k) <= now
  /\ cached.at <= now
  /\ Present(stored) = {} => cached = NoJwks /\ \A p \in Pods : ~Up(p)

(* A key that signs or has signed is published by every pod, and known to a *)
(* verifier that may not ask again; a staged one is, once they have reloaded. *)
Known(k) ==
  /\ \A p \in Pods :
       /\ Up(p) /\ Used(k) => k \in pod[p].published
       /\ Up(p) /\ Status(k) = "NEXT" /\ pod[p].at > Since(k) => k \in pod[p].published
  /\ cached # NoJwks /\ Used(k) /\ now - cached.at < Cooldown => k \in cached.keys
  /\ cached # NoJwks /\ Status(k) = "NEXT" /\ cached.at > Since(k) + Refresh
       => k \in cached.keys

KnownInv == \A k \in Kids : Known(k)

(* A pod signs with the active key, or with the one before it until it reloads. *)
Signs(p) ==
  LET k == pod[p].active IN
  \/ Status(k) = "ACTIVE" \/ TokenTtl = 0
  \/ Status(k) = "RETIRING" /\ pod[p].at <= Since(k)

(* A token that has not expired has a key that is not retired.             *)
Lives(k) ==
  \/ Status(k) = "ACTIVE" /\ expires[k] <= now + TokenTtl
  \/ Status(k) = "RETIRING" /\ expires[k] <= Since(k) + Refresh + TokenTtl

TokensInv ==
  /\ \A p \in Pods : Up(p) => Signs(p)
  /\ \A k \in Kids : expires[k] > now => Lives(k)
  /\ ~refused

RotationInv == ~torn => KeysetInv /\ ClockInv /\ KnownInv /\ TokensInv

LEMMA Times ==
  /\ Refresh \in Nat /\ TokenTtl \in Nat /\ StageWait \in Nat /\ Cooldown \in Nat
  /\ MinRetiring \in Nat
  BY TimesAssumption DEF MinRetiring, Larger

LEMMA RowFacts ==
  ASSUME NEW keys \in Keyset, NEW k \in Kids
  PROVE  /\ keys[k].changedAt \in Nat
         /\ keys[k].status \in {"none", "NEXT", "ACTIVE", "RETIRING", "RETIRED"}
         /\ keys[k].status = "none" <=> keys[k] = None
  BY DEF Keyset, Row, None, Statuses

(* The steps of a row, for the arithmetic.                                 *)
LEMMA AdvanceCases ==
  ASSUME NEW action, NEW old, NEW new, Advance(action, old, new)
  PROVE  \/ new = old
         \/ new.changedAt = now /\ new # None
              /\ \/ action = "generate" /\ old = None /\ new.status = "ACTIVE"
                 \/ action = "stage" /\ old = None /\ new.status = "NEXT"
                 \/ action = "promote" /\ old.status = "NEXT" /\ now - old.changedAt >= StageWait
                      /\ new.status = "ACTIVE"
                 \/ action = "promote" /\ old.status = "ACTIVE" /\ new.status = "RETIRING"
                 \/ action = "retire" /\ old.status = "RETIRING"
                      /\ now - old.changedAt >= MinRetiring /\ new.status = "RETIRED"
  BY DEF Advance, Ripe, None

(* What pods, verifier and tokens rely on survives a write of the keyset.  *)
LEMMA AdvanceKeeps ==
  ASSUME Waits, TypeOK, stored' \in Keyset, NEW action, Advances(action, stored, stored'),
         action = "generate" => Present(stored) = {},
         UNCHANGED <<pod, cached, expires, refused, now>>,
         ClockInv, KnownInv, TokensInv
  PROVE  ClockInv' /\ KnownInv' /\ TokensInv'
  <1>1. now \in Nat /\ stored \in Keyset /\ cached.at \in Nat
        /\ \A p \in Pods : pod[p].at \in Nat /\ (Up(p) => pod[p].active \in Kids)
    BY DEF TypeOK, Up
  <1> DEFINE S(k) == stored[k]   T(k) == stored'[k]
  <1>2. \A k \in Kids : Advance(action, S(k), T(k))
    BY DEF Advances
  <1>3. \A k \in Kids :
          \/ T(k) = S(k)
          \/ T(k).changedAt = now /\ T(k) # None
              /\ \/ action = "generate" /\ S(k) = None /\ T(k).status = "ACTIVE"
                 \/ action = "stage" /\ S(k) = None /\ T(k).status = "NEXT"
                 \/ action = "promote" /\ S(k).status = "NEXT" /\ now - S(k).changedAt >= StageWait
                      /\ T(k).status = "ACTIVE"
                 \/ action = "promote" /\ S(k).status = "ACTIVE" /\ T(k).status = "RETIRING"
                 \/ action = "retire" /\ S(k).status = "RETIRING"
                      /\ now - S(k).changedAt >= MinRetiring /\ T(k).status = "RETIRED"
    BY <1>2, AdvanceCases
  <1>4. \A k \in Kids : /\ S(k).changedAt \in Nat /\ T(k).changedAt \in Nat
                        /\ S(k).changedAt <= now
                        /\ S(k).status = "none" <=> S(k) = None
    BY <1>1, RowFacts DEF ClockInv, Since
  <1>5. \A p \in Pods : Up(p)' = Up(p)
    BY DEF Up
  <1>6. Present(stored') = {} => Present(stored) = {}
    BY <1>3 DEF Present
  <1>7. ClockInv'
    <2>1. \A k \in Kids : T(k).changedAt <= now
      BY <1>1, <1>3, <1>4
    <2> HIDE DEF S, T
    <2>2. \A k \in Kids : Since(k)' = T(k).changedAt
      BY DEF T, Since
    <2> QED
      BY <1>5, <1>6, <2>1, <2>2 DEF ClockInv
  <1>8. KnownInv'
    <2> SUFFICES ASSUME NEW k \in Kids PROVE Known(k)'
      BY DEF KnownInv
    <2> Known(k)
      BY DEF KnownInv
    <2>1. \A p \in Pods :
            /\ Up(p) /\ S(k).status \in {"ACTIVE", "RETIRING"} => k \in pod[p].published
            /\ Up(p) /\ S(k).status = "NEXT" /\ pod[p].at > S(k).changedAt => k \in pod[p].published
      BY DEF Known, Used, Status, Since
    <2>2. /\ cached # NoJwks /\ S(k).status \in {"ACTIVE", "RETIRING"}
               /\ now - cached.at < Cooldown => k \in cached.keys
          /\ cached # NoJwks /\ S(k).status = "NEXT"
               /\ cached.at > S(k).changedAt + Refresh => k \in cached.keys
      BY DEF Known, Used, Status, Since
    <2>3. /\ \A p \in Pods : Up(p) => pod[p].at <= now /\ now <= pod[p].at + Refresh
          /\ cached.at <= now
          /\ action = "generate" => cached = NoJwks /\ \A p \in Pods : ~Up(p)
      BY DEF ClockInv
    <2> HIDE DEF S, T
    <2>4. ASSUME NEW p \in Pods, Up(p)
          PROVE  /\ T(k).status \in {"ACTIVE", "RETIRING"} => k \in pod[p].published
                 /\ T(k).status = "NEXT" /\ pod[p].at > T(k).changedAt => k \in pod[p].published
      BY <1>1, <1>3, <1>4, <2>1, <2>3, <2>4, Times DEF Waits
    <2>5. ASSUME cached # NoJwks
          PROVE  /\ T(k).status \in {"ACTIVE", "RETIRING"} /\ now - cached.at < Cooldown
                      => k \in cached.keys
                 /\ T(k).status = "NEXT" /\ cached.at > T(k).changedAt + Refresh => k \in cached.keys
      BY <1>1, <1>3, <1>4, <2>2, <2>3, <2>5, Times DEF Waits
    <2>6. Status(k)' = T(k).status /\ Since(k)' = T(k).changedAt
      BY DEF T, Status, Since
    <2> QED
      BY <1>5, <2>4, <2>5, <2>6 DEF Known, Used
  <1>9. TokensInv'
    <2>1. ASSUME NEW p \in Pods, Up(p) PROVE Signs(p)'
      <3> DEFINE k == pod[p].active
      <3>1. k \in Kids /\ pod[p].at \in Nat
        BY <1>1, <2>1
      <3>2. \/ S(k).status = "ACTIVE" \/ TokenTtl = 0
            \/ S(k).status = "RETIRING" /\ pod[p].at <= S(k).changedAt
        BY <2>1 DEF TokensInv, Signs, Status, Since
      <3>3. pod[p].at <= now /\ now <= pod[p].at + Refresh
        BY <2>1 DEF ClockInv
      <3> HIDE DEF S, T, k
      <3>4. \/ T(k).status = "ACTIVE" \/ TokenTtl = 0
            \/ T(k).status = "RETIRING" /\ pod[p].at <= T(k).changedAt
        BY <1>1, <1>3, <1>4, <3>1, <3>2, <3>3, Times DEF Waits
      <3> QED
        BY <3>4 DEF Signs, Status, Since, T, k
    <2>2. ASSUME NEW k \in Kids, expires[k] > now PROVE Lives(k)'
      <3>1. \/ S(k).status = "ACTIVE" /\ expires[k] <= now + TokenTtl
            \/ S(k).status = "RETIRING" /\ expires[k] <= S(k).changedAt + Refresh + TokenTtl
        BY <2>2 DEF TokensInv, Lives, Status, Since
      <3>2. expires[k] \in Nat
        BY DEF TypeOK
      <3> HIDE DEF S, T
      <3>3. \/ T(k).status = "ACTIVE" /\ expires[k] <= now + TokenTtl
            \/ T(k).status = "RETIRING" /\ expires[k] <= T(k).changedAt + Refresh + TokenTtl
        BY <1>1, <1>3, <1>4, <2>2, <3>1, <3>2, Times DEF Waits
      <3> QED
        BY <3>3 DEF Lives, Status, Since, T
    <2> QED
      BY <1>5, <2>1, <2>2 DEF TokensInv
  <1> QED
    BY <1>7, <1>8, <1>9

(* The steps, each under one operator, a provider that answers and no torn *)
(* save.                                                                   *)
LEMMA ComputeKeeps ==
  ASSUME Single, Waits, IInv, RotationInv, ~torn', NEW o \in Operators, NEW action \in Actions,
         Compute(o, action, stored)
  PROVE  RotationInv'
  <1>1. TypeOK /\ stored \in Keyset /\ Present(stored) \subseteq used /\ now \in Nat
    BY DEF IInv, TypeOK
  <1>2. /\ UNCHANGED <<stored, pod, cached, expires, refused, overwritten, torn, now>>
        /\ op[o].pc = "idle"
        /\ action = "promote" =>
             \A k \in With(stored, "NEXT") : now - stored[k].changedAt >= StageWait
    BY DEF Compute
  <1>3. KeysetInv /\ ClockInv /\ KnownInv /\ TokensInv
    BY <1>2 DEF RotationInv
  <1>4. Whole /\ InOrder
    BY <1>2, <1>3 DEF KeysetInv, Untouched, Single
  <1>5. PICK new \in Rotated(stored, action) :
          op' = [op EXCEPT ![o] = [pc |-> "save", action |-> action, keys |-> new,
                                   todo |-> Present(new)]]
    BY DEF Compute
  <1>6. /\ op'[o].pc = "save" /\ op'[o].action = action /\ op'[o].keys = new
        /\ op'[o].todo = Present(new)
    BY <1>1, <1>5 DEF TypeOK
  <1>7. /\ Valid(new) /\ Advances(action, stored, new)
        /\ action = "promote" => \A k \in With(stored, "NEXT") : new[k].status = "ACTIVE"
        /\ action \in {"stage", "retire"} => Calm(stored, new)
    BY <1>1, <1>2, <1>4, <1>5, RotatedAdvances DEF Whole
  <1>8. \A k \in Kids \ Present(new) : stored[k] = new[k]
    BY <1>7, NoneFacts DEF Present, Advances, Advance, None
  <1>9. action = "promote" => Promoting(new)
    <2> SUFFICES ASSUME action = "promote", NEW k \in Kids
                 PROVE  /\ Status(k) = "NEXT" => new[k].status = "ACTIVE"
                        /\ Status(k) = "RETIRING" => Since(k) = now \/ now - Since(k) > Refresh
      BY DEF Promoting
    <2>1. Status(k) = "NEXT" => new[k].status = "ACTIVE"
      BY <1>7 DEF Status, With
    <2>2. PICK staged \in With(stored, "NEXT") : TRUE
      BY <1>5 DEF Rotated
    <2>3. Status(k) = "RETIRING" => Since(k) <= Since(staged) /\ now - Since(staged) >= StageWait
      BY <1>2, <1>4, <2>2 DEF InOrder, Status, Since, With
    <2>4. Since(k) \in Nat /\ Since(staged) \in Nat
      BY <1>1, <2>2, RowFacts DEF Since, With
    <2> QED
      BY <1>1, <2>1, <2>3, <2>4, Times DEF Waits
  <1>10. Saving(o)'
    BY <1>2, <1>6, <1>7, <1>8, <1>9
       DEF Saving, Advances, Advance, Ripe, Promoting, Status, Since, Calm, With
  <1>11. KeysetInv'
    BY <1>2, <1>4, <1>10 DEF KeysetInv, Single, Whole, InOrder, Status, Since, Present
  <1>12. ClockInv' /\ KnownInv' /\ TokensInv'
    BY <1>2, <1>3 DEF ClockInv, KnownInv, Known, TokensInv, Used, Status, Since, Up, Signs,
                      Lives, Present
  <1> QED
    BY <1>11, <1>12 DEF RotationInv

(* A write of a promote leaves no staged key in what it writes.            *)
LEMMA NothingStaged ==
  ASSUME NEW keys, NEW k \in Kids, Advance("promote", stored[k], keys[k]), Promoting(keys)
  PROVE  keys[k].status # "NEXT"
  BY DEF Advance, Promoting, Status

LEMMA SaveKeeps ==
  ASSUME Single, Waits, IInv, BootstrapInv, RotationInv, ~torn', NEW o \in Operators, Save(o)
  PROVE  RotationInv'
  <1> PICK keys, action : keys = op[o].keys /\ action = op[o].action
    OBVIOUS
  <1>1. TypeOK /\ stored \in Keyset /\ keys \in Keyset /\ now \in Nat /\ op[o].pc = "save"
    BY DEF IInv, TypeOK, Save
  <1>2. UNCHANGED <<pod, cached, expires, refused, torn, now>>
    BY DEF Save
  <1>3. KeysetInv /\ ClockInv /\ KnownInv /\ TokensInv
    BY <1>2 DEF RotationInv
  <1>4. /\ Valid(keys) /\ action \in Actions /\ Advances(action, stored, keys)
        /\ \A k \in Kids \ op[o].todo : stored[k] = keys[k]
        /\ action = "promote" => Promoting(keys)
        /\ action \in {"stage", "retire"} => Calm(stored, keys)
    BY <1>1, <1>3 DEF KeysetInv, Saving
  <1>5. stored' \in Keyset /\ \A k \in Kids : stored'[k] \in {keys[k], stored[k]}
    BY SaveStep DEF IInv, TypeOK
  <1>6. Advances(action, stored, stored')
    BY <1>4, <1>5 DEF Advances, Advance
  <1>7. ClockInv' /\ KnownInv' /\ TokensInv'
    <2>1. action = "generate" => Present(stored) = {}
      BY <1>1 DEF BootstrapInv, Bootstrap
    <2> QED
      BY <1>1, <1>2, <1>3, <1>5, <1>6, <2>1, AdvanceKeeps
  <1>8. \/ op'[o] = Idle /\ stored' = keys
        \/ /\ op'[o].pc = "save" /\ op'[o].keys = keys /\ op'[o].action = action
           /\ op'[o].todo # Present(keys)
           /\ \A k \in Kids \ op'[o].todo : stored'[k] = keys[k]
    BY <1>4, SaveEffect
  <1>9. ASSUME action # "promote" \/ stored' = keys PROVE InOrder'
    <2> SUFFICES ASSUME NEW k \in Kids, NEW c \in Kids,
                        stored'[k].status = "RETIRING", stored'[c].status = "NEXT"
                 PROVE  stored'[k].changedAt <= stored'[c].changedAt
      BY DEF InOrder, Status, Since
    <2>1. action # "promote"
      BY <1>4, <1>9, NothingStaged DEF Advances
    <2>2. stored[k].status = "RETIRING" /\ stored[c].status = "NEXT"
             => stored[k].changedAt <= stored[c].changedAt
      BY <1>3, <2>1 DEF KeysetInv, InOrder, Single, Status, Since
    <2>3. Advance(action, stored[k], stored'[k]) /\ Advance(action, stored[c], stored'[c])
      BY <1>6 DEF Advances
    <2>4. stored'[k] = stored[k]
      BY <2>1, <2>3 DEF Advance
    <2>5. \/ stored'[c] = stored[c] \/ stored'[c].changedAt = now
      BY <2>3, AdvanceCases
    <2>6. stored[k].changedAt <= now /\ stored[k].changedAt \in Nat
      BY <1>1, <1>3, RowFacts DEF ClockInv, Since
    <2> QED
      BY <1>1, <2>2, <2>4, <2>5, <2>6
  <1>10. CASE op'[o] = Idle /\ stored' = keys
    <2>1. Saving(o)'
      BY <1>10 DEF Saving, Idle
    <2>2. Whole'
      BY <1>4, <1>10 DEF Whole
    <2> QED
      BY <1>7, <1>9, <1>10, <2>1, <2>2 DEF RotationInv, KeysetInv, Single
  <1>11. CASE /\ op'[o].pc = "save" /\ op'[o].keys = keys /\ op'[o].action = action
              /\ op'[o].todo # Present(keys)
              /\ \A k \in Kids \ op'[o].todo : stored'[k] = keys[k]
    <2>2. Advances(action, stored, keys)'
      BY <1>2, <1>4, <1>5 DEF Advances, Advance, Ripe
    <2>3. action = "promote" => Promoting(keys)'
      <3> SUFFICES ASSUME action = "promote", NEW k \in Kids
                   PROVE  /\ stored'[k].status = "NEXT" => keys[k].status = "ACTIVE"
                          /\ stored'[k].status = "RETIRING" =>
                               stored'[k].changedAt = now \/ now - stored'[k].changedAt > Refresh
        BY <1>2 DEF Promoting, Status, Since
      <3>1. keys[k].status # "NEXT" /\ Advance(action, stored[k], keys[k])
        BY <1>4, NothingStaged DEF Advances
      <3>2. CASE stored'[k] = stored[k]
        BY <1>4, <3>2 DEF Promoting, Status, Since
      <3>3. CASE stored'[k] = keys[k] /\ keys[k] # stored[k]
        BY <3>1, <3>3, AdvanceCases
      <3> QED
        BY <1>5, <3>2, <3>3
    <2>4. action \in {"stage", "retire"} => Calm(stored, keys)'
      BY <1>4, <1>5 DEF Calm, With
    <2>5. Saving(o)'
      BY <1>4, <1>11, <2>2, <2>3, <2>4 DEF Saving, Valid, With
    <2>6. ~Untouched(o)'
      BY <1>11 DEF Untouched, Present
    <2>7. InOrder' \/ action = "promote"
      BY <1>9
    <2> QED
      BY <1>7, <1>11, <2>5, <2>6, <2>7 DEF RotationInv, KeysetInv, Single
  <1> QED
    BY <1>8, <1>10, <1>11

LEMMA InterruptKeeps ==
  ASSUME Single, IInv, RotationInv, ~torn', NEW o \in Operators, Interrupt(o)
  PROVE  RotationInv'
  <1>1. /\ UNCHANGED <<stored, pod, cached, expires, refused, now>>
        /\ ~torn /\ op[o].todo = Present(op[o].keys)
    BY DEF Interrupt, IInv, TypeOK
  <1>2. KeysetInv /\ ClockInv /\ KnownInv /\ TokensInv
    BY <1>1 DEF RotationInv
  <1>3. Whole /\ InOrder
    BY <1>1, <1>2 DEF KeysetInv, Untouched, Single
  <1>4. op'[o].pc = "idle"
    BY InterruptStep DEF Idle
  <1>5. KeysetInv'
    BY <1>1, <1>3, <1>4 DEF KeysetInv, Saving, Single, Whole, InOrder, Status, Since, Present
  <1>6. ClockInv' /\ KnownInv' /\ TokensInv'
    BY <1>1, <1>2 DEF ClockInv, KnownInv, Known, TokensInv, Used, Status, Since, Up, Signs,
                      Lives, Present
  <1> QED
    BY <1>5, <1>6 DEF RotationInv

(* What pods, verifier and clock do leaves the keyset alone.               *)
LEMMA KeysetKeeps ==
  ASSUME KeysetInv, UNCHANGED <<stored, op, now>>
  PROVE  KeysetInv'
  <1>1. ASSUME NEW o \in Operators PROVE Saving(o)'
    <2> PICK q : q = op[o]
      OBVIOUS
    <2>1. Advances(q.action, stored, q.keys) => Advances(q.action, stored, q.keys)'
      BY DEF Advances, Advance, Ripe
    <2>2. Promoting(q.keys) => Promoting(q.keys)'
      BY DEF Promoting, Status, Since
    <2>3. Calm(stored, q.keys) => Calm(stored, q.keys)'
      BY DEF Calm, With
    <2> QED
      BY <2>1, <2>2, <2>3 DEF KeysetInv, Saving, Valid, With
  <1>2. Whole => Whole'
    BY DEF Whole, Present, Valid, With
  <1>3. InOrder => InOrder'
    BY DEF InOrder, Status, Since
  <1>4. \A o \in Operators : Untouched(o)' = Untouched(o)
    BY DEF Untouched, Present
  <1> QED
    BY <1>1, <1>2, <1>3, <1>4 DEF KeysetInv

LEMMA ReloadKeeps ==
  ASSUME IInv, RotationInv, ~torn', NEW p \in Pods, Reload(p)
  PROVE  RotationInv'
  <1>1. TypeOK /\ stored \in Keyset /\ now \in Nat
    BY DEF IInv, TypeOK
  <1>2. UNCHANGED <<stored, used, op, cached, expires, refused, overwritten, torn, now>>
        /\ Valid(stored) /\ pod' = [pod EXCEPT ![p] = Adopted(p)]
    BY DEF Reload
  <1>3. KeysetInv /\ ClockInv /\ KnownInv /\ TokensInv
    BY <1>2 DEF RotationInv
  <1>4. pod'[p] = Adopted(p) /\ \A q \in Pods : q # p => pod'[q] = pod[q]
    BY <1>1, <1>2 DEF TypeOK
  <1>5. /\ pod'[p].at = now /\ pod'[p].active \in With(stored, "ACTIVE")
        /\ pod'[p].published = PublishedKeys(stored)
    <2>1. With(stored, "ACTIVE") # {}
      BY <1>2, FS_EmptySet DEF Valid
    <2> QED
      BY <1>4, <2>1 DEF Adopted
  <1>6. Present(stored) # {}
    BY <1>2, ActivePublished, <1>1 DEF PublishedKeys
  <1>7. ClockInv'
    BY <1>1, <1>2, <1>3, <1>4, <1>5, <1>6, Times DEF ClockInv, Up, Since, Present
  <1>8. KnownInv'
    <2> SUFFICES ASSUME NEW k \in Kids PROVE Known(k)'
      BY DEF KnownInv
    <2>1. Known(k)
      BY <1>3 DEF KnownInv
    <2>2. stored[k].status \in {"NEXT", "ACTIVE", "RETIRING"} => k \in PublishedKeys(stored)
      BY NoneFacts DEF PublishedKeys, Present, With
    <2> QED
      BY <1>2, <1>4, <1>5, <2>1, <2>2 DEF Known, Used, Up, Status, Since
  <1>9. TokensInv'
    <2>1. Signs(p)'
      BY <1>2, <1>5 DEF Signs, Status, With
    <2>2. \A q \in Pods : q # p /\ Up(q)' => Signs(q)'
      BY <1>2, <1>3, <1>4 DEF TokensInv, Signs, Status, Since, Up
    <2>3. \A k \in Kids : expires'[k] > now' => Lives(k)'
      BY <1>2, <1>3 DEF TokensInv, Lives, Status, Since
    <2> QED
      BY <1>2, <1>3, <2>1, <2>2, <2>3 DEF TokensInv
  <1> QED
    BY <1>2, <1>3, <1>7, <1>8, <1>9, KeysetKeeps DEF RotationInv

(* A pod that is up finds an invalid keyset only while a promote saves: it *)
(* signs on with the key before, which retires now at the earliest.        *)
LEMMA ReloadFailsKeeps ==
  ASSUME Single, Waits, LoadsFail = FALSE, IInv, BootstrapInv, RotationInv, ~torn',
         NEW p \in Pods, ReloadFails(p)
  PROVE  RotationInv'
  <1>1. TypeOK /\ stored \in Keyset /\ now \in Nat
    BY DEF IInv, TypeOK
  <1>2. /\ UNCHANGED <<stored, used, op, cached, expires, refused, overwritten, torn, now>>
        /\ ~Valid(stored) /\ Up(p)
    BY DEF ReloadFails, Up
  <1>3. KeysetInv /\ ClockInv /\ KnownInv /\ TokensInv
    BY <1>2 DEF RotationInv
  <1>4. PICK n : n = [pod[p] EXCEPT !.at = now]
    OBVIOUS
  <1>5. pod'[p] = n /\ \A q \in Pods : q # p => pod'[q] = pod[q]
    BY <1>1, <1>4 DEF TypeOK, ReloadFails
  <1>6. /\ n.at = now /\ n.active = pod[p].active /\ n.published = pod[p].published
        /\ pod[p].active \in Kids /\ pod[p].at \in Nat
    BY <1>1, <1>2, <1>4 DEF TypeOK, Up
  <1>7. pod[p].at <= now /\ now <= pod[p].at + Refresh /\ Present(stored) # {}
    BY <1>2, <1>3 DEF ClockInv
  <1>8. PICK o \in Operators : ~Untouched(o)
    BY <1>2, <1>3, <1>7 DEF KeysetInv, Whole
  <1>9. op[o].pc = "save"
    BY <1>1, <1>8 DEF TypeOK, Untouched
  <1>10. /\ Advances(op[o].action, stored, op[o].keys) /\ op[o].action = "promote"
         /\ Promoting(op[o].keys)
    <2>1. Saving(o)
      BY <1>3 DEF KeysetInv
    <2>2. op[o].action # "generate"
      BY <1>7, <1>9 DEF BootstrapInv, Bootstrap
    <2>3. op[o].action \notin {"stage", "retire"}
      BY <1>2, <1>9, <2>1, CalmValid DEF Saving
    <2> QED
      BY <1>9, <2>1, <2>2, <2>3 DEF Saving, Actions
  <1>11. ClockInv'
    BY <1>1, <1>2, <1>3, <1>5, <1>6, <1>7, Times DEF ClockInv, Up, Since, Present
  <1>12. KnownInv'
    <2> SUFFICES ASSUME NEW k \in Kids PROVE Known(k)'
      BY DEF KnownInv
    <2>1. Known(k)
      BY <1>3 DEF KnownInv
    <2>2. Status(k) = "NEXT" => pod[p].at > Since(k)
      <3>1. SUFFICES ASSUME Status(k) = "NEXT" PROVE pod[p].at > Since(k)
        OBVIOUS
      <3>2. now - Since(k) >= StageWait
        BY <1>10, <3>1 DEF Advances, Advance, Promoting, Status, Since
      <3>3. Since(k) \in Nat
        BY <1>1, RowFacts DEF Since
      <3> QED
        BY <1>1, <1>6, <1>7, <3>2, <3>3, Times DEF Waits
    <2> QED
      BY <1>2, <1>5, <1>6, <2>1, <2>2 DEF Known, Used, Up, Status, Since
  <1>13. TokensInv'
    <2>1. Signs(p)'
      <3> DEFINE k == pod[p].active
      <3>1. \/ Status(k) = "ACTIVE" \/ TokenTtl = 0
            \/ Status(k) = "RETIRING" /\ pod[p].at <= Since(k)
        BY <1>2, <1>3 DEF TokensInv, Signs
      <3>2. Status(k) = "RETIRING" => Since(k) = now \/ now - Since(k) > Refresh
        BY <1>6, <1>10 DEF Promoting
      <3>3. Since(k) \in Nat
        BY <1>1, <1>6, RowFacts DEF Since
      <3> HIDE DEF k
      <3>4. Status(k) = "RETIRING" /\ pod[p].at <= Since(k) => now <= Since(k)
        BY <1>1, <1>6, <1>7, <3>2, <3>3, Times
      <3> QED
        BY <1>2, <1>5, <1>6, <3>1, <3>4 DEF Signs, Status, Since, k
    <2>2. \A q \in Pods : q # p /\ Up(q)' => Signs(q)'
      BY <1>2, <1>3, <1>5 DEF TokensInv, Signs, Status, Since, Up
    <2>3. \A k \in Kids : expires'[k] > now' => Lives(k)'
      BY <1>2, <1>3 DEF TokensInv, Lives, Status, Since
    <2> QED
      BY <1>2, <1>3, <2>1, <2>2, <2>3 DEF TokensInv
  <1> QED
    BY <1>2, <1>3, <1>11, <1>12, <1>13, KeysetKeeps DEF RotationInv

LEMMA RestartKeeps ==
  ASSUME IInv, RotationInv, ~torn', NEW p \in Pods, Restart(p)
  PROVE  RotationInv'
  <1>1. UNCHANGED <<stored, used, op, cached, expires, refused, overwritten, torn, now>>
    BY DEF Restart
  <1>2. KeysetInv /\ ClockInv /\ KnownInv /\ TokensInv
    BY <1>1 DEF RotationInv
  <1>3. ~Up(p)' /\ \A q \in Pods : q # p => pod'[q] = pod[q]
    BY DEF Restart, Up, IInv, TypeOK
  <1>4. ClockInv'
    BY <1>1, <1>2, <1>3 DEF ClockInv, Up, Since, Present
  <1>5. KnownInv'
    BY <1>1, <1>2, <1>3 DEF KnownInv, Known, Used, Up, Status, Since
  <1>6. TokensInv'
    BY <1>1, <1>2, <1>3 DEF TokensInv, Signs, Lives, Up, Status, Since
  <1> QED
    BY <1>1, <1>2, <1>4, <1>5, <1>6, KeysetKeeps DEF RotationInv

LEMMA SignKeeps ==
  ASSUME IInv, RotationInv, ~torn', NEW p \in Pods, Sign(p)
  PROVE  RotationInv'
  <1>1. TypeOK /\ stored \in Keyset /\ now \in Nat
    BY DEF IInv, TypeOK
  <1>2. UNCHANGED <<stored, used, op, pod, cached, refused, overwritten, torn, now>> /\ Up(p)
    BY DEF Sign, Up
  <1>3. KeysetInv /\ ClockInv /\ KnownInv /\ TokensInv
    BY <1>2 DEF RotationInv
  <1> DEFINE a == pod[p].active
  <1>4. a \in Kids /\ pod[p].at \in Nat /\ now <= pod[p].at + Refresh
    BY <1>1, <1>2, <1>3 DEF TypeOK, ClockInv, Up
  <1>5. expires'[a] = now + TokenTtl /\ \A k \in Kids : k # a => expires'[k] = expires[k]
    BY <1>1, <1>4 DEF Sign, TypeOK
  <1>6. Signs(p) /\ Since(a) \in Nat
    BY <1>1, <1>2, <1>3, <1>4, RowFacts DEF TokensInv, Since
  <1>7. expires'[a] > now => Lives(a)'
    <2>1. \/ Status(a) = "ACTIVE" \/ TokenTtl = 0
          \/ Status(a) = "RETIRING" /\ pod[p].at <= Since(a)
      BY <1>6 DEF Signs
    <2>2. Status(a)' = Status(a) /\ Since(a)' = Since(a) /\ now' = now
      BY <1>2 DEF Status, Since
    <2> HIDE DEF a
    <2>3. expires'[a] > now =>
            \/ Status(a) = "ACTIVE" /\ expires'[a] <= now + TokenTtl
            \/ Status(a) = "RETIRING" /\ expires'[a] <= Since(a) + Refresh + TokenTtl
      BY <1>1, <1>4, <1>5, <1>6, <2>1, Times
    <2> QED
      BY <1>2, <2>3 DEF Lives, Status, Since, a
  <1>8. \A k \in Kids : k # a /\ expires'[k] > now => Lives(k)'
    BY <1>2, <1>3, <1>5 DEF TokensInv, Lives, Status, Since
  <1>9. TokensInv'
    BY <1>2, <1>3, <1>7, <1>8 DEF TokensInv, Signs, Up, Status, Since
  <1>10. ClockInv' /\ KnownInv'
    BY <1>2, <1>3 DEF ClockInv, KnownInv, Known, Used, Up, Status, Since, Present
  <1> QED
    BY <1>2, <1>3, <1>9, <1>10, KeysetKeeps DEF RotationInv

(* A token that has not expired has a key in use: in the JWKS of any pod,  *)
(* and in the verifier's when it may not ask again.                        *)
LEMMA VerifyKeeps ==
  ASSUME IInv, RotationInv, ~torn', NEW k \in Kids,
         VerifyFromCache(k) \/ \E p \in Pods : VerifyFetched(k, p)
  PROVE  RotationInv'
  <1>1. TypeOK /\ stored \in Keyset /\ now \in Nat /\ expires[k] \in Nat
    BY DEF IInv, TypeOK
  <1>2. /\ UNCHANGED <<stored, used, op, pod, expires, overwritten, torn, now>>
        /\ now < expires[k]
    BY DEF VerifyFromCache, VerifyFetched
  <1>3. KeysetInv /\ ClockInv /\ KnownInv /\ TokensInv
    BY <1>2 DEF RotationInv
  <1>4. Used(k) /\ Known(k)
    BY <1>1, <1>2, <1>3 DEF TokensInv, Lives, Used, KnownInv
  <1>5. CASE VerifyFromCache(k)
    <2>1. cached # NoJwks /\ cached.at \in Nat
          /\ (k \in cached.keys \/ ~(now - cached.at >= Cooldown))
      BY <1>1, <1>5 DEF VerifyFromCache, MustFetch, TypeOK
    <2>2. k \in cached.keys
      BY <1>1, <1>4, <2>1, Times DEF Known
    <2>3. ~refused' /\ cached' = cached
      BY <1>3, <1>5, <2>2 DEF VerifyFromCache, TokensInv
    <2>4. ClockInv' /\ KnownInv' /\ TokensInv'
      BY <1>2, <1>3, <2>3 DEF ClockInv, KnownInv, Known, TokensInv, Used, Status, Since, Up,
                              Signs, Lives, Present
    <2> QED
      BY <1>2, <1>3, <2>4, KeysetKeeps DEF RotationInv
  <1>6. ASSUME NEW p \in Pods, VerifyFetched(k, p) PROVE RotationInv'
    <2>1. Up(p) /\ cached'.keys = pod[p].published /\ cached'.at = now
      BY <1>6 DEF VerifyFetched, Up
    <2>2. ~refused'
      BY <1>3, <1>4, <1>6, <2>1 DEF VerifyFetched, TokensInv, Known
    <2>3. ClockInv'
      BY <1>1, <1>2, <1>3, <2>1 DEF ClockInv, Up, Since, Present
    <2>4. KnownInv'
      <3> SUFFICES ASSUME NEW c \in Kids PROVE Known(c)'
        BY DEF KnownInv
      <3>1. Known(c) /\ Since(c) \in Nat
        BY <1>1, <1>3, RowFacts DEF KnownInv, Since
      <3>2. pod[p].at \in Nat /\ now <= pod[p].at + Refresh
        BY <1>1, <1>3, <2>1 DEF TypeOK, ClockInv
      <3>3. now > Since(c) + Refresh => pod[p].at > Since(c)
        BY <1>1, <3>1, <3>2, Times
      <3>4. /\ Used(c) => c \in cached'.keys
            /\ Status(c) = "NEXT" /\ now > Since(c) + Refresh => c \in cached'.keys
        BY <2>1, <3>1, <3>3 DEF Known
      <3> QED
        BY <1>2, <2>1, <3>1, <3>4 DEF Known, Used, Up, Status, Since
    <2>5. TokensInv'
      BY <1>2, <1>3, <2>2 DEF TokensInv, Signs, Lives, Up, Status, Since
    <2> QED
      BY <1>2, <1>3, <2>3, <2>4, <2>5, KeysetKeeps DEF RotationInv
  <1> QED
    BY <1>5, <1>6

LEMMA TickKeeps ==
  ASSUME IInv, RotationInv, ~torn', Tick
  PROVE  RotationInv'
  <1>1. TypeOK /\ stored \in Keyset /\ now \in Nat /\ now' = now + 1 /\ cached.at \in Nat
        /\ \A p \in Pods : pod[p].at \in Nat
    BY DEF IInv, TypeOK, Tick
  <1>2. UNCHANGED <<stored, used, op, pod, refused, overwritten, torn>>
        /\ \A o \in Operators : op[o].pc = "idle"
    BY DEF Tick
  <1>3. KeysetInv /\ ClockInv /\ KnownInv /\ TokensInv
    BY <1>2 DEF RotationInv
  <1>4. cached' = cached \/ cached' = NoJwks
    BY DEF Tick
  <1>5. KeysetInv'
    BY <1>2, <1>3 DEF KeysetInv, Saving, Untouched, Whole, InOrder, Status, Since, Present,
                      Valid, With
  <1>6. \A k \in Kids : Since(k) \in Nat
    BY <1>1, RowFacts DEF Since
  <1>7. ClockInv'
    <2>1. \A p \in Pods : Up(p)' => pod'[p].at <= now' /\ now' <= pod'[p].at + Refresh
      BY <1>1, <1>2, <1>3, Times DEF Tick, ClockInv, Up
    <2>2. \A k \in Kids : Since(k)' <= now'
      <3>1. \A k \in Kids : Since(k) <= now + 1
        BY <1>1, <1>3, <1>6 DEF ClockInv
      <3> QED
        BY <1>1, <1>2, <3>1 DEF Since
    <2>3. cached'.at <= now'
      BY <1>1, <1>3, <1>4 DEF ClockInv, NoJwks
    <2>4. Present(stored)' = {} => cached' = NoJwks /\ \A p \in Pods : ~Up(p)'
      BY <1>2, <1>3, <1>4 DEF ClockInv, Up, Present
    <2> QED
      BY <1>2, <2>1, <2>2, <2>3, <2>4 DEF ClockInv, Present
  <1>8. KnownInv'
    <2> SUFFICES ASSUME NEW k \in Kids PROVE Known(k)'
      BY DEF KnownInv
    <2>1. Known(k)
      BY <1>3 DEF KnownInv
    <2>2. now' - cached.at < Cooldown => now - cached.at < Cooldown
      BY <1>1, Times
    <2> QED
      BY <1>2, <1>4, <2>1, <2>2 DEF Known, Used, Up, Status, Since
  <1>9. TokensInv'
    <2>1. ASSUME NEW k \in Kids, expires'[k] > now' PROVE Lives(k)'
      <3>1. expires[k] \in Nat /\ expires'[k] = expires[k]
        BY <1>1, <2>1 DEF Tick, TypeOK
      <3>2. Lives(k)
        BY <1>1, <1>3, <2>1, <3>1 DEF TokensInv
      <3>3. expires[k] <= now + TokenTtl => expires'[k] <= now' + TokenTtl
        BY <1>1, <3>1, Times
      <3> QED
        BY <1>2, <3>1, <3>2, <3>3 DEF Lives, Status, Since
    <2> QED
      BY <1>2, <1>3, <2>1 DEF TokensInv, Signs, Up, Status, Since
  <1> QED
    BY <1>5, <1>7, <1>8, <1>9 DEF RotationInv

LEMMA RotationStep ==
  ASSUME Single, Waits, LoadsFail = FALSE, IInv, BootstrapInv, RotationInv, [Next]_vars
  PROVE  RotationInv'
  <1> SUFFICES ASSUME ~torn' PROVE RotationInv'
    BY DEF RotationInv
  <1>1. ASSUME NEW o \in Operators, Command(o) \/ GenerateWithoutLoad(o)
        PROVE  RotationInv'
    <2>1. PICK action \in Actions : Compute(o, action, stored)
      BY <1>1 DEF Command, GenerateWithoutLoad, Actions
    <2> QED
      BY <2>1, ComputeKeeps
  <1>2. CASE UNCHANGED vars
    <2>1. KeysetInv /\ ClockInv /\ KnownInv /\ TokensInv
      BY <1>2 DEF RotationInv, vars
    <2>2. ClockInv' /\ KnownInv' /\ TokensInv'
      BY <1>2, <2>1 DEF vars, ClockInv, KnownInv, Known, TokensInv, Used, Status, Since, Up,
                        Signs, Lives, Present
    <2> QED
      BY <1>2, <2>1, <2>2, KeysetKeeps DEF RotationInv, vars
  <1> QED
    BY <1>1, <1>2, SaveKeeps, InterruptKeeps, ReloadKeeps, ReloadFailsKeeps, RestartKeeps,
       SignKeeps, VerifyKeeps, TickKeeps DEF Next

LEMMA InitRotation == Init => RotationInv
  <1> SUFFICES ASSUME Init PROVE KeysetInv /\ ClockInv /\ KnownInv /\ TokensInv
    BY DEF RotationInv
  <1>1. \A k \in Kids : stored[k].status = "none" /\ stored[k].changedAt = 0
    BY DEF Init, EmptyKeyset, None
  <1>2. Present(stored) = {} /\ (\A o \in Operators : op[o].pc = "idle") /\ ~refused
        /\ cached = NoJwks /\ cached.at = 0 /\ now = 0
        /\ (\A p \in Pods : ~Up(p)) /\ \A k \in Kids : expires[k] = 0
    BY NoneFacts DEF Init, Idle, NoJwks, Up
  <1>3. KeysetInv
    BY <1>1, <1>2 DEF KeysetInv, Saving, Whole, InOrder, Status
  <1>4. ClockInv /\ KnownInv
    BY <1>1, <1>2 DEF ClockInv, KnownInv, Known, Used, Status, Since
  <1>5. TokensInv
    BY <1>2 DEF TokensInv
  <1> QED
    BY <1>3, <1>4, <1>5

(* ValidTokensVerify (keyset.ts:81, rotateKeyset; key-providers.ts, save): *)
(* whatever the pods, the verifier and the halves of a save do, if one     *)
(* operator keeps the waits and the provider answers.                      *)
THEOREM TokensVerify ==
  ASSUME \A o, p \in Operators : o = p, LoadsFail = FALSE, Waits
  PROVE  Spec => []ValidTokensVerify
  <1>1. Init => BootstrapInv
    BY DEF Init, BootstrapInv, Bootstrap, Idle
  <1>2. IInv /\ BootstrapInv /\ [Next]_vars => BootstrapInv'
    BY BootstrapStep DEF Single
  <1>3. IInv /\ BootstrapInv /\ RotationInv /\ [Next]_vars => RotationInv'
    BY RotationStep DEF Single
  <1>4. RotationInv => ValidTokensVerify
    BY DEF RotationInv, TokensInv, ValidTokensVerify
  <1> QED
    BY <1>1, <1>2, <1>3, <1>4, InitIInv, InvStep, InitRotation, PTL DEF Spec
=============================================================================
