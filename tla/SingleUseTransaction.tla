------------------------ MODULE SingleUseTransaction ------------------------
(***************************************************************************)
(* What TransactionService promises of the transactions behind an id:      *)
(* they follow each other, each lives from its creation to its expiry, and *)
(* each one grants at most once.  Nothing is said of how a request is      *)
(* served, of Redis or of sessions.                                        *)
(***************************************************************************)
EXTENDS Naturals

CONSTANTS Ids,     \* transaction ids
          Users    \* whoever may be granted something (the requests)

VARIABLES phase,   \* phase[id]: no transaction, one to be used, one used
          epoch,   \* epoch[id]: how many transactions the id has had
          grants   \* the grants made: which transaction, to whom

vars == <<phase, epoch, grants>>

Init ==
  /\ phase = [id \in Ids |-> "absent"]
  /\ epoch = [id \in Ids |-> 0]
  /\ grants = {}

Open(id) ==
  /\ phase[id] = "absent"
  /\ phase' = [phase EXCEPT ![id] = "pending"]
  /\ epoch' = [epoch EXCEPT ![id] = @ + 1]
  /\ UNCHANGED grants

Grant(id, user) ==
  /\ phase[id] = "pending"
  /\ phase' = [phase EXCEPT ![id] = "used"]
  /\ grants' = grants \cup {[id |-> id, epoch |-> epoch[id], user |-> user]}
  /\ UNCHANGED epoch

Lapse(id) ==
  /\ phase[id] # "absent"
  /\ phase' = [phase EXCEPT ![id] = "absent"]
  /\ UNCHANGED <<epoch, grants>>

Next ==
  \E id \in Ids : Open(id) \/ Lapse(id) \/ \E user \in Users : Grant(id, user)

Spec == Init /\ [][Next]_vars
=============================================================================
