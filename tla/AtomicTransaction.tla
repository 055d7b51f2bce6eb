-------------------------- MODULE AtomicTransaction --------------------------
(***************************************************************************)
(* What the transaction nodes promise a flow, without saying how: the work *)
(* done under one managed transaction is settled once and as a whole, only *)
(* work done before the settlement belongs to it, and a transaction in     *)
(* which some work failed is never committed.  DbTransaction implements    *)
(* this specification.                                                     *)
(***************************************************************************)
CONSTANTS
  Txns,  \* identities of managed transactions
  Ops    \* identities of the database operations done under them

VARIABLES
  phase,    \* what the database made of each transaction
  members,  \* the operations whose success was reported to the flow
  poisoned  \* some operation of the transaction failed

avars == <<phase, members, poisoned>>

AInit ==
  /\ phase = [t \in Txns |-> "unborn"]
  /\ members = [t \in Txns |-> {}]
  /\ poisoned = [t \in Txns |-> FALSE]

Open(t) ==
  /\ phase[t] = "unborn"
  /\ phase' = [phase EXCEPT ![t] = "open"]
  /\ UNCHANGED <<members, poisoned>>

Apply(t, o) ==
  /\ phase[t] = "open"
  /\ members' = [members EXCEPT ![t] = @ \cup {o}]
  /\ UNCHANGED <<phase, poisoned>>

Poison(t) ==
  /\ phase[t] = "open"
  /\ poisoned' = [poisoned EXCEPT ![t] = TRUE]
  /\ UNCHANGED <<phase, members>>

Commit(t) ==
  /\ phase[t] = "open"
  /\ ~poisoned[t]
  /\ phase' = [phase EXCEPT ![t] = "committed"]
  /\ UNCHANGED <<members, poisoned>>

RollBack(t) ==
  /\ phase[t] = "open"
  /\ phase' = [phase EXCEPT ![t] = "rolledBack"]
  /\ UNCHANGED <<members, poisoned>>

ANext ==
  \E t \in Txns :
    \/ Open(t)
    \/ \E o \in Ops : Apply(t, o)
    \/ Poison(t)
    \/ Commit(t)
    \/ RollBack(t)

ASpec == AInit /\ [][ANext]_avars

==============================================================================
