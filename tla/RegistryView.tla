----------------------------- MODULE RegistryView -----------------------------
(***************************************************************************)
(* The registry of db-nodes as its users outside db-nodes see it, through  *)
(* capture() and finalize(): a transaction is active until somebody asks   *)
(* for its end, which may be asked for several at once, and then comes to  *)
(* an end that is reported once and for all.  DbTransaction implements     *)
(* this specification; SmoComposite takes its steps from it.               *)
(***************************************************************************)
CONSTANT Txns  \* identities of managed transactions

VARIABLE txn   \* how each of them stands

(* "failed" covers what finalize() reports as failed: rolled back,         *)
(* unknown, or committed on a connection whose close() failed.             *)
Outcomes == {"committed", "failed"}

VInit == txn \in [Txns -> {"unborn", "active"}]

Begin(t) ==
  /\ txn[t] = "unborn"
  /\ txn' = [txn EXCEPT ![t] = "active"]

(* What asks for the end of several reserves each before it waits.         *)
End(S) ==
  /\ \A t \in S : txn[t] = "active"
  /\ txn' = [t \in Txns |-> IF t \in S THEN "ending" ELSE txn[t]]

Settle(t, outcome) ==
  /\ txn[t] = "ending"
  /\ txn' = [txn EXCEPT ![t] = outcome]

VNext ==
  \/ \E t \in Txns : Begin(t)
  \/ \E S \in SUBSET Txns : End(S)
  \/ \E t \in Txns, outcome \in Outcomes : Settle(t, outcome)

VSpec == VInit /\ [][VNext]_txn
===============================================================================
