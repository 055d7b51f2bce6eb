---------------------------- MODULE MCSmoComposite ----------------------------
(***************************************************************************)
(* An instance of SmoComposite.  a, b and c belong to one event, d starts  *)
(* another, h has no key.  a or c after b completes the event; b takes     *)
(* back what the others said.                                              *)
(***************************************************************************)
EXTENDS SmoComposite

CONSTANTS a, b, c, d, h, k1, k2, t1, t2, p, q

KeyTable ==
  [f \in Frags |-> CASE f \in {a, b, c} -> k1 [] f = d -> k2 [] f = h -> NoKey]

(* a, c and d share a transaction across two keys, b brings another.       *)
OwnerTable == [f \in Frags |-> CASE f = b -> t2 [] f = h -> NoTxn [] OTHER -> t1]

SaysTable ==
  [f \in Frags |->
     [r \in Required |->
        CASE f = b /\ r = p -> "null"
          [] (f = b) = (r = q) -> "value"
          [] OTHER -> "absent"]]

(* TLC evaluates the tables once, and what a cfg substitutes at every use. *)
MCKeyOf   == KeyTable
TwoOwners == OwnerTable
MCSays    == SaysTable
==============================================================================
