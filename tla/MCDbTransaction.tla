--------------------------- MODULE MCDbTransaction ---------------------------
(***************************************************************************)
(* Instances of DbTransaction for TLC: which node handles each operation   *)
(* and what each caller asks for.                                          *)
(***************************************************************************)
EXTENDS DbTransaction, TLC

CONSTANTS t1, o1, o2, b1, b2, n1, n2, c1, c2

(* One sql and one dequeue handler on different nodes.                     *)
TwoKinds == o1 :> "sql" @@ o2 :> "dequeue"
TwoNodes == o1 :> n1 @@ o2 :> n2

FinalizeOnly == c2 :> "finalize"
EndAndFinalize == c1 :> "commit" @@ c2 :> "finalize"
==============================================================================
