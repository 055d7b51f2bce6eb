---------------------------- MODULE MCDbConnection ----------------------------
(* Two messages and one request of the test endpoint: enough for a creation   *)
(* of the pool that is shared, fails, and is begun again behind the close.    *)
EXTENDS DbConnection
=============================================================================
