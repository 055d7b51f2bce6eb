---------------------------- MODULE MCStreamingIn -----------------------------
(* Instances of StreamingIn.                                               *)
EXTENDS StreamingIn
==============================================================================
