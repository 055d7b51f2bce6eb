----------------------------- MODULE MCAqListener -----------------------------
(* Instances of AqListener: messages are interchangeable.                  *)
EXTENDS AqListener
CONSTANTS m1, m2, m3
==============================================================================
