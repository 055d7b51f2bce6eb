------------------------------ MODULE MCJobPool -------------------------------
(* An instance of JobPool for TLC.                                         *)
EXTENDS JobPool
CONSTANTS j1, j2, j3
==============================================================================
