------------------------------ MODULE MCSnpSqn ------------------------------
(* Instances of SnpSqn for TLC.                                               *)
EXTENDS SnpSqn
=============================================================================
