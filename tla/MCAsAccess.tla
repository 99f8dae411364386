----------------------------- MODULE MCAsAccess -----------------------------
(* Instances of AsAccess for TLC.                                             *)
EXTENDS AsAccess
=============================================================================
