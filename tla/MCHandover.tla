----------------------------- MODULE MCHandover -----------------------------
(* Instances of Handover for TLC.                                             *)
EXTENDS Handover, TLC

Sym == Permutations(As)
=============================================================================
