----------------------------- MODULE MCDcchSched -----------------------------
(* Instances of DcchSched for TLC.                                            *)
EXTENDS DcchSched, TLC

CONSTANTS a1, a2, a3

\* The station that leaves and one that stays have requests, the third has none.
MCMaxRqst == [a \in As |-> IF a = a3 THEN 0 ELSE 1]
NoRqst == [a \in As |-> 0]
==============================================================================
