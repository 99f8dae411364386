----------------------------- MODULE MCRlTransfer -----------------------------
EXTENDS RlTransfer, TLC

\* A station with a single SDU, and one with as much as a window holds.
MCSdus == (1 :> 1) @@ (2 :> 3)
===============================================================================
