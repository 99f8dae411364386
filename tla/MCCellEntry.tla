----------------------------- MODULE MCCellEntry -----------------------------
(* Instances of CellEntry for TLC.                                            *)
EXTENDS CellEntry, TLC

\* Stations differ in their address only.
Sym == Permutations(Ua)
==============================================================================
