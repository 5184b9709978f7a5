--------------------------- MODULE MCCursorJournal ---------------------------
(* Symmetry of CursorJournal for TLC.                                       *)
EXTENDS CursorJournal, TLC

MCSymmetry == Permutations(Messages)
=============================================================================
