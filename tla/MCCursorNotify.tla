--------------------------- MODULE MCCursorNotify ---------------------------
(* Symmetry of CursorNotify for TLC.                                        *)
EXTENDS CursorNotify, TLC

MCSymmetry == Permutations(Procs) \cup Permutations(Events \ Recurring)
=============================================================================
