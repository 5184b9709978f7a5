------------------------- MODULE MCTraceUploadHistory -------------------------
(* TraceUploadHistory for TLC: collectors and sources are interchangeable. *)
EXTENDS TraceUploadHistory, TLC

Symmetry == Permutations(Collectors) \cup Permutations(Sources)
=============================================================================
