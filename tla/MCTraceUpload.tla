---------------------------- MODULE MCTraceUpload ----------------------------
(* TraceUpload for TLC: collectors and sources are interchangeable. *)
EXTENDS TraceUpload, TLC

Symmetry == Permutations(Collectors) \cup Permutations(Sources)
=============================================================================
