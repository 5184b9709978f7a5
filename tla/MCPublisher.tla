----------------------------- MODULE MCPublisher -----------------------------
(* Instances of Publisher for TLC. *)
EXTENDS Publisher, TLC

(* Runs are interchangeable. *)
Symmetry == Permutations(Committers)
=============================================================================
