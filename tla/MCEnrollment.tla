---------------------------- MODULE MCEnrollment ----------------------------
(* Instances of Enrollment for TLC. *)
EXTENDS Enrollment, TLC

CONSTANT MaxMishaps \* bound: expiries, revocations, resets and faults together

(* The processes of a host are interchangeable. *)
Symmetry == Permutations(Processes)

Mishaps == Cardinality(expired) + Cardinality(revoked) + resets + faults

(* FairSpec with few mishaps, of any kinds. No fair action is one. *)
MCFairSpec == Init /\ [][Next /\ Mishaps' <= MaxMishaps]_vars /\ Fairness
=============================================================================
