---------------------------- MODULE TraceDelivery ----------------------------
(***************************************************************************)
(* What trace collection promises for transcripts that hosts only append   *)
(* to: the worker receives every record of a source once, in file order    *)
(* and without gaps, and the local ledger never claims more than the       *)
(* worker has stored.  How collectors, retries, lost responses and         *)
(* conflicts achieve it is the business of TraceUpload, which implements   *)
(* this specification.                                                     *)
(***************************************************************************)
EXTENDS Integers, Sequences

CONSTANTS
  Sources,    \* transcript files, one per source path
  Record      \* contents of one newline-terminated record

VARIABLES
  log,        \* log[s]: the records the host has written to s
  stored,     \* stored[s]: the records the worker holds for s
  acked       \* acked[s]: the records the local ledger counts as delivered

vars == <<log, stored, acked>>

Init ==
  /\ log = [s \in Sources |-> <<>>]
  /\ stored = [s \in Sources |-> <<>>]
  /\ acked = [s \in Sources |-> <<>>]

(* The host agent appends one complete record. *)
Write(s, r) ==
  /\ log' = [log EXCEPT ![s] = Append(@, r)]
  /\ UNCHANGED <<stored, acked>>

(* The worker stores the next records of the source, never beyond its end. *)
Store(s) ==
  /\ \E n \in Len(stored[s]) + 1 .. Len(log[s]) :
       stored' = [stored EXCEPT ![s] = SubSeq(log[s], 1, n)]
  /\ UNCHANGED <<log, acked>>

(* The ledger advances, and only over what the worker has stored. *)
Acknowledge(s) ==
  /\ \E n \in Len(acked[s]) + 1 .. Len(stored[s]) :
       acked' = [acked EXCEPT ![s] = SubSeq(stored[s], 1, n)]
  /\ UNCHANGED <<log, stored>>

Next ==
  \E s \in Sources :
    \/ \E r \in Record : Write(s, r)
    \/ Store(s)
    \/ Acknowledge(s)

Spec == Init /\ [][Next]_vars
=============================================================================
