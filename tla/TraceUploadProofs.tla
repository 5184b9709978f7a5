-------------------------- MODULE TraceUploadProofs --------------------------
(***************************************************************************)
(* Proofs about TraceUpload, for any files, collectors and bounds: its     *)
(* type invariant, and that the ledger counts only what the worker         *)
(* accepted.  The invariant AckedByWorker is not inductive alone; Inv adds *)
(* what the collectors rely on between loading the ledger and writing it.  *)
(* For transcripts that are only appended to: that it implements           *)
(* TraceDelivery, that no conflict fails a collection, and that a complete *)
(* collection (TraceUploadHistory) leaves nothing behind.                  *)
(***************************************************************************)
EXTENDS TraceUploadHistory, SequenceTheorems, TLAPS

(* A collector past the lock holds it, and no one else wrote the ledger     *)
(* since it was loaded.                                                     *)
LockInv ==
  \A c \in Collectors :
    pc[c] \in {"select", "read", "await"} => lock = c /\ mem[c] = ledger

(* An event starts where the loaded ledger ends, or at zero. *)
EventInv ==
  \A c \in Collectors :
    pc[c] \in {"read", "await"} =>
      event[c].base \in {<<>>, mem[c][event[c].src]}

(* What the worker committed, it accepted. *)
StoredInv ==
  \A s \in Sources : \A i \in 1 .. Len(stored[s]) :
    Delivered(s, i, stored[s][i])

(* A response speaks the truth about what the worker accepted. *)
AnswerInv ==
  \A c \in Collectors :
    /\ pc[c] # "await" => answer[c] = None
    /\ (answer[c] # None /\ answer[c].kind = "accepted") =>
         \A i \in 1 .. Len(event[c].recs) :
           Delivered(event[c].src, Len(event[c].base) + i, event[c].recs[i])
    /\ (answer[c] # None /\ answer[c].kind = "conflict") =>
         \A i \in 1 .. Len(answer[c].proof) :
           Delivered(event[c].src, answer[c].proofStart + i, answer[c].proof[i])

Inv == TypeOK /\ LockInv /\ EventInv /\ StoredInv /\ AnswerInv /\ AckedByWorker

-----------------------------------------------------------------------------
(* Facts about sequences *)

LEMMA PrefixType ==
  ASSUME NEW S, NEW q \in Seq(S), NEW n \in Int, n <= Len(q)
  PROVE  /\ SubSeq(q, 1, n) \in Seq(S)
         /\ Len(SubSeq(q, 1, n)) = IF 1 <= n THEN n ELSE 0
         /\ \A i \in 1 .. Len(SubSeq(q, 1, n)) : SubSeq(q, 1, n)[i] = q[i]
<1>1. \A i \in 1 .. n : q[i] \in S
  BY ElementOfSeq
<1> QED
  BY <1>1, SubSeqProperties

LEMMA SliceType ==
  ASSUME NEW S, NEW q \in Seq(S), NEW m \in Nat, NEW n \in Int, n <= Len(q)
  PROVE  /\ SubSeq(q, m + 1, n) \in Seq(S)
         /\ Len(SubSeq(q, m + 1, n)) = IF m + 1 <= n THEN n - m ELSE 0
         /\ \A i \in 1 .. n - m : SubSeq(q, m + 1, n)[i] = q[m + i]
<1>1. \A i \in m + 1 .. n : q[i] \in S
  BY ElementOfSeq
<1> QED
  BY <1>1, SubSeqProperties

LEMMA TailType ==
  ASSUME NEW S, NEW q \in Seq(S), NEW m \in Nat,
         NEW i \in 1 .. Len(SubSeq(q, m + 1, Len(q)))
  PROVE  m + i \in 1 .. Len(q) /\ SubSeq(q, m + 1, Len(q))[i] = q[m + i]
<1> DEFINE n == Len(q)
<1>1. n \in Nat
  BY LenProperties
<1>2. \A j \in m + 1 .. n : q[j] \in S
  BY ElementOfSeq
<1>3. Len(SubSeq(q, m + 1, n)) = IF m + 1 <= n THEN n - m ELSE 0
  BY <1>1, <1>2, SubSeqProperties
<1>4. i \in 1 .. n - m
  BY <1>1, <1>3
<1>5. m + i \in 1 .. n
  BY <1>1, <1>4
<1>6. SubSeq(q, m + 1, n)[i] = q[m + i]
  BY <1>1, <1>2, <1>4, SubSeqProperties
<1> QED
  BY <1>5, <1>6

LEMMA Past ==
  ASSUME NEW m \in Nat, NEW n \in Nat, NEW i \in 1 .. m + n, i > m
  PROVE  i - m \in 1 .. n /\ m + (i - m) = i
OBVIOUS

LEMMA Interior ==
  ASSUME NEW start \in Nat, NEW size \in Nat, NEW watermark \in Nat,
         watermark < start + size
  PROVE  watermark - start \in Int /\ watermark - start <= size
OBVIOUS

-----------------------------------------------------------------------------
(* Types *)

LEMMA EmptyTyped == EmptyLedger \in Ledger
BY EmptySeq DEF EmptyLedger, Ledger

LEMMA InitTypeOK == Init => TypeOK
BY EmptyTyped, TraceConstants
DEF Init, TypeOK, Ledger, EmptyLedger, Batch

(* The locals that EndRequest and the ways to leave uploadPaths reset. *)
LEMMA EndTypes ==
  ASSUME TypeOK, NEW c \in Collectors, EndRequest(c)
  PROVE  /\ lock' \in Collectors \cup {Free}
         /\ todo' \in [Collectors -> SUBSET Sources]
         /\ mem' \in [Collectors -> Ledger]
         /\ event' \in [Collectors -> Event \cup {None}]
         /\ \A d \in Collectors \ {c} : event'[d] = event[d]
         /\ answer' \in [Collectors -> Answer \cup {None}]
BY EmptyTyped DEF TypeOK, EndRequest, ReleaseLock

LEMMA LeaveTypes ==
  ASSUME TypeOK, NEW c \in Collectors,
         Finish(c) \/ NextPhase(c) \/ NextRequest(c)
  PROVE  /\ EndRequest(c)
         /\ \E step \in {"idle", "wait"} : pc' = [pc EXCEPT ![c] = step]
         /\ phase' \in [Collectors -> {"first", "current", "idle"}]
         /\ {current, idle, todo, unreadable}' \subseteq [Collectors -> SUBSET Sources]
<1>1. CASE Finish(c)
  BY <1>1, EndTypes DEF TypeOK, Finish
<1>2. CASE NextPhase(c)
  BY <1>1, <1>2, EndTypes DEF TypeOK, NextPhase
<1>3. CASE NextRequest(c)
  BY <1>3, EndTypes DEF TypeOK, NextRequest
<1> QED
  BY <1>1, <1>2, <1>3

(* Leaving uploadPaths with a well-typed ledger keeps every type. *)
LEMMA LeaveTypeOK ==
  ASSUME TypeOK, NEW c \in Collectors,
         Finish(c) \/ NextPhase(c) \/ NextRequest(c),
         {file, stored, ledger}' \subseteq Ledger,
         lastStart' \in [Sources -> Nat],
         accepted' \in [Sources -> SUBSET SourceRange],
         orphans' \subseteq Batch,
         faults' \in 0 .. MaxFaults,
         UNCHANGED <<truncations, losses>>
  PROVE  TypeOK'
<1>1. /\ EndRequest(c)
      /\ \E step \in {"idle", "wait"} : pc' = [pc EXCEPT ![c] = step]
      /\ phase' \in [Collectors -> {"first", "current", "idle"}]
      /\ {current, idle, todo, unreadable}' \subseteq [Collectors -> SUBSET Sources]
  BY LeaveTypes
<1>2. /\ lock' \in Collectors \cup {Free}
      /\ mem' \in [Collectors -> Ledger]
      /\ event' \in [Collectors -> Event \cup {None}]
      /\ \A d \in Collectors \ {c} : event'[d] = event[d]
      /\ answer' \in [Collectors -> Answer \cup {None}]
  BY <1>1, EndTypes
<1>3. pc' \in [Collectors -> {"idle", "wait", "select", "read", "await"}]
  BY <1>1 DEF TypeOK
<1>4. \A d \in Collectors : pc'[d] \in {"read", "await"} => event'[d] \in Event
  BY <1>1, <1>2 DEF TypeOK
<1> QED
  BY <1>1, <1>2, <1>3, <1>4 DEF TypeOK

(* What a collector posts is a batch, and what it persists is a ledger. *)
LEMMA RequestType ==
  ASSUME TypeOK, NEW c \in Collectors, pc[c] = "await"
  PROVE  Request(c) \in Batch
BY LenProperties DEF TypeOK, Request, Batch, Event

LEMMA PersistType ==
  ASSUME TypeOK, NEW c \in Collectors, pc[c] = "await",
         NEW n \in Int, n <= Len(event[c].recs), Persist(c, n)
  PROVE  ledger' \in Ledger
<1>1. event[c] \in Event
  BY DEF TypeOK
<1>2. SubSeq(event[c].recs, 1, n) \in Seq(Record)
  BY <1>1, PrefixType DEF Event
<1>3. event[c].base \o SubSeq(event[c].recs, 1, n) \in Seq(Record)
  BY <1>1, <1>2, ConcatProperties DEF Event
<1> QED
  BY <1>1, <1>3 DEF TypeOK, Persist, Ledger, Event

(* The worker keeps its own state typed. *)
LEMMA WorkerTypes ==
  ASSUME TypeOK, NEW b \in Batch, WorkerAccepts(b) \/ WorkerRefuses(b)
  PROVE  /\ stored' \in Ledger
         /\ lastStart' \in [Sources -> Nat]
         /\ accepted' \in [Sources -> SUBSET SourceRange]
<1>1. CASE WorkerAccepts(b)
  <2>1. accepted' \in [Sources -> SUBSET SourceRange]
    BY <1>1 DEF TypeOK, WorkerAccepts, SourceRange, Batch
  <2>2. stored[b.src] \o b.recs \in Seq(Record)
    BY ConcatProperties DEF TypeOK, Ledger, Batch
  <2>3. stored' \in Ledger
    <3>1. stored' = stored \/ stored' = [stored EXCEPT ![b.src] = stored[b.src] \o b.recs]
      BY Zenon, <1>1 DEF WorkerAccepts
    <3>2. stored \in [Sources -> Seq(Record)]
      BY DEF TypeOK, Ledger
    <3> QED
      BY <2>2, <3>1, <3>2 DEF Ledger
  <2>4. lastStart' \in [Sources -> Nat]
    BY <1>1 DEF TypeOK, WorkerAccepts, Batch
  <2> QED
    BY <2>1, <2>3, <2>4
<1>2. CASE WorkerRefuses(b)
  BY <1>2 DEF TypeOK, WorkerRefuses
<1> QED
  BY <1>1, <1>2

LEMMA ConflictType ==
  ASSUME TypeOK, NEW b \in Batch, NEW from \in ProofStarts(b)
  PROVE  Conflict(b, from) \in Answer
<1>1. /\ stored[b.src] \in Seq(Record)
      /\ Watermark(b.src) \in Nat
      /\ Watermark(b.src) <= Len(stored[b.src])
  BY LenProperties DEF TypeOK, Watermark, Ledger, Batch
<1>2. from \in Nat
  BY DEF TypeOK, ProofStarts, Batch
<1>3. SubSeq(stored[b.src], from + 1, Watermark(b.src)) \in Seq(Record)
  BY <1>1, <1>2, SliceType
<1> QED
  BY <1>1, <1>2, <1>3 DEF Conflict, Answer


LEMMA EnvironmentTypeOK ==
  ASSUME TypeOK,
         \/ \E s \in Sources, r \in Record : AppendRecord(s, r)
         \/ \E s \in Sources : Truncate(s)
         \/ LoseLedger
  PROVE  TypeOK'
<1>1. ASSUME NEW s \in Sources, NEW r \in Record, AppendRecord(s, r)
      PROVE  TypeOK'
  <2>1. Append(file[s], r) \in Seq(Record)
    BY AppendProperties DEF TypeOK, Ledger
  <2>2. file' \in Ledger
    BY <1>1, <2>1 DEF TypeOK, AppendRecord, Ledger
  <2> QED
    BY <1>1, <2>2 DEF TypeOK, AppendRecord, procVars, boundVars
<1>2. ASSUME NEW s \in Sources, Truncate(s)
      PROVE  TypeOK'
  <2>1. PICK n \in 0 .. Len(file[s]) - 1 :
               file' = [file EXCEPT ![s] = SubSeq(@, 1, n)]
    BY <1>2 DEF Truncate
  <2>2. SubSeq(file[s], 1, n) \in Seq(Record)
    BY LenProperties, PrefixType DEF TypeOK, Ledger
  <2>3. file' \in Ledger
    BY <2>1, <2>2 DEF TypeOK, Ledger
  <2>4. truncations' \in 0 .. MaxTruncations
    BY <1>2, TraceConstants DEF TypeOK, Truncate
  <2> QED
    BY <1>2, <2>3, <2>4 DEF TypeOK, Truncate, procVars
<1>3. CASE LoseLedger
  <2>1. losses' \in 0 .. MaxLosses
    BY <1>3, TraceConstants DEF TypeOK, LoseLedger
  <2> QED
    BY <1>3, <2>1, EmptyTyped DEF TypeOK, LoseLedger, envVars, procVars
<1> QED
  BY <1>1, <1>2, <1>3

LEMMA WorkerTypeOK ==
  ASSUME TypeOK,
         \/ \E b \in orphans : WorkerReceivesLate(b)
         \/ \E c \in Collectors : WorkerReceives(c)
  PROVE  TypeOK'
<1>1. ASSUME NEW b \in orphans, WorkerReceivesLate(b)
      PROVE  TypeOK'
  <2>1. b \in Batch /\ orphans' \subseteq Batch
    BY <1>1 DEF TypeOK, WorkerReceivesLate
  <2>2. /\ stored' \in Ledger
        /\ lastStart' \in [Sources -> Nat]
        /\ accepted' \in [Sources -> SUBSET SourceRange]
    BY <1>1, <2>1, WorkerTypes DEF WorkerReceivesLate
  <2> QED
    BY <1>1, <2>1, <2>2 DEF TypeOK, WorkerReceivesLate, procVars, boundVars
<1>2. ASSUME NEW c \in Collectors, WorkerReceives(c)
      PROVE  TypeOK'
  <2>1. Request(c) \in Batch
    BY <1>2, RequestType DEF WorkerReceives
  <2>2. /\ stored' \in Ledger
        /\ lastStart' \in [Sources -> Nat]
        /\ accepted' \in [Sources -> SUBSET SourceRange]
    BY <1>2, <2>1, WorkerTypes DEF WorkerReceives
  <2>3. answer' \in [Collectors -> Answer \cup {None}]
    BY <1>2, <2>1, ConflictType DEF TypeOK, WorkerReceives, Answer
  <2> QED
    BY <1>2, <2>2, <2>3 DEF TypeOK, WorkerReceives, boundVars
<1> QED
  BY <1>1, <1>2

LEMMA RunningTypeOK ==
  ASSUME TypeOK, NEW c \in Collectors,
         \/ StartCollect(c) \/ AcquireLock(c)
         \/ OpenSource(c) \/ ReadAndPost(c) \/ SkipUnreadable(c)
  PROVE  TypeOK'
<1>1. CASE StartCollect(c)
  BY <1>1 DEF TypeOK, StartCollect, envVars, boundVars
<1>2. CASE AcquireLock(c)
  <2>1. Paths(c) \subseteq Sources
    BY DEF TypeOK, Paths
  <2> QED
    BY <1>2, <2>1 DEF TypeOK, AcquireLock, envVars, boundVars
<1>3. CASE OpenSource(c)
  <2>1. PICK s \in todo[c] :
          LET intact == IsPrefix(mem[c][s], file[s])
              base == IF intact THEN mem[c][s] ELSE <<>>
          IN /\ todo' = [todo EXCEPT ![c] = @ \ {s}]
             /\ IF Len(base) = Len(file[s])
                THEN UNCHANGED <<pc, event>>
                ELSE /\ pc' = [pc EXCEPT ![c] = "read"]
                     /\ event' = [event EXCEPT ![c] =
                          [src |-> s, base |-> base, snapshot |-> file[s],
                           recs |-> <<>>, reset |-> ~intact]]
    BY <1>3 DEF OpenSource
  <2> DEFINE intact == IsPrefix(mem[c][s], file[s])
             base == IF intact THEN mem[c][s] ELSE <<>>
             opened == [src |-> s, base |-> base, snapshot |-> file[s],
                        recs |-> <<>>, reset |-> ~intact]
  <2>2. s \in Sources
    BY DEF TypeOK
  <2>3. /\ base \in Seq(Record)
        /\ file[s] \in Seq(Record)
        /\ <<>> \in Seq(Record)
        /\ (~intact) \in BOOLEAN
    BY <2>2, EmptySeq DEF TypeOK, Ledger
  <2>4. opened \in Event
    BY <2>2, <2>3 DEF Event
  <2>5. \/ UNCHANGED <<pc, event>>
        \/ /\ pc' = [pc EXCEPT ![c] = "read"]
           /\ event' = [event EXCEPT ![c] = opened]
    BY <2>1
  <2>6. todo' \in [Collectors -> SUBSET Sources]
    BY <2>1 DEF TypeOK
  <2> HIDE DEF intact, base, opened
  <2>7. /\ pc' \in [Collectors -> {"idle", "wait", "select", "read", "await"}]
        /\ event' \in [Collectors -> Event \cup {None}]
        /\ \A d \in Collectors : pc'[d] \in {"read", "await"} => event'[d] \in Event
    BY <2>4, <2>5 DEF TypeOK
  <2>8. UNCHANGED <<envVars, ledger, lock, phase, current, idle, mem, answer,
                    unreadable, boundVars>>
    BY <1>3 DEF OpenSource
  <2> QED
    BY <2>6, <2>7, <2>8 DEF TypeOK, envVars, boundVars
<1>4. CASE ReadAndPost(c)
  <2> DEFINE e == event[c]
             size == Len(e.snapshot)
             inPlace == SubSeq(file[e.src], 1,
               IF Len(file[e.src]) < size THEN Len(file[e.src]) ELSE size)
             posted(seen, end) ==
               [e EXCEPT !.snapshot = <<>>,
                  !.recs = SubSeq(seen, Len(e.base) + 1, end)]
  <2>1. e \in Event
    BY <1>4 DEF TypeOK, ReadAndPost
  <2>2. PICK seen \in {e.snapshot, inPlace} :
          \/ /\ pc' = [pc EXCEPT ![c] = "select"]
             /\ event' = [event EXCEPT ![c] = None]
          \/ \E end \in RangeEnds(seen, Len(e.base)) :
               /\ pc' = [pc EXCEPT ![c] = "await"]
               /\ event' = [event EXCEPT ![c] = posted(seen, end)]
    BY <1>4 DEF ReadAndPost
  <2>3. seen \in Seq(Record)
    <3>1. file[e.src] \in Seq(Record) /\ e.snapshot \in Seq(Record)
      BY <2>1 DEF TypeOK, Event, Ledger
    <3>2. inPlace \in Seq(Record)
      BY <3>1, LenProperties, PrefixType
    <3> QED
      BY <3>1, <3>2
  <2>4. ASSUME NEW end \in RangeEnds(seen, Len(e.base))
        PROVE  posted(seen, end) \in Event
    <3>1. Len(e.base) \in Nat /\ end \in Int /\ end <= Len(seen)
      BY <2>1, <2>3, LenProperties DEF RangeEnds, Event
    <3>2. SubSeq(seen, Len(e.base) + 1, end) \in Seq(Record)
      BY <2>3, <3>1, SliceType
    <3> QED
      BY <2>1, <3>2, EmptySeq DEF Event
  <2> HIDE DEF e, inPlace, posted
  <2>5. /\ pc' \in [Collectors -> {"idle", "wait", "select", "read", "await"}]
        /\ event' \in [Collectors -> Event \cup {None}]
        /\ \A d \in Collectors : pc'[d] \in {"read", "await"} => event'[d] \in Event
    BY <2>2, <2>4 DEF TypeOK
  <2>6. UNCHANGED <<envVars, ledger, lock, phase, current, idle, todo, mem, answer,
                    unreadable, boundVars>>
    BY <1>4 DEF ReadAndPost
  <2> QED
    BY <2>5, <2>6 DEF TypeOK, envVars, boundVars
<1>5. CASE SkipUnreadable(c)
  <2>1. faults' \in 0 .. MaxFaults
    BY <1>5, TraceConstants DEF TypeOK, SkipUnreadable
  <2>2. {todo, unreadable}' \subseteq [Collectors -> SUBSET Sources]
    BY <1>5 DEF TypeOK, SkipUnreadable
  <2> QED
    BY <1>5, <2>1, <2>2 DEF TypeOK, SkipUnreadable, envVars
<1> QED
  BY <1>1, <1>2, <1>3, <1>4, <1>5

LEMMA LeavingTypeOK ==
  ASSUME TypeOK, NEW c \in Collectors,
         \/ SkipPhase(c) \/ NothingPending(c) \/ Acknowledge(c)
         \/ Reconcile(c) \/ RefuseConflict(c)
         \/ RequestFails(c) \/ Crash(c) \/ DeadlineExceeded(c)
  PROVE  TypeOK'
<1>1. CASE SkipPhase(c)
  BY <1>1, LeaveTypeOK DEF TypeOK, SkipPhase, envVars, boundVars
<1>2. CASE NothingPending(c)
  BY <1>2, LeaveTypeOK DEF TypeOK, NothingPending, envVars, boundVars
<1>3. CASE Acknowledge(c)
  <2>1. ledger' \in Ledger
    <3>1. pc[c] = "await" /\ Persist(c, Len(event[c].recs)) /\ event[c].recs \in Seq(Record)
      BY <1>3 DEF Acknowledge, TypeOK, Event
    <3>2. Len(event[c].recs) \in Int /\ Len(event[c].recs) <= Len(event[c].recs)
      BY <3>1, LenProperties
    <3> QED
      BY <3>1, <3>2, PersistType
  <2> QED
    BY <1>3, <2>1, LeaveTypeOK DEF TypeOK, Acknowledge, envVars, boundVars
<1>4. CASE Reconcile(c)
  <2>0. event[c] \in Event
    BY <1>4 DEF TypeOK, Reconcile
  <2>1. Len(event[c].base) \in Nat /\ Len(event[c].recs) \in Nat
    BY <2>0, LenProperties DEF Event
  <2>2. answer[c].watermark \in Nat
    BY <1>4 DEF TypeOK, Reconcile, Answer
  <2> DEFINE n == answer[c].watermark - Len(event[c].base)
  <2>3. n \in Int /\ n <= Len(event[c].recs)
    <3>1. answer[c].watermark < Len(event[c].base) + Len(event[c].recs)
      BY <1>4 DEF Reconcile, Reconcilable
    <3> QED
      BY <2>1, <2>2, <3>1, Interior
  <2>4. pc[c] = "await" /\ Persist(c, n)
    BY <1>4 DEF Reconcile
  <2> HIDE DEF n
  <2>5. ledger' \in Ledger
    BY <2>3, <2>4, PersistType
  <2> QED
    BY <1>4, <2>5, LeaveTypeOK DEF TypeOK, Reconcile, envVars, boundVars
<1>5. CASE RefuseConflict(c)
  BY <1>5, LeaveTypeOK DEF TypeOK, RefuseConflict, envVars, boundVars
<1>6. ASSUME RequestFails(c) \/ Crash(c)
      PROVE  TypeOK'
  <2>1. orphans' \subseteq Batch
    BY <1>6, RequestType DEF TypeOK, RequestFails, Crash, AbandonRequest
  <2>2. faults' \in 0 .. MaxFaults
    BY <1>6, TraceConstants DEF TypeOK, RequestFails, Crash
  <2> QED
    BY <1>6, <2>1, <2>2, LeaveTypeOK
    DEF TypeOK, RequestFails, Crash, AbandonRequest
<1>7. CASE DeadlineExceeded(c)
  <2>1. faults' \in 0 .. MaxFaults
    BY <1>7, TraceConstants DEF TypeOK, DeadlineExceeded
  <2> QED
    BY <1>7, <2>1, LeaveTypeOK DEF TypeOK, DeadlineExceeded, envVars
<1> QED
  BY <1>1, <1>2, <1>3, <1>4, <1>5, <1>6, <1>7

LEMMA NextTypeOK == TypeOK /\ [Next]_vars => TypeOK'
<1> SUFFICES ASSUME TypeOK, [Next]_vars PROVE TypeOK'
  OBVIOUS
<1>1. CASE UNCHANGED vars
  BY <1>1 DEF TypeOK, vars, envVars, procVars, boundVars
<1>2. CASE Next
  BY <1>2, EnvironmentTypeOK, WorkerTypeOK, RunningTypeOK, LeavingTypeOK
  DEF Next, CollectorStep, Fault
<1> QED
  BY <1>1, <1>2

(* Every variable keeps its type, and a collector that reads or waits for   *)
(* an answer always has the event it is about.                              *)
THEOREM TypeCorrect == Spec => []TypeOK
BY InitTypeOK, NextTypeOK, PTL DEF Spec

-----------------------------------------------------------------------------
(* The ledger counts only what the worker accepted *)

LEMMA HoldsMore ==
  ASSUME NEW ranges, NEW more, ranges \subseteq more, NEW i, NEW r,
         Holds(ranges, i, r)
  PROVE  Holds(more, i, r)
BY DEF Holds

(* Every record of a range is held by any set of ranges it is in. *)
LEMMA HoldsOwn ==
  ASSUME NEW ranges, NEW start \in Nat, NEW recs \in Seq(Record),
         [start |-> start, recs |-> recs] \in ranges,
         NEW i \in 1 .. Len(recs)
  PROVE  Holds(ranges, start + i, recs[i])
<1> DEFINE range == [start |-> start, recs |-> recs]
<1>1. /\ start + i \in range.start + 1 .. range.start + Len(range.recs)
      /\ range.recs[(start + i) - range.start] = recs[i]
  BY LenProperties
<1> QED
  BY <1>1 DEF Holds

LEMMA InitInv == Init => Inv
<1> SUFFICES ASSUME Init PROVE Inv
  OBVIOUS
<1>1. \A s \in Sources : Len(stored[s]) = 0 /\ Len(ledger[s]) = 0
  BY DEF Init, EmptyLedger
<1>2. \A c \in Collectors : pc[c] = "idle" /\ answer[c] = None
  BY DEF Init
<1>3. LockInv /\ EventInv /\ AnswerInv
  BY <1>2 DEF LockInv, EventInv, AnswerInv
<1>4. StoredInv /\ AckedByWorker
  BY <1>1 DEF StoredInv, AckedByWorker
<1> QED
  BY <1>3, <1>4, InitTypeOK DEF Inv

(* The worker keeps what it accepted, and accepts what it commits. *)
LEMMA WorkerHolds ==
  ASSUME TypeOK, StoredInv, NEW b \in Batch,
         WorkerAccepts(b) \/ WorkerRefuses(b)
  PROVE  /\ \A s \in Sources : accepted[s] \subseteq accepted'[s]
         /\ StoredInv'
         /\ WorkerAccepts(b) =>
              \A i \in 1 .. Len(b.recs) :
                Holds(accepted'[b.src], b.start + i, b.recs[i])
<1>1. b.src \in Sources /\ b.start \in Nat /\ b.recs \in Seq(Record)
  BY DEF Batch
<1>2. \A s \in Sources : accepted[s] \subseteq accepted'[s]
  <2>1. accepted \in [Sources -> SUBSET SourceRange]
    BY DEF TypeOK
  <2>2. CASE WorkerAccepts(b)
    BY <1>1, <2>1, <2>2 DEF WorkerAccepts
  <2>3. CASE WorkerRefuses(b)
    BY <2>3 DEF WorkerRefuses
  <2> QED
    BY <2>2, <2>3
<1>3. ASSUME WorkerAccepts(b)
      PROVE  \A i \in 1 .. Len(b.recs) : Holds(accepted'[b.src], b.start + i, b.recs[i])
  <2>1. [start |-> b.start, recs |-> b.recs] \in accepted'[b.src]
    BY <1>1, <1>3 DEF TypeOK, WorkerAccepts
  <2> QED
    BY <1>1, <2>1, HoldsOwn
<1>4. ASSUME NEW s \in Sources, NEW i \in 1 .. Len(stored'[s])
      PROVE  Holds(accepted'[s], i, stored'[s][i])
  <2>1. CASE stored'[s] = stored[s]
    <3>1. Holds(accepted[s], i, stored[s][i])
      BY <2>1, <1>4 DEF StoredInv, Delivered
    <3> QED
      BY <2>1, <3>1, <1>2, HoldsMore
  <2>2. CASE stored'[s] # stored[s]
    <3>1. /\ WorkerAccepts(b)
          /\ s = b.src
          /\ b.start = Len(stored[s])
          /\ stored'[s] = stored[s] \o b.recs
      <4>1. stored \in [Sources -> Seq(Record)]
        BY DEF TypeOK, Ledger
      <4>2. WorkerAccepts(b)
        BY <2>2 DEF WorkerRefuses
      <4>3. /\ b.start = Len(stored[b.src])
            /\ stored' = [stored EXCEPT ![b.src] = @ \o b.recs]
        BY <2>2, <4>2 DEF WorkerAccepts, Watermark
      <4>4. s = b.src
        BY <1>1, <2>2, <4>1, <4>3
      <4> QED
        BY <1>1, <4>1, <4>2, <4>3, <4>4
    <3>2. stored[s] \in Seq(Record) /\ Len(stored[s]) \in Nat
      BY LenProperties DEF TypeOK, Ledger
    <3>3. CASE i <= Len(stored[s])
      <4>1. i \in 1 .. Len(stored[s]) /\ stored'[s][i] = stored[s][i]
        BY <1>1, <3>1, <3>2, <3>3, ConcatProperties, LenProperties
      <4>2. Holds(accepted[s], i, stored[s][i])
        BY <4>1 DEF StoredInv, Delivered
      <4> QED
        BY <4>1, <4>2, <1>2, HoldsMore
    <3>4. CASE i > Len(stored[s])
      <4> DEFINE j == i - Len(stored[s])
      <4>1. /\ j \in 1 .. Len(b.recs)
            /\ b.start + j = i
            /\ stored'[s][i] = b.recs[j]
        <5>1. Len(b.recs) \in Nat
          BY <1>1, LenProperties
        <5>2. Len(stored'[s]) = Len(stored[s]) + Len(b.recs)
          BY <1>1, <3>1, <3>2, ConcatProperties
        <5>3. i \in 1 .. Len(stored[s]) + Len(b.recs)
          BY <1>4, <5>2
        <5>4. stored'[s][i] = b.recs[j]
          BY <1>1, <3>1, <3>2, <3>4, <5>3, ConcatProperties
        <5>5. j \in 1 .. Len(b.recs) /\ Len(stored[s]) + j = i
          BY <3>2, <3>4, <5>1, <5>3, Past
        <5> QED
          BY <3>1, <5>4, <5>5
      <4> HIDE DEF j
      <4> QED
        BY <4>1, <3>1, <1>3
    <3> QED
      BY <3>2, <3>3, <3>4, LenProperties
  <2> QED
    BY <2>1, <2>2
<1> QED
  BY <1>1, <1>2, <1>3, <1>4 DEF StoredInv, Delivered

(* What is about the worker and the ledger survives a step in which the     *)
(* worker forgets nothing and the ledger does not change.                   *)
LEMMA AckedStays ==
  ASSUME AckedByWorker, ledger' = ledger,
         \A s \in Sources : accepted[s] \subseteq accepted'[s]
  PROVE  AckedByWorker'
BY HoldsMore DEF AckedByWorker, Delivered

LEMMA EnvironmentInv ==
  ASSUME Inv,
         \/ \E s \in Sources, r \in Record : AppendRecord(s, r)
         \/ \E s \in Sources : Truncate(s)
         \/ LoseLedger
  PROVE  Inv'
<1>1. TypeOK'
  BY EnvironmentTypeOK DEF Inv
<1>2. CASE ledger' = ledger
  <2>1. UNCHANGED <<stored, accepted, ledger, lock, pc, mem, event, answer>>
    BY <1>2 DEF Inv, AppendRecord, Truncate, LoseLedger, envVars, procVars
  <2> QED
    BY <1>1, <2>1 DEF Inv, LockInv, EventInv, StoredInv, AnswerInv,
       AckedByWorker, Delivered
<1>3. CASE ledger' # ledger
  <2>1. /\ lock = Free
        /\ ledger' = EmptyLedger
        /\ UNCHANGED <<stored, accepted, lock, pc, mem, event, answer>>
    BY <1>3 DEF AppendRecord, Truncate, LoseLedger, envVars, procVars
  <2>2. LockInv'
    BY <2>1, TraceConstants DEF Inv, LockInv
  <2>3. AckedByWorker'
    BY <2>1 DEF AckedByWorker, EmptyLedger
  <2> QED
    BY <1>1, <2>1, <2>2, <2>3 DEF Inv, EventInv, StoredInv, AnswerInv, Delivered
<1> QED
  BY <1>2, <1>3

(* The range a conflict proves is one the worker committed. *)
LEMMA ProofHolds ==
  ASSUME TypeOK, StoredInv, NEW b \in Batch, NEW from \in ProofStarts(b),
         NEW i \in 1 .. Len(Conflict(b, from).proof)
  PROVE  Delivered(b.src, from + i, Conflict(b, from).proof[i])
<1>1. /\ b.src \in Sources
      /\ stored[b.src] \in Seq(Record)
  BY DEF TypeOK, Ledger, Batch
<1>2. from \in Nat
  BY DEF TypeOK, ProofStarts, Batch
<1>3. Conflict(b, from).proof = SubSeq(stored[b.src], from + 1, Len(stored[b.src]))
  BY DEF Conflict, Watermark
<1> DEFINE held == stored[b.src]
<1>4. i \in 1 .. Len(SubSeq(held, from + 1, Len(held)))
  BY <1>3
<1> HIDE DEF held
<1>5. /\ from + i \in 1 .. Len(held)
      /\ SubSeq(held, from + 1, Len(held))[i] = held[from + i]
  BY <1>1, <1>2, <1>4, TailType DEF held
<1> QED
  BY <1>1, <1>3, <1>5 DEF StoredInv, held

LEMMA WorkerInv ==
  ASSUME Inv,
         \/ \E b \in orphans : WorkerReceivesLate(b)
         \/ \E c \in Collectors : WorkerReceives(c)
  PROVE  Inv'
<1>1. TypeOK'
  BY WorkerTypeOK DEF Inv
<1>2. ASSUME NEW b \in orphans, WorkerReceivesLate(b)
      PROVE  Inv'
  <2>1. b \in Batch
    BY DEF Inv, TypeOK
  <2>2. UNCHANGED <<ledger, lock, pc, mem, event, answer>>
    BY <1>2 DEF WorkerReceivesLate, procVars
  <2>3. /\ \A s \in Sources : accepted[s] \subseteq accepted'[s]
        /\ StoredInv'
    BY <1>2, <2>1, WorkerHolds DEF Inv, WorkerReceivesLate
  <2>4. \A c \in Collectors : answer[c] # None => event[c].src \in Sources
    BY DEF Inv, AnswerInv, TypeOK, Event
  <2>5. AnswerInv'
    BY <2>2, <2>3, <2>4, HoldsMore DEF Inv, AnswerInv, Delivered
  <2> QED
    BY <1>1, <2>2, <2>3, <2>5, AckedStays DEF Inv, LockInv, EventInv
<1>3. ASSUME NEW c \in Collectors, WorkerReceives(c)
      PROVE  Inv'
  <2>0. Request(c) \in Batch
    BY <1>3, RequestType DEF Inv, WorkerReceives
  <2>1. PICK b \in Batch : b = Request(c)
    BY <2>0
  <2>2. UNCHANGED <<ledger, lock, pc, mem, event>>
    BY <1>3 DEF WorkerReceives
  <2>3. /\ \A s \in Sources : accepted[s] \subseteq accepted'[s]
        /\ StoredInv'
        /\ WorkerAccepts(b) =>
              \A i \in 1 .. Len(b.recs) :
                Holds(accepted'[b.src], b.start + i, b.recs[i])
    <3>1. WorkerAccepts(b) \/ WorkerRefuses(b)
      BY <1>3, <2>1 DEF WorkerReceives
    <3> QED
      BY <3>1, WorkerHolds DEF Inv
  <2>4. /\ b.src = event[c].src
        /\ b.start = Len(event[c].base)
        /\ b.recs = event[c].recs
    BY <2>1 DEF Request
  <2>5. ASSUME NEW d \in Collectors
        PROVE  /\ pc[d] # "await" => answer'[d] = None
               /\ (answer'[d] # None /\ answer'[d].kind = "accepted") =>
                    \A i \in 1 .. Len(event[d].recs) :
                      Holds(accepted'[event[d].src], Len(event[d].base) + i,
                            event[d].recs[i])
               /\ (answer'[d] # None /\ answer'[d].kind = "conflict") =>
                    \A i \in 1 .. Len(answer'[d].proof) :
                      Holds(accepted'[event[d].src],
                            answer'[d].proofStart + i, answer'[d].proof[i])
    <3>1. CASE d # c
      <4>1. answer'[d] = answer[d]
        BY <1>3, <3>1 DEF Inv, TypeOK, WorkerReceives
      <4>2. answer[d] # None => event[d].src \in Sources
        BY DEF Inv, AnswerInv, TypeOK, Event
      <4> QED
        BY <4>1, <4>2, <2>3, HoldsMore DEF Inv, AnswerInv, Delivered
    <3>2. CASE d = c /\ WorkerAccepts(b) /\ answer'[c] = [kind |-> "accepted"]
      <4>1. answer'[d].kind # "conflict" /\ pc[d] = "await"
        BY <1>3, <3>2 DEF WorkerReceives
      <4>2. \A i \in 1 .. Len(event[d].recs) :
              Holds(accepted'[event[d].src], Len(event[d].base) + i,
                    event[d].recs[i])
        BY <2>3, <2>4, <3>2
      <4> QED
        BY <4>1, <4>2
    <3>3. CASE /\ d = c
               /\ \E from \in ProofStarts(b) : answer'[c] = Conflict(b, from)
      <4>1. PICK from \in ProofStarts(b) : answer'[c] = Conflict(b, from)
        BY <3>3
      <4>2. \A i \in 1 .. Len(Conflict(b, from).proof) :
              Holds(accepted[b.src], from + i, Conflict(b, from).proof[i])
        BY ProofHolds DEF Inv, Delivered
      <4>3. b.src \in Sources
        BY <2>1 DEF Batch
      <4>4. \A i \in 1 .. Len(Conflict(b, from).proof) :
              Holds(accepted'[b.src], from + i, Conflict(b, from).proof[i])
        BY <4>2, <4>3, <2>3, HoldsMore
      <4>5. /\ answer'[c].kind = "conflict"
            /\ answer'[c].proofStart = from
            /\ pc[c] = "await"
        BY <1>3, <4>1 DEF Conflict, WorkerReceives
      <4> QED
        BY <2>4, <3>3, <4>1, <4>4, <4>5
    <3>4. \/ WorkerAccepts(b) /\ answer'[c] = [kind |-> "accepted"]
          \/ \E from \in ProofStarts(b) : answer'[c] = Conflict(b, from)
      BY <1>3, <2>1 DEF WorkerReceives, Inv, TypeOK
    <3> QED
      BY <3>1, <3>2, <3>3, <3>4
  <2>6. AnswerInv'
    BY <2>2, <2>5 DEF AnswerInv, Delivered
  <2> QED
    BY <1>1, <2>2, <2>3, <2>6, AckedStays DEF Inv, LockInv, EventInv
<1> QED
  BY <1>2, <1>3
(* A step of c before it has an answer: no one else is disturbed. *)
LEMMA LocalStep ==
  ASSUME Inv, TypeOK', NEW c \in Collectors, pc[c] # "await",
         UNCHANGED <<stored, accepted, ledger, answer>>,
         lock' = lock \/ lock = Free,
         \A d \in Collectors \ {c} :
           pc'[d] = pc[d] /\ mem'[d] = mem[d] /\ event'[d] = event[d],
         pc'[c] \in {"select", "read", "await"} => lock' = c /\ mem'[c] = ledger,
         pc'[c] \in {"read", "await"} =>
           event'[c].base \in {<<>>, mem'[c][event'[c].src]}
  PROVE  Inv'
<1>1. LockInv'
  <2> SUFFICES ASSUME NEW d \in Collectors,
                      pc'[d] \in {"select", "read", "await"}
               PROVE  lock' = d /\ mem'[d] = ledger'
    BY DEF LockInv
  <2>1. CASE d = c
    BY <2>1
  <2>2. CASE d # c
    <3>1. lock = d /\ mem[d] = ledger
      BY <2>2 DEF Inv, LockInv
    <3> QED
      BY <2>2, <3>1, TraceConstants
  <2> QED
    BY <2>1, <2>2
<1>2. EventInv'
  BY DEF Inv, EventInv
<1>3. StoredInv' /\ AckedByWorker'
  BY DEF Inv, StoredInv, AckedByWorker, Delivered
<1>4. answer[c] = None
  BY DEF Inv, AnswerInv
<1>5. AnswerInv'
  BY <1>4 DEF Inv, AnswerInv, Delivered
<1> QED
  BY <1>1, <1>2, <1>3, <1>5 DEF Inv

LEMMA RunningInv ==
  ASSUME Inv, NEW c \in Collectors,
         \/ StartCollect(c) \/ AcquireLock(c)
         \/ OpenSource(c) \/ ReadAndPost(c) \/ SkipUnreadable(c)
  PROVE  Inv'
<1>1. TypeOK /\ TypeOK' /\ LockInv /\ EventInv
  BY RunningTypeOK DEF Inv
<1>2. CASE StartCollect(c)
  <2>1. /\ pc[c] = "idle" /\ pc' = [pc EXCEPT ![c] = "wait"]
        /\ UNCHANGED <<stored, accepted, ledger, lock, mem, event, answer>>
    BY <1>2 DEF StartCollect, envVars
  <2>2. pc'[c] = "wait" /\ \A d \in Collectors \ {c} : pc'[d] = pc[d]
    BY <1>1, <2>1 DEF TypeOK
  <2> QED
    BY <1>1, <2>1, <2>2, LocalStep
<1>3. CASE AcquireLock(c)
  <2>1. /\ pc[c] = "wait" /\ pc' = [pc EXCEPT ![c] = "select"]
        /\ lock = Free /\ lock' = c
        /\ mem' = [mem EXCEPT ![c] = ledger]
        /\ UNCHANGED <<stored, accepted, ledger, event, answer>>
    BY <1>3 DEF AcquireLock, envVars
  <2>2. /\ pc'[c] = "select" /\ mem'[c] = ledger
        /\ \A d \in Collectors \ {c} : pc'[d] = pc[d] /\ mem'[d] = mem[d]
    BY <1>1, <2>1 DEF TypeOK
  <2> QED
    BY <1>1, <2>1, <2>2, LocalStep
<1>4. CASE OpenSource(c)
  <2>1. /\ pc[c] = "select"
        /\ UNCHANGED <<stored, accepted, ledger, lock, mem, answer>>
    BY <1>4 DEF OpenSource, envVars
  <2>2. \/ UNCHANGED <<pc, event>>
        \/ \E e :
             /\ e.base \in {<<>>, mem[c][e.src]}
             /\ pc' = [pc EXCEPT ![c] = "read"]
             /\ event' = [event EXCEPT ![c] = e]
    BY <1>1, <1>4 DEF OpenSource, TypeOK
  <2>3. CASE UNCHANGED <<pc, event>>
    BY <1>1, <2>1, <2>3, LocalStep DEF LockInv
  <2>4. CASE \E e :
               /\ e.base \in {<<>>, mem[c][e.src]}
               /\ pc' = [pc EXCEPT ![c] = "read"]
               /\ event' = [event EXCEPT ![c] = e]
    <3>1. /\ pc'[c] = "read"
          /\ event'[c].base \in {<<>>, mem[c][event'[c].src]}
          /\ \A d \in Collectors \ {c} : pc'[d] = pc[d] /\ event'[d] = event[d]
      BY <1>1, <2>4 DEF TypeOK
    <3>2. lock = c /\ mem[c] = ledger
      BY <1>1, <2>1 DEF LockInv
    <3> QED
      BY <1>1, <2>1, <3>1, <3>2, LocalStep
  <2> QED
    BY <2>2, <2>3, <2>4
<1>5. CASE ReadAndPost(c)
  <2>1. /\ pc[c] = "read"
        /\ UNCHANGED <<stored, accepted, ledger, lock, mem, answer>>
    BY <1>5 DEF ReadAndPost, envVars
  <2>2. event[c] \in Event
    BY <1>1, <2>1 DEF TypeOK
  <2>3. \E step \in {"select", "await"} : \E e :
          /\ step = "await" => e.src = event[c].src /\ e.base = event[c].base
          /\ pc' = [pc EXCEPT ![c] = step]
          /\ event' = [event EXCEPT ![c] = e]
    <3>1. \/ /\ pc' = [pc EXCEPT ![c] = "select"]
             /\ event' = [event EXCEPT ![c] = None]
          \/ \E recs :
               /\ pc' = [pc EXCEPT ![c] = "await"]
               /\ event' = [event EXCEPT ![c] =
                    [event[c] EXCEPT !.snapshot = <<>>, !.recs = recs]]
      BY <1>5 DEF ReadAndPost
    <3>2. ASSUME NEW recs
          PROVE  LET e == [event[c] EXCEPT !.snapshot = <<>>, !.recs = recs]
                 IN e.src = event[c].src /\ e.base = event[c].base
      BY <2>2 DEF Event
    <3> QED
      BY <3>1, <3>2
  <2>4. /\ pc'[c] \in {"select", "await"}
        /\ pc'[c] = "await" => event'[c].base = event[c].base
                               /\ event'[c].src = event[c].src
        /\ \A d \in Collectors \ {c} : pc'[d] = pc[d] /\ event'[d] = event[d]
    BY <1>1, <2>3 DEF TypeOK
  <2>5. lock = c /\ mem[c] = ledger
    BY <1>1, <2>1 DEF LockInv
  <2>6. event[c].base \in {<<>>, mem[c][event[c].src]}
    BY <1>1, <2>1 DEF EventInv
  <2> QED
    BY <1>1, <2>1, <2>4, <2>5, <2>6, LocalStep
<1>6. CASE SkipUnreadable(c)
  <2>1. /\ pc[c] = "select"
        /\ UNCHANGED <<stored, accepted, ledger, lock, pc, mem, event, answer>>
    BY <1>6 DEF SkipUnreadable, envVars
  <2> QED
    BY <1>1, <2>1, LocalStep DEF LockInv
<1> QED
  BY <1>2, <1>3, <1>4, <1>5, <1>6

(* Only the holder of the lock writes the ledger, and then lets go of it. *)
LEMMA LeaveStep ==
  ASSUME Inv, TypeOK', NEW c \in Collectors,
         Finish(c) \/ NextPhase(c) \/ NextRequest(c),
         UNCHANGED <<stored, accepted>>,
         ledger' = ledger \/ pc[c] \in {"select", "await"},
         AckedByWorker'
  PROVE  Inv'
<1>1. /\ EndRequest(c)
      /\ \E step \in {"idle", "wait"} : pc' = [pc EXCEPT ![c] = step]
  BY LeaveTypes DEF Inv
<1>2. /\ pc'[c] \in {"idle", "wait"}
      /\ answer'[c] = None
      /\ \A d \in Collectors \ {c} :
           /\ pc'[d] = pc[d] /\ mem'[d] = mem[d]
           /\ event'[d] = event[d] /\ answer'[d] = answer[d]
  BY <1>1 DEF Inv, TypeOK, EndRequest
<1>3. LockInv'
  <2> SUFFICES ASSUME NEW d \in Collectors,
                      pc'[d] \in {"select", "read", "await"}
               PROVE  lock' = d /\ mem'[d] = ledger'
    BY DEF LockInv
  <2>1. d # c
    BY <1>2
  <2>2. lock = d /\ mem[d] = ledger
    BY <1>2, <2>1 DEF Inv, LockInv
  <2>3. ledger' = ledger
    BY <2>1, <2>2 DEF Inv, LockInv
  <2>4. lock' = lock
    BY <1>1, <2>1, <2>2 DEF EndRequest, ReleaseLock
  <2> QED
    BY <1>2, <2>1, <2>2, <2>3, <2>4
<1>4. EventInv'
  BY <1>2 DEF Inv, EventInv
<1>5. StoredInv'
  BY DEF Inv, StoredInv, Delivered
<1>6. AnswerInv'
  BY <1>2 DEF Inv, AnswerInv, Delivered
<1> QED
  BY <1>3, <1>4, <1>5, <1>6 DEF Inv

(* Persisting the first n records of an event, all of them accepted. *)
LEMMA PersistAcked ==
  ASSUME Inv, NEW c \in Collectors, pc[c] = "await",
         NEW n \in Int, n <= Len(event[c].recs), Persist(c, n),
         UNCHANGED accepted,
         \A i \in 1 .. n :
           Delivered(event[c].src, Len(event[c].base) + i, event[c].recs[i])
  PROVE  AckedByWorker'
<1> DEFINE base == event[c].base
           recs == event[c].recs
           kept == SubSeq(recs, 1, n)
<1>1. event[c] \in Event
  BY DEF Inv, TypeOK
<1>2. /\ base \in Seq(Record) /\ Len(base) \in Nat
      /\ recs \in Seq(Record)
  BY <1>1, LenProperties DEF Event
<1>3. /\ kept \in Seq(Record)
      /\ Len(kept) = IF 1 <= n THEN n ELSE 0
      /\ \A i \in 1 .. Len(kept) : kept[i] = recs[i]
  BY <1>2, PrefixType
<1>4. mem[c] = ledger /\ ledger \in [Sources -> Seq(Record)]
  BY DEF Inv, TypeOK, LockInv, Ledger
<1>5. ledger' = [ledger EXCEPT ![event[c].src] = base \o kept]
  BY <1>4 DEF Persist
<1>6. base \in {<<>>, ledger[event[c].src]}
  BY <1>4 DEF Inv, EventInv
<1>7. event[c].src \in Sources
  BY <1>1 DEF Event
<1> SUFFICES ASSUME NEW s \in Sources, NEW i \in 1 .. Len(ledger'[s])
             PROVE  Delivered(s, i, ledger'[s][i])
  BY DEF AckedByWorker, Delivered
<1>8. CASE s # event[c].src
  BY <1>4, <1>5, <1>8 DEF Inv, AckedByWorker
<1>9. CASE s = event[c].src
  <2>1. ledger'[s] = base \o kept
    BY <1>4, <1>5, <1>7, <1>9
  <2>2. \A j \in 1 .. n : Delivered(s, Len(base) + j, recs[j])
    BY <1>9
  <2> HIDE DEF kept, base, recs
  <2>3. Len(kept) \in Nat
    BY <1>3, LenProperties
  <2>4. i \in 1 .. Len(base) + Len(kept)
    BY <1>2, <1>3, <2>1, ConcatProperties
  <2>5. CASE i <= Len(base)
    <3>1. i \in 1 .. Len(base)
      BY <1>2, <2>4, <2>5
    <3>2. ledger'[s][i] = base[i]
      BY <1>2, <1>3, <2>1, <3>1, ConcatProperties
    <3>3. base # <<>>
      BY <3>1
    <3>4. base = ledger[s]
      BY <1>6, <1>9, <3>3
    <3> QED
      BY <3>1, <3>2, <3>4 DEF Inv, AckedByWorker
  <2>6. CASE i > Len(base)
    <3>1. /\ i - Len(base) \in 1 .. Len(kept)
          /\ Len(base) + (i - Len(base)) = i
      BY <1>2, <2>3, <2>4, <2>6, Past
    <3>2. ledger'[s][i] = kept[i - Len(base)]
      BY <1>2, <1>3, <2>1, <2>4, <2>6, ConcatProperties
    <3>3. ledger'[s][i] = recs[i - Len(base)]
      BY <1>3, <3>1, <3>2
    <3>4. i - Len(base) \in 1 .. n
      BY <1>3, <3>1
    <3> QED
      BY <2>2, <3>1, <3>3, <3>4
  <2> QED
    BY <1>2, <2>4, <2>5, <2>6
<1> QED
  BY <1>8, <1>9

LEMMA LeavingInv ==
  ASSUME Inv, NEW c \in Collectors,
         \/ SkipPhase(c) \/ NothingPending(c) \/ Acknowledge(c)
         \/ Reconcile(c) \/ RefuseConflict(c)
         \/ RequestFails(c) \/ Crash(c) \/ DeadlineExceeded(c)
  PROVE  Inv'
<1>1. TypeOK'
  BY LeavingTypeOK DEF Inv
<1>2. UNCHANGED <<stored, accepted>>
  BY DEF SkipPhase, NothingPending, Acknowledge, Reconcile, RefuseConflict,
     RequestFails, Crash, DeadlineExceeded, AbandonRequest, envVars
<1>3. Finish(c) \/ NextPhase(c) \/ NextRequest(c)
  BY DEF SkipPhase, NothingPending, Acknowledge, Reconcile, RefuseConflict,
     RequestFails, Crash, DeadlineExceeded
<1>4. CASE ledger' = ledger
  <2>1. AckedByWorker'
    BY <1>2, <1>4, AckedStays DEF Inv
  <2> QED
    BY <1>1, <1>2, <1>3, <1>4, <2>1, LeaveStep
<1>5. CASE NothingPending(c)
  <2>1. mem[c] = ledger
    BY <1>5 DEF NothingPending, Inv, LockInv
  <2> QED
    BY <1>4, <1>5, <2>1 DEF NothingPending
<1>6. CASE Acknowledge(c)
  <2> DEFINE n == Len(event[c].recs)
  <2>1. pc[c] = "await" /\ Persist(c, n)
    BY <1>6 DEF Acknowledge
  <2>2. n \in Int
    BY <2>1, LenProperties DEF Inv, TypeOK, Event
  <2>3. \A i \in 1 .. n :
          Delivered(event[c].src, Len(event[c].base) + i, event[c].recs[i])
    BY <1>6 DEF Acknowledge, Inv, AnswerInv
  <2>4. n <= Len(event[c].recs)
    BY <2>2
  <2> HIDE DEF n
  <2>5. AckedByWorker'
    BY <1>2, <2>1, <2>2, <2>3, <2>4, PersistAcked
  <2> QED
    BY <1>1, <1>2, <1>3, <2>1, <2>5, LeaveStep
<1>7. CASE Reconcile(c)
  <2> DEFINE a == answer[c]
             start == Len(event[c].base)
             n == a.watermark - start
  <2>1. /\ pc[c] = "await" /\ Persist(c, n)
        /\ a # None /\ a.kind = "conflict"
    BY <1>7 DEF Reconcile
  <2>2. /\ a.proofStart = start
        /\ a.watermark < start + Len(event[c].recs)
        /\ SubSeq(event[c].recs, 1, n) = a.proof
    BY <1>7 DEF Reconcile, Reconcilable
  <2>3. event[c] \in Event
    BY <2>1 DEF Inv, TypeOK
  <2>4. /\ start \in Nat /\ Len(event[c].recs) \in Nat
        /\ event[c].recs \in Seq(Record)
    BY <2>3, LenProperties DEF Event
  <2>5. a.watermark \in Nat
    BY <2>1 DEF Inv, TypeOK, Answer
  <2>6. n \in Int /\ n <= Len(event[c].recs)
    BY <2>2, <2>4, <2>5, Interior
  <2>7. \A i \in 1 .. Len(a.proof) :
          Delivered(event[c].src, start + i, a.proof[i])
    BY <2>1, <2>2 DEF Inv, AnswerInv
  <2> HIDE DEF n, start, a
  <2>8. \A i \in 1 .. n : i \in 1 .. Len(a.proof) /\ a.proof[i] = event[c].recs[i]
    BY <2>2, <2>4, <2>6, PrefixType
  <2>9. \A i \in 1 .. n : Delivered(event[c].src, start + i, event[c].recs[i])
    BY <2>7, <2>8
  <2>10. AckedByWorker'
    BY <1>2, <2>1, <2>6, <2>9, PersistAcked DEF start
  <2> QED
    BY <1>1, <1>2, <1>3, <2>1, <2>10, LeaveStep
<1> QED
  BY <1>4, <1>5, <1>6, <1>7
  DEF SkipPhase, RefuseConflict, RequestFails, Crash, DeadlineExceeded

LEMMA NextInv == Inv /\ [Next]_vars => Inv'
<1> SUFFICES ASSUME Inv, [Next]_vars PROVE Inv'
  OBVIOUS
<1>1. CASE UNCHANGED vars
  BY <1>1, NextTypeOK DEF vars, envVars, procVars, Inv, LockInv, EventInv,
     StoredInv, AnswerInv, AckedByWorker, Delivered
<1>2. CASE Next
  BY <1>2, EnvironmentInv, WorkerInv, RunningInv, LeavingInv
  DEF Next, CollectorStep, Fault
<1> QED
  BY <1>1, <1>2

(* The ledger counts a record only after the worker accepted that content   *)
(* at that place: for any number of collectors, files of any length, and    *)
(* any rewinds, crashes, lost responses, late requests and conflicts.       *)
THEOREM LedgerAcked == Spec => []AckedByWorker
<1>1. Inv => AckedByWorker
  BY DEF Inv
<1> QED
  BY <1>1, InitInv, NextInv, PTL DEF Spec

-----------------------------------------------------------------------------
(* The ledger goes forward                                                  *)

(* What an event begins with is all of the ledger's, or the event starts    *)
(* the source over.                                                         *)
ResetInv ==
  \A c \in Collectors :
    pc[c] \in {"read", "await"} =>
      event[c].reset \/ event[c].base = mem[c][event[c].src]

(* A step of c alone that leaves c with such an event, or with none. *)
LEMMA ResetLocal ==
  ASSUME ResetInv, NEW c \in Collectors,
         \A d \in Collectors \ {c} :
           pc'[d] = pc[d] /\ mem'[d] = mem[d] /\ event'[d] = event[d],
         pc'[c] \in {"read", "await"} =>
           event'[c].reset \/ event'[c].base = mem'[c][event'[c].src]
  PROVE  ResetInv'
BY DEF ResetInv

LEMMA RunningReset ==
  ASSUME TypeOK, ResetInv, NEW c \in Collectors,
         \/ StartCollect(c) \/ AcquireLock(c)
         \/ OpenSource(c) \/ ReadAndPost(c) \/ SkipUnreadable(c)
  PROVE  ResetInv'
<1>1. CASE StartCollect(c) \/ AcquireLock(c)
  <2>1. /\ pc'[c] \notin {"read", "await"}
        /\ \A d \in Collectors \ {c} :
             pc'[d] = pc[d] /\ mem'[d] = mem[d] /\ event'[d] = event[d]
    BY <1>1 DEF StartCollect, AcquireLock, TypeOK
  <2> QED
    BY <2>1, ResetLocal
<1>2. CASE OpenSource(c)
  <2>1. pc[c] = "select" /\ mem' = mem
    BY <1>2 DEF OpenSource, envVars
  <2>2. \/ UNCHANGED <<pc, event>>
        \/ \E e :
             /\ e.reset \/ e.base = mem[c][e.src]
             /\ pc' = [pc EXCEPT ![c] = "read"]
             /\ event' = [event EXCEPT ![c] = e]
    <3> DEFINE intact(s) == IsPrefix(mem[c][s], file[s])
               base(s) == IF intact(s) THEN mem[c][s] ELSE <<>>
               opened(s) == [src |-> s, base |-> base(s), snapshot |-> file[s],
                             recs |-> <<>>, reset |-> ~intact(s)]
    <3>1. PICK s \in todo[c] :
            \/ UNCHANGED <<pc, event>>
            \/ /\ pc' = [pc EXCEPT ![c] = "read"]
               /\ event' = [event EXCEPT ![c] = opened(s)]
      BY <1>2 DEF OpenSource
    <3>2. opened(s).reset \/ opened(s).base = mem[c][opened(s).src]
      BY DEF IsPrefix
    <3> HIDE DEF opened
    <3> QED
      BY <3>1, <3>2
  <2>3. CASE UNCHANGED <<pc, event>>
    BY <2>1, <2>3 DEF ResetInv
  <2>4. CASE \E e :
               /\ e.reset \/ e.base = mem[c][e.src]
               /\ pc' = [pc EXCEPT ![c] = "read"]
               /\ event' = [event EXCEPT ![c] = e]
    <3>1. /\ event'[c].reset \/ event'[c].base = mem'[c][event'[c].src]
          /\ \A d \in Collectors \ {c} :
               pc'[d] = pc[d] /\ mem'[d] = mem[d] /\ event'[d] = event[d]
      BY <2>1, <2>4 DEF TypeOK
    <3> QED
      BY <3>1, ResetLocal
  <2> QED
    BY <2>2, <2>3, <2>4
<1>3. CASE ReadAndPost(c)
  <2>1. pc[c] = "read" /\ mem' = mem
    BY <1>3 DEF ReadAndPost, envVars
  <2>2. event[c] \in Event
    BY <2>1 DEF TypeOK
  <2>3. \/ /\ pc' = [pc EXCEPT ![c] = "select"]
           /\ event' = [event EXCEPT ![c] = None]
        \/ \E recs :
             /\ pc' = [pc EXCEPT ![c] = "await"]
             /\ event' = [event EXCEPT ![c] =
                  [event[c] EXCEPT !.snapshot = <<>>, !.recs = recs]]
    BY <1>3 DEF ReadAndPost
  <2>4. ASSUME NEW recs
        PROVE  LET e == [event[c] EXCEPT !.snapshot = <<>>, !.recs = recs]
               IN e.src = event[c].src /\ e.base = event[c].base /\ e.reset = event[c].reset
    BY <2>2 DEF Event
  <2>5. event[c].reset \/ event[c].base = mem[c][event[c].src]
    BY <2>1 DEF ResetInv
  <2>6. /\ pc'[c] \in {"select", "await"}
        /\ \A d \in Collectors \ {c} :
             pc'[d] = pc[d] /\ mem'[d] = mem[d] /\ event'[d] = event[d]
    BY <2>1, <2>3 DEF TypeOK
  <2>7. ASSUME pc'[c] = "await"
        PROVE  event'[c].reset \/ event'[c].base = mem'[c][event'[c].src]
    <3>1. PICK recs : event' = [event EXCEPT ![c] =
                        [event[c] EXCEPT !.snapshot = <<>>, !.recs = recs]]
      BY <2>3, <2>7 DEF TypeOK
    <3>2. event'[c] = [event[c] EXCEPT !.snapshot = <<>>, !.recs = recs]
      BY <3>1 DEF TypeOK
    <3>3. /\ event'[c].src = event[c].src /\ event'[c].base = event[c].base
          /\ event'[c].reset = event[c].reset
      BY <2>4, <3>2
    <3> QED
      BY <2>1, <2>5, <3>3
  <2> QED
    BY <2>6, <2>7, ResetLocal
<1>4. CASE SkipUnreadable(c)
  BY <1>4 DEF SkipUnreadable, ResetInv
<1> QED
  BY <1>1, <1>2, <1>3, <1>4

LEMMA LeavingReset ==
  ASSUME TypeOK, ResetInv, NEW c \in Collectors,
         Finish(c) \/ NextPhase(c) \/ NextRequest(c)
  PROVE  ResetInv'
<1>1. /\ EndRequest(c)
      /\ \E step \in {"idle", "wait"} : pc' = [pc EXCEPT ![c] = step]
  BY LeaveTypes
<1>2. /\ pc'[c] \in {"idle", "wait"}
      /\ \A d \in Collectors \ {c} :
           pc'[d] = pc[d] /\ mem'[d] = mem[d] /\ event'[d] = event[d]
  BY <1>1 DEF TypeOK, EndRequest
<1> QED
  BY <1>2, ResetLocal

LEMMA NextReset == TypeOK /\ ResetInv /\ [Next]_vars => ResetInv'
<1> SUFFICES ASSUME TypeOK, ResetInv, [Next]_vars PROVE ResetInv'
  OBVIOUS
<1>1. CASE UNCHANGED <<pc, mem, event>>
  BY <1>1 DEF ResetInv
<1>2. CASE UNCHANGED vars
  BY <1>1, <1>2 DEF vars, procVars
<1>3. ASSUME NEW s \in Sources, NEW r \in Record, AppendRecord(s, r)
      PROVE  ResetInv'
  BY <1>1, <1>3 DEF AppendRecord, procVars
<1>4. ASSUME NEW s \in Sources, Truncate(s)
      PROVE  ResetInv'
  BY <1>1, <1>4 DEF Truncate, procVars
<1>5. CASE LoseLedger
  BY <1>1, <1>5 DEF LoseLedger, procVars
<1>6. ASSUME NEW b \in orphans, WorkerReceivesLate(b)
      PROVE  ResetInv'
  BY <1>1, <1>6 DEF WorkerReceivesLate, procVars
<1>7. ASSUME NEW c \in Collectors, WorkerReceives(c)
      PROVE  ResetInv'
  BY <1>1, <1>7 DEF WorkerReceives
<1>8. ASSUME NEW c \in Collectors, CollectorStep(c) \/ Fault(c)
      PROVE  ResetInv'
  <2>1. \/ StartCollect(c) \/ AcquireLock(c)
        \/ OpenSource(c) \/ ReadAndPost(c) \/ SkipUnreadable(c)
        \/ Finish(c) \/ NextPhase(c) \/ NextRequest(c)
    BY <1>8 DEF CollectorStep, Fault, SkipPhase, NothingPending, Acknowledge, Reconcile,
       RefuseConflict, RequestFails, Crash, DeadlineExceeded
  <2> QED
    BY <2>1, RunningReset, LeavingReset
<1> QED
  BY <1>2, <1>3, <1>4, <1>5, <1>6, <1>7, <1>8 DEF Next

(* A sequence is a start of itself, and of itself with more behind it. *)
LEMMA StartOfLonger ==
  ASSUME NEW S, NEW q \in Seq(S), NEW more \in Seq(S)
  PROVE  IsPrefix(q, q) /\ IsPrefix(q, q \o more)
<1>1. /\ Len(q) \in Nat /\ Len(q \o more) = Len(q) + Len(more)
      /\ q \o more \in Seq(S) /\ Len(more) \in Nat
      /\ \A i \in 1 .. Len(q) : (q \o more)[i] = q[i]
  BY LenProperties, ConcatProperties
<1>2. Len(q) <= Len(q \o more)
  BY <1>1
<1> DEFINE u == SubSeq(q, 1, Len(q))
           v == SubSeq(q \o more, 1, Len(q))
<1>3. /\ u \in Seq(S) /\ Len(u) = Len(q)
      /\ \A i \in 1 .. Len(u) : u[i] = q[i]
  BY <1>1, PrefixType
<1> HIDE DEF u
<1> DEFINE w == q \o more
<1>4. w \in Seq(S) /\ Len(q) \in Int /\ Len(q) <= Len(w)
  BY <1>1, <1>2
<1>5. /\ v \in Seq(S) /\ Len(v) = Len(q)
      /\ \A i \in 1 .. Len(v) : v[i] = q[i]
  <2> HIDE DEF w
  <2>1. /\ SubSeq(w, 1, Len(q)) \in Seq(S)
        /\ Len(SubSeq(w, 1, Len(q))) = IF 1 <= Len(q) THEN Len(q) ELSE 0
        /\ \A i \in 1 .. Len(SubSeq(w, 1, Len(q))) : SubSeq(w, 1, Len(q))[i] = w[i]
    BY <1>4, PrefixType
  <2> QED
    BY <1>1, <2>1 DEF w
<1> HIDE DEF v
<1>6. u = v
  BY <1>3, <1>5, SeqEqual
<1> QED
  BY <1>1, <1>2, <1>6 DEF IsPrefix, u, v

(* Persisting a part of an event that does not start over goes forward. *)
LEMMA PersistForward ==
  ASSUME Inv, ResetInv, NEW c \in Collectors, pc[c] = "await",
         NEW n \in Int, n <= Len(event[c].recs), Persist(c, n), NEW s \in Sources
  PROVE  \/ IsPrefix(ledger[s], ledger'[s])
         \/ event[c].src = s /\ event[c].reset
<1>1. event[c] \in Event
  BY DEF Inv, TypeOK, Event
<1>2. mem[c] = ledger /\ ledger \in [Sources -> Seq(Record)]
  BY DEF Inv, TypeOK, LockInv, Ledger
<1>3. /\ event[c].src \in Sources /\ event[c].recs \in Seq(Record)
      /\ event[c].base \in Seq(Record)
  BY <1>1 DEF Event
<1>4. SubSeq(event[c].recs, 1, n) \in Seq(Record)
  BY <1>3, PrefixType
<1>5. ledger' = [ledger EXCEPT ![event[c].src] =
                   event[c].base \o SubSeq(event[c].recs, 1, n)]
  BY <1>2 DEF Persist
<1>6. CASE s # event[c].src
  BY <1>2, <1>5, <1>6, StartOfLonger
<1>7. CASE s = event[c].src /\ ~event[c].reset
  <2>1. event[c].base = ledger[s]
    BY <1>2, <1>7 DEF ResetInv
  <2>2. ledger'[s] = ledger[s] \o SubSeq(event[c].recs, 1, n)
    BY <1>2, <1>5, <1>7, <2>1
  <2> QED
    BY <1>2, <1>4, <2>2, StartOfLonger
<1> QED
  BY <1>6, <1>7

(* The acknowledged prefix of a source is only ever extended, unless its     *)
(* collector saw the transcript rewound or replaced, or the ledger is lost:  *)
(* however many collectors run, late answers and conflicts never take back   *)
(* what another one recorded.                                                *)
THEOREM LedgerGoesForward == Spec => ForwardOnly
<1>1. Init => ResetInv
  BY DEF Init, ResetInv
<1>2. Spec => [](Inv /\ ResetInv)
  <2>1. Inv /\ ResetInv /\ [Next]_vars => (Inv /\ ResetInv)'
    BY NextInv, NextReset DEF Inv
  <2> QED
    BY <1>1, <2>1, InitInv, PTL DEF Spec
<1> DEFINE Forward(s) ==
             \/ IsPrefix(ledger[s], ledger'[s])
             \/ ledger' = EmptyLedger
             \/ \E c \in Collectors :
                  pc[c] = "await" /\ event[c].src = s /\ event[c].reset
           Step == \A s \in Sources : Forward(s)
<1>3. Inv /\ ResetInv /\ [Next]_vars => [Step]_vars
  <2> SUFFICES ASSUME Inv, ResetInv, Next, NEW s \in Sources PROVE Forward(s)
    OBVIOUS
  <2>1. ledger \in [Sources -> Seq(Record)]
    BY DEF Inv, TypeOK, Ledger
  <2>2. CASE ledger' = ledger
    BY <2>1, <2>2, StartOfLonger
  <2>3. CASE LoseLedger
    BY <2>3 DEF LoseLedger
  <2>4. ASSUME NEW c \in Collectors, NothingPending(c)
        PROVE  Forward(s)
    <3>1. ledger' = ledger
      BY <2>4 DEF NothingPending, Inv, LockInv
    <3> QED
      BY <2>2, <3>1
  <2>5. ASSUME NEW c \in Collectors, Acknowledge(c)
        PROVE  Forward(s)
    <3>1. pc[c] = "await" /\ Persist(c, Len(event[c].recs))
      BY <2>5 DEF Acknowledge
    <3>2. Len(event[c].recs) \in Int
      BY <3>1, LenProperties DEF Inv, TypeOK, Event
    <3> QED
      BY <3>1, <3>2, PersistForward
  <2>6. ASSUME NEW c \in Collectors, Reconcile(c)
        PROVE  Forward(s)
    <3> DEFINE start == Len(event[c].base)
               n == answer[c].watermark - start
    <3>1. /\ pc[c] = "await" /\ Persist(c, n)
          /\ answer[c] # None /\ answer[c].kind = "conflict"
          /\ answer[c].watermark < start + Len(event[c].recs)
      BY <2>6 DEF Reconcile, Reconcilable
    <3>2. start \in Nat /\ Len(event[c].recs) \in Nat
      BY <3>1, LenProperties DEF Inv, TypeOK, Event
    <3>3. answer[c].watermark \in Nat
      BY <3>1 DEF Inv, TypeOK, Answer
    <3>4. n \in Int /\ n <= Len(event[c].recs)
      BY <3>1, <3>2, <3>3, Interior
    <3> HIDE DEF n, start
    <3> QED
      BY <3>1, <3>4, PersistForward
  <2>7. ASSUME NEW c \in Collectors, CollectorStep(c) \/ Fault(c)
        PROVE  Forward(s)
    <3>1. ledger' = ledger \/ NothingPending(c) \/ Acknowledge(c) \/ Reconcile(c)
      BY <2>7 DEF CollectorStep, Fault, StartCollect, SkipPhase, AcquireLock, OpenSource,
         ReadAndPost, RefuseConflict, SkipUnreadable, RequestFails, Crash, DeadlineExceeded
    <3> QED
      BY <2>2, <2>4, <2>5, <2>6, <2>7, <3>1
  <2>8. ASSUME NEW c \in Collectors, WorkerReceives(c)
        PROVE  Forward(s)
    BY <2>2, <2>8 DEF WorkerReceives
  <2>9. \/ \E t \in Sources, r \in Record : AppendRecord(t, r)
        \/ \E t \in Sources : Truncate(t)
        \/ \E b \in orphans : WorkerReceivesLate(b)
        => ledger' = ledger
    BY DEF AppendRecord, Truncate, WorkerReceivesLate
  <2> QED
    BY <2>2, <2>3, <2>7, <2>8, <2>9 DEF Next
<1>4. Spec => [][Step]_vars
  BY <1>2, <1>3, PTL DEF Spec
<1> QED
  BY <1>4 DEF ForwardOnly

-----------------------------------------------------------------------------
(***************************************************************************)
(* TraceUpload implements TraceDelivery, and no collection fails on a      *)
(* sequence conflict, for any number of sources, collectors, faults and    *)
(* late requests, as long as transcripts are only appended to and the      *)
(* ledger file is not lost.                                                *)
(*                                                                         *)
(* Then everything that travels (a snapshot, a request, a late request,    *)
(* what the worker stored and what the ledger counts) is a piece of the    *)
(* transcript at a known place, and stays one as the transcript grows      *)
(* (PiecesInv).  A collector therefore never finds a reason to start over, *)
(* the worker appends only the next records, and an answer lets the ledger *)
(* count only what the worker stores (AnswerBound).                        *)
(*                                                                         *)
(* For conflicts, CInv says how far anyone is ahead of anyone else: what   *)
(* the worker has beyond the ledger is one range that starts where the     *)
(* ledger ends, late requests start no later, and a request reaches as far *)
(* as any of them, because it takes all it may of a longer transcript.     *)
(* So a refused request always has its first records stored, and an answer *)
(* is still true when it is handled.                                       *)
(***************************************************************************)
AppendOnly == MaxTruncations = 0 /\ MaxLosses = 0

(* recs are the records of f after the first n of them. *)
Piece(f, n, recs) ==
  /\ n + Len(recs) <= Len(f)
  /\ \A i \in 1 .. Len(recs) : recs[i] = f[n + i]

FilesInv ==
  \A s \in Sources :
    /\ Piece(file[s], 0, stored[s])
    /\ Piece(file[s], 0, ledger[s]) /\ Len(ledger[s]) <= Len(stored[s])

OrphansInv == \A b \in orphans : Piece(file[b.src], b.start, b.recs)

(* An event starts where the ledger ends, with a snapshot or a request that *)
(* is a piece of the transcript.                                            *)
EventIs(e, step, m, f) ==
  /\ e.base = m[e.src]
  /\ step = "read" => Piece(f[e.src], 0, e.snapshot)
  /\ step = "await" => Piece(f[e.src], Len(e.base), e.recs)

EventsInv ==
  \A c \in Collectors :
    pc[c] \in {"read", "await"} => EventIs(event[c], pc[c], mem[c], file)

PiecesInv == FilesInv /\ OrphansInv /\ EventsInv

(* An answer is about records that the worker has. *)
Bound(a, e, held) ==
  /\ a.kind = "accepted" => Len(e.base) + Len(e.recs) <= Len(held[e.src])
  /\ a.kind = "conflict" => a.watermark <= Len(held[e.src])

AnswerBound ==
  \A c \in Collectors : answer[c] # None => Bound(answer[c], event[c], stored)

DInv == Inv /\ PiecesInv /\ AnswerBound

-----------------------------------------------------------------------------
(* Pieces *)

LEMMA PieceGrows ==
  ASSUME NEW S, NEW f \in Seq(S), NEW g \in Seq(S), Piece(g, 0, f),
         NEW n \in Nat, NEW recs \in Seq(S), Piece(f, n, recs)
  PROVE  Piece(g, n, recs)
<1>1. /\ Len(f) \in Nat /\ Len(g) \in Nat /\ Len(recs) \in Nat
      /\ Len(f) <= Len(g) /\ \A i \in 1 .. Len(f) : f[i] = g[0 + i]
      /\ n + Len(recs) <= Len(f) /\ \A i \in 1 .. Len(recs) : recs[i] = f[n + i]
  BY LenProperties DEF Piece
<1>2. ASSUME NEW i \in 1 .. Len(recs)
      PROVE  recs[i] = g[n + i]
  <2>1. n + i \in 1 .. Len(f) /\ 0 + (n + i) = n + i
    BY <1>1
  <2> QED
    BY <1>1, <2>1
<1>3. n + Len(recs) <= Len(g)
  BY <1>1
<1> QED
  BY <1>2, <1>3 DEF Piece

LEMMA PieceSelf ==
  ASSUME NEW S, NEW f \in Seq(S)
  PROVE  Piece(f, 0, f)
BY LenProperties DEF Piece

LEMMA PieceAppend ==
  ASSUME NEW S, NEW f \in Seq(S), NEW r \in S
  PROVE  Append(f, r) \in Seq(S) /\ Piece(Append(f, r), 0, f)
BY AppendProperties, LenProperties DEF Piece

(* The records at the end of a piece from the beginning make it longer. *)
LEMMA PieceConcat ==
  ASSUME NEW S, NEW f \in Seq(S), NEW p \in Seq(S), NEW recs \in Seq(S),
         Piece(f, 0, p), Piece(f, Len(p), recs)
  PROVE  /\ p \o recs \in Seq(S) /\ Len(p \o recs) = Len(p) + Len(recs)
         /\ Piece(f, 0, p \o recs) /\ Piece(p \o recs, 0, p)
<1>1. /\ Len(p) \in Nat /\ Len(recs) \in Nat /\ Len(f) \in Nat
      /\ p \o recs \in Seq(S) /\ Len(p \o recs) = Len(p) + Len(recs)
      /\ \A i \in 1 .. Len(p) + Len(recs) :
           (p \o recs)[i] = IF i <= Len(p) THEN p[i] ELSE recs[i - Len(p)]
  BY LenProperties, ConcatProperties
<1>2. /\ Len(p) + Len(recs) <= Len(f)
      /\ \A i \in 1 .. Len(p) : p[i] = f[0 + i]
      /\ \A i \in 1 .. Len(recs) : recs[i] = f[Len(p) + i]
  BY DEF Piece
<1> DEFINE q == p \o recs
<1> HIDE DEF q
<1>3. Piece(q, 0, p)
  BY <1>1 DEF Piece, q
<1>4. ASSUME NEW i \in 1 .. Len(q)
      PROVE  q[i] = f[0 + i]
  <2>1. i \in 1 .. Len(p) + Len(recs) /\ 0 + i = i
    BY <1>1 DEF q
  <2>2. CASE i <= Len(p)
    <3>1. i \in 1 .. Len(p) /\ q[i] = p[i]
      BY <1>1, <2>1, <2>2 DEF q
    <3> QED
      BY <1>2, <3>1
  <2>3. CASE i > Len(p)
    <3>1. i - Len(p) \in 1 .. Len(recs) /\ Len(p) + (i - Len(p)) = i
      BY <1>1, <2>1, <2>3, Past
    <3>2. q[i] = recs[i - Len(p)]
      BY <1>1, <2>1, <2>3 DEF q
    <3> QED
      BY <1>2, <2>1, <3>1, <3>2
  <2> QED
    BY <1>1, <2>1, <2>2, <2>3
<1>5. Piece(f, 0, q)
  BY <1>1, <1>2, <1>4 DEF Piece, q
<1> QED
  BY <1>1, <1>3, <1>5 DEF q

(* What is read of a piece from the beginning is a piece. *)
LEMMA PieceSlice ==
  ASSUME NEW S, NEW f \in Seq(S), NEW p \in Seq(S), Piece(f, 0, p),
         NEW m \in Nat, NEW n \in Int, m <= n, n <= Len(p)
  PROVE  /\ SubSeq(p, m + 1, n) \in Seq(S) /\ Len(SubSeq(p, m + 1, n)) = n - m
         /\ Piece(f, m, SubSeq(p, m + 1, n))
<1>1. /\ SubSeq(p, m + 1, n) \in Seq(S)
      /\ Len(SubSeq(p, m + 1, n)) = IF m + 1 <= n THEN n - m ELSE 0
      /\ \A i \in 1 .. n - m : SubSeq(p, m + 1, n)[i] = p[m + i]
  BY SliceType
<1> DEFINE q == SubSeq(p, m + 1, n)
<1> HIDE DEF q
<1>2. Len(q) = n - m
  BY <1>1 DEF q
<1>3. Len(f) \in Nat /\ Len(p) \in Nat /\ Len(p) <= Len(f)
  BY LenProperties DEF Piece
<1>4. ASSUME NEW i \in 1 .. Len(q)
      PROVE  q[i] = f[m + i]
  <2>1. i \in 1 .. n - m /\ m + i \in 1 .. Len(p) /\ 0 + (m + i) = m + i
    BY <1>2, <1>3
  <2>2. q[i] = p[m + i]
    BY <1>1, <2>1 DEF q
  <2>3. p[m + i] = f[0 + (m + i)]
    BY <2>1 DEF Piece
  <2> QED
    BY <2>1, <2>2, <2>3
<1>5. m + Len(q) <= Len(f)
  BY <1>2, <1>3
<1> QED
  BY <1>1, <1>2, <1>4, <1>5 DEF Piece, q

(* Of two pieces from the beginning the shorter is one of the longer. *)
LEMMA PieceOfLonger ==
  ASSUME NEW S, NEW f \in Seq(S), NEW p \in Seq(S), NEW q \in Seq(S),
         Piece(f, 0, p), Piece(f, 0, q), Len(q) <= Len(p)
  PROVE  Piece(p, 0, q)
BY LenProperties DEF Piece

(* Two pieces at the same place that are as long are the same. *)
LEMMA PiecesEqual ==
  ASSUME NEW S, NEW f \in Seq(S), NEW m \in Nat, NEW p \in Seq(S), NEW q \in Seq(S),
         Piece(f, m, p), Piece(f, m, q), Len(p) = Len(q)
  PROVE  p = q
BY SeqEqual DEF Piece

(* The first records of a piece are a piece at the same place. *)
LEMMA PieceStart ==
  ASSUME NEW S, NEW f \in Seq(S), NEW m \in Nat, NEW p \in Seq(S), NEW q \in Seq(S),
         Piece(f, m, p), Len(q) <= Len(p), \A i \in 1 .. Len(q) : q[i] = p[i]
  PROVE  Piece(f, m, q)
<1>1. Len(p) \in Nat /\ Len(q) \in Nat /\ Len(f) \in Nat
  BY LenProperties
<1> QED
  BY <1>1 DEF Piece

LEMMA PieceIsPrefix ==
  ASSUME NEW S, NEW f \in Seq(S), NEW p \in Seq(S), Piece(f, 0, p)
  PROVE  p = SubSeq(f, 1, Len(p)) /\ IsPrefix(p, f)
<1>1. Len(p) \in Nat /\ Len(f) \in Nat /\ Len(p) <= Len(f)
  BY LenProperties DEF Piece
<1> DEFINE q == SubSeq(f, 1, Len(p))
           o == SubSeq(p, 1, Len(p))
<1>2. /\ q \in Seq(S) /\ Len(q) = Len(p) /\ \A i \in 1 .. Len(q) : q[i] = f[i]
  BY <1>1, PrefixType
<1>3. /\ o \in Seq(S) /\ Len(o) = Len(p) /\ \A i \in 1 .. Len(o) : o[i] = p[i]
  BY <1>1, PrefixType
<1> HIDE DEF q, o
<1>4. \A i \in 1 .. Len(p) : p[i] = f[i]
  BY DEF Piece
<1>5. q = p /\ o = p
  BY <1>2, <1>3, <1>4, SeqEqual
<1> QED
  BY <1>1, <1>5 DEF IsPrefix, q, o

-----------------------------------------------------------------------------
(* The worker and the ledger *)

(* A request that is a piece of the transcript adds the next records of it, *)
(* or nothing; once accepted, the worker has the whole range.               *)
LEMMA WorkerStores ==
  ASSUME TypeOK, FilesInv, NEW b \in Batch, Piece(file[b.src], b.start, b.recs),
         WorkerAccepts(b) \/ WorkerRefuses(b), UNCHANGED <<file, ledger>>
  PROVE  /\ FilesInv'
         /\ \A s \in Sources : Len(stored[s]) <= Len(stored'[s])
         /\ WorkerAccepts(b) => b.start + Len(b.recs) <= Len(stored'[b.src])
         /\ stored' = stored \/ Delivery!Store(b.src)
<1>1. /\ b.src \in Sources /\ b.start \in Nat /\ b.recs \in Seq(Record)
      /\ file \in [Sources -> Seq(Record)] /\ stored \in [Sources -> Seq(Record)]
      /\ ledger \in [Sources -> Seq(Record)]
  BY DEF TypeOK, Ledger, Batch
<1>2. \A s \in Sources :
        Len(stored[s]) \in Nat /\ Len(file[s]) \in Nat /\ Len(ledger[s]) \in Nat
  BY <1>1, LenProperties
<1>3. Len(b.recs) \in Nat
  BY <1>1, LenProperties
<1>4. CASE UNCHANGED stored
  <2>1. WorkerAccepts(b) => b.start + Len(b.recs) <= Len(stored[b.src])
    <3> DEFINE held == stored[b.src]
               more == held \o b.recs
    <3> SUFFICES ASSUME WorkerAccepts(b),
                        b.start = Len(held), stored' = [stored EXCEPT ![b.src] = more]
                 PROVE  b.start + Len(b.recs) <= Len(held)
      BY DEF WorkerAccepts, Watermark
    <3>1. more = held
      BY <1>1, <1>4
    <3>2. held \in Seq(Record) /\ Len(held) \in Nat
      BY <1>1, <1>2
    <3> HIDE DEF held
    <3>3. Len(more) = Len(held) + Len(b.recs)
      BY <1>1, <3>2, ConcatProperties
    <3>4. b.start + Len(b.recs) = Len(held)
      BY <3>1, <3>3
    <3> QED
      BY <3>2, <3>4
  <2> QED
    BY <1>2, <1>4, <2>1 DEF FilesInv
<1>5. CASE stored' # stored
  <2>1. /\ b.start = Len(stored[b.src])
        /\ b.start + Len(b.recs) > Len(stored[b.src])
        /\ stored' = [stored EXCEPT ![b.src] = @ \o b.recs]
    BY <1>5 DEF WorkerAccepts, WorkerRefuses, Watermark
  <2> DEFINE held == stored[b.src]
             more == held \o b.recs
  <2>2. /\ held \in Seq(Record) /\ file[b.src] \in Seq(Record)
        /\ Piece(file[b.src], 0, held) /\ Piece(file[b.src], Len(held), b.recs)
    BY <1>1, <2>1 DEF FilesInv
  <2> HIDE DEF held
  <2>3. /\ more \in Seq(Record) /\ Len(more) = Len(held) + Len(b.recs)
        /\ Piece(file[b.src], 0, more)
    BY <1>1, <2>2, PieceConcat
  <2> HIDE DEF more
  <2>4. /\ stored'[b.src] = more
        /\ \A s \in Sources : s # b.src => stored'[s] = stored[s]
    BY <1>1, <2>1 DEF more, held
  <2>5. /\ Len(more) = b.start + Len(b.recs) /\ Len(held) < Len(more)
        /\ Len(held) \in Nat
    BY <1>1, <1>2, <1>3, <2>1, <2>3 DEF held
  <2>6. ASSUME NEW s \in Sources
        PROVE  Len(stored[s]) <= Len(stored'[s])
    <3>1. CASE s = b.src
      <4>1. Len(stored[s]) = Len(held) /\ Len(stored'[s]) = Len(more)
        BY <2>4, <3>1 DEF held
      <4>2. Len(more) \in Nat
        BY <2>3, LenProperties
      <4> QED
        BY <2>5, <4>1, <4>2
    <3>2. CASE s # b.src
      BY <1>2, <2>4, <3>2
    <3> QED
      BY <3>1, <3>2
  <2>7. FilesInv'
    <3> SUFFICES ASSUME NEW s \in Sources
                 PROVE  /\ Piece(file[s], 0, stored'[s])
                        /\ Piece(file[s], 0, ledger[s])
                        /\ Len(ledger[s]) <= Len(stored'[s])
      BY DEF FilesInv, Piece
    <3>1. Piece(file[s], 0, stored'[s])
      BY <2>3, <2>4 DEF FilesInv
    <3>2. Piece(file[s], 0, ledger[s]) /\ Len(ledger[s]) <= Len(stored[s])
      BY DEF FilesInv
    <3>3. Len(stored'[s]) \in Nat
      BY <1>2, <1>3, <2>3, <2>4, <2>5
    <3> QED
      BY <1>2, <2>6, <3>1, <3>2, <3>3
  <2>8. Delivery!Store(b.src)
    <3>1. more = SubSeq(file[b.src], 1, Len(more)) /\ Len(more) <= Len(file[b.src])
      BY <2>2, <2>3, PieceIsPrefix DEF Piece
    <3>2. Len(more) \in Len(held) + 1 .. Len(file[b.src])
      BY <1>1, <1>2, <1>3, <2>3, <2>5, <3>1
    <3> QED
      BY <2>1, <3>1, <3>2 DEF Delivery!Store, more, held
  <2> QED
    BY <2>4, <2>5, <2>6, <2>7, <2>8, <1>1
<1> QED
  BY <1>4, <1>5

(* Persisting the first n records of a request that the worker has stored. *)
LEMMA PersistAcknowledges ==
  ASSUME Inv, FilesInv, EventsInv, NEW c \in Collectors, pc[c] = "await",
         NEW n \in Nat, n <= Len(event[c].recs), Persist(c, n),
         Len(event[c].base) + n <= Len(stored[event[c].src]),
         UNCHANGED <<file, stored>>
  PROVE  FilesInv' /\ (ledger' = ledger \/ Delivery!Acknowledge(event[c].src))
<1> DEFINE e == event[c]
           s == e.src
           kept == SubSeq(e.recs, 1, n)
           more == ledger[s] \o kept
<1>1. e \in Event /\ mem[c] = ledger
  BY DEF Inv, TypeOK, LockInv
<1>2. /\ s \in Sources /\ e.recs \in Seq(Record)
      /\ ledger \in [Sources -> Seq(Record)] /\ file \in [Sources -> Seq(Record)]
      /\ stored \in [Sources -> Seq(Record)]
  BY <1>1 DEF Inv, TypeOK, Ledger, Event
<1>3. e.base = ledger[s] /\ Piece(file[s], Len(ledger[s]), e.recs)
  BY <1>1 DEF EventsInv, EventIs
<1>4. ledger' = [ledger EXCEPT ![s] = more]
  BY <1>1, <1>3 DEF Persist
<1>5. /\ kept \in Seq(Record) /\ Len(kept) = n
      /\ \A i \in 1 .. Len(kept) : kept[i] = e.recs[i]
  <2> HIDE DEF e
  <2>1. /\ SubSeq(e.recs, 1, n) \in Seq(Record)
        /\ Len(SubSeq(e.recs, 1, n)) = IF 1 <= n THEN n ELSE 0
        /\ \A i \in 1 .. Len(SubSeq(e.recs, 1, n)) : SubSeq(e.recs, 1, n)[i] = e.recs[i]
    BY <1>2, PrefixType DEF e
  <2> QED
    BY <2>1
<1>6. \A t \in Sources :
        Len(stored[t]) \in Nat /\ Len(file[t]) \in Nat /\ Len(ledger[t]) \in Nat
  BY <1>2, LenProperties
<1>7. Len(e.recs) \in Nat
  BY <1>2, LenProperties
<1>8. Len(ledger[s]) + n <= Len(stored[s])
  BY <1>3
<1> HIDE DEF e, kept, more
<1>9. Piece(file[s], Len(ledger[s]), kept)
  <2>1. file[s] \in Seq(Record) /\ Len(ledger[s]) \in Nat /\ Len(kept) <= Len(e.recs)
    BY <1>2, <1>5, <1>6 DEF e
  <2>2. \A i \in 1 .. Len(kept) : kept[i] = e.recs[i]
    BY <1>5
  <2>3. e.recs \in Seq(Record) /\ kept \in Seq(Record)
    BY <1>2, <1>5
  <2> QED
    BY <1>3, <2>1, <2>2, <2>3, PieceStart
<1>10. /\ Piece(file[s], 0, ledger[s]) /\ Piece(file[s], 0, stored[s])
  BY <1>2 DEF FilesInv
<1>11. /\ more \in Seq(Record) /\ Len(more) = Len(ledger[s]) + n
       /\ Piece(file[s], 0, more) /\ Piece(more, 0, ledger[s])
  <2> DEFINE f == file[s]
             l == ledger[s]
  <2>1. f \in Seq(Record) /\ l \in Seq(Record) /\ kept \in Seq(Record)
        /\ Piece(f, 0, l) /\ Piece(f, Len(l), kept) /\ Len(kept) = n
    BY <1>2, <1>5, <1>9, <1>10
  <2> HIDE DEF f, l
  <2>2. /\ l \o kept \in Seq(Record) /\ Len(l \o kept) = Len(l) + n
        /\ Piece(f, 0, l \o kept) /\ Piece(l \o kept, 0, l)
    BY <2>1, PieceConcat
  <2> QED
    BY <2>2 DEF f, l, more
<1>12. Len(more) <= Len(stored[s]) /\ Len(more) \in Nat
  BY <1>2, <1>6, <1>8, <1>11
<1>13. FilesInv'
  BY <1>2, <1>4, <1>11, <1>12 DEF FilesInv, Piece
<1>14. CASE n = 0
  <2>1. Piece(more, 0, ledger[s]) /\ Len(more) = Len(ledger[s])
    BY <1>2, <1>6, <1>11, <1>14
  <2>2. \A i \in 1 .. Len(more) : more[i] = ledger[s][i]
    BY <1>6, <1>2, <2>1 DEF Piece
  <2>3. more = ledger[s]
    BY <1>2, <1>11, <2>1, <2>2, SeqEqual
  <2> QED
    BY <1>2, <1>4, <1>13, <2>3
<1>15. CASE n # 0
  <2>1. Piece(stored[s], 0, more)
    BY <1>2, <1>10, <1>11, <1>12, PieceOfLonger
  <2>2. more = SubSeq(stored[s], 1, Len(more))
    BY <1>2, <1>11, <2>1, PieceIsPrefix
  <2>3. Len(more) \in Len(ledger[s]) + 1 .. Len(stored[s])
    BY <1>2, <1>6, <1>11, <1>12, <1>15
  <2>4. ledger' = [ledger EXCEPT ![s] = SubSeq(stored[s], 1, Len(more))]
    BY <1>4, <2>2
  <2> QED
    BY <1>13, <2>3, <2>4 DEF Delivery!Acknowledge, e
<1> QED
  BY <1>14, <1>15

-----------------------------------------------------------------------------
(* The invariant *)

LEMMA InitDInv == Init => DInv
<1> SUFFICES ASSUME Init PROVE DInv
  OBVIOUS
<1>1. \A s \in Sources : file[s] = <<>> /\ stored[s] = <<>> /\ ledger[s] = <<>>
  BY DEF Init, EmptyLedger
<1>2. FilesInv
  BY <1>1 DEF FilesInv, Piece
<1>3. OrphansInv /\ EventsInv /\ AnswerBound
  BY DEF Init, OrphansInv, EventsInv, AnswerBound
<1> QED
  BY <1>2, <1>3, InitInv DEF DInv, PiecesInv

(* A transcript that grows still has its pieces. *)
LEMMA AppendDInv ==
  ASSUME DInv, NEW s \in Sources, NEW r \in Record, AppendRecord(s, r)
  PROVE  PiecesInv' /\ AnswerBound'
<1>1. /\ UNCHANGED <<stored, orphans, ledger, pc, mem, event, answer>>
      /\ file' = [file EXCEPT ![s] = Append(@, r)]
  BY DEF AppendRecord, procVars
<1>2. TypeOK
  BY DEF DInv, Inv
<1>3. ASSUME NEW t \in Sources
      PROVE  file[t] \in Seq(Record) /\ file'[t] \in Seq(Record) /\ Piece(file'[t], 0, file[t])
  <2>1. file \in [Sources -> Seq(Record)]
    BY <1>2 DEF TypeOK, Ledger
  <2>2. CASE t = s
    BY <1>1, <2>1, <2>2, PieceAppend
  <2>3. CASE t # s
    BY <1>1, <2>1, <2>3, PieceSelf
  <2> QED
    BY <2>2, <2>3
<1>4. FilesInv'
  <2> SUFFICES ASSUME NEW t \in Sources
               PROVE  Piece(file'[t], 0, stored[t]) /\ Piece(file'[t], 0, ledger[t])
    BY <1>1 DEF DInv, PiecesInv, FilesInv, Piece
  <2>1. stored[t] \in Seq(Record) /\ ledger[t] \in Seq(Record)
    BY <1>2 DEF TypeOK, Ledger
  <2>2. Piece(file[t], 0, stored[t]) /\ Piece(file[t], 0, ledger[t])
    BY DEF DInv, PiecesInv, FilesInv
  <2> QED
    BY <1>3, <2>1, <2>2, PieceGrows
<1>5. OrphansInv'
  <2> SUFFICES ASSUME NEW b \in orphans
               PROVE  Piece(file'[b.src], b.start, b.recs)
    BY <1>1 DEF OrphansInv, Piece
  <2>1. b.src \in Sources /\ b.start \in Nat /\ b.recs \in Seq(Record)
    BY <1>2 DEF TypeOK, Batch
  <2>2. Piece(file[b.src], b.start, b.recs)
    BY DEF DInv, PiecesInv, OrphansInv
  <2> QED
    BY <1>3, <2>1, <2>2, PieceGrows
<1>6. EventsInv'
  <2> SUFFICES ASSUME NEW c \in Collectors, pc[c] \in {"read", "await"}
               PROVE  EventIs(event[c], pc[c], mem[c], file')
    BY Zenon, <1>1 DEF EventsInv
  <2>1. event[c] \in Event
    BY <1>2 DEF TypeOK
  <2>2. /\ event[c].src \in Sources /\ event[c].base \in Seq(Record)
        /\ event[c].snapshot \in Seq(Record) /\ event[c].recs \in Seq(Record)
    BY <2>1 DEF Event
  <2>3. Len(event[c].base) \in Nat
    BY <2>2, LenProperties
  <2>4. EventIs(event[c], pc[c], mem[c], file)
    BY DEF DInv, PiecesInv, EventsInv
  <2>5. pc[c] = "read" => Piece(file'[event[c].src], 0, event[c].snapshot)
    BY <1>3, <2>2, <2>4, PieceGrows DEF EventIs
  <2>6. pc[c] = "await" => Piece(file'[event[c].src], Len(event[c].base), event[c].recs)
    BY <1>3, <2>2, <2>3, <2>4, PieceGrows DEF EventIs
  <2> QED
    BY <2>4, <2>5, <2>6 DEF EventIs
<1>7. AnswerBound'
  BY <1>1 DEF DInv, AnswerBound, Bound
<1> QED
  BY <1>4, <1>5, <1>6, <1>7 DEF PiecesInv

(* An answer stays about records the worker has, as it only gets more. *)
LEMMA BoundGrows ==
  ASSUME TypeOK, NEW e \in Event, NEW a \in Answer, Bound(a, e, stored),
         stored' \in Ledger,
         \A s \in Sources : Len(stored[s]) <= Len(stored'[s])
  PROVE  Bound(a, e, stored')
<1>1. e.src \in Sources /\ e.base \in Seq(Record) /\ e.recs \in Seq(Record)
  BY DEF Event
<1>2. /\ Len(e.base) \in Nat /\ Len(e.recs) \in Nat
      /\ Len(stored[e.src]) \in Nat /\ Len(stored'[e.src]) \in Nat
  BY <1>1, LenProperties DEF TypeOK, Ledger
<1>3. a.kind = "conflict" => a.watermark \in Nat
  BY DEF Answer
<1> DEFINE before == Len(stored[e.src])
           after == Len(stored'[e.src])
           base == Len(e.base)
           size == Len(e.recs)
           end == base + size
<1>4. before <= after /\ before \in Nat /\ after \in Nat /\ end \in Nat
  <2>1. before <= after
    BY <1>1
  <2>2. end \in Nat
    <3>1. base \in Nat /\ size \in Nat
      BY <1>2
    <3> HIDE DEF base, size
    <3> QED
      BY <3>1
  <2> QED
    BY <1>2, <2>1, <2>2
<1>5. /\ a.kind = "accepted" => end <= before
      /\ a.kind = "conflict" => a.watermark <= before
  BY DEF Bound
<1> HIDE DEF before, after, end
<1>6. /\ a.kind = "accepted" => end <= after
      /\ a.kind = "conflict" => a.watermark <= after
  BY <1>3, <1>4, <1>5
<1> QED
  BY <1>6 DEF Bound, after, end

LEMMA WorkerDInv ==
  ASSUME DInv,
         \/ \E b \in orphans : WorkerReceivesLate(b)
         \/ \E c \in Collectors : WorkerReceives(c)
  PROVE  /\ PiecesInv' /\ AnswerBound'
         /\ UNCHANGED <<file, ledger>>
         /\ stored' = stored \/ \E s \in Sources : Delivery!Store(s)
<1>1. TypeOK /\ TypeOK' /\ FilesInv /\ OrphansInv /\ EventsInv /\ AnswerBound
  BY WorkerTypeOK DEF DInv, Inv, PiecesInv
<1>2. \A c \in Collectors : answer[c] # None => pc[c] = "await" /\ event[c] \in Event
  BY DEF DInv, Inv, AnswerInv, TypeOK
<1>3. ASSUME NEW b \in orphans, WorkerReceivesLate(b)
      PROVE  /\ PiecesInv' /\ AnswerBound' /\ UNCHANGED <<file, ledger>>
             /\ stored' = stored \/ \E s \in Sources : Delivery!Store(s)
  <2>1. b \in Batch /\ Piece(file[b.src], b.start, b.recs)
    BY <1>1 DEF TypeOK, OrphansInv
  <2>2. /\ UNCHANGED <<file, ledger, pc, mem, event, answer>>
        /\ orphans' \subseteq orphans
    BY <1>3 DEF WorkerReceivesLate, procVars
  <2>3. /\ FilesInv' /\ \A s \in Sources : Len(stored[s]) <= Len(stored'[s])
        /\ stored' = stored \/ Delivery!Store(b.src)
    BY <1>1, <1>3, <2>1, <2>2, WorkerStores DEF WorkerReceivesLate
  <2>4. OrphansInv' /\ EventsInv'
    BY <1>1, <2>2 DEF OrphansInv, EventsInv
  <2>5. AnswerBound'
    <3> SUFFICES ASSUME NEW c \in Collectors, answer[c] # None
                 PROVE  Bound(answer[c], event[c], stored')
      BY <2>2 DEF AnswerBound
    <3>1. answer[c] \in Answer /\ event[c] \in Event /\ Bound(answer[c], event[c], stored)
      BY <1>1, <1>2 DEF TypeOK, AnswerBound
    <3>2. stored' \in Ledger
      BY <1>1 DEF TypeOK
    <3> QED
      BY <1>1, <2>3, <3>1, <3>2, BoundGrows
  <2>6. b.src \in Sources
    BY <2>1 DEF Batch
  <2> QED
    BY <2>2, <2>3, <2>4, <2>5, <2>6 DEF PiecesInv
<1>4. ASSUME NEW c \in Collectors, WorkerReceives(c)
      PROVE  /\ PiecesInv' /\ AnswerBound' /\ UNCHANGED <<file, ledger>>
             /\ stored' = stored \/ \E s \in Sources : Delivery!Store(s)
  <2>1. PICK b \in Batch : b = Request(c)
    BY <1>1, <1>4, RequestType DEF WorkerReceives
  <2>2. UNCHANGED <<file, orphans, ledger, pc, mem, event>> /\ pc[c] = "await"
    BY <1>4 DEF WorkerReceives
  <2>3. /\ b.src = event[c].src /\ b.start = Len(event[c].base) /\ b.recs = event[c].recs
    BY <2>1 DEF Request
  <2>4. Piece(file[b.src], b.start, b.recs)
    BY <1>1, <2>2, <2>3 DEF EventsInv, EventIs
  <2>5. \/ WorkerAccepts(b) /\ answer' = [answer EXCEPT ![c] = [kind |-> "accepted"]]
        \/ /\ WorkerRefuses(b)
           /\ \E from \in ProofStarts(b) :
                answer' = [answer EXCEPT ![c] = Conflict(b, from)]
    BY <1>4, <2>1 DEF WorkerReceives
  <2>6. /\ FilesInv' /\ \A s \in Sources : Len(stored[s]) <= Len(stored'[s])
        /\ WorkerAccepts(b) => b.start + Len(b.recs) <= Len(stored'[b.src])
        /\ stored' = stored \/ Delivery!Store(b.src)
    BY <1>1, <2>2, <2>4, <2>5, WorkerStores
  <2>7. OrphansInv' /\ EventsInv'
    BY <1>1, <2>2 DEF OrphansInv, EventsInv
  <2>8. Bound(answer'[c], event[c], stored')
    <3>1. CASE WorkerAccepts(b) /\ answer' = [answer EXCEPT ![c] = [kind |-> "accepted"]]
      <4>1. answer'[c] = [kind |-> "accepted"]
        BY <1>1, <3>1 DEF TypeOK
      <4>2. answer'[c].kind = "accepted" /\ answer'[c].kind # "conflict"
        BY <4>1
      <4>3. Len(event[c].base) + Len(event[c].recs) <= Len(stored'[event[c].src])
        BY <2>3, <2>6, <3>1
      <4> QED
        BY <4>2, <4>3 DEF Bound
    <3>2. ASSUME WorkerRefuses(b), NEW from \in ProofStarts(b),
                 answer' = [answer EXCEPT ![c] = Conflict(b, from)]
          PROVE  Bound(answer'[c], event[c], stored')
      <4>1. answer'[c] = Conflict(b, from)
        BY <1>1, <3>2 DEF TypeOK
      <4>2. answer'[c].kind = "conflict" /\ answer'[c].watermark = Len(stored[b.src])
        BY <4>1 DEF Conflict, Watermark
      <4>3. stored' = stored /\ Len(stored[b.src]) \in Nat
        BY <1>1, <3>2, LenProperties DEF WorkerRefuses, TypeOK, Ledger, Batch
      <4> QED
        BY <2>3, <4>2, <4>3 DEF Bound
    <3> QED
      BY <2>5, <3>1, <3>2
  <2>9. AnswerBound'
    <3> SUFFICES ASSUME NEW d \in Collectors, answer'[d] # None
                 PROVE  Bound(answer'[d], event[d], stored')
      BY <2>2 DEF AnswerBound
    <3>1. CASE d = c
      BY <2>8, <3>1
    <3>2. CASE d # c
      <4>1. answer'[d] = answer[d]
        BY <1>1, <2>5, <3>2 DEF TypeOK
      <4>2. answer[d] \in Answer /\ event[d] \in Event /\ Bound(answer[d], event[d], stored)
        BY <1>1, <1>2, <4>1 DEF TypeOK, AnswerBound
      <4>3. stored' \in Ledger
        BY <1>1 DEF TypeOK
      <4> QED
        BY <1>1, <2>6, <4>1, <4>2, <4>3, BoundGrows
    <3> QED
      BY <3>1, <3>2
  <2>10. b.src \in Sources
    BY DEF Batch
  <2> QED
    BY <2>2, <2>6, <2>7, <2>9, <2>10 DEF PiecesInv
<1> QED
  BY <1>3, <1>4

(* A step of c alone, before it has an answer. *)
LEMMA LocalDInv ==
  ASSUME DInv, NEW c \in Collectors, pc[c] # "await",
         UNCHANGED <<file, stored, orphans, ledger, answer>>,
         \A d \in Collectors \ {c} :
           pc'[d] = pc[d] /\ mem'[d] = mem[d] /\ event'[d] = event[d],
         pc'[c] \in {"read", "await"} => EventIs(event'[c], pc'[c], mem'[c], file)
  PROVE  PiecesInv' /\ AnswerBound'
<1>1. FilesInv' /\ OrphansInv'
  BY DEF DInv, PiecesInv, FilesInv, OrphansInv
<1>2. EventsInv'
  BY DEF DInv, PiecesInv, EventsInv
<1>3. answer[c] = None
  BY DEF DInv, Inv, AnswerInv
<1>4. AnswerBound'
  BY <1>3 DEF DInv, AnswerBound
<1> QED
  BY <1>1, <1>2, <1>4 DEF PiecesInv

(* The transcript begins with what the ledger counts, so the event starts   *)
(* there, with a snapshot of the transcript.                                *)
LEMMA OpenDInv ==
  ASSUME DInv, NEW c \in Collectors, OpenSource(c)
  PROVE  PiecesInv' /\ AnswerBound'
<1>1. /\ pc[c] = "select"
      /\ UNCHANGED <<file, stored, orphans, ledger, mem, answer>>
  BY DEF OpenSource, envVars
<1>2. TypeOK /\ mem[c] = ledger
  BY <1>1 DEF DInv, Inv, LockInv
<1> DEFINE intact(s) == IsPrefix(mem[c][s], file[s])
           base(s) == IF intact(s) THEN mem[c][s] ELSE <<>>
           opened(s) == [src |-> s, base |-> base(s), snapshot |-> file[s],
                         recs |-> <<>>, reset |-> ~intact(s)]
<1>3. PICK s \in todo[c] :
        \/ UNCHANGED <<pc, event>>
        \/ /\ pc' = [pc EXCEPT ![c] = "read"]
           /\ event' = [event EXCEPT ![c] = opened(s)]
  BY DEF OpenSource
<1>4. CASE UNCHANGED <<pc, event>>
  BY <1>1, <1>4, LocalDInv
<1>5. CASE /\ pc' = [pc EXCEPT ![c] = "read"]
           /\ event' = [event EXCEPT ![c] = opened(s)]
  <2>1. s \in Sources
    BY <1>2 DEF TypeOK
  <2>2. /\ file[s] \in Seq(Record) /\ ledger[s] \in Seq(Record)
        /\ Piece(file[s], 0, ledger[s])
    BY <1>2, <2>1 DEF TypeOK, Ledger, DInv, PiecesInv, FilesInv
  <2>3. IsPrefix(ledger[s], file[s])
    BY <2>2, PieceIsPrefix
  <2>4. Piece(file[s], 0, file[s])
    BY <2>2, PieceSelf
  <2>5. /\ opened(s).src = s /\ opened(s).snapshot = file[s]
        /\ opened(s).base = mem[c][s]
    BY <1>2, <2>3
  <2> HIDE DEF opened
  <2>6. EventIs(opened(s), "read", mem[c], file)
    BY <2>4, <2>5 DEF EventIs
  <2>7. /\ pc'[c] = "read" /\ event'[c] = opened(s)
        /\ \A d \in Collectors \ {c} : pc'[d] = pc[d] /\ event'[d] = event[d]
    BY <1>2, <1>5 DEF TypeOK
  <2> QED
    BY <1>1, <2>6, <2>7, LocalDInv
<1> QED
  BY <1>3, <1>4, <1>5

(* What is read, of the snapshot or in place, is the snapshot. *)
LEMMA SeenIs ==
  ASSUME DInv, NEW c \in Collectors, pc[c] = "read",
         NEW seen \in {event[c].snapshot,
                      SubSeq(file[event[c].src], 1,
                        IF Len(file[event[c].src]) < Len(event[c].snapshot)
                        THEN Len(file[event[c].src]) ELSE Len(event[c].snapshot))}
  PROVE  /\ seen \in Seq(Record) /\ Piece(file[event[c].src], 0, seen)
         /\ Len(seen) = Len(event[c].snapshot)
<1> DEFINE e == event[c]
           f == file[e.src]
           size == Len(e.snapshot)
           seenSize == IF Len(f) < size THEN Len(f) ELSE size
           inPlace == SubSeq(f, 1, seenSize)
<1>1. TypeOK /\ e \in Event
  BY DEF DInv, Inv, TypeOK
<1>2. Piece(f, 0, e.snapshot) /\ e.snapshot \in Seq(Record) /\ f \in Seq(Record)
  BY <1>1 DEF DInv, PiecesInv, EventsInv, EventIs, TypeOK, Event, Ledger
<1>3. size \in Nat /\ Len(f) \in Nat /\ size <= Len(f)
  BY <1>2, LenProperties DEF Piece
<1>4. seenSize = size
  BY <1>3
<1>5. seen \in {e.snapshot, inPlace}
  OBVIOUS
<1>6. inPlace = SubSeq(f, 0 + 1, seenSize)
  OBVIOUS
<1> HIDE DEF seenSize, f, size, inPlace
<1>7. LET q == SubSeq(f, 0 + 1, size)
      IN q \in Seq(Record) /\ Piece(f, 0, q) /\ Len(q) = size - 0
  BY <1>2, <1>3, PieceSelf, PieceSlice
<1>8. inPlace \in Seq(Record) /\ Piece(f, 0, inPlace) /\ Len(inPlace) = size
  BY <1>3, <1>4, <1>6, <1>7
<1> QED
  BY <1>2, <1>5, <1>8 DEF f, size

(* What is read is a piece of the transcript, and so is the range that is   *)
(* posted of it.                                                            *)
LEMMA ReadDInv ==
  ASSUME DInv, NEW c \in Collectors, ReadAndPost(c)
  PROVE  PiecesInv' /\ AnswerBound'
<1> DEFINE e == event[c]
           f == file[e.src]
           size == Len(e.snapshot)
           seenSize == IF Len(f) < size THEN Len(f) ELSE size
           inPlace == SubSeq(f, 1, seenSize)
           posted(seen, end) ==
             [e EXCEPT !.snapshot = <<>>,
                !.recs = SubSeq(seen, Len(e.base) + 1, end)]
<1>1. /\ pc[c] = "read"
      /\ UNCHANGED <<file, stored, orphans, ledger, mem, answer>>
  BY DEF ReadAndPost, envVars
<1>2. TypeOK /\ e \in Event
  BY <1>1 DEF DInv, Inv, TypeOK
<1>3. /\ e.base = mem[c][e.src] /\ Piece(f, 0, e.snapshot)
      /\ e.base \in Seq(Record) /\ e.snapshot \in Seq(Record) /\ f \in Seq(Record)
  BY <1>1, <1>2 DEF DInv, PiecesInv, EventsInv, EventIs, TypeOK, Event, Ledger
<1>4. Len(e.base) \in Nat /\ size \in Nat /\ Len(f) \in Nat
  BY <1>3, LenProperties
<1>5. PICK seen \in {e.snapshot, inPlace} :
        \/ /\ pc' = [pc EXCEPT ![c] = "select"]
           /\ event' = [event EXCEPT ![c] = None]
        \/ \E end \in RangeEnds(seen, Len(e.base)) :
             /\ pc' = [pc EXCEPT ![c] = "await"]
             /\ event' = [event EXCEPT ![c] = posted(seen, end)]
  BY DEF ReadAndPost
<1>6. seen \in Seq(Record) /\ Piece(f, 0, seen)
  BY <1>1, SeenIs
<1>7. CASE /\ pc' = [pc EXCEPT ![c] = "select"]
           /\ event' = [event EXCEPT ![c] = None]
  <2>1. /\ pc'[c] = "select"
        /\ \A d \in Collectors \ {c} : pc'[d] = pc[d] /\ event'[d] = event[d]
    BY <1>2, <1>7 DEF TypeOK
  <2> QED
    BY <1>1, <2>1, LocalDInv
<1>8. ASSUME NEW end \in RangeEnds(seen, Len(e.base)),
             pc' = [pc EXCEPT ![c] = "await"],
             event' = [event EXCEPT ![c] = posted(seen, end)]
      PROVE  PiecesInv' /\ AnswerBound'
  <2> DEFINE start == Len(e.base)
             recs == SubSeq(seen, start + 1, end)
  <2>1. start \in Nat /\ end \in Int /\ start <= end /\ end <= Len(seen)
    BY <1>4, <1>6, LenProperties DEF RangeEnds
  <2> HIDE DEF start, f
  <2>2. Piece(f, start, recs)
    BY <1>3, <1>6, <2>1, PieceSlice
  <2>3. /\ posted(seen, end).src = e.src /\ posted(seen, end).base = e.base
        /\ posted(seen, end).recs = recs
    BY <1>2 DEF Event, start
  <2> HIDE DEF posted, recs
  <2>4. EventIs(posted(seen, end), "await", mem[c], file)
    BY <1>3, <2>2, <2>3 DEF EventIs, start, f
  <2>5. /\ pc'[c] = "await" /\ event'[c] = posted(seen, end)
        /\ \A d \in Collectors \ {c} : pc'[d] = pc[d] /\ event'[d] = event[d]
    BY <1>2, <1>8 DEF TypeOK
  <2> QED
    BY <1>1, <2>4, <2>5, LocalDInv
<1> QED
  BY <1>5, <1>7, <1>8

LEMMA RunningDInv ==
  ASSUME DInv, NEW c \in Collectors,
         \/ StartCollect(c) \/ AcquireLock(c)
         \/ OpenSource(c) \/ ReadAndPost(c) \/ SkipUnreadable(c)
  PROVE  PiecesInv' /\ AnswerBound' /\ UNCHANGED <<file, stored, ledger>>
<1>1. UNCHANGED <<file, stored, orphans, ledger, answer>>
  BY DEF StartCollect, AcquireLock, OpenSource, ReadAndPost, SkipUnreadable, envVars
<1>2. CASE StartCollect(c) \/ AcquireLock(c)
  <2>1. /\ pc[c] # "await" /\ pc'[c] \notin {"read", "await"}
        /\ \A d \in Collectors \ {c} :
             pc'[d] = pc[d] /\ mem'[d] = mem[d] /\ event'[d] = event[d]
    BY <1>2 DEF StartCollect, AcquireLock, DInv, Inv, TypeOK
  <2> QED
    BY <1>1, <2>1, LocalDInv
<1>3. CASE SkipUnreadable(c)
  <2>1. pc[c] = "select" /\ UNCHANGED <<pc, mem, event>>
    BY <1>3 DEF SkipUnreadable
  <2> QED
    BY <1>1, <2>1, LocalDInv
<1> QED
  BY <1>1, <1>2, <1>3, OpenDInv, ReadDInv

(* Leaving uploadPaths: the sender may leave its request on the way. *)
LEMMA LeaveDInv ==
  ASSUME DInv, NEW c \in Collectors,
         Finish(c) \/ NextPhase(c) \/ NextRequest(c),
         UNCHANGED <<file, stored>>, FilesInv',
         orphans' = orphans \/ (pc[c] = "await" /\ orphans' = orphans \cup {Request(c)})
  PROVE  PiecesInv' /\ AnswerBound'
<1>1. /\ EndRequest(c)
      /\ \E step \in {"idle", "wait"} : pc' = [pc EXCEPT ![c] = step]
  BY LeaveTypes DEF DInv, Inv
<1>2. /\ pc'[c] \in {"idle", "wait"} /\ answer'[c] = None
      /\ \A d \in Collectors \ {c} :
           /\ pc'[d] = pc[d] /\ mem'[d] = mem[d]
           /\ event'[d] = event[d] /\ answer'[d] = answer[d]
  BY <1>1 DEF DInv, Inv, TypeOK, EndRequest
<1>3. EventsInv' /\ AnswerBound'
  BY <1>2 DEF DInv, PiecesInv, EventsInv, AnswerBound
<1>4. OrphansInv'
  <2>1. CASE orphans' = orphans
    BY <2>1 DEF DInv, PiecesInv, OrphansInv
  <2>2. CASE pc[c] = "await" /\ orphans' = orphans \cup {Request(c)}
    <3>1. Piece(file[Request(c).src], Request(c).start, Request(c).recs)
      BY <2>2 DEF DInv, PiecesInv, EventsInv, EventIs, Request
    <3> QED
      BY <2>2, <3>1 DEF DInv, PiecesInv, OrphansInv
  <2> QED
    BY <2>1, <2>2
<1> QED
  BY <1>3, <1>4 DEF PiecesInv

LEMMA LeavingDInv ==
  ASSUME DInv, NEW c \in Collectors,
         \/ SkipPhase(c) \/ NothingPending(c) \/ Acknowledge(c)
         \/ Reconcile(c) \/ RefuseConflict(c)
         \/ RequestFails(c) \/ Crash(c) \/ DeadlineExceeded(c)
  PROVE  /\ PiecesInv' /\ AnswerBound' /\ UNCHANGED <<file, stored>>
         /\ ledger' = ledger \/ \E s \in Sources : Delivery!Acknowledge(s)
<1>1. /\ UNCHANGED <<file, stored>>
      /\ Finish(c) \/ NextPhase(c) \/ NextRequest(c)
      /\ orphans' = orphans \/ (pc[c] = "await" /\ orphans' = orphans \cup {Request(c)})
  BY DEF SkipPhase, NothingPending, Acknowledge, Reconcile, RefuseConflict,
     RequestFails, Crash, DeadlineExceeded, AbandonRequest, envVars
<1>2. Inv /\ FilesInv /\ EventsInv
  BY DEF DInv, PiecesInv
<1>3. CASE ledger' = ledger
  <2>1. FilesInv'
    BY <1>1, <1>2, <1>3 DEF FilesInv
  <2> QED
    BY <1>1, <1>3, <2>1, LeaveDInv
<1>4. CASE NothingPending(c)
  <2>1. ledger' = ledger
    BY <1>2, <1>4 DEF NothingPending, Inv, LockInv
  <2> QED
    BY <1>3, <2>1
<1>5. ASSUME NEW n \in Nat, pc[c] = "await", n <= Len(event[c].recs), Persist(c, n),
             Len(event[c].base) + n <= Len(stored[event[c].src])
      PROVE  /\ PiecesInv' /\ AnswerBound' /\ UNCHANGED <<file, stored>>
             /\ ledger' = ledger \/ \E s \in Sources : Delivery!Acknowledge(s)
  <2>1. FilesInv' /\ (ledger' = ledger \/ Delivery!Acknowledge(event[c].src))
    BY <1>1, <1>2, <1>5, PersistAcknowledges
  <2>2. event[c].src \in Sources
    BY <1>2, <1>5 DEF Inv, TypeOK, Event
  <2> QED
    BY <1>1, <2>1, <2>2, LeaveDInv
<1>6. CASE Acknowledge(c)
  <2> DEFINE n == Len(event[c].recs)
  <2>1. /\ pc[c] = "await" /\ Persist(c, n)
        /\ answer[c] # None /\ answer[c].kind = "accepted"
    BY <1>6 DEF Acknowledge
  <2>2. n \in Nat
    BY <1>2, <2>1, LenProperties DEF Inv, TypeOK, Event
  <2>3. Len(event[c].base) + n <= Len(stored[event[c].src])
    BY <2>1 DEF DInv, AnswerBound, Bound
  <2>4. n <= Len(event[c].recs)
    BY <2>2
  <2> HIDE DEF n
  <2> QED
    BY <1>5, <2>1, <2>2, <2>3, <2>4
<1>7. CASE Reconcile(c)
  <2> DEFINE start == Len(event[c].base)
             size == Len(event[c].recs)
             held == Len(stored[event[c].src])
             watermark == answer[c].watermark
             n == watermark - start
  <2>1. /\ pc[c] = "await" /\ Persist(c, n)
        /\ answer[c] # None /\ answer[c].kind = "conflict"
        /\ start < watermark /\ watermark < start + size
    BY <1>7 DEF Reconcile, Reconcilable
  <2>2. event[c] \in Event /\ watermark \in Nat /\ watermark <= held
    BY <1>2, <2>1 DEF Inv, TypeOK, Answer, DInv, AnswerBound, Bound
  <2>3. /\ event[c].src \in Sources /\ event[c].base \in Seq(Record)
        /\ event[c].recs \in Seq(Record)
    BY <2>2 DEF Event
  <2>4. start \in Nat /\ size \in Nat
    BY <2>3, LenProperties
  <2> HIDE DEF start, size, held, watermark
  <2>5. n \in Nat /\ n <= size /\ start + n <= held
    BY <2>1, <2>2, <2>4
  <2> HIDE DEF n
  <2> QED
    BY <1>5, <2>1, <2>5 DEF start, size, held
<1> QED
  BY <1>3, <1>4, <1>6, <1>7
  DEF SkipPhase, RefuseConflict, RequestFails, Crash, DeadlineExceeded

-----------------------------------------------------------------------------
(* The refinement *)

(* Every step keeps the invariant, and is a step of TraceDelivery or none. *)
LEMMA StepDelivers ==
  AppendOnly /\ DInv /\ [Next]_vars => DInv' /\ [Delivery!Next]_Delivery!vars
<1> SUFFICES ASSUME AppendOnly, DInv, [Next]_vars
             PROVE  DInv' /\ [Delivery!Next]_Delivery!vars
  OBVIOUS
<1>1. Inv'
  BY NextInv DEF DInv
<1>2. CASE UNCHANGED <<file, stored, ledger>> /\ PiecesInv' /\ AnswerBound'
  BY <1>1, <1>2 DEF DInv, Delivery!vars
<1>3. CASE UNCHANGED vars
  <2>1. PiecesInv' /\ AnswerBound'
    BY <1>3 DEF vars, envVars, procVars, DInv, PiecesInv, FilesInv, OrphansInv,
       EventsInv, AnswerBound
  <2> QED
    BY <1>2, <1>3, <2>1 DEF vars, envVars
<1>4. ASSUME NEW s \in Sources, NEW r \in Record, AppendRecord(s, r)
      PROVE  DInv' /\ [Delivery!Next]_Delivery!vars
  <2>1. Delivery!Write(s, r)
    BY <1>4 DEF AppendRecord, Delivery!Write
  <2> QED
    BY <1>1, <1>4, <2>1, AppendDInv DEF DInv, Delivery!Next
<1>5. ASSUME NEW s \in Sources
      PROVE  ~Truncate(s)
  <2>1. truncations \in 0 .. MaxTruncations
    BY DEF DInv, Inv, TypeOK
  <2> QED
    BY <2>1 DEF AppendOnly, Truncate
<1>6. ~LoseLedger
  <2>1. losses \in 0 .. MaxLosses
    BY DEF DInv, Inv, TypeOK
  <2> QED
    BY <2>1 DEF AppendOnly, LoseLedger
<1>7. CASE \/ \E b \in orphans : WorkerReceivesLate(b)
           \/ \E c \in Collectors : WorkerReceives(c)
  <2>1. /\ PiecesInv' /\ AnswerBound' /\ UNCHANGED <<file, ledger>>
        /\ stored' = stored \/ \E s \in Sources : Delivery!Store(s)
    BY <1>7, WorkerDInv
  <2> QED
    BY <1>1, <1>2, <2>1 DEF DInv, Delivery!Next
<1>8. ASSUME NEW c \in Collectors, CollectorStep(c) \/ Fault(c)
      PROVE  DInv' /\ [Delivery!Next]_Delivery!vars
  <2>1. CASE \/ StartCollect(c) \/ AcquireLock(c)
             \/ OpenSource(c) \/ ReadAndPost(c) \/ SkipUnreadable(c)
    BY <1>2, <2>1, RunningDInv
  <2>2. CASE \/ SkipPhase(c) \/ NothingPending(c) \/ Acknowledge(c)
             \/ Reconcile(c) \/ RefuseConflict(c)
             \/ RequestFails(c) \/ Crash(c) \/ DeadlineExceeded(c)
    <3>1. /\ PiecesInv' /\ AnswerBound' /\ UNCHANGED <<file, stored>>
          /\ ledger' = ledger \/ \E s \in Sources : Delivery!Acknowledge(s)
      BY <2>2, LeavingDInv
    <3> QED
      BY <1>1, <1>2, <3>1 DEF DInv, Delivery!Next
  <2> QED
    BY <1>8, <2>1, <2>2 DEF CollectorStep, Fault
<1> QED
  BY <1>3, <1>4, <1>5, <1>6, <1>7, <1>8 DEF Next

(* Transcripts that are only appended to are delivered once, in order and    *)
(* without gaps, and the ledger counts no more than the worker has, with     *)
(* any number of collectors, crashes, lost answers, late requests and        *)
(* conflicts taken over (traces.go:498).                                     *)
THEOREM UploadDelivers == AppendOnly /\ Spec => ImplementsDelivery
<1> SUFFICES ASSUME AppendOnly PROVE Spec => ImplementsDelivery
  OBVIOUS
<1>1. Init => Delivery!Init
  BY DEF Init, EmptyLedger, Delivery!Init
<1>2. DInv /\ [Next]_vars => DInv' /\ [Delivery!Next]_Delivery!vars
  BY StepDelivers
<1> QED
  BY <1>1, <1>2, InitDInv, PTL DEF Spec, ImplementsDelivery, Delivery!Spec

-----------------------------------------------------------------------------
(* Conflicts *)

End(b) == b.start + Len(b.recs)

(* What the worker has beyond the ledger it committed as one range, which   *)
(* starts where the ledger ends and is one that a collector may post.       *)
PendingInv ==
  \A s \in Sources :
    Len(ledger[s]) < Len(stored[s]) =>
      /\ lastStart[s] = Len(ledger[s])
      /\ Len(stored[s]) \in RangeEnds(file[s], Len(ledger[s]))

(* So may a late request, which does not start beyond the ledger. *)
LateInv ==
  \A b \in orphans :
    b.start <= Len(ledger[b.src]) /\ End(b) \in RangeEnds(file[b.src], b.start)

(* What the collector reads or posts reaches as far as anything that the    *)
(* worker has, or may yet commit from the same start.                       *)
Limit(e, step) ==
  IF step = "read" THEN Len(e.snapshot) ELSE Len(e.base) + Len(e.recs)

Reaches(e, step) ==
  /\ Len(stored[e.src]) <= Limit(e, step)
  /\ \A b \in orphans : b.src = e.src /\ b.start = Len(e.base) => End(b) <= Limit(e, step)
  /\ step = "await" => Limit(e, step) \in RangeEnds(file[e.src], Len(e.base))

ReachInv ==
  \A c \in Collectors : pc[c] \in {"read", "await"} => Reaches(event[c], pc[c])

(* The worker answers from what it has, and has nothing else when the       *)
(* answer is handled; a conflict proves the first records of the request.   *)
Current(a, e) ==
  LET start == Len(e.base)
      held == Len(stored[e.src])
  IN /\ a.kind = "accepted" => held = start + Len(e.recs)
     /\ a.kind = "conflict" =>
          /\ a.watermark = held /\ a.proofStart = start
          /\ start < held /\ held < start + Len(e.recs)
          /\ a.proof = SubSeq(e.recs, 1, held - start)

CurrentInv == \A c \in Collectors : answer[c] # None => Current(answer[c], event[c])

CInv == PendingInv /\ LateInv /\ ReachInv /\ CurrentInv

(* The ends a range may have are those it may have in a longer transcript,  *)
(* as far as the shorter one goes.                                          *)
LEMMA EndsAgree ==
  ASSUME NEW S, NEW f \in Seq(S), NEW g \in Seq(S), Piece(g, 0, f),
         NEW start \in Nat, NEW end
  PROVE  end \in RangeEnds(f, start) <=> end \in RangeEnds(g, start) /\ end <= Len(f)
<1>1. Len(f) \in Nat /\ Len(g) \in Nat /\ Len(f) <= Len(g)
  BY LenProperties DEF Piece
<1>2. ASSUME NEW i \in 1 .. Len(f)
      PROVE  f[i] = g[i]
  <2>1. 0 + i = i
    OBVIOUS
  <2> QED
    BY <2>1 DEF Piece
<1>3. ASSUME end \in start + 1 .. Len(f)
      PROVE  /\ end \in start + 1 .. Len(g)
             /\ \A i \in start + 1 .. end : f[i] = g[i]
  BY <1>1, <1>2, <1>3
<1>4. CASE end \in start + 1 .. Len(f)
  BY <1>1, <1>3, <1>4 DEF RangeEnds
<1>5. CASE end \notin start + 1 .. Len(f)
  <2>1. end \notin RangeEnds(f, start)
    BY <1>5 DEF RangeEnds
  <2>2. end \in RangeEnds(g, start) => ~(end <= Len(f))
    BY <1>1, <1>5 DEF RangeEnds
  <2> QED
    BY <2>1, <2>2
<1> QED
  BY <1>4, <1>5

LEMMA EndsAre ==
  ASSUME NEW S, NEW f \in Seq(S), NEW start \in Nat, NEW end \in RangeEnds(f, start)
  PROVE  end \in Nat /\ start < end /\ end <= Len(f)
BY LenProperties DEF RangeEnds

(* Numbers and types of a state, for any source. *)
LEMMA Lengths ==
  ASSUME TypeOK, NEW s \in Sources
  PROVE  /\ {file[s], stored[s], ledger[s]} \subseteq Seq(Record)
         /\ {Len(file[s]), Len(stored[s]), Len(ledger[s]), lastStart[s]} \subseteq Nat
BY LenProperties DEF TypeOK, Ledger

LEMMA BatchIs ==
  ASSUME NEW b \in Batch
  PROVE  /\ b.src \in Sources /\ b.recs \in Seq(Record)
         /\ {b.start, Len(b.recs), End(b)} \subseteq Nat
<1>1. b.src \in Sources /\ b.recs \in Seq(Record) /\ b.start \in Nat
  BY DEF Batch
<1> DEFINE size == Len(b.recs)
           start == b.start
<1>2. size \in Nat /\ start \in Nat
  BY <1>1, LenProperties
<1> HIDE DEF size, start
<1>3. start + size \in Nat
  BY <1>2
<1> QED
  BY <1>1, <1>2, <1>3 DEF End, size, start

LEMMA EventFacts ==
  ASSUME NEW e \in Event, NEW step
  PROVE  /\ e.src \in Sources /\ {e.base, e.recs, e.snapshot} \subseteq Seq(Record)
         /\ {Len(e.base), Len(e.recs), Limit(e, step)} \subseteq Nat
<1>1. e.src \in Sources /\ {e.base, e.recs, e.snapshot} \subseteq Seq(Record)
  BY DEF Event
<1> DEFINE base == Len(e.base)
           size == Len(e.recs)
<1>2. base \in Nat /\ size \in Nat /\ Len(e.snapshot) \in Nat
  BY <1>1, LenProperties
<1> HIDE DEF base, size
<1>3. base + size \in Nat
  BY <1>2
<1> QED
  BY <1>1, <1>2, <1>3 DEF Limit, base, size

LEMMA InitCInv == Init => CInv
<1> SUFFICES ASSUME Init PROVE CInv
  OBVIOUS
<1>1. \A s \in Sources : stored[s] = <<>> /\ ledger[s] = <<>>
  BY DEF Init, EmptyLedger
<1>2. PendingInv
  BY <1>1 DEF PendingInv
<1> QED
  BY <1>2 DEF Init, CInv, LateInv, ReachInv, CurrentInv

LEMMA AppendCInv ==
  ASSUME DInv, CInv, NEW s \in Sources, NEW r \in Record, AppendRecord(s, r)
  PROVE  CInv'
<1>1. /\ UNCHANGED <<stored, lastStart, orphans, ledger, pc, mem, event, answer>>
      /\ file' = [file EXCEPT ![s] = Append(@, r)]
  BY DEF AppendRecord, procVars
<1>2. TypeOK
  BY DEF DInv, Inv
<1>3. ASSUME NEW t \in Sources, NEW start \in Nat, NEW end \in RangeEnds(file[t], start)
      PROVE  end \in RangeEnds(file'[t], start)
  <2>1. file \in [Sources -> Seq(Record)] /\ file[t] \in Seq(Record)
    BY <1>2 DEF TypeOK, Ledger
  <2>2. CASE t = s
    <3>1. /\ file'[t] = Append(file[t], r)
          /\ file'[t] \in Seq(Record) /\ Piece(file'[t], 0, file[t])
      BY <1>1, <2>1, <2>2, PieceAppend
    <3> QED
      BY <1>3, <2>1, <3>1, EndsAgree
  <2>3. CASE t # s
    BY <1>1, <1>3, <2>1, <2>3
  <2> QED
    BY <2>2, <2>3
<1>4. PendingInv'
  BY <1>1, <1>2, <1>3, Lengths DEF CInv, PendingInv
<1>5. LateInv'
  <2> SUFFICES ASSUME NEW b \in orphans
               PROVE  b.start <= Len(ledger[b.src]) /\ End(b) \in RangeEnds(file'[b.src], b.start)
    BY <1>1 DEF LateInv, RangeEnds
  <2>1. b.src \in Sources /\ b.start \in Nat
    BY <1>2 DEF TypeOK, Batch
  <2> QED
    BY <1>3, <2>1 DEF CInv, LateInv
<1>6. ReachInv'
  <2> SUFFICES ASSUME NEW c \in Collectors, pc[c] \in {"read", "await"}
               PROVE  Reaches(event[c], pc[c])'
    BY <1>1 DEF ReachInv
  <2>1. event[c] \in Event
    BY <1>2 DEF TypeOK
  <2>2. event[c].src \in Sources /\ Len(event[c].base) \in Nat
    BY <2>1, EventFacts
  <2>3. Reaches(event[c], pc[c])
    BY DEF CInv, ReachInv
  <2>4. pc[c] = "await" =>
          Limit(event[c], pc[c]) \in RangeEnds(file'[event[c].src], Len(event[c].base))
    BY <1>3, <2>2, <2>3 DEF Reaches
  <2> QED
    BY <1>1, <2>3, <2>4 DEF Reaches, Limit
<1>7. CurrentInv'
  BY <1>1 DEF CInv, CurrentInv, Current
<1> QED
  BY <1>4, <1>5, <1>6, <1>7 DEF CInv

(* The worker commits a request that starts no later than the ledger ends   *)
(* only if both end at the same record.                                     *)
LEMMA Commits ==
  ASSUME TypeOK, FilesInv, NEW b \in Batch, b.start <= Len(ledger[b.src]),
         WorkerAccepts(b) \/ WorkerRefuses(b)
  PROVE  \/ UNCHANGED <<stored, lastStart>>
         \/ /\ b.start = Len(ledger[b.src]) /\ b.start = Len(stored[b.src])
            /\ Len(stored'[b.src]) = End(b) /\ lastStart'[b.src] = b.start
            /\ \A s \in Sources \ {b.src} :
                 stored'[s] = stored[s] /\ lastStart'[s] = lastStart[s]
<1>1. /\ b.src \in Sources /\ b.recs \in Seq(Record) /\ b.start \in Nat
      /\ stored[b.src] \in Seq(Record)
      /\ Len(stored[b.src]) \in Nat /\ Len(ledger[b.src]) \in Nat
  BY BatchIs, Lengths
<1>2. CASE UNCHANGED <<stored, lastStart>>
  BY <1>2
<1>3. CASE /\ b.start = Len(stored[b.src])
           /\ stored' = [stored EXCEPT ![b.src] = @ \o b.recs]
           /\ lastStart' = [lastStart EXCEPT ![b.src] = b.start]
  <2>1. Len(ledger[b.src]) <= Len(stored[b.src])
    BY <1>1 DEF FilesInv
  <2>2. b.start = Len(ledger[b.src])
    BY <1>1, <1>3, <2>1
  <2> DEFINE held == stored[b.src]
             more == held \o b.recs
  <2>3. /\ stored'[b.src] = more /\ lastStart'[b.src] = b.start
        /\ \A s \in Sources \ {b.src} :
             stored'[s] = stored[s] /\ lastStart'[s] = lastStart[s]
    BY <1>1, <1>3 DEF TypeOK, Ledger
  <2> HIDE DEF held
  <2>4. Len(more) = Len(held) + Len(b.recs)
    BY <1>1, ConcatProperties DEF held
  <2> HIDE DEF more
  <2>5. Len(stored'[b.src]) = End(b)
    BY <1>3, <2>3, <2>4 DEF End, held
  <2> QED
    BY <1>3, <2>2, <2>3, <2>5
<1> QED
  BY <1>2, <1>3 DEF WorkerAccepts, WorkerRefuses, Watermark

(* What the worker gets from such a request is within reach of a collector. *)
LEMMA RequestKeeps ==
  ASSUME DInv, CInv, NEW b \in Batch, b.start <= Len(ledger[b.src]),
         End(b) \in RangeEnds(file[b.src], b.start),
         WorkerAccepts(b) \/ WorkerRefuses(b),
         UNCHANGED <<file, ledger, pc, mem, event>>, orphans' \subseteq orphans,
         \A c \in Collectors :
           pc[c] \in {"read", "await"} /\ event[c].src = b.src
             /\ b.start = Len(event[c].base) => End(b) <= Limit(event[c], pc[c])
  PROVE  PendingInv' /\ LateInv' /\ ReachInv'
<1>1. TypeOK /\ FilesInv
  BY DEF DInv, Inv, PiecesInv
<1>2. \/ UNCHANGED <<stored, lastStart>>
      \/ /\ b.start = Len(ledger[b.src]) /\ b.start = Len(stored[b.src])
         /\ Len(stored'[b.src]) = End(b) /\ lastStart'[b.src] = b.start
         /\ \A s \in Sources \ {b.src} :
              stored'[s] = stored[s] /\ lastStart'[s] = lastStart[s]
  BY <1>1, Commits
<1>3. PendingInv'
  BY <1>2 DEF CInv, PendingInv
<1>4. LateInv'
  BY DEF CInv, LateInv
<1>5. ReachInv'
  <2> SUFFICES ASSUME NEW c \in Collectors, pc[c] \in {"read", "await"}
               PROVE  Reaches(event[c], pc[c])'
    BY DEF ReachInv
  <2>1. Reaches(event[c], pc[c])
    BY DEF CInv, ReachInv
  <2>2. event[c] \in Event
    BY <1>1 DEF TypeOK
  <2>3. event[c].src \in Sources
    BY <2>2, EventFacts
  <2>4. Len(stored'[event[c].src]) <= Limit(event[c], pc[c])
    <3>1. CASE stored'[event[c].src] = stored[event[c].src]
      BY <2>1, <3>1 DEF Reaches
    <3>2. CASE /\ event[c].src = b.src /\ b.start = Len(ledger[b.src])
               /\ Len(stored'[b.src]) = End(b)
      <4>1. event[c].base = ledger[b.src]
        BY <3>2 DEF DInv, PiecesInv, EventsInv, EventIs, Inv, LockInv
      <4> QED
        BY <3>2, <4>1
    <3> QED
      BY <1>2, <2>3, <3>1, <3>2
  <2> QED
    BY <2>1, <2>4 DEF Reaches, Limit
<1> QED
  BY <1>3, <1>4, <1>5

(* An answered request leaves the source as it was when it was answered. *)
LEMMA AnsweredStays ==
  ASSUME DInv, CInv, NEW b \in Batch, b.start <= Len(ledger[b.src]),
         WorkerAccepts(b) \/ WorkerRefuses(b),
         NEW d \in Collectors, answer[d] # None
  PROVE  stored'[event[d].src] = stored[event[d].src]
<1>1. TypeOK /\ FilesInv
  BY DEF DInv, Inv, PiecesInv
<1> DEFINE e == event[d]
           start == Len(e.base)
           held == Len(stored[e.src])
<1>2. pc[d] = "await" /\ e \in Event /\ answer[d] \in Answer
  BY <1>1 DEF DInv, Inv, AnswerInv, TypeOK
<1>3. /\ e.src \in Sources /\ start \in Nat /\ Len(e.recs) \in Nat
      /\ file[e.src] \in Seq(Record) /\ held \in Nat
  BY <1>1, <1>2, EventFacts, Lengths
<1>4. e.base = ledger[e.src]
  BY <1>2 DEF DInv, PiecesInv, EventsInv, EventIs, Inv, LockInv
<1>5. start < held
  <2>1. Limit(e, "await") \in RangeEnds(file[e.src], start)
    BY <1>2 DEF CInv, ReachInv, Reaches
  <2>2. start < Limit(e, "await")
    BY <1>3, <2>1, EndsAre
  <2>3. Current(answer[d], e)
    BY DEF CInv, CurrentInv
  <2> QED
    BY <1>2, <2>2, <2>3 DEF Current, Limit, Answer
<1>6. \/ stored' = stored
      \/ /\ b.start = Len(ledger[b.src]) /\ b.start = Len(stored[b.src])
         /\ \A s \in Sources \ {b.src} : stored'[s] = stored[s]
  BY <1>1, Commits
<1>7. ~(b.src = e.src /\ b.start = Len(ledger[b.src]) /\ b.start = Len(stored[b.src]))
  <2> HIDE DEF e
  <2>1. start \in Nat /\ held \in Nat /\ start < held /\ Len(ledger[e.src]) = start
    BY <1>3, <1>4, <1>5
  <2> QED
    BY <2>1
<1> QED
  BY <1>3, <1>6, <1>7

(* A refused request found the first records of it with the worker, and the *)
(* worker proves just these.                                                *)
LEMMA RefusedIs ==
  ASSUME DInv, CInv, NEW c \in Collectors, pc[c] = "await", answer[c] = None,
         WorkerRefuses(Request(c)), NEW from \in ProofStarts(Request(c))
  PROVE  Current(Conflict(Request(c), from), event[c])
<1> DEFINE e == event[c]
           s == e.src
           f == file[s]
           start == Len(e.base)
           size == Len(e.recs)
           held == stored[s]
           watermark == Len(held)
           end == start + size
<1>1. TypeOK /\ FilesInv /\ e \in Event
  BY DEF DInv, Inv, PiecesInv, TypeOK
<1>2. /\ s \in Sources /\ e.recs \in Seq(Record) /\ start \in Nat /\ size \in Nat
      /\ f \in Seq(Record) /\ held \in Seq(Record) /\ watermark \in Nat /\ end \in Nat
  <2>1. s \in Sources /\ e.recs \in Seq(Record) /\ start \in Nat /\ size \in Nat
        /\ Limit(e, "await") \in Nat
    BY <1>1, EventFacts
  <2>2. f \in Seq(Record) /\ held \in Seq(Record) /\ watermark \in Nat
    BY <1>1, <2>1, Lengths
  <2> QED
    BY <2>1, <2>2 DEF Limit
<1>3. e.base = ledger[s] /\ Piece(f, start, e.recs) /\ Piece(f, 0, held)
  BY <1>1, <1>2 DEF DInv, PiecesInv, EventsInv, EventIs, FilesInv, Inv, LockInv
<1>4. start <= watermark /\ watermark <= end
  BY <1>1, <1>2, <1>3 DEF FilesInv, CInv, ReachInv, Reaches, Limit
<1>5. /\ IF end <= watermark THEN SubSeq(held, start + 1, end) # e.recs
                             ELSE start # watermark
      /\ from \in {lastStart[s]} \cup ({start} \cap 0 .. watermark)
      /\ Conflict(Request(c), from) =
           [kind |-> "conflict", watermark |-> watermark, proofStart |-> from,
            proof |-> SubSeq(held, from + 1, watermark)]
  BY DEF WorkerRefuses, ProofStarts, Conflict, Watermark, Request
<1> HIDE DEF f, start, size, held, watermark
<1>6. ~(end <= watermark)
  <2> SUFFICES ASSUME end <= watermark PROVE SubSeq(held, start + 1, end) = e.recs
    BY <1>5
  <2> DEFINE slice == SubSeq(held, start + 1, end)
  <2>1. /\ slice \in Seq(Record) /\ Len(slice) = end - start /\ Piece(f, start, slice)
    <3>1. start <= end /\ end <= Len(held) /\ end \in Int
      BY <1>2 DEF watermark
    <3> HIDE DEF end
    <3> QED
      BY <1>2, <1>3, <3>1, PieceSlice
  <2>2. Len(slice) = size
    BY <1>2, <2>1
  <2> HIDE DEF slice
  <2> QED
    BY <1>2, <1>3, <2>1, <2>2, PiecesEqual DEF slice, size
<1>7. start < watermark /\ watermark < end
  BY <1>2, <1>4, <1>5, <1>6
<1>8. from = start
  <2>1. lastStart[s] = start
    BY <1>2, <1>3, <1>7 DEF CInv, PendingInv, start, held, watermark
  <2> QED
    BY <1>5, <2>1
<1> DEFINE n == watermark - start
           proof == SubSeq(held, start + 1, watermark)
           taken == SubSeq(e.recs, 1, n)
<1>9. /\ proof \in Seq(Record) /\ Len(proof) = n /\ Piece(f, start, proof)
  <2>1. start <= watermark /\ watermark <= Len(held) /\ watermark \in Int
    BY <1>2, <1>7 DEF watermark
  <2> QED
    BY <1>2, <1>3, <2>1, PieceSlice
<1>10. /\ taken \in Seq(Record) /\ Len(taken) = n /\ Piece(f, start, taken)
  <2>1. n \in Nat /\ n <= size
    BY <1>2, <1>7
  <2> HIDE DEF n, e
  <2>2. /\ taken \in Seq(Record) /\ Len(taken) = n
        /\ \A i \in 1 .. Len(taken) : taken[i] = e.recs[i]
    <3>1. /\ SubSeq(e.recs, 1, n) \in Seq(Record)
          /\ Len(SubSeq(e.recs, 1, n)) = IF 1 <= n THEN n ELSE 0
          /\ \A i \in 1 .. Len(SubSeq(e.recs, 1, n)) :
               SubSeq(e.recs, 1, n)[i] = e.recs[i]
      BY <1>2, <2>1, PrefixType DEF size
    <3> QED
      BY <2>1, <3>1
  <2> HIDE DEF taken
  <2>3. Len(taken) <= Len(e.recs)
    BY <2>1, <2>2 DEF size
  <2> QED
    BY <1>2, <1>3, <2>2, <2>3, PieceStart
<1>11. proof = taken
  <2> HIDE DEF proof, taken, n
  <2> QED
    BY <1>2, <1>9, <1>10, PiecesEqual
<1> HIDE DEF proof, taken
<1>12. Conflict(Request(c), from) =
        [kind |-> "conflict", watermark |-> watermark, proofStart |-> start, proof |-> taken]
  BY <1>5, <1>8, <1>11 DEF proof
<1> DEFINE a == Conflict(Request(c), from)
<1>13. /\ a.kind = "conflict" /\ a.watermark = watermark /\ a.proofStart = start
       /\ a.proof = taken
  BY <1>12
<1> HIDE DEF a, n
<1>14. a.kind # "accepted"
  BY <1>13
<1>15. Current(a, e)
  <2> HIDE DEF end
  <2>1. /\ a.watermark = Len(stored[e.src]) /\ a.proofStart = Len(e.base)
        /\ Len(e.base) < Len(stored[e.src])
        /\ a.proof = SubSeq(e.recs, 1, Len(stored[e.src]) - Len(e.base))
    BY <1>7, <1>13 DEF taken, n, start, held, watermark
  <2>2. Len(stored[e.src]) < Len(e.base) + Len(e.recs)
    BY <1>7 DEF end, start, size, held, watermark
  <2> QED
    BY <1>13, <1>14, <2>1, <2>2 DEF Current
<1> QED
  BY <1>15 DEF a

LEMMA WorkerCInv ==
  ASSUME DInv, CInv,
         \/ \E b \in orphans : WorkerReceivesLate(b)
         \/ \E c \in Collectors : WorkerReceives(c)
  PROVE  CInv'
<1>1. TypeOK /\ FilesInv /\ LockInv
  BY DEF DInv, Inv, PiecesInv
<1>2. ASSUME NEW b \in orphans, WorkerReceivesLate(b)
      PROVE  CInv'
  <2>1. /\ b \in Batch /\ b.start <= Len(ledger[b.src])
        /\ End(b) \in RangeEnds(file[b.src], b.start)
        /\ WorkerAccepts(b) \/ WorkerRefuses(b)
        /\ UNCHANGED <<file, ledger, pc, mem, event, answer>> /\ orphans' \subseteq orphans
    BY <1>1, <1>2 DEF WorkerReceivesLate, procVars, TypeOK, CInv, LateInv
  <2>2. ASSUME NEW c \in Collectors, pc[c] \in {"read", "await"}, event[c].src = b.src,
               b.start = Len(event[c].base)
        PROVE  End(b) <= Limit(event[c], pc[c])
    BY <2>2 DEF CInv, ReachInv, Reaches
  <2>3. PendingInv' /\ LateInv' /\ ReachInv'
    BY <2>1, <2>2, RequestKeeps
  <2>4. CurrentInv'
    <3> SUFFICES ASSUME NEW d \in Collectors, answer[d] # None
                 PROVE  Current(answer[d], event[d])'
      BY <2>1 DEF CurrentInv
    <3>1. stored'[event[d].src] = stored[event[d].src]
      BY <2>1, AnsweredStays
    <3>2. Current(answer[d], event[d])
      BY DEF CInv, CurrentInv
    <3> QED
      BY <2>1, <3>1, <3>2 DEF Current
  <2> QED
    BY <2>3, <2>4 DEF CInv
<1>3. ASSUME NEW c \in Collectors, WorkerReceives(c)
      PROVE  CInv'
  <2> DEFINE e == event[c]
             start == Len(e.base)
             end == Limit(e, "await")
  <2>1. PICK b \in Batch : b = Request(c)
    BY <1>1, <1>3, RequestType DEF WorkerReceives
  <2>2. /\ UNCHANGED <<file, orphans, ledger, pc, mem, event>>
        /\ pc[c] = "await" /\ answer[c] = None
        /\ \/ WorkerAccepts(b) /\ answer' = [answer EXCEPT ![c] = [kind |-> "accepted"]]
           \/ /\ WorkerRefuses(b)
              /\ \E from \in ProofStarts(b) :
                   answer' = [answer EXCEPT ![c] = Conflict(b, from)]
    BY <1>3, <2>1 DEF WorkerReceives
  <2>3. /\ b.src = e.src /\ b.start = start /\ b.recs = e.recs /\ End(b) = end
    BY <2>1 DEF Request, End, Limit
  <2>4. /\ e.src \in Sources /\ start \in Nat /\ end \in Nat
        /\ e.base = ledger[e.src] /\ Piece(file[e.src], start, e.recs)
        /\ end \in RangeEnds(file[e.src], start)
    <3>1. e \in Event
      BY <1>1, <2>2 DEF TypeOK
    <3> QED
      BY <1>1, <2>2, <3>1, EventFacts
      DEF DInv, PiecesInv, EventsInv, EventIs, LockInv, CInv, ReachInv, Reaches
  <2>5. ASSUME NEW d \in Collectors, pc[d] \in {"read", "await"}
        PROVE  End(b) <= Limit(event[d], pc[d])
    <3>1. d = c
      BY <1>1, <2>2, <2>5 DEF LockInv
    <3> QED
      BY <2>2, <2>3, <2>4, <3>1
  <2>6. /\ b.start <= Len(ledger[b.src]) /\ End(b) \in RangeEnds(file[b.src], b.start)
        /\ WorkerAccepts(b) \/ WorkerRefuses(b)
    BY <2>2, <2>3, <2>4
  <2>7. PendingInv' /\ LateInv' /\ ReachInv'
    BY <2>2, <2>5, <2>6, RequestKeeps
  <2>8. Current(answer[c], e)'
    <3>1. CASE WorkerAccepts(b) /\ answer' = [answer EXCEPT ![c] = [kind |-> "accepted"]]
      <4>1. answer'[c].kind = "accepted" /\ answer'[c].kind # "conflict"
        BY <1>1, <3>1 DEF TypeOK
      <4>2. b.start + Len(b.recs) <= Len(stored'[b.src])
        BY <1>1, <2>2, <2>3, <2>4, <3>1, WorkerStores
      <4>3. Len(stored'[e.src]) <= end
        BY <2>2, <2>7 DEF ReachInv, Reaches, Limit
      <4>4. Len(stored'[e.src]) \in Nat
        <5>1. TypeOK'
          BY <1>3, WorkerTypeOK DEF DInv, Inv
        <5>2. stored'[e.src] \in Seq(Record)
          BY <2>4, <5>1 DEF TypeOK, Ledger
        <5> QED
          BY <5>2, LenProperties
      <4>5. end <= Len(stored'[e.src])
        BY <2>3, <4>2 DEF End
      <4> HIDE DEF end
      <4>6. Len(stored'[e.src]) = end
        BY <2>4, <4>3, <4>4, <4>5
      <4>7. Len(stored'[e.src]) = Len(e.base) + Len(e.recs)
        BY <4>6 DEF end, Limit
      <4> QED
        BY <2>2, <4>1, <4>7 DEF Current
    <3>2. ASSUME WorkerRefuses(b), NEW from \in ProofStarts(b),
                 answer' = [answer EXCEPT ![c] = Conflict(b, from)]
          PROVE  Current(answer[c], e)'
      <4>1. answer'[c] = Conflict(b, from) /\ stored' = stored
        BY <1>1, <3>2 DEF TypeOK, WorkerRefuses
      <4>2. Current(Conflict(b, from), e)
        BY <2>1, <2>2, <3>2, RefusedIs
      <4> QED
        BY <2>2, <4>1, <4>2 DEF Current
    <3> QED
      BY <2>2, <3>1, <3>2
  <2>9. CurrentInv'
    <3> SUFFICES ASSUME NEW d \in Collectors, answer'[d] # None
                 PROVE  Current(answer[d], event[d])'
      BY DEF CurrentInv
    <3>1. CASE d = c
      BY <2>8, <3>1
    <3>2. CASE d # c
      <4>1. answer'[d] = answer[d]
        BY <1>1, <2>2, <3>2 DEF TypeOK
      <4>2. stored'[event[d].src] = stored[event[d].src]
        BY <2>6, <4>1, AnsweredStays
      <4>3. Current(answer[d], event[d])
        BY <4>1 DEF CInv, CurrentInv
      <4> QED
        BY <2>2, <4>1, <4>2, <4>3 DEF Current
    <3> QED
      BY <3>1, <3>2
  <2> QED
    BY <2>7, <2>9 DEF CInv
<1> QED
  BY <1>2, <1>3

(* A step of c alone, before it has an answer. *)
LEMMA LocalCInv ==
  ASSUME DInv, CInv, NEW c \in Collectors, pc[c] # "await",
         UNCHANGED <<file, stored, lastStart, orphans, ledger, answer>>,
         \A d \in Collectors \ {c} : pc'[d] = pc[d] /\ event'[d] = event[d],
         pc'[c] \in {"read", "await"} => Reaches(event'[c], pc'[c])
  PROVE  CInv'
<1>1. PendingInv' /\ LateInv'
  BY DEF CInv, PendingInv, LateInv
<1>2. ReachInv'
  <2> SUFFICES ASSUME NEW d \in Collectors, pc'[d] \in {"read", "await"}
               PROVE  Reaches(event[d], pc[d])'
    BY DEF ReachInv
  <2>1. Reaches(event'[d], pc'[d])
    BY DEF CInv, ReachInv
  <2> QED
    BY <2>1 DEF Reaches, Limit
<1>3. CurrentInv'
  <2>1. answer[c] = None
    BY DEF DInv, Inv, AnswerInv
  <2> QED
    BY <2>1 DEF CInv, CurrentInv, Current
<1> QED
  BY <1>1, <1>2, <1>3 DEF CInv

LEMMA OpenCInv ==
  ASSUME DInv, CInv, NEW c \in Collectors, OpenSource(c)
  PROVE  CInv'
<1>1. /\ pc[c] = "select"
      /\ UNCHANGED <<file, stored, lastStart, orphans, ledger, answer>>
  BY DEF OpenSource, envVars
<1>2. TypeOK
  BY DEF DInv, Inv
<1> DEFINE intact(s) == IsPrefix(mem[c][s], file[s])
           base(s) == IF intact(s) THEN mem[c][s] ELSE <<>>
           opened(s) == [src |-> s, base |-> base(s), snapshot |-> file[s],
                         recs |-> <<>>, reset |-> ~intact(s)]
<1>3. PICK s \in todo[c] :
        \/ UNCHANGED <<pc, event>>
        \/ /\ pc' = [pc EXCEPT ![c] = "read"]
           /\ event' = [event EXCEPT ![c] = opened(s)]
  BY DEF OpenSource
<1>4. CASE UNCHANGED <<pc, event>>
  BY <1>1, <1>4, LocalCInv
<1>5. CASE /\ pc' = [pc EXCEPT ![c] = "read"]
           /\ event' = [event EXCEPT ![c] = opened(s)]
  <2>1. s \in Sources
    BY <1>2 DEF TypeOK
  <2>2. opened(s).src = s /\ opened(s).snapshot = file[s]
    OBVIOUS
  <2> HIDE DEF opened
  <2>3. Len(stored[s]) <= Len(file[s])
    BY <1>2, <2>1, Lengths DEF DInv, PiecesInv, FilesInv, Piece
  <2>4. ASSUME NEW b \in orphans, b.src = s
        PROVE  End(b) <= Len(file[s])
    <3>1. b \in Batch
      BY <1>2 DEF TypeOK
    <3>2. End(b) \in RangeEnds(file[s], b.start) /\ b.start \in Nat /\ file[s] \in Seq(Record)
      BY <1>2, <2>1, <2>4, <3>1, BatchIs, Lengths DEF CInv, LateInv
    <3> QED
      BY <3>2, EndsAre
  <2>5. Reaches(opened(s), "read")
    BY <2>2, <2>3, <2>4 DEF Reaches, Limit
  <2>6. /\ pc'[c] = "read" /\ event'[c] = opened(s)
        /\ \A d \in Collectors \ {c} : pc'[d] = pc[d] /\ event'[d] = event[d]
    BY <1>2, <1>5 DEF TypeOK
  <2> QED
    BY <1>1, <2>5, <2>6, LocalCInv
<1> QED
  BY <1>3, <1>4, <1>5

(* A request takes all it may of the snapshot, so it reaches whatever the   *)
(* worker has or may commit from the same start: these were read before.    *)
LEMMA ReadCInv ==
  ASSUME DInv, CInv, NEW c \in Collectors, ReadAndPost(c)
  PROVE  CInv'
<1> DEFINE e == event[c]
           f == file[e.src]
           size == Len(e.snapshot)
           start == Len(e.base)
           inPlace == SubSeq(f, 1, IF Len(f) < size THEN Len(f) ELSE size)
           posted(seen, end) ==
             [e EXCEPT !.snapshot = <<>>, !.recs = SubSeq(seen, start + 1, end)]
<1>1. /\ pc[c] = "read"
      /\ UNCHANGED <<file, stored, lastStart, orphans, ledger, answer>>
  BY DEF ReadAndPost, envVars
<1>2. TypeOK /\ e \in Event /\ LockInv
  BY <1>1 DEF DInv, Inv, TypeOK
<1>3. /\ e.src \in Sources /\ start \in Nat /\ size \in Nat /\ f \in Seq(Record)
      /\ Len(stored[e.src]) \in Nat
  <2>1. e.src \in Sources /\ start \in Nat /\ e.snapshot \in Seq(Record)
    BY <1>2, EventFacts
  <2> QED
    BY <1>2, <2>1, Lengths, LenProperties
<1>4. e.base = ledger[e.src]
  BY <1>1, <1>2 DEF DInv, PiecesInv, EventsInv, EventIs, LockInv
<1>5. Reaches(e, "read")
  BY <1>1 DEF CInv, ReachInv
<1>6. PICK seen \in {e.snapshot, inPlace} :
        \/ /\ pc' = [pc EXCEPT ![c] = "select"]
           /\ event' = [event EXCEPT ![c] = None]
        \/ \E end \in RangeEnds(seen, start) :
             /\ \A other \in RangeEnds(seen, start) : other <= end
             /\ pc' = [pc EXCEPT ![c] = "await"]
             /\ event' = [event EXCEPT ![c] = posted(seen, end)]
  BY DEF ReadAndPost
<1>7. seen \in Seq(Record) /\ Piece(f, 0, seen) /\ Len(seen) = size
  BY <1>1, SeenIs
<1>8. CASE /\ pc' = [pc EXCEPT ![c] = "select"]
           /\ event' = [event EXCEPT ![c] = None]
  <2>1. /\ pc'[c] = "select"
        /\ \A d \in Collectors \ {c} : pc'[d] = pc[d] /\ event'[d] = event[d]
    BY <1>2, <1>8 DEF TypeOK
  <2> QED
    BY <1>1, <2>1, LocalCInv
<1>9. ASSUME NEW end \in RangeEnds(seen, start),
             \A other \in RangeEnds(seen, start) : other <= end,
             pc' = [pc EXCEPT ![c] = "await"],
             event' = [event EXCEPT ![c] = posted(seen, end)]
      PROVE  CInv'
  <2>1. end \in Nat /\ start < end /\ end <= Len(seen)
    BY <1>3, <1>7, <1>9, EndsAre
  <2>2. end \in RangeEnds(f, start)
    BY <1>3, <1>7, <1>9, EndsAgree
  <2>3. ASSUME NEW other \in RangeEnds(f, start), other <= size
        PROVE  other <= end
    <3>1. other \in RangeEnds(seen, start)
      BY <1>3, <1>7, <2>3, EndsAgree
    <3> QED
      BY <1>9, <3>1
  <2>4. Len(stored[e.src]) <= end
    <3>1. Len(stored[e.src]) <= size
      BY <1>5 DEF Reaches, Limit
    <3>2. CASE start < Len(stored[e.src])
      <4>1. Len(stored[e.src]) \in RangeEnds(f, start)
        BY <1>3, <1>4, <3>2 DEF CInv, PendingInv
      <4> QED
        BY <2>3, <3>1, <4>1
    <3> QED
      BY <1>3, <2>1, <3>2
  <2>5. ASSUME NEW b \in orphans, b.src = e.src, b.start = start
        PROVE  End(b) <= end
    <3>1. End(b) \in RangeEnds(f, start)
      BY <2>5 DEF CInv, LateInv
    <3>2. End(b) <= size
      BY <1>5, <2>5 DEF Reaches, Limit
    <3> QED
      BY <2>3, <3>1, <3>2
  <2> DEFINE p == posted(seen, end)
             recs == SubSeq(seen, start + 1, end)
  <2>6. p.src = e.src /\ p.base = e.base /\ p.recs = recs
    BY <1>2 DEF Event
  <2>7. Limit(p, "await") = end
    <3>1. Len(recs) = end - start
      <4> HIDE DEF start, f
      <4> QED
        BY <1>3, <1>7, <2>1, PieceSlice
    <3>2. Limit(p, "await") = start + Len(recs)
      BY <2>6 DEF Limit
    <3> HIDE DEF recs, start, p
    <3> QED
      BY <1>3, <2>1, <3>1, <3>2
  <2> HIDE DEF p
  <2>8. Reaches(p, "await")
    BY <2>2, <2>4, <2>5, <2>6, <2>7 DEF Reaches
  <2>9. /\ pc'[c] = "await" /\ event'[c] = p
        /\ \A d \in Collectors \ {c} : pc'[d] = pc[d] /\ event'[d] = event[d]
    BY <1>2, <1>9 DEF TypeOK, p
  <2> QED
    BY <1>1, <2>8, <2>9, LocalCInv
<1> QED
  BY <1>6, <1>8, <1>9

LEMMA RunningCInv ==
  ASSUME DInv, CInv, NEW c \in Collectors,
         \/ StartCollect(c) \/ AcquireLock(c)
         \/ OpenSource(c) \/ ReadAndPost(c) \/ SkipUnreadable(c)
  PROVE  CInv'
<1>1. UNCHANGED <<file, stored, lastStart, orphans, ledger, answer>>
  BY DEF StartCollect, AcquireLock, OpenSource, ReadAndPost, SkipUnreadable, envVars
<1>2. CASE StartCollect(c) \/ AcquireLock(c)
  <2>1. /\ pc[c] # "await" /\ pc'[c] \notin {"read", "await"}
        /\ \A d \in Collectors \ {c} : pc'[d] = pc[d] /\ event'[d] = event[d]
    BY <1>2 DEF StartCollect, AcquireLock, DInv, Inv, TypeOK
  <2> QED
    BY <1>1, <2>1, LocalCInv
<1>3. CASE SkipUnreadable(c)
  <2>1. pc[c] = "select" /\ UNCHANGED <<pc, event>>
    BY <1>3 DEF SkipUnreadable
  <2> QED
    BY <1>1, <2>1, LocalCInv
<1> QED
  BY <1>2, <1>3, OpenCInv, ReadCInv

(* Leaving uploadPaths with a ledger that is no shorter. *)
LEMMA LeaveCInv ==
  ASSUME DInv, CInv, NEW c \in Collectors,
         Finish(c) \/ NextPhase(c) \/ NextRequest(c),
         UNCHANGED <<file, stored, lastStart>>, PendingInv', TypeOK',
         \A s \in Sources : Len(ledger[s]) <= Len(ledger'[s]),
         orphans' = orphans \/ (pc[c] = "await" /\ orphans' = orphans \cup {Request(c)})
  PROVE  CInv'
<1>1. TypeOK /\ LockInv
  BY DEF DInv, Inv
<1>2. /\ EndRequest(c)
      /\ \E step \in {"idle", "wait"} : pc' = [pc EXCEPT ![c] = step]
  BY <1>1, LeaveTypes
<1>3. /\ pc'[c] \in {"idle", "wait"} /\ answer'[c] = None
      /\ \A d \in Collectors \ {c} :
           pc'[d] = pc[d] /\ event'[d] = event[d] /\ answer'[d] = answer[d]
  BY <1>1, <1>2 DEF TypeOK, EndRequest
<1>4. ASSUME NEW b \in Batch, b.start <= Len(ledger[b.src])
      PROVE  b.start <= Len(ledger'[b.src])
  <2>1. b.src \in Sources /\ b.start \in Nat /\ Len(ledger[b.src]) \in Nat
    BY <1>1, BatchIs, Lengths
  <2>2. ledger'[b.src] \in Seq(Record)
    BY <2>1 DEF TypeOK, Ledger
  <2>3. Len(ledger'[b.src]) \in Nat /\ Len(ledger[b.src]) <= Len(ledger'[b.src])
    BY <2>1, <2>2, LenProperties
  <2> QED
    BY <1>4, <2>1, <2>3
<1>5. ASSUME NEW b \in orphans'
      PROVE  /\ b \in Batch /\ b.start <= Len(ledger[b.src])
             /\ End(b) \in RangeEnds(file[b.src], b.start)
  <2>1. CASE b \in orphans
    BY <1>1, <2>1 DEF TypeOK, CInv, LateInv
  <2>2. CASE pc[c] = "await" /\ b = Request(c)
    <3> DEFINE e == event[c]
    <3>1. /\ e \in Event /\ b \in Batch
          /\ b.src = e.src /\ b.start = Len(e.base) /\ End(b) = Limit(e, "await")
      BY <1>1, <2>2, RequestType DEF Request, End, Limit, TypeOK
    <3>2. e.base = ledger[e.src]
      BY <1>1, <2>2 DEF DInv, PiecesInv, EventsInv, EventIs, LockInv
    <3>3. Limit(e, "await") \in RangeEnds(file[e.src], Len(e.base))
      BY <2>2 DEF CInv, ReachInv, Reaches
    <3>4. e.src \in Sources
      BY <3>1, EventFacts
    <3>5. Len(ledger[e.src]) \in Nat
      BY <1>1, <3>4, Lengths
    <3> HIDE DEF e
    <3> QED
      BY <3>1, <3>2, <3>3, <3>5
  <2> QED
    BY <1>5, <2>1, <2>2
<1>6. LateInv'
  BY <1>4, <1>5 DEF LateInv
<1>7. ReachInv'
  <2> SUFFICES ASSUME NEW d \in Collectors, pc'[d] \in {"read", "await"}
               PROVE  Reaches(event[d], pc[d])'
    BY DEF ReachInv
  <2>1. d # c /\ pc'[d] = pc[d] /\ event'[d] = event[d]
    BY <1>3
  <2>2. orphans' = orphans
    BY <1>1, <2>1 DEF LockInv
  <2> QED
    BY <2>1, <2>2 DEF CInv, ReachInv, Reaches, Limit
<1>8. CurrentInv'
  BY <1>3 DEF CInv, CurrentInv, Current
<1> QED
  BY <1>6, <1>7, <1>8 DEF CInv

LEMMA ConcatLength ==
  ASSUME NEW S, NEW q \in Seq(S), NEW r \in Seq(S)
  PROVE  Len(q \o r) = Len(q) + Len(r)
BY ConcatProperties

(* What is persisted counts n more records. *)
LEMMA PersistLength ==
  ASSUME DInv, NEW c \in Collectors, pc[c] = "await",
         NEW n \in Nat, n <= Len(event[c].recs), Persist(c, n)
  PROVE  /\ event[c].src \in Sources /\ event[c].base = ledger[event[c].src]
         /\ Len(ledger'[event[c].src]) = Len(event[c].base) + n
         /\ \A s \in Sources \ {event[c].src} : ledger'[s] = ledger[s]
<1> DEFINE e == event[c]
           kept == SubSeq(e.recs, 1, n)
           more == e.base \o kept
<1>1. /\ e \in Event /\ mem[c] = ledger /\ e.base = ledger[e.src]
      /\ ledger \in [Sources -> Seq(Record)]
  BY DEF DInv, Inv, TypeOK, LockInv, PiecesInv, EventsInv, EventIs, Ledger
<1>2. e.src \in Sources /\ e.recs \in Seq(Record) /\ e.base \in Seq(Record)
  BY <1>1, EventFacts
<1>3. ledger' = [ledger EXCEPT ![e.src] = more]
  BY <1>1 DEF Persist
<1>4. n <= Len(e.recs)
  OBVIOUS
<1> HIDE DEF e
<1>5. kept \in Seq(Record) /\ Len(kept) = n
  <2>1. /\ SubSeq(e.recs, 1, n) \in Seq(Record)
        /\ Len(SubSeq(e.recs, 1, n)) = IF 1 <= n THEN n ELSE 0
    BY <1>2, <1>4, PrefixType
  <2> QED
    BY <2>1
<1> HIDE DEF kept
<1>6. Len(more) = Len(e.base) + n
  <2>1. Len(e.base \o kept) = Len(e.base) + Len(kept)
    BY Zenon, <1>2, <1>5, ConcatLength
  <2> QED
    BY Zenon, <1>5, <2>1
<1> HIDE DEF more
<1> QED
  BY <1>1, <1>2, <1>3, <1>6 DEF e

LEMMA LeavingCInv ==
  ASSUME DInv, CInv, NEW c \in Collectors,
         \/ SkipPhase(c) \/ NothingPending(c) \/ Acknowledge(c)
         \/ Reconcile(c) \/ RefuseConflict(c)
         \/ RequestFails(c) \/ Crash(c) \/ DeadlineExceeded(c)
  PROVE  CInv'
<1>1. /\ UNCHANGED <<file, stored, lastStart>>
      /\ Finish(c) \/ NextPhase(c) \/ NextRequest(c)
      /\ orphans' = orphans \/ (pc[c] = "await" /\ orphans' = orphans \cup {Request(c)})
  BY DEF SkipPhase, NothingPending, Acknowledge, Reconcile, RefuseConflict,
     RequestFails, Crash, DeadlineExceeded, AbandonRequest, envVars
<1>2. TypeOK /\ LockInv /\ TypeOK'
  BY LeavingTypeOK DEF DInv, Inv
<1>3. CASE ledger' = ledger
  <2>1. PendingInv'
    BY <1>1, <1>3 DEF CInv, PendingInv
  <2>2. \A s \in Sources : Len(ledger[s]) <= Len(ledger'[s])
    BY <1>2, <1>3, Lengths
  <2> QED
    BY <1>1, <1>2, <2>1, <2>2, LeaveCInv
<1>4. CASE NothingPending(c)
  <2>1. ledger' = ledger
    BY <1>2, <1>4 DEF NothingPending, LockInv
  <2> QED
    BY <1>3, <2>1
<1>5. ASSUME NEW n \in Nat, pc[c] = "await", n <= Len(event[c].recs), Persist(c, n),
             Len(stored[event[c].src]) = Len(event[c].base) + n
      PROVE  CInv'
  <2> DEFINE s == event[c].src
  <2>1. /\ s \in Sources /\ event[c].base = ledger[s]
        /\ Len(ledger'[s]) = Len(event[c].base) + n
        /\ \A t \in Sources \ {s} : ledger'[t] = ledger[t]
    BY <1>5, PersistLength
  <2>2. Len(ledger[s]) \in Nat
    BY <1>2, <2>1, Lengths
  <2>3. /\ Len(ledger'[s]) = Len(ledger[s]) + n
        /\ Len(ledger'[s]) = Len(stored[s])
    BY <1>5, <2>1
  <2>4. Len(stored[s]) \in Nat
    BY <1>2, <2>1, Lengths
  <2> HIDE DEF s
  <2>5. Len(ledger[s]) <= Len(ledger'[s]) /\ ~(Len(ledger'[s]) < Len(stored[s]))
    BY <2>2, <2>3, <2>4
  <2>6. \A t \in Sources : Len(ledger[t]) <= Len(ledger'[t])
    BY <1>2, <2>1, <2>5, Lengths
  <2>7. PendingInv'
    BY <1>1, <2>1, <2>5 DEF CInv, PendingInv
  <2> QED
    BY <1>1, <1>2, <2>6, <2>7, LeaveCInv
<1>6. CASE Acknowledge(c)
  <2> DEFINE n == Len(event[c].recs)
  <2>1. /\ pc[c] = "await" /\ Persist(c, n)
        /\ answer[c] # None /\ answer[c].kind = "accepted"
    BY <1>6 DEF Acknowledge
  <2>2. n \in Nat
    BY <1>2, <2>1, LenProperties DEF TypeOK, Event
  <2>3. Len(stored[event[c].src]) = Len(event[c].base) + n
    BY <2>1 DEF CInv, CurrentInv, Current
  <2>4. n <= Len(event[c].recs)
    BY <2>2
  <2> HIDE DEF n
  <2> QED
    BY <1>5, <2>1, <2>2, <2>3, <2>4
<1>7. CASE Reconcile(c)
  <2> DEFINE start == Len(event[c].base)
             size == Len(event[c].recs)
             held == Len(stored[event[c].src])
             n == answer[c].watermark - start
  <2>1. /\ pc[c] = "await" /\ Persist(c, n)
        /\ answer[c] # None /\ answer[c].kind = "conflict"
    BY <1>7 DEF Reconcile
  <2>2. answer[c].watermark = held /\ start < held /\ held < start + size
    BY <2>1 DEF CInv, CurrentInv, Current
  <2>3. event[c] \in Event
    BY <1>2, <2>1 DEF TypeOK
  <2>4. event[c].src \in Sources /\ start \in Nat /\ size \in Nat
    BY <2>3, EventFacts
  <2>5. held \in Nat
    BY <1>2, <2>4, Lengths
  <2> HIDE DEF start, size, held
  <2>6. n \in Nat /\ n <= size /\ held = start + n
    BY <2>2, <2>4, <2>5
  <2> HIDE DEF n
  <2> QED
    BY <1>5, <2>1, <2>6 DEF start, size, held
<1> QED
  BY <1>3, <1>4, <1>6, <1>7
  DEF SkipPhase, RefuseConflict, RequestFails, Crash, DeadlineExceeded

LEMMA StepCInv == AppendOnly /\ DInv /\ CInv /\ [Next]_vars => CInv'
<1> SUFFICES ASSUME AppendOnly, DInv, CInv, [Next]_vars PROVE CInv'
  OBVIOUS
<1>1. CASE UNCHANGED vars
  BY <1>1 DEF vars, envVars, procVars, CInv, PendingInv, LateInv, ReachInv, Reaches,
     Limit, CurrentInv, Current
<1>2. ASSUME NEW s \in Sources
      PROVE  ~Truncate(s)
  <2>1. truncations \in 0 .. MaxTruncations
    BY DEF DInv, Inv, TypeOK
  <2> QED
    BY <2>1 DEF AppendOnly, Truncate
<1>3. ~LoseLedger
  <2>1. losses \in 0 .. MaxLosses
    BY DEF DInv, Inv, TypeOK
  <2> QED
    BY <2>1 DEF AppendOnly, LoseLedger
<1>4. CASE Next
  BY <1>2, <1>3, <1>4, AppendCInv, WorkerCInv, RunningCInv, LeavingCInv
  DEF Next, CollectorStep, Fault
<1> QED
  BY <1>1, <1>4

(* As long as transcripts are only appended to and the ledger is kept, a     *)
(* collection never fails on a sequence conflict: whatever requests and      *)
(* answers are lost or late, and however many collectors run, every conflict *)
(* the worker can answer with is one the collector takes over.               *)
THEOREM NoConflictFails == AppendOnly /\ Spec => []ConflictsReconcile
<1> SUFFICES ASSUME AppendOnly PROVE Spec => []ConflictsReconcile
  OBVIOUS
<1>1. DInv /\ CInv /\ [Next]_vars => DInv' /\ CInv'
  BY StepDelivers, StepCInv
<1>2. DInv /\ CInv => ConflictsReconcile
  <2> SUFFICES ASSUME DInv, CInv, NEW c \in Collectors,
                      answer[c] # None, answer[c].kind = "conflict"
               PROVE  Reconcilable(c)
    BY DEF ConflictsReconcile
  <2>1. pc[c] = "await"
    BY DEF DInv, Inv, AnswerInv
  <2>2. mem[c][event[c].src] = event[c].base
    BY <2>1 DEF DInv, PiecesInv, EventsInv, EventIs
  <2>3. Current(answer[c], event[c])
    BY DEF CInv, CurrentInv
  <2> QED
    BY <2>2, <2>3 DEF Current, Reconcilable
<1> QED
  BY <1>1, <1>2, InitDInv, InitCInv, PTL DEF Spec

-----------------------------------------------------------------------------
(* Complete collections (TraceUploadHistory) *)

(* c need not look at s any more: the ledger counts what s held when c      *)
(* started, or s could not be read, and c will not report completeness.     *)
Acked(c, s) == atStart[c][s] <= Len(ledger[s]) \/ s \in unreadable[c]

(* A collector in its third call is done with the transcripts of the hook,  *)
(* and in each call with those it examined without finding an event.        *)
Cover(c) ==
  /\ \A s \in Sources : atStart[c][s] <= Len(file[s])
  /\ pc[c] = "idle" => phase[c] = "first"
  /\ phase[c] = "idle" => \A s \in current[c] : Acked(c, s)
  /\ pc[c] = "select" => \A s \in Paths(c) \ todo[c] : Acked(c, s)
  /\ pc[c] = "read" => Len(event[c].base) < Len(event[c].snapshot)

HistoryInv ==
  /\ atStart \in [Collectors -> [Sources -> Nat]]
  /\ \A c \in Collectors : Cover(c)

LEMMA NothingLost ==
  ASSUME AppendOnly, DInv, [Next]_vars, NEW s \in Sources
  PROVE  /\ Len(ledger[s]) <= Len(ledger'[s]) /\ Len(file[s]) <= Len(file'[s])
         /\ {Len(ledger[s]), Len(file[s]), Len(ledger'[s]), Len(file'[s])} \subseteq Nat
<1>1. DInv' /\ [Delivery!Next]_Delivery!vars
  BY StepDelivers
<1>2. TypeOK /\ TypeOK'
  BY <1>1 DEF DInv, Inv
<1>3. /\ {file, stored, ledger} \subseteq [Sources -> Seq(Record)]
      /\ {file', ledger'} \subseteq [Sources -> Seq(Record)]
  BY <1>2 DEF TypeOK, Ledger
<1>4. {Len(ledger[s]), Len(stored[s]), Len(file[s]), Len(ledger'[s]), Len(file'[s])}
        \subseteq Nat
  BY <1>3, LenProperties
<1>5. CASE UNCHANGED <<file, ledger>>
  BY <1>4, <1>5
<1>6. ASSUME NEW t \in Sources, NEW r \in Record, Delivery!Write(t, r)
      PROVE  Len(ledger[s]) <= Len(ledger'[s]) /\ Len(file[s]) <= Len(file'[s])
  <2>1. file' = [file EXCEPT ![t] = Append(@, r)] /\ ledger' = ledger
    BY <1>6 DEF Delivery!Write
  <2>2. Len(Append(file[t], r)) = Len(file[t]) + 1
    BY <1>3, AppendProperties
  <2> QED
    BY <1>3, <1>4, <2>1, <2>2
<1>7. ASSUME NEW t \in Sources, Delivery!Acknowledge(t)
      PROVE  Len(ledger[s]) <= Len(ledger'[s]) /\ Len(file[s]) <= Len(file'[s])
  <2>1. PICK n \in Len(ledger[t]) + 1 .. Len(stored[t]) :
          ledger' = [ledger EXCEPT ![t] = SubSeq(stored[t], 1, n)]
    BY <1>7 DEF Delivery!Acknowledge
  <2>2. /\ file' = file
        /\ Len(ledger[t]) \in Nat /\ Len(stored[t]) \in Nat
        /\ stored[t] \in Seq(Record)
    BY <1>3, <1>7, LenProperties DEF Delivery!Acknowledge
  <2>3. n \in Int /\ 1 <= n /\ Len(ledger[t]) <= n /\ n <= Len(stored[t])
    BY <2>2
  <2>4. Len(SubSeq(stored[t], 1, n)) = n
    BY <2>2, <2>3, PrefixType
  <2>5. CASE s = t
    <3>1. ledger'[s] = SubSeq(stored[t], 1, n)
      BY <1>3, <2>1, <2>5
    <3> QED
      BY <1>4, <2>2, <2>3, <2>4, <2>5, <3>1
  <2>6. CASE s # t
    <3>1. ledger'[s] = ledger[s]
      BY <1>3, <2>1, <2>6
    <3> QED
      BY <1>4, <2>2, <3>1
  <2> QED
    BY <2>5, <2>6
<1> QED
  BY <1>1, <1>4, <1>5, <1>6, <1>7 DEF Delivery!Next, Delivery!Store, Delivery!vars

(* What a collection is for is fixed when it starts. *)
LEMMA StartIs ==
  ASSUME HistoryNext, NEW c \in Collectors
  PROVE  /\ pc'[c] = "idle" => atStart'[c] = Nothing
         /\ pc[c] = "idle" /\ pc'[c] # "idle" =>
              atStart'[c] = [s \in Sources |->
                IF s \in current'[c] \cup idle'[c] THEN Len(file[s]) ELSE 0]
         /\ pc[c] # "idle" /\ pc'[c] # "idle" => atStart'[c] = atStart[c]
BY DEF HistoryNext

LEMMA DoneStays ==
  ASSUME AppendOnly, DInv, [Next]_vars, HistoryInv, NEW c \in Collectors, NEW s \in Sources,
         Acked(c, s), atStart'[c] = atStart[c], unreadable[c] \subseteq unreadable'[c]
  PROVE  Acked(c, s)'
<1> DEFINE before == Len(ledger[s])
           after == Len(ledger'[s])
           start == atStart[c][s]
<1>1. before <= after /\ before \in Nat /\ after \in Nat
  BY NothingLost
<1>2. start \in Nat
  BY DEF HistoryInv
<1>3. start <= before \/ s \in unreadable[c]
  BY DEF Acked
<1>4. atStart'[c][s] = start
  OBVIOUS
<1> HIDE DEF before, after, start
<1>5. start <= after \/ s \in unreadable'[c]
  BY <1>1, <1>2, <1>3
<1> QED
  BY <1>4, <1>5 DEF Acked, after

(* What a transcript held at the start it still holds. *)
LEMMA StartStays ==
  ASSUME AppendOnly, DInv, [Next]_vars, HistoryNext, HistoryInv,
         NEW c \in Collectors, NEW s \in Sources
  PROVE  atStart'[c][s] <= Len(file'[s]) /\ atStart'[c][s] \in Nat
<1> DEFINE before == Len(file[s])
           after == Len(file'[s])
           start == atStart[c][s]
<1>1. before <= after /\ before \in Nat /\ after \in Nat
  BY NothingLost
<1>2. start \in Nat /\ start <= before
  BY DEF HistoryInv, Cover
<1>3. atStart'[c][s] \in {0, before, start}
  BY StartIs DEF Nothing
<1> HIDE DEF before, after, start
<1>4. \A n \in {0, before, start} : n <= after /\ n \in Nat
  BY <1>1, <1>2
<1> QED
  BY <1>3, <1>4 DEF after

(* The collectors that do not move keep their cover. *)
LEMMA CoverStays ==
  ASSUME AppendOnly, DInv, [Next]_vars, HistoryNext, HistoryInv, NEW c \in Collectors,
         pc'[c] = pc[c], phase'[c] = phase[c], current'[c] = current[c],
         idle'[c] = idle[c], todo'[c] = todo[c], unreadable'[c] = unreadable[c],
         event'[c] = event[c]
  PROVE  Cover(c)'
<1>1. Cover(c) /\ current[c] \subseteq Sources /\ Paths(c) \subseteq Sources
  BY DEF HistoryInv, DInv, Inv, TypeOK, Paths
<1>2. \A s \in Sources : atStart'[c][s] <= Len(file'[s])
  BY StartStays
<1>3. Paths(c)' = Paths(c)
  BY DEF Paths
<1>4. CASE pc[c] = "idle"
  BY <1>1, <1>2, <1>4 DEF Cover
<1>5. CASE pc[c] # "idle"
  <2>1. atStart'[c] = atStart[c]
    BY <1>5, StartIs
  <2>2. \A s \in Sources : Acked(c, s) => Acked(c, s)'
    BY <2>1, DoneStays
  <2> QED
    BY <1>1, <1>2, <1>3, <1>5, <2>2 DEF Cover
<1> QED
  BY <1>4, <1>5

(* What ReadAndPost does to the collector, whatever the event becomes. *)
LEMMA ReadIs ==
  ASSUME NEW c \in Collectors, ReadAndPost(c)
  PROVE  /\ pc[c] = "read"
         /\ UNCHANGED <<file, ledger, phase, current, idle, todo, unreadable>>
         /\ \E step, next :
              pc' = [pc EXCEPT ![c] = step] /\ event' = [event EXCEPT ![c] = next]
         /\ \E seen \in {event[c].snapshot,
                         SubSeq(file[event[c].src], 1,
                           IF Len(file[event[c].src]) < Len(event[c].snapshot)
                           THEN Len(file[event[c].src]) ELSE Len(event[c].snapshot))} :
              \/ RangeEnds(seen, Len(event[c].base)) = {}
              \/ pc' = [pc EXCEPT ![c] = "await"]
<1> DEFINE e == event[c]
           start == Len(e.base)
           seens == {e.snapshot,
                     SubSeq(file[e.src], 1,
                       IF Len(file[e.src]) < Len(e.snapshot)
                       THEN Len(file[e.src]) ELSE Len(e.snapshot))}
           posted(seen, end) ==
             [e EXCEPT !.snapshot = <<>>, !.recs = SubSeq(seen, start + 1, end)]
<1>1. /\ pc[c] = "read"
      /\ UNCHANGED <<file, ledger, phase, current, idle, todo, unreadable>>
  BY Zenon DEF ReadAndPost, envVars
<1>2. PICK seen \in seens :
        \/ /\ RangeEnds(seen, start) = {}
           /\ pc' = [pc EXCEPT ![c] = "select"]
           /\ event' = [event EXCEPT ![c] = None]
        \/ \E end \in RangeEnds(seen, start) :
             /\ pc' = [pc EXCEPT ![c] = "await"]
             /\ event' = [event EXCEPT ![c] = posted(seen, end)]
  BY Zenon DEF ReadAndPost
<1> HIDE DEF posted, seens, start
<1>3. \E step, next :
        pc' = [pc EXCEPT ![c] = step] /\ event' = [event EXCEPT ![c] = next]
  BY <1>2
<1>4. \E s \in seens : RangeEnds(s, start) = {} \/ pc' = [pc EXCEPT ![c] = "await"]
  BY <1>2
<1> QED
  BY <1>1, <1>3, <1>4 DEF seens, start

(* A step of one collector is none of another. *)
LEMMA OthersKeep ==
  ASSUME TypeOK, NEW c \in Collectors, CollectorStep(c) \/ Fault(c), NEW d \in Collectors \ {c}
  PROVE  /\ pc'[d] = pc[d] /\ phase'[d] = phase[d] /\ current'[d] = current[d]
         /\ idle'[d] = idle[d] /\ todo'[d] = todo[d] /\ unreadable'[d] = unreadable[d]
         /\ event'[d] = event[d]
<1>1. CASE Finish(c) \/ NextPhase(c) \/ NextRequest(c)
  BY <1>1 DEF TypeOK, NextPhase, NextRequest, Finish, EndRequest
<1>2. CASE StartCollect(c)
  BY <1>2 DEF TypeOK, StartCollect
<1>3. CASE AcquireLock(c)
  BY <1>3 DEF TypeOK, AcquireLock
<1>4. CASE OpenSource(c)
  <2>1. PICK s \in todo[c] :
          /\ todo' = [todo EXCEPT ![c] = @ \ {s}]
          /\ \/ UNCHANGED <<pc, event>>
             \/ /\ pc' = [pc EXCEPT ![c] = "read"]
                /\ \E e : event' = [event EXCEPT ![c] = e]
    BY <1>4 DEF OpenSource
  <2>2. UNCHANGED <<phase, current, idle, unreadable>>
    BY <1>4 DEF OpenSource
  <2> QED
    BY <2>1, <2>2 DEF TypeOK
<1>5. CASE ReadAndPost(c)
  BY <1>5, ReadIs DEF TypeOK
<1>6. CASE SkipUnreadable(c)
  <2>1. PICK s \in todo[c] :
          /\ todo' = [todo EXCEPT ![c] = @ \ {s}]
          /\ unreadable' = [unreadable EXCEPT ![c] = @ \cup {s}]
    BY <1>6 DEF SkipUnreadable
  <2>2. UNCHANGED <<pc, phase, current, idle, event>>
    BY <1>6 DEF SkipUnreadable
  <2> QED
    BY <2>1, <2>2 DEF TypeOK
<1> QED
  BY <1>1, <1>2, <1>3, <1>4, <1>5, <1>6 DEF CollectorStep, Fault, SkipPhase,
     NothingPending, Acknowledge, Reconcile, RefuseConflict, RequestFails, Crash,
     DeadlineExceeded

(* A source is passed over only when the ledger counts all of it. *)
LEMMA OpenCover ==
  ASSUME AppendOnly, DInv, [Next]_vars, HistoryNext, HistoryInv,
         NEW c \in Collectors, OpenSource(c)
  PROVE  Cover(c)'
<1> DEFINE intact(s) == IsPrefix(mem[c][s], file[s])
           base(s) == IF intact(s) THEN mem[c][s] ELSE <<>>
           opened(s) == [src |-> s, base |-> base(s), snapshot |-> file[s],
                         recs |-> <<>>, reset |-> ~intact(s)]
<1>1. /\ TypeOK /\ Cover(c) /\ pc[c] = "select" /\ mem[c] = ledger
      /\ UNCHANGED <<file, ledger, phase, current, idle, unreadable>>
  BY DEF DInv, Inv, LockInv, HistoryInv, OpenSource, envVars
<1>2. PICK s \in todo[c] :
        /\ todo' = [todo EXCEPT ![c] = @ \ {s}]
        /\ IF Len(base(s)) = Len(file[s])
           THEN UNCHANGED <<pc, event>>
           ELSE /\ pc' = [pc EXCEPT ![c] = "read"]
                /\ event' = [event EXCEPT ![c] = opened(s)]
  BY DEF OpenSource
<1>3. s \in Sources /\ todo'[c] = todo[c] \ {s}
  BY <1>1, <1>2 DEF TypeOK
<1>4. /\ file[s] \in Seq(Record) /\ ledger[s] \in Seq(Record)
      /\ Piece(file[s], 0, ledger[s])
  BY <1>1, <1>3 DEF TypeOK, Ledger, DInv, PiecesInv, FilesInv
<1>5. base(s) = ledger[s]
  BY <1>1, <1>4, PieceIsPrefix
<1>6. Len(ledger[s]) \in Nat /\ Len(file[s]) \in Nat /\ Len(ledger[s]) <= Len(file[s])
  BY <1>4, LenProperties DEF Piece
<1>7. /\ \A t \in Sources : atStart'[c][t] <= Len(file'[t])
      /\ Paths(c)' = Paths(c)
      /\ phase[c] = "idle" => \A t \in current[c] : Acked(c, t)
      /\ \A t \in Paths(c) \ todo[c] : Acked(c, t)
      /\ current[c] \subseteq Sources /\ Paths(c) \subseteq Sources
  BY <1>1, StartStays DEF Cover, Paths, TypeOK
<1>8. CASE Len(ledger[s]) = Len(file[s])
  <2>1. pc'[c] = "select"
    BY <1>1, <1>2, <1>5, <1>8
  <2>2. atStart'[c] = atStart[c]
    BY <1>1, <2>1, StartIs
  <2>3. \A t \in Sources : Acked(c, t) => Acked(c, t)'
    BY <1>1, <2>2, DoneStays
  <2>4. Acked(c, s)'
    BY <1>1, <1>3, <1>7, <1>8 DEF Acked
  <2> QED
    BY <1>1, <1>3, <1>7, <2>1, <2>3, <2>4 DEF Cover
<1>9. CASE Len(ledger[s]) # Len(file[s])
  <2>1. pc'[c] = "read" /\ event'[c] = opened(s)
    BY <1>1, <1>2, <1>5, <1>9 DEF TypeOK
  <2>2. opened(s).base = ledger[s] /\ opened(s).snapshot = file[s]
    BY <1>5
  <2>3. Len(ledger[s]) < Len(file[s])
    BY <1>6, <1>9
  <2>4. Len(event'[c].base) < Len(event'[c].snapshot)
    BY <2>1, <2>2, <2>3
  <2>5. atStart'[c] = atStart[c]
    BY <1>1, <2>1, StartIs
  <2>6. \A t \in Sources : Acked(c, t) => Acked(c, t)'
    BY <1>1, <2>5, DoneStays
  <2>7. phase'[c] = phase[c] /\ current'[c] = current[c]
    BY <1>1
  <2>8. phase'[c] = "idle" => \A t \in current'[c] : Acked(c, t)'
    BY <1>7, <2>6, <2>7
  <2> HIDE DEF opened
  <2> QED
    BY <1>7, <2>1, <2>4, <2>8 DEF Cover
<1> QED
  BY <1>8, <1>9

(* A source that was opened has a range to post: records after the ledger's *)
(* are in what is read, and one of them fits in any request.                *)
LEMMA ReadCover ==
  ASSUME AppendOnly, DInv, [Next]_vars, HistoryNext, HistoryInv,
         NEW c \in Collectors, ReadAndPost(c)
  PROVE  Cover(c)'
<1> DEFINE e == event[c]
           size == Len(e.snapshot)
           start == Len(e.base)
           inPlace == SubSeq(file[e.src], 1,
                        IF Len(file[e.src]) < size THEN Len(file[e.src]) ELSE size)
<1>1. /\ TypeOK /\ Cover(c) /\ pc[c] = "read" /\ e \in Event
      /\ UNCHANGED <<file, ledger, phase, current, idle, unreadable>>
  BY ReadIs DEF DInv, Inv, HistoryInv, TypeOK
<1>2. start < size /\ start \in Nat /\ size \in Nat
  <2>1. start \in Nat /\ e.snapshot \in Seq(Record)
    BY <1>1, EventFacts
  <2> QED
    BY <1>1, <2>1, LenProperties DEF Cover
<1>3. PICK seen \in {e.snapshot, inPlace} :
        RangeEnds(seen, start) = {} \/ pc' = [pc EXCEPT ![c] = "await"]
  BY ReadIs
<1>4. seen \in Seq(Record) /\ Len(seen) = size
  BY <1>1, <1>3, SeenIs
<1>5. start + 1 \in RangeEnds(seen, start)
  <2> HIDE DEF start, size
  <2>1. MaxChunk \in Nat \ {0}
    BY TraceConstants
  <2>2. start + 1 \in start + 1 .. Len(seen)
    BY <1>2, <1>4
  <2>3. (start + 1) - start <= MaxChunk /\ ~(start + 1 > start + 1)
    BY <1>2, <2>1
  <2> QED
    BY <2>2, <2>3 DEF RangeEnds
<1>6. pc'[c] = "await"
  BY <1>1, <1>3, <1>5 DEF TypeOK
<1>7. \A s \in Sources : atStart'[c][s] <= Len(file'[s])
  BY StartStays
<1>8. atStart'[c] = atStart[c]
  BY <1>1, <1>6, StartIs
<1>9. \A s \in Sources : Acked(c, s) => Acked(c, s)'
  BY <1>1, <1>8, DoneStays
<1>10. phase'[c] = "idle" => \A s \in current'[c] : Acked(c, s)'
  BY <1>1, <1>9 DEF Cover, TypeOK
<1> QED
  BY <1>6, <1>7, <1>10 DEF Cover

LEMMA RunningCover ==
  ASSUME AppendOnly, DInv, [Next]_vars, HistoryNext, HistoryInv, NEW c \in Collectors,
         \/ StartCollect(c) \/ AcquireLock(c)
         \/ OpenSource(c) \/ ReadAndPost(c) \/ SkipUnreadable(c)
  PROVE  Cover(c)'
<1>1. TypeOK /\ Cover(c) /\ current[c] \subseteq Sources /\ Paths(c) \subseteq Sources
  BY DEF DInv, Inv, TypeOK, HistoryInv, Paths
<1>2. \A s \in Sources : atStart'[c][s] <= Len(file'[s])
  BY StartStays
<1>3. CASE StartCollect(c)
  <2>1. pc'[c] = "wait" /\ phase'[c] = "first"
    BY <1>1, <1>3 DEF StartCollect, TypeOK, Cover
  <2> QED
    BY <1>2, <2>1 DEF Cover
<1>4. ASSUME pc[c] # "idle", pc'[c] # "idle", unreadable[c] \subseteq unreadable'[c]
      PROVE  \A s \in Sources : Acked(c, s) => Acked(c, s)'
  BY <1>4, StartIs, DoneStays
<1>5. CASE AcquireLock(c)
  <2>1. /\ pc[c] = "wait" /\ pc'[c] = "select" /\ todo'[c] = Paths(c)
        /\ UNCHANGED <<phase, current, idle, unreadable>>
    BY <1>1, <1>5 DEF AcquireLock, TypeOK
  <2>2. Paths(c)' = Paths(c)
    BY <2>1 DEF Paths
  <2>3. \A s \in Sources : Acked(c, s) => Acked(c, s)'
    BY <1>4, <2>1
  <2> QED
    BY <1>1, <1>2, <2>1, <2>2, <2>3 DEF Cover
<1>6. CASE SkipUnreadable(c)
  <2>1. PICK s \in todo[c] :
          /\ todo' = [todo EXCEPT ![c] = @ \ {s}]
          /\ unreadable' = [unreadable EXCEPT ![c] = @ \cup {s}]
    BY <1>6 DEF SkipUnreadable
  <2>2. pc[c] = "select" /\ UNCHANGED <<pc, phase, current, idle>>
    BY <1>6 DEF SkipUnreadable
  <2>3. todo'[c] = todo[c] \ {s} /\ unreadable'[c] = unreadable[c] \cup {s}
    BY <1>1, <2>1 DEF TypeOK
  <2>4. Paths(c)' = Paths(c)
    BY <2>2 DEF Paths
  <2>5. \A t \in Sources : Acked(c, t) => Acked(c, t)'
    BY <1>4, <2>2, <2>3
  <2>6. Acked(c, s)'
    BY <2>3 DEF Acked
  <2> QED
    BY <1>1, <1>2, <2>2, <2>3, <2>4, <2>5, <2>6 DEF Cover
<1> QED
  BY <1>3, <1>5, <1>6, OpenCover, ReadCover

(* Only a call that looked at every one of its paths leads to the next. *)
LEMMA LeavingCover ==
  ASSUME AppendOnly, DInv, [Next]_vars, HistoryNext, HistoryInv, NEW c \in Collectors,
         \/ SkipPhase(c) \/ NothingPending(c) \/ Acknowledge(c)
         \/ Reconcile(c) \/ RefuseConflict(c)
         \/ RequestFails(c) \/ Crash(c) \/ DeadlineExceeded(c)
  PROVE  Cover(c)'
<1>1. TypeOK /\ Cover(c) /\ current[c] \subseteq Sources
  BY DEF DInv, Inv, TypeOK, HistoryInv
<1>2. \A s \in Sources : atStart'[c][s] <= Len(file'[s])
  BY StartStays
<1>3. CASE Finish(c)
  <2>1. pc'[c] = "idle" /\ phase'[c] = "first"
    BY <1>1, <1>3 DEF Finish, TypeOK
  <2> QED
    BY <1>2, <2>1 DEF Cover
<1>4. ASSUME pc[c] # "idle", pc'[c] = "wait", phase'[c] # "idle" \/ phase[c] = "idle",
             current'[c] = current[c], unreadable'[c] = unreadable[c]
      PROVE  Cover(c)'
  <2>1. atStart'[c] = atStart[c]
    BY <1>4, StartIs
  <2>2. \A s \in Sources : Acked(c, s) => Acked(c, s)'
    BY <1>4, <2>1, DoneStays
  <2> QED
    BY <1>1, <1>2, <1>4, <2>2 DEF Cover
<1>5. pc[c] # "idle"
  BY DEF SkipPhase, NothingPending, Acknowledge, Reconcile, RefuseConflict,
     RequestFails, Crash, DeadlineExceeded
<1>6. CASE NextRequest(c)
  <2>1. pc'[c] = "wait" /\ UNCHANGED <<phase, current, unreadable>>
    BY <1>1, <1>6 DEF NextRequest, TypeOK
  <2> QED
    BY <1>4, <1>5, <2>1
<1>7. CASE /\ SkipPhase(c) \/ NothingPending(c) \/ (phase[c] = "first" /\ Acknowledge(c))
           /\ NextPhase(c) /\ ~Finish(c)
  <2>1. /\ phase[c] # "idle" /\ pc'[c] = "wait"
        /\ phase'[c] = IF phase[c] = "first" THEN "current" ELSE "idle"
        /\ UNCHANGED <<current, unreadable>>
    BY <1>1, <1>7 DEF NextPhase, TypeOK
  <2>2. CASE phase[c] = "first"
    BY <1>4, <1>5, <2>1, <2>2
  <2>3. CASE phase[c] # "first"
    <3>1. atStart'[c] = atStart[c]
      BY <1>5, <2>1, StartIs
    <3>2. \A s \in Sources : Acked(c, s) => Acked(c, s)'
      BY <2>1, <3>1, DoneStays
    <3>3. \A s \in current[c] : Acked(c, s)
      BY <1>1, <1>7, <2>1, <2>3 DEF SkipPhase, NothingPending, Cover, Paths
    <3> QED
      BY <1>1, <1>2, <2>1, <3>2, <3>3 DEF Cover
  <2> QED
    BY <2>2, <2>3
<1> QED
  BY <1>3, <1>6, <1>7 DEF SkipPhase, NothingPending, Acknowledge, Reconcile,
     RefuseConflict, RequestFails, Crash, DeadlineExceeded

LEMMA NextHistoryInv ==
  AppendOnly /\ DInv /\ HistoryInv /\ [HistoryNext]_historyVars => HistoryInv'
<1> SUFFICES ASSUME AppendOnly, DInv, HistoryInv, [HistoryNext]_historyVars
             PROVE  HistoryInv'
  OBVIOUS
<1>1. CASE UNCHANGED historyVars
  BY <1>1 DEF historyVars, vars, envVars, procVars, HistoryInv, Cover, Acked, Paths
<1>2. CASE HistoryNext
  <2>1. [Next]_vars /\ Next
    BY <1>2 DEF HistoryNext
  <2>2. atStart' \in [Collectors -> [Sources -> Nat]]
    <3>1. atStart' = [c \in Collectors |-> atStart'[c]]
      BY <1>2 DEF HistoryNext
    <3>2. ASSUME NEW c \in Collectors
          PROVE  atStart'[c] \in [Sources -> Nat]
      <4>1. atStart'[c] = [s \in Sources |-> atStart'[c][s]]
        BY <1>2, StartIs DEF HistoryInv, Nothing
      <4>2. \A s \in Sources : atStart'[c][s] \in Nat
        BY <1>2, <2>1, StartStays
      <4> QED
        BY <4>1, <4>2
    <3> QED
      BY <3>1, <3>2
  <2>3. TypeOK
    BY DEF DInv, Inv
  <2>4. ASSUME NEW c \in Collectors
        PROVE  Cover(c)'
    <3>1. CASE UNCHANGED <<pc, phase, current, idle, todo, unreadable, event>>
      BY <1>2, <2>1, <3>1, CoverStays
    <3>2. ASSUME NEW d \in Collectors, CollectorStep(d) \/ Fault(d)
          PROVE  Cover(c)'
      <4>1. CASE c # d
        BY <1>2, <2>1, <2>3, <3>2, <4>1, OthersKeep, CoverStays
      <4>2. CASE c = d
        BY <1>2, <2>1, <3>2, <4>2, RunningCover, LeavingCover DEF CollectorStep, Fault
      <4> QED
        BY <4>1, <4>2
    <3> QED
      BY <2>1, <3>1, <3>2 DEF Next, AppendRecord, Truncate, LoseLedger,
         WorkerReceivesLate, WorkerReceives, procVars
  <2> QED
    BY <2>2, <2>4 DEF HistoryInv
<1> QED
  BY <1>1, <1>2

(* While transcripts are only appended to and the ledger is kept, a          *)
(* collection that reports trace_upload_complete leaves nothing behind: the  *)
(* ledger counts every record its transcripts held when it started, whatever *)
(* other collectors, late requests and crashes did meanwhile.                *)
THEOREM CompleteLeavesNothing == AppendOnly /\ HistorySpec => CompleteMeansAcked
<1> SUFFICES ASSUME AppendOnly PROVE HistorySpec => CompleteMeansAcked
  OBVIOUS
<1>1. HistoryInit => Init /\ HistoryInv
  <2> SUFFICES ASSUME HistoryInit PROVE HistoryInv
    BY DEF HistoryInit
  <2>1. \A s \in Sources : Len(file[s]) = 0
    BY DEF HistoryInit, Init
  <2>2. \A c \in Collectors : pc[c] = "idle" /\ phase[c] = "first"
    BY DEF HistoryInit, Init
  <2>3. atStart = [c \in Collectors |-> [s \in Sources |-> 0]]
    BY DEF HistoryInit, Nothing
  <2> QED
    BY <2>1, <2>2, <2>3 DEF HistoryInv, Cover
<1>2. [HistoryNext]_historyVars => [Next]_vars
  BY DEF HistoryNext, historyVars
<1>3. DInv /\ HistoryInv /\ [HistoryNext]_historyVars =>
        [\A c \in Collectors :
           ReportsComplete(c) =>
             \A s \in current[c] \cup idle[c] :
               Len(ledger'[s]) >= atStart[c][s]]_historyVars
  <2> SUFFICES ASSUME DInv, HistoryInv, HistoryNext, NEW c \in Collectors,
                      ReportsComplete(c), NEW s \in current[c] \cup idle[c]
               PROVE  Len(ledger'[s]) >= atStart[c][s]
    OBVIOUS
  <2>1. TypeOK /\ Cover(c) /\ s \in Sources /\ [Next]_vars
    BY DEF DInv, Inv, TypeOK, HistoryInv, HistoryNext
  <2>2. Acked(c, s)
    BY <2>1 DEF ReportsComplete, SkipPhase, NothingPending, Cover, Paths
  <2>3. atStart[c][s] <= Len(ledger[s])
    BY <2>2 DEF Acked, ReportsComplete
  <2>4. Len(ledger[s]) <= Len(ledger'[s]) /\ Len(ledger[s]) \in Nat /\ Len(ledger'[s]) \in Nat
    BY <2>1, NothingLost
  <2>5. atStart[c][s] \in Nat
    BY <2>1 DEF HistoryInv
  <2> QED
    BY <2>3, <2>4, <2>5
<1>4. DInv /\ [Next]_vars => DInv'
  BY StepDelivers
<1>5. DInv /\ HistoryInv /\ [HistoryNext]_historyVars => HistoryInv'
  BY NextHistoryInv
<1> QED
  BY <1>1, <1>2, <1>3, <1>4, <1>5, InitDInv, PTL DEF HistorySpec, CompleteMeansAcked
=============================================================================
