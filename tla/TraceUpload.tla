----------------------------- MODULE TraceUpload -----------------------------
(***************************************************************************)
(* Native trace collection (host-runtime/internal/runtime/traces.go):      *)
(* detached collectors of one host upload ranges of transcript records to  *)
(* the Promptless worker and record what it acknowledged in a ledger file  *)
(* that they share under a file lock.                                      *)
(*                                                                         *)
(* A transcript is the sequence of its complete records: bytes after the   *)
(* last newline are never uploaded.  Offsets count records, and a digest   *)
(* of a byte range is the sequence of records in it, so a ledger entry     *)
(* (end_offset, prefix_sha256) is the acknowledged prefix itself and       *)
(* end_offset is its length.                                               *)
(***************************************************************************)
EXTENDS Integers, FiniteSets, Sequences, SequencesExt

CONSTANTS
  Sources,          \* transcript paths of one host and destination
  Record,           \* record contents
  Alone,            \* records too large to share a request with another
  Collectors,       \* collector processes
  Free, None,       \* no lock holder; no source, batch or answer
  MaxChunk,         \* records that fit in one request (the 4 MiB target)
  MaxRecords,       \* bound: records in a file
  MaxTruncations,   \* bound: rewinds and replacements; 0 is append-only
  MaxLosses,        \* bound: losses of the ledger file
  MaxFaults,        \* bound: crashes, failed requests, deadlines, bad reads
  MaxOrphans        \* bound: abandoned requests still on their way

ASSUME TraceConstants ==
  /\ Alone \subseteq Record
  /\ Free \notin Collectors
  /\ None \notin Sources
  /\ {MaxChunk, MaxRecords} \subseteq Nat \ {0}
  /\ {MaxTruncations, MaxLosses, MaxFaults, MaxOrphans} \subseteq Nat

VARIABLES
  \* the host's files and the worker
  file,        \* file[s]: complete records in the transcript
  stored,      \* stored[s]: records the worker committed; its watermark is Len
  lastStart,   \* lastStart[s]: start of the range it committed last
  accepted,    \* accepted[s]: ranges it answered "accepted" or committed
  orphans,     \* requests whose sender is gone, still to reach the worker
  \* shared on disk
  ledger,      \* ledger[s]: acknowledged prefix of s
  lock,        \* holder of the ledger lock
  \* one collector process
  pc,          \* step of the collector
  phase,       \* which of collect's three uploadPaths calls is running
  current,     \* transcripts the hook named
  idle,        \* other transcripts its scan finds
  todo,        \* paths not yet examined for the next request
  mem,         \* the ledger as loaded under the lock
  event,       \* the source event being read, posted or awaited
  answer,      \* the worker's response to it
  unreadable,  \* sources that could not be read
  \* what the bounds count
  faults, truncations, losses

envVars == <<file, stored, lastStart, accepted, orphans>>
procVars ==
  <<pc, phase, current, idle, todo, mem, event, answer, unreadable>>
boundVars == <<faults, truncations, losses>>
vars == <<envVars, ledger, lock, procVars, boundVars>>

Batch == [src : Sources, start : Nat, recs : Seq(Record)]
SourceRange == [start : Nat, recs : Seq(Record)]
Event == [src : Sources, base : Seq(Record), snapshot : Seq(Record),
          recs : Seq(Record), reset : BOOLEAN]
Answer == [kind : {"accepted"}]
            \cup [kind : {"conflict"}, watermark : Nat, proofStart : Nat,
                  proof : Seq(Record)]
Ledger == [Sources -> Seq(Record)]
EmptyLedger == [s \in Sources |-> <<>>]

(* Types; a collector that reads or posts has an event to work on. *)
TypeOK ==
  /\ {file, stored, ledger} \subseteq Ledger
  /\ lastStart \in [Sources -> Nat]
  /\ accepted \in [Sources -> SUBSET SourceRange]
  /\ orphans \subseteq Batch
  /\ lock \in Collectors \cup {Free}
  /\ pc \in [Collectors -> {"idle", "wait", "select", "read", "await"}]
  /\ phase \in [Collectors -> {"first", "current", "idle"}]
  /\ {current, idle, todo, unreadable} \subseteq [Collectors -> SUBSET Sources]
  /\ mem \in [Collectors -> Ledger]
  /\ event \in [Collectors -> Event \cup {None}]
  /\ \A c \in Collectors : pc[c] \in {"read", "await"} => event[c] \in Event
  /\ answer \in [Collectors -> Answer \cup {None}]
  /\ faults \in 0 .. MaxFaults
  /\ truncations \in 0 .. MaxTruncations
  /\ losses \in 0 .. MaxLosses

Init ==
  /\ file = [s \in Sources |-> <<>>]
  /\ stored = [s \in Sources |-> <<>>]
  /\ lastStart = [s \in Sources |-> 0]
  /\ accepted = [s \in Sources |-> {}]
  /\ orphans = {}
  /\ ledger = EmptyLedger
  /\ lock = Free
  /\ pc = [c \in Collectors |-> "idle"]
  /\ phase = [c \in Collectors |-> "first"]
  /\ current = [c \in Collectors |-> {}]
  /\ idle = [c \in Collectors |-> {}]
  /\ todo = [c \in Collectors |-> {}]
  /\ mem = [c \in Collectors |-> EmptyLedger]
  /\ event = [c \in Collectors |-> None]
  /\ answer = [c \in Collectors |-> None]
  /\ unreadable = [c \in Collectors |-> {}]
  /\ faults = 0
  /\ truncations = 0
  /\ losses = 0

-----------------------------------------------------------------------------
(* The host agent and the disk *)

(* The agent appends a complete record to a transcript. *)
AppendRecord(s, r) ==
  /\ Len(file[s]) < MaxRecords
  /\ file' = [file EXCEPT ![s] = Append(@, r)]
  /\ UNCHANGED <<stored, lastStart, accepted, orphans, ledger, lock,
                 procVars, boundVars>>

(* The transcript is rewound; with later appends, replaced or rotated. *)
Truncate(s) ==
  /\ truncations < MaxTruncations
  /\ truncations' = truncations + 1
  /\ \E n \in 0 .. Len(file[s]) - 1 :
       file' = [file EXCEPT ![s] = SubSeq(@, 1, n)]
  /\ UNCHANGED <<stored, lastStart, accepted, orphans, ledger, lock,
                 procVars, faults, losses>>

(* The ledger file is deleted, or is found corrupt or unsupported when it  *)
(* is loaded, which moves it aside and starts from an empty one.           *)
LoseLedger ==
  /\ lock = Free
  /\ losses < MaxLosses
  /\ losses' = losses + 1
  /\ ledger' = EmptyLedger
  /\ UNCHANGED <<envVars, lock, procVars, faults, truncations>>

-----------------------------------------------------------------------------
(* The worker (external), as the runtime and its tests use it *)

Watermark(s) == Len(stored[s])

(* One request is one transaction: a range the worker already holds is     *)
(* answered from what it has, a range at the watermark is committed.       *)
WorkerAccepts(b) ==
  LET end == b.start + Len(b.recs)
  IN /\ \/ /\ end <= Watermark(b.src)
           /\ UNCHANGED <<stored, lastStart>>
        \/ /\ end > Watermark(b.src)
           /\ b.start = Watermark(b.src)
           /\ stored' = [stored EXCEPT ![b.src] = @ \o b.recs]
           /\ lastStart' = [lastStart EXCEPT ![b.src] = b.start]
     /\ accepted' = [accepted EXCEPT ![b.src] =
                       @ \cup {[start |-> b.start, recs |-> b.recs]}]

(* Any other range is refused with 409, and so may be a held range whose   *)
(* content differs.  The worker proves a range that ends at its watermark. *)
WorkerRefuses(b) ==
  LET end == b.start + Len(b.recs)
      held == SubSeq(stored[b.src], b.start + 1, end)
  IN /\ IF end <= Watermark(b.src) THEN held # b.recs
                                   ELSE b.start # Watermark(b.src)
     /\ UNCHANGED <<stored, lastStart, accepted>>

ProofStarts(b) ==
  {lastStart[b.src]} \cup ({b.start} \cap 0 .. Watermark(b.src))

Conflict(b, from) ==
  [kind |-> "conflict", watermark |-> Watermark(b.src), proofStart |-> from,
   proof |-> SubSeq(stored[b.src], from + 1, Watermark(b.src))]

Request(c) ==
  [src |-> event[c].src, start |-> Len(event[c].base), recs |-> event[c].recs]

(* The worker handles the request of a waiting collector. *)
WorkerReceives(c) ==
  /\ pc[c] = "await"
  /\ answer[c] = None
  /\ \/ /\ WorkerAccepts(Request(c))
        /\ answer' = [answer EXCEPT ![c] = [kind |-> "accepted"]]
     \/ /\ WorkerRefuses(Request(c))
        /\ \E from \in ProofStarts(Request(c)) :
             answer' = [answer EXCEPT ![c] = Conflict(Request(c), from)]
  /\ UNCHANGED <<file, orphans, ledger, lock, pc, phase, current, idle, todo, mem,
                 event, unreadable, boundVars>>

(* The worker handles a request whose sender gave up or died. *)
WorkerReceivesLate(b) ==
  /\ WorkerAccepts(b) \/ WorkerRefuses(b)
  /\ orphans' = orphans \ {b}
  /\ UNCHANGED <<file, ledger, lock, procVars, boundVars>>

-----------------------------------------------------------------------------
(* A collector process *)

(* collect calls uploadPaths three times: one request for the transcripts  *)
(* of the hook, the rest of them, then the other transcripts found.        *)
Paths(c) == IF phase[c] = "idle" THEN idle[c] ELSE current[c]

(* Wrong on purpose: the lock is kept. *)
KeepLock(c) == lock' = lock

ReleaseLock(c) == lock' = IF lock = c THEN Free ELSE lock

(* The locals of one uploadPaths iteration go out of scope. *)
EndRequest(c) ==
  /\ ReleaseLock(c)
  /\ todo' = [todo EXCEPT ![c] = {}]
  /\ mem' = [mem EXCEPT ![c] = EmptyLedger]
  /\ event' = [event EXCEPT ![c] = None]
  /\ answer' = [answer EXCEPT ![c] = None]

(* The process reports its status and exits. *)
Finish(c) ==
  /\ EndRequest(c)
  /\ pc' = [pc EXCEPT ![c] = "idle"]
  /\ phase' = [phase EXCEPT ![c] = "first"]
  /\ current' = [current EXCEPT ![c] = {}]
  /\ idle' = [idle EXCEPT ![c] = {}]
  /\ unreadable' = [unreadable EXCEPT ![c] = {}]

(* An uploadPaths call returned without error. *)
NextPhase(c) ==
  IF phase[c] = "idle"
  THEN Finish(c)
  ELSE /\ EndRequest(c)
       /\ pc' = [pc EXCEPT ![c] = "wait"]
       /\ phase' = [phase EXCEPT ![c] =
                      IF @ = "first" THEN "current" ELSE "idle"]
       /\ UNCHANGED <<current, idle, unreadable>>

(* Wrong on purpose: reads on without selecting a source again. *)
NextRequestUnselected(c) ==
  /\ EndRequest(c)
  /\ pc' = [pc EXCEPT ![c] = "read"]
  /\ UNCHANGED <<phase, current, idle, unreadable>>

(* uploadPaths goes round its loop for another request. *)
NextRequest(c) ==
  /\ EndRequest(c)
  /\ pc' = [pc EXCEPT ![c] = "wait"]
  /\ UNCHANGED <<phase, current, idle, unreadable>>

(* A hook launches a detached collector, naming its transcripts if any. A  *)
(* session start collects every other transcript too, the other hooks those *)
(* that nothing was written to for twelve hours.  With no transcript at all *)
(* there is nothing to do (no_sources).                                     *)
StartCollect(c) ==
  /\ pc[c] = "idle"
  /\ pc' = [pc EXCEPT ![c] = "wait"]
  /\ \E named \in SUBSET Sources, old \in SUBSET Sources :
       /\ named \cup old # {}
       /\ current' = [current EXCEPT ![c] = named]
       /\ idle' = [idle EXCEPT ![c] = old \ named]
  /\ UNCHANGED <<envVars, ledger, lock, phase, todo, mem, event, answer,
                 unreadable, boundVars>>

(* uploadPaths with no paths does nothing. *)
SkipPhase(c) ==
  /\ pc[c] = "wait"
  /\ Paths(c) = {}
  /\ NextPhase(c)
  /\ UNCHANGED <<envVars, ledger, boundVars>>

(* Wrong on purpose: loads the ledger whoever holds the lock. *)
AcquireLockUnguarded(c) ==
  /\ pc[c] = "wait"
  /\ Paths(c) # {}
  /\ lock' = c
  /\ mem' = [mem EXCEPT ![c] = ledger]
  /\ todo' = [todo EXCEPT ![c] = Paths(c)]
  /\ pc' = [pc EXCEPT ![c] = "select"]
  /\ UNCHANGED <<envVars, ledger, phase, current, idle, event, answer, unreadable,
                 boundVars>>

(* Take the ledger lock and reload the ledger. *)
AcquireLock(c) ==
  /\ pc[c] = "wait"
  /\ Paths(c) # {}
  /\ lock = Free
  /\ lock' = c
  /\ mem' = [mem EXCEPT ![c] = ledger]
  /\ todo' = [todo EXCEPT ![c] = Paths(c)]
  /\ pc' = [pc EXCEPT ![c] = "select"]
  /\ UNCHANGED <<envVars, ledger, phase, current, idle, event, answer, unreadable,
                 boundVars>>

(* Open the next path, hash what the ledger says was acknowledged of it,   *)
(* and start over at zero unless the file still begins with exactly that.  *)
OpenSource(c) ==
  /\ pc[c] = "select"
  /\ \E s \in todo[c] :
       LET known == mem[c][s]
           intact == IsPrefix(known, file[s])
           base == IF intact THEN known ELSE <<>>
       IN /\ todo' = [todo EXCEPT ![c] = @ \ {s}]
          /\ IF Len(base) = Len(file[s])
             THEN UNCHANGED <<pc, event>>
             ELSE /\ pc' = [pc EXCEPT ![c] = "read"]
                  /\ event' = [event EXCEPT ![c] =
                       [src |-> s, base |-> base, snapshot |-> file[s],
                        recs |-> <<>>, reset |-> ~intact]]
  /\ UNCHANGED <<envVars, ledger, lock, phase, current, idle, mem, answer,
                 unreadable, boundVars>>

(* The ends a range from start may have: it fits in a request, and a large *)
(* record travels alone.                                                   *)
RangeEnds(recs, start) ==
  {end \in start + 1 .. Len(recs) :
     /\ end - start <= MaxChunk
     /\ end > start + 1 => \A i \in start + 1 .. end : recs[i] \notin Alone}

(* Read the records after the acknowledged prefix and post them.  The open *)
(* file is the snapshot if the path was replaced meanwhile, and the        *)
(* current content, up to the size first seen, if it was rewritten in      *)
(* place.  Nothing but the deadline comes between the read and the post.   *)
ReadAndPost(c) ==
  /\ pc[c] = "read"
  /\ LET e == event[c]
         size == Len(e.snapshot)
         inPlace == SubSeq(file[e.src], 1,
                      IF Len(file[e.src]) < size THEN Len(file[e.src]) ELSE size)
     IN \E seen \in {e.snapshot, inPlace} :
          LET ends == RangeEnds(seen, Len(e.base))
          IN \/ /\ ends = {}
                /\ pc' = [pc EXCEPT ![c] = "select"]
                /\ event' = [event EXCEPT ![c] = None]
             \/ \E end \in ends :
                  /\ \A other \in ends : other <= end
                  /\ pc' = [pc EXCEPT ![c] = "await"]
                  /\ event' = [event EXCEPT ![c] =
                       [e EXCEPT !.snapshot = <<>>,
                          !.recs = SubSeq(seen, Len(e.base) + 1, end)]]
  /\ UNCHANGED <<envVars, ledger, lock, phase, current, idle, todo, mem, answer,
                 unreadable, boundVars>>

(* A path that cannot be opened or read is noted and passed over. *)
SkipUnreadable(c) ==
  /\ pc[c] = "select"
  /\ faults < MaxFaults
  /\ faults' = faults + 1
  /\ \E s \in todo[c] :
       /\ todo' = [todo EXCEPT ![c] = @ \ {s}]
       /\ unreadable' = [unreadable EXCEPT ![c] = @ \cup {s}]
  /\ UNCHANGED <<envVars, ledger, lock, pc, phase, current, idle, mem, event, answer,
                 truncations, losses>>

(* Wrong on purpose: leaves while paths are still to be examined. *)
NothingPendingEarly(c) ==
  /\ pc[c] = "select"
  /\ ledger' = mem[c]
  /\ NextPhase(c)
  /\ UNCHANGED <<envVars, boundVars>>

(* No path has an event: write the ledger back if there was drift (without *)
(* drift the write would not change it) and leave uploadPaths.             *)
NothingPending(c) ==
  /\ pc[c] = "select"
  /\ todo[c] = {}
  /\ ledger' = mem[c]
  /\ NextPhase(c)
  /\ UNCHANGED <<envVars, boundVars>>

(* record and write: the acknowledged prefix is the verified prefix plus   *)
(* the first n records of the event.                                       *)
Persist(c, n) ==
  ledger' = [mem[c] EXCEPT ![event[c].src] =
               event[c].base \o SubSeq(event[c].recs, 1, n)]

(* The response acknowledges the range: persist it, then go on.  The first *)
(* call stops after one batch.                                             *)
Acknowledge(c) ==
  /\ pc[c] = "await"
  /\ answer[c] # None /\ answer[c].kind = "accepted"
  /\ Persist(c, Len(event[c].recs))
  /\ IF phase[c] = "first" THEN NextPhase(c) ELSE NextRequest(c)
  /\ UNCHANGED <<envVars, boundVars>>

(* Wrong on purpose: the content the worker proves is not compared. *)
ReconcilableUnproved(c) ==
  LET start == Len(event[c].base)
  IN /\ answer[c].proofStart = start
     /\ mem[c][event[c].src] = event[c].base
     /\ start < answer[c].watermark
     /\ answer[c].watermark < start + Len(event[c].recs)

(* Wrong on purpose: off by one at the start of the range. *)
ReconcilableBeyondFirst(c) ==
  LET e == event[c]
      a == answer[c]
      start == Len(e.base)
  IN /\ a.proofStart = start
     /\ mem[c][e.src] = e.base
     /\ start + 1 < a.watermark /\ a.watermark < start + Len(e.recs)
     /\ SubSeq(e.recs, 1, a.watermark - start) = a.proof

(* A conflict is taken over only when it proves that the worker holds the  *)
(* first records of this very range and the ledger still is at its start.  *)
Reconcilable(c) ==
  LET e == event[c]
      a == answer[c]
      start == Len(e.base)
  IN /\ a.proofStart = start
     /\ mem[c][e.src] = e.base
     /\ start < a.watermark /\ a.watermark < start + Len(e.recs)
     /\ SubSeq(e.recs, 1, a.watermark - start) = a.proof

(* Wrong on purpose: takes the whole range for acknowledged. *)
ReconcileWhole(c) ==
  /\ pc[c] = "await"
  /\ answer[c] # None /\ answer[c].kind = "conflict"
  /\ Reconcilable(c)
  /\ Persist(c, Len(event[c].recs))
  /\ NextRequest(c)
  /\ UNCHANGED <<envVars, boundVars>>

Reconcile(c) ==
  /\ pc[c] = "await"
  /\ answer[c] # None /\ answer[c].kind = "conflict"
  /\ Reconcilable(c)
  /\ Persist(c, answer[c].watermark - Len(event[c].base))
  /\ NextRequest(c)
  /\ UNCHANGED <<envVars, boundVars>>

(* Any other conflict fails the collection and leaves the ledger alone. *)
RefuseConflict(c) ==
  /\ pc[c] = "await"
  /\ answer[c] # None /\ answer[c].kind = "conflict"
  /\ ~Reconcilable(c)
  /\ Finish(c)
  /\ UNCHANGED <<envVars, ledger, boundVars>>

-----------------------------------------------------------------------------
(* What goes wrong *)

(* The request of c is abandoned: it never arrives, or it arrives late. *)
AbandonRequest(c) ==
  /\ UNCHANGED <<file, stored, lastStart, accepted>>
  /\ \/ UNCHANGED orphans
     \/ /\ pc[c] = "await" /\ answer[c] = None
        /\ Cardinality(orphans) < MaxOrphans
        /\ orphans' = orphans \cup {Request(c)}

(* The connection fails, before or after the worker commits. *)
RequestFails(c) ==
  /\ pc[c] = "await"
  /\ faults < MaxFaults
  /\ faults' = faults + 1
  /\ AbandonRequest(c)
  /\ Finish(c)
  /\ UNCHANGED <<ledger, truncations, losses>>

(* The process dies; the operating system releases its lock. *)
Crash(c) ==
  /\ pc[c] # "idle"
  /\ faults < MaxFaults
  /\ faults' = faults + 1
  /\ AbandonRequest(c)
  /\ Finish(c)
  /\ UNCHANGED <<ledger, truncations, losses>>

(* The deadline is checked before each request, path and post, while       *)
(* waiting for the lock and while reading; the collection then ends as     *)
(* partial, skipping its later phases.                                     *)
DeadlineExceeded(c) ==
  /\ pc[c] \in {"wait", "select", "read"}
  /\ faults < MaxFaults
  /\ faults' = faults + 1
  /\ Finish(c)
  /\ UNCHANGED <<envVars, ledger, truncations, losses>>

-----------------------------------------------------------------------------
CollectorStep(c) ==
  \/ StartCollect(c) \/ SkipPhase(c) \/ AcquireLock(c)
  \/ OpenSource(c) \/ ReadAndPost(c) \/ NothingPending(c)
  \/ Acknowledge(c) \/ Reconcile(c) \/ RefuseConflict(c)

Fault(c) ==
  SkipUnreadable(c) \/ RequestFails(c) \/ Crash(c) \/ DeadlineExceeded(c)

Next ==
  \/ \E s \in Sources, r \in Record : AppendRecord(s, r)
  \/ \E s \in Sources : Truncate(s)
  \/ LoseLedger
  \/ \E b \in orphans : WorkerReceivesLate(b)
  \/ \E c \in Collectors : WorkerReceives(c) \/ CollectorStep(c) \/ Fault(c)

Spec == Init /\ [][Next]_vars

(* A collector of a session start. *)
StartSession(c) == StartCollect(c) /\ current'[c] \cup idle'[c] = Sources

(* Sessions keep starting, a running collector keeps running, and the       *)
(* worker answers; nothing obliges the agent to write or faults to happen.  *)
FairSpec ==
  /\ Spec
  /\ \A c \in Collectors :
       /\ WF_vars(CollectorStep(c)) /\ WF_vars(WorkerReceives(c))
       /\ SF_vars(StartSession(c))

-----------------------------------------------------------------------------
(* Properties *)

(* One of the ranges has r as record i of its source. *)
Holds(ranges, i, r) ==
  \E range \in ranges :
    /\ i \in range.start + 1 .. range.start + Len(range.recs)
    /\ range.recs[i - range.start] = r

(* The worker answered for r as record i of s. *)
Delivered(s, i, r) == Holds(accepted[s], i, r)

(* "The ledger advances only after the worker acknowledges the exact source *)
(* ranges and content hashes": every record the ledger counts was accepted  *)
(* by the worker at that place with that content, whatever was rewound,     *)
(* lost, retried or reconciled.                                             *)
AckedByWorker ==
  \A s \in Sources : \A i \in 1 .. Len(ledger[s]) :
    Delivered(s, i, ledger[s][i])

(* "Forward-only acknowledgment ledgers": the acknowledged prefix of a       *)
(* source is only ever extended, except when its collector found that the    *)
(* file no longer begins with that prefix, or when the ledger file is lost.  *)
ForwardOnly ==
  [][\A s \in Sources :
       \/ IsPrefix(ledger[s], ledger'[s])
       \/ ledger' = EmptyLedger
       \/ \E c \in Collectors :
            pc[c] = "await" /\ event[c].src = s /\ event[c].reset]_vars

(* While transcripts are only appended to and the ledger is not lost, every  *)
(* sequence conflict the worker can answer with is one the collector         *)
(* reconciles: no lost response, late request or concurrent collector leaves *)
(* a source that every later collection fails on.                            *)
ConflictsReconcile ==
  \A c \in Collectors :
    (answer[c] # None /\ answer[c].kind = "conflict") => Reconcilable(c)

(* The delivery contract, for transcripts that are only appended to. *)
Delivery == INSTANCE TraceDelivery WITH log <- file, acked <- ledger
ImplementsDelivery == Delivery!Spec

(* Every record written is eventually acknowledged, although requests and    *)
(* responses are lost, deadlines expire and collectors die now and then.     *)
EverythingAcked ==
  \A s \in Sources, n \in 1 .. MaxRecords :
    Len(file[s]) >= n ~> Len(ledger[s]) >= n
=============================================================================
