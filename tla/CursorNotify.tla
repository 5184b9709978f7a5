----------------------------- MODULE CursorNotify -----------------------------
(***************************************************************************)
(* The queue of Cursor's lifecycle notifications. Every hook starts a      *)
(* process that puts its notification there as a file. One process at a    *)
(* time collects what is queued, in three passes, and removes what it      *)
(* collected completely in the last.                                       *)
(***************************************************************************)
EXTENDS SequencesExt

CONSTANTS
  Procs,      \* processes that run at one time
  Events,     \* notifications; equal ones have one file
  Recurring,  \* those that hooks send again and again
  Unsaved,    \* those of sessions that Cursor never saves
  None,
  Limit,      \* files the queue may have
  Batch,      \* files of one pass
  MaxNotices, \* bound: how often each other notification is sent
  MaxFaults   \* bound: deaths, failures, deadlines, incomplete collections

Passes == 3

Steps == {"write", "lock", "ensure", "list", "take", "collect", "last", "rewrite"}

\* What a process knows: its notice and whether it was queued, the pass it is
\* in, and the files of that pass it has not collected yet.
Processes ==
  [event : Events, queued : BOOLEAN, pass : 1 .. Passes, todo : Seq(Events), at : Steps]

ASSUME NotifyConstants ==
  /\ IsFiniteSet(Procs) /\ Recurring \cup Unsaved \subseteq Events
  /\ None \notin Procs /\ None \notin Processes
  /\ {Limit, Batch} \subseteq Nat \ {0}
  /\ {MaxNotices, MaxFaults} \subseteq Nat

VARIABLES
  queue,     \* the files, by their modification times
  proc,      \* proc[p]: what a process is doing, or None
  lock,      \* who holds collector.lock, or None
  notices, faults,
  due,       \* notices that no complete collection ended for (history)
  told       \* notices whose process failed before they were queued (history)

vars == <<queue, proc, lock, notices, faults, due, told>>

-----------------------------------------------------------------------------
Running(p) == proc[p] # None

At(p, step) == Running(p) /\ proc[p].at = step

Go(p, step) == proc' = [proc EXCEPT ![p].at = step]

Queued(e) == e \in ToSet(queue)

\* No two files have one name.
Without(files, e) ==
  IF e \in ToSet(files) THEN RemoveAt(files, CHOOSE i \in DOMAIN files : files[i] = e) ELSE files

\* Wrong on purpose: a file keeps the time it was queued at.
LatestUntouched(files, e) == IF e \in ToSet(files) THEN files ELSE Append(files, e)

\* A file that is written or touched has the latest modification time.
Latest(files, e) == Append(Without(files, e), e)

\* Wrong on purpose: a full queue takes one more.
HasRoomForOne == Len(queue) <= Limit

HasRoom == Len(queue) < Limit

\* The files of a pass: the process's own, then the oldest.
Selected(e) ==
  LET files == (IF Queued(e) THEN <<e>> ELSE <<>>) \o Without(queue, e)
  IN SubSeq(files, 1, IF Len(files) < Batch THEN Len(files) ELSE Batch)

\* The process ends and its lock is free. Whoever reads its exit status knows
\* of a notice that was not queued.
Exit(p, failed) ==
  /\ proc' = [proc EXCEPT ![p] = None]
  /\ lock' = IF lock = p THEN None ELSE lock
  /\ told' = IF failed THEN told \cup {proc[p].event} ELSE told

Unqueued(p) == ~proc[p].queued \/ proc[p].at = "write"

-----------------------------------------------------------------------------
\* A hook starts a process, which looks for its file and at the limit.
Notify(p, e) ==
  /\ ~Running(p)
  /\ e \notin Recurring => notices[e] < MaxNotices /\ notices' = [notices EXCEPT ![e] = @ + 1]
  /\ e \in Recurring => UNCHANGED notices
  /\ LET queued == Queued(e) \/ HasRoom
     IN proc' = [proc EXCEPT ![p] =
                   [event |-> e, queued |-> queued, pass |-> 1, todo |-> <<>>,
                    at |-> IF queued THEN "write" ELSE "lock"]]
  /\ due' = due \cup {e}
  /\ told' = told \ {e}
  /\ UNCHANGED <<queue, lock, faults>>

Write(p) ==
  /\ At(p, "write")
  /\ queue' = Latest(queue, proc[p].event)
  /\ Go(p, "lock")
  /\ UNCHANGED <<lock, notices, faults, due, told>>

\* Wrong on purpose: a process that finds the lock taken goes on.
TryLockUnguarded(p) ==
  /\ At(p, "lock")
  /\ lock' = p /\ Go(p, "ensure") /\ UNCHANGED told
  /\ UNCHANGED <<queue, notices, faults, due>>

\* The lock is tried once; who does not get it leaves the work to its holder.
TryLock(p) ==
  /\ At(p, "lock")
  /\ IF lock = None
     THEN lock' = p /\ Go(p, "ensure") /\ UNCHANGED told
     ELSE Exit(p, ~proc[p].queued)
  /\ UNCHANGED <<queue, notices, faults, due>>

Ensure(p) ==
  /\ At(p, "ensure")
  /\ Go(p, "list")
  /\ UNCHANGED <<queue, lock, notices, faults, due, told>>

List(p) ==
  /\ At(p, "list")
  /\ proc' = [proc EXCEPT ![p].todo = Selected(proc[p].event), ![p].at = "take"]
  /\ UNCHANGED <<queue, lock, notices, faults, due, told>>

\* The next file goes to the end of the queue and is collected; the process
\* ends at a file that is gone.
Take(p) ==
  /\ At(p, "take") /\ proc[p].todo # <<>>
  /\ LET e == Head(proc[p].todo)
     IN IF Queued(e)
        THEN /\ queue' = Latest(queue, e)
             /\ Go(p, "collect") /\ UNCHANGED <<lock, told>>
        ELSE Exit(p, Unqueued(p)) /\ UNCHANGED queue
  /\ UNCHANGED <<notices, faults, due>>

Collected(p) == proc' = [proc EXCEPT ![p].todo = Tail(@), ![p].at = "take"]

\* A collection that reports "complete" in the last pass has settled its file.
Complete(p) ==
  LET e == Head(proc[p].todo)
      last == proc[p].pass = Passes
  IN /\ At(p, "collect") /\ e \notin Unsaved
     /\ Collected(p)
     /\ queue' = IF last THEN Without(queue, e) ELSE queue
     /\ due' = IF last THEN due \ {e} ELSE due
     /\ UNCHANGED <<lock, notices, faults, told>>

EndPass(p) ==
  /\ At(p, "take") /\ proc[p].todo = <<>>
  /\ IF proc[p].pass < Passes
     THEN proc' = [proc EXCEPT ![p].pass = @ + 1, ![p].at = "list"] /\ UNCHANGED <<lock, told>>
     ELSE IF proc[p].queued THEN Exit(p, FALSE)
          ELSE Go(p, "last") /\ UNCHANGED <<lock, told>>
  /\ UNCHANGED <<queue, notices, faults, due>>

\* Wrong on purpose: nothing is said when there is still no room.
LookAgainSilently(p) ==
  /\ At(p, "last")
  /\ IF HasRoom THEN Go(p, "rewrite") /\ UNCHANGED <<lock, told>> ELSE Exit(p, FALSE)
  /\ UNCHANGED <<queue, notices, faults, due>>

\* A process whose notice found no room looks again after it drained the
\* queue.
LookAgain(p) ==
  /\ At(p, "last")
  /\ IF HasRoom THEN Go(p, "rewrite") /\ UNCHANGED <<lock, told>> ELSE Exit(p, TRUE)
  /\ UNCHANGED <<queue, notices, faults, due>>

Rewrite(p) ==
  /\ At(p, "rewrite")
  /\ queue' = Latest(queue, proc[p].event)
  /\ Exit(p, FALSE)
  /\ UNCHANGED <<notices, faults, due>>

Fault == faults < MaxFaults /\ faults' = faults + 1

\* A session that is not saved; else the deadline of the collection, or
\* transcripts that cannot be read.
Incomplete(p) ==
  /\ At(p, "collect")
  /\ IF Head(proc[p].todo) \in Unsaved THEN UNCHANGED faults ELSE Fault
  /\ Collected(p)
  /\ UNCHANGED <<queue, lock, notices, due, told>>

\* The process dies, an operation fails, or the minute is over.
Stop(p) ==
  /\ Running(p) /\ Fault
  /\ Exit(p, Unqueued(p))
  /\ UNCHANGED <<queue, notices, due>>

-----------------------------------------------------------------------------
Init ==
  /\ queue = <<>>
  /\ proc = [p \in Procs |-> None]
  /\ lock = None
  /\ notices = [e \in Events \ Recurring |-> 0]
  /\ faults = 0
  /\ due = {}
  /\ told = {}

Step(p) ==
  \/ Write(p) \/ TryLock(p) \/ Ensure(p) \/ List(p) \/ Take(p)
  \/ Complete(p) \/ Incomplete(p)
  \/ EndPass(p) \/ LookAgain(p) \/ Rewrite(p)

Next ==
  \E p \in Procs :
    \/ \E e \in Events : Notify(p, e)
    \/ Step(p) \/ Stop(p)

Spec == Init /\ [][Next]_vars

\* Processes proceed, and hooks keep firing.
FairSpec ==
  /\ Spec
  /\ \A p \in Procs : WF_vars(Step(p))
  /\ \A e \in Recurring : SF_vars(\E p \in Procs : Notify(p, e))

-----------------------------------------------------------------------------
\* Types; a file that is to be collected is still there: a pass never ends
\* because another process removed one of its files.
TypeOK ==
  /\ queue \in Seq(Events) /\ Len(queue) = Cardinality(ToSet(queue))
  /\ proc \in [Procs -> Processes \cup {None}]
  /\ \A p \in Procs : Running(p) => ToSet(proc[p].todo) \subseteq ToSet(queue)
  /\ lock \in Procs \cup {None}
  /\ notices \in [Events \ Recurring -> 0 .. MaxNotices] /\ faults \in 0 .. MaxFaults
  /\ due \subseteq Events /\ told \subseteq Events

Pending(e) == Queued(e) \/ e \in told \/ \E p \in Procs : Running(p) /\ proc[p].event = e

\* However processes overlap, die and fill the queue, a notice is queued, or
\* its process failed, until a complete collection of it ended, which may have
\* begun before the notice (cursor_notify.go:106).
NoticesAnswered == \A e \in due : Pending(e)

\* Overlapping processes look at the limit before any of them writes, so the
\* queue passes it, by less than their number.
QueueBounded == Len(queue) < Limit + Cardinality(Procs)

\* Sessions that never settle do not starve the others: every file that stays
\* queued is collected again and again.
EventuallyCollected ==
  \A e \in Events :
    []<>(\/ ~Queued(e)
         \/ \E p \in Procs : At(p, "collect") /\ Head(proc[p].todo) = e)
=============================================================================
