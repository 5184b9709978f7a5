----------------------------- MODULE CursorExport -----------------------------
(***************************************************************************)
(* The traversal that exports Cursor's sessions to journals, a few of them *)
(* and one page of each in a run. A run starts with the session of its     *)
(* hook and follows the subagents; what is left it hands to the next run   *)
(* in scan-state.json. Cursor writes its database all the while.           *)
(***************************************************************************)
EXTENDS Places, SequencesExt

CONSTANTS
  Sessions,   \* in the order of their names
  Transcripts, \* those of which Cursor writes transcripts
  Databases,  \* what Cursor may have saved at first
  Subjects,   \* sessions whose hooks fire
  Nothing,
  SeenLimit,  \* sessions of one run
  Chunk,      \* discovered sessions that a run adds
  MaxPages, MaxWrites, MaxFailures \* bounds: pages, writes of Cursor, failures

Nobody == 0 \* owner of the traversal of discovered sessions

IsDatabase(d) ==
  /\ d \in [revision : Nat, saved : SUBSET Sessions, pages : [Sessions -> Seq(Nat)],
            children : [Sessions -> SUBSET Sessions]]
  /\ \A s \in Sessions :
       /\ Len(d.pages[s]) <= MaxPages
       /\ \A i \in 1 .. Len(d.pages[s]) : d.pages[s][i] <= d.revision

ASSUME ExportConstants ==
  /\ IsFiniteSet(Sessions) /\ Sessions \subseteq Nat \ {Nobody}
  /\ Transcripts \cup Subjects \subseteq Sessions
  /\ {SeenLimit, Chunk} \subseteq Nat \ {0}
  /\ {MaxPages, MaxWrites, MaxFailures} \subseteq Nat
  /\ \A d \in Databases : IsDatabase(d)
  /\ Nothing \notin Nat

VARIABLES
  db,         \* Cursor's database; a page is the revision that wrote it, or Missing
  discovered, \* the sessions with a transcript
  traversals, \* scan-state.json: what each owner has left,
  after,      \* and the discovered session it came to
  journal,    \* journal[s][i]: the latest of page i that was appended
  ended,      \* sessions with the terminal event of their last hook
  scan,       \* the run that holds export.lock, or Nothing
  failures,
  base, top   \* the database when the traversal, the run, began (history)

evars == <<db, discovered, traversals, after, journal, ended, scan, failures, base, top>>

-----------------------------------------------------------------------------
Missing == 0 \* a message that is listed but not saved yet

Owners == Sessions \cup {Nobody}

NoTraversal ==
  [pending |-> <<>>, offsets |-> [s \in Sessions |-> 0], retries |-> [s \in Sessions |-> Nothing],
   completed |-> {}, revision |-> Nothing]

Prefix(seq, n) == SubSeq(seq, 1, IF Len(seq) < n THEN Len(seq) ELSE n)

\* Sessions in the order of their names.
Sorted(set) == [i \in 1 .. Cardinality(set) |-> Nth(set, i)]

\* What a sequence has at some of its places, in their order.
Select(seq, places) == [i \in 1 .. Cardinality(places) |-> seq[Nth(places, i)]]

\* Wrong on purpose: every run begins with the first sessions.
OrderedFromFirst(subject) == Sorted(discovered \ {subject})

\* The discovered sessions behind the one the last run came to, then the rest.
Ordered(subject) ==
  LET others == {s \in Sessions \ {subject} : s \in discovered}
  IN Sorted({s \in others : s > after}) \o Sorted({s \in others : s <= after})

\* The tasks of a run: first the subject, what the last run left, and of the
\* discovered sessions the next ones.
Tasks(owner, subject) ==
  LET pending == traversals[owner].pending
      found == Prefix(Ordered(subject), Chunk)
      ids == IF owner = Nobody
             THEN pending \o Select(found, {i \in DOMAIN found : found[i] \notin ToSet(pending)})
             ELSE <<subject>> \o Select(pending, {i \in DOMAIN pending : pending[i] # subject})
  IN [i \in 1 .. Len(ids) |-> <<ids[i], owner>>]

\* Wrong on purpose: completed sessions stay completed when the database changes.
ResumedStale(owner) == traversals[owner]

\* What a run takes over from the last one.
Resumed(owner) ==
  LET traversal == traversals[owner]
  IN IF traversal.revision = db.revision THEN traversal ELSE [traversal EXCEPT !.completed = {}]

-----------------------------------------------------------------------------
StartRun(subject) ==
  LET tasks == Tasks(subject, subject) \o Tasks(Nobody, subject)
  IN /\ scan = Nothing
     /\ scan' = [subject |-> subject, revision |-> db.revision, tasks |-> tasks, scheduled |-> ToSet(tasks),
                seen |-> 0, retry |-> <<>>, after |-> after,
                work |-> [owner \in {subject, Nobody} |-> Resumed(owner)]]
     /\ ended' = ended \ {subject}
     /\ base' = [base EXCEPT ![subject] = IF traversals[subject] = NoTraversal THEN db ELSE @]
     /\ top' = db
     /\ UNCHANGED <<db, discovered, traversals, after, journal, failures>>

\* Wrong on purpose: pages that were not saved when they were read are forgotten.
ReadPageOnce(s, offset, retry) ==
  LET pages == db.pages[s]
      at == IF offset < Len(pages) THEN offset ELSE 0
      next == IF at + 1 < Len(pages) THEN at + 1 ELSE 0
  IN [at |-> at, next |-> next, retry |-> Nothing, complete |-> next = 0]

\* One page of a session. What was not saved yet is read again: from the
\* earliest such page when the last page was read.
ReadPage(s, offset, retry) ==
  LET pages == db.pages[s]
      at == IF offset < Len(pages) THEN offset ELSE 0
      next == IF at + 1 < Len(pages) THEN at + 1 ELSE 0
      again == (IF retry # Nothing /\ retry < Len(pages) THEN {retry} ELSE {})
                 \cup (IF at < Len(pages) /\ pages[at + 1] = Missing THEN {at} ELSE {})
      earliest == CHOOSE n \in again : \A m \in again : n <= m
  IN [at |-> at,
      next |-> IF again # {} /\ next = 0 THEN earliest ELSE next,
      retry |-> IF again # {} /\ next # 0 THEN earliest ELSE Nothing,
      complete |-> again = {} /\ next = 0]

Appended(s, at) ==
  IF at < Len(db.pages[s]) THEN [journal EXCEPT ![s][at + 1] = db.pages[s][at + 1]] ELSE journal

\* The working copy of a traversal after the page of a session.
Worked(work, s, page, saved) ==
  [work EXCEPT
     !.offsets = IF saved THEN [work.offsets EXCEPT ![s] = page.next] ELSE @,
     !.retries = IF saved THEN [work.retries EXCEPT ![s] = page.retry] ELSE @,
     !.completed = IF saved /\ page.complete THEN @ \cup {s} ELSE @ \ {s}]

\* The next task is done, its children are scheduled unless they were before,
\* and unless its page is complete it is for the next run.
Advance(page, children, saved) ==
  LET s == Head(scan.tasks)[1]
      owner == Head(scan.tasks)[2]
      new == {c \in children : <<c, owner>> \notin scan.scheduled /\ c \notin scan.work[owner].completed}
      added == [i \in 1 .. Cardinality(new) |-> <<Sorted(new)[i], owner>>]
  IN scan' = [scan EXCEPT
               !.tasks = Tail(@) \o added,
               !.scheduled = @ \cup ToSet(added),
               !.seen = @ + 1,
               !.work = [scan.work EXCEPT ![owner] = Worked(scan.work[owner], s, page, saved)],
               !.after = IF owner = Nobody THEN s ELSE @,
               !.retry = IF saved /\ page.complete THEN @ ELSE Append(@, <<s, owner>>)]

AtLimit == scan.tasks = <<>> \/ scan.seen = SeenLimit

Working == scan # Nothing /\ ~AtLimit

Page ==
  LET s == Head(scan.tasks)[1]
      work == scan.work[Head(scan.tasks)[2]]
  IN ReadPage(s, work.offsets[s], work.retries[s])

Fault == failures < MaxFailures /\ failures' = failures + 1

\* A page is read and appended; the terminal event comes behind the last page.
Export ==
  /\ Working
  /\ LET s == Head(scan.tasks)[1]
         owner == Head(scan.tasks)[2]
     IN /\ s \in db.saved
        /\ journal' = Appended(s, Page.at)
        /\ ended' = IF s = scan.subject /\ owner = s /\ Page.complete THEN ended \cup {s} ELSE ended
        /\ Advance(Page, db.children[s], TRUE)
  /\ UNCHANGED <<db, discovered, traversals, after, failures, base, top>>

\* A session that Cursor has not saved, or a database that cannot be read.
ReadFails ==
  /\ Working
  /\ IF Head(scan.tasks)[1] \in db.saved THEN Fault ELSE UNCHANGED failures
  /\ Advance(Nothing, {}, FALSE)
  /\ UNCHANGED <<db, discovered, traversals, after, journal, ended, base, top>>

\* The page is not appended, or not with all of its records.
AppendFails ==
  /\ Working /\ Fault
  /\ Head(scan.tasks)[1] \in db.saved
  /\ Advance(Page, db.children[Head(scan.tasks)[1]], FALSE)
  /\ UNCHANGED <<db, discovered, traversals, after, journal, ended, base, top>>

Remaining(owner) ==
  LET left == scan.tasks \o scan.retry
      owned == Select(left, {i \in DOMAIN left : left[i][2] = owner})
  IN [i \in DOMAIN owned |-> owned[i][1]]

Complete == Remaining(scan.subject) = <<>>

\* Wrong on purpose: every run starts over with all subagents.
RememberedNever(owner) == {}

\* Completed sessions are skipped only while others wait for their first turn.
Remembered(owner) ==
  IF \E t \in ToSet(scan.tasks) : t[2] = owner THEN scan.work[owner].completed ELSE {}

\* Nothing is left, or the run has reached a limit: the state is saved.
FinishRun ==
  /\ scan # Nothing
  /\ IF AtLimit THEN UNCHANGED failures ELSE Fault
  /\ traversals' = [owner \in Owners |->
       IF owner \notin DOMAIN scan.work THEN traversals[owner]
       ELSE IF Remaining(owner) = <<>> THEN NoTraversal
       ELSE [scan.work[owner] EXCEPT !.pending = Remaining(owner), !.completed = Remembered(owner),
                                    !.revision = scan.revision]]
  /\ after' = scan.after
  /\ scan' = Nothing
  /\ base' = [base EXCEPT ![scan.subject] = IF Complete THEN Nothing ELSE @] /\ top' = Nothing
  /\ UNCHANGED <<db, discovered, journal, ended>>

\* The process dies; what it appended stays.
Crash ==
  /\ scan # Nothing /\ Fault
  /\ scan' = Nothing /\ top' = Nothing
  /\ UNCHANGED <<db, discovered, traversals, after, journal, ended, base>>

-----------------------------------------------------------------------------
\* Cursor saves a session, a message, a message it had listed, or a subagent.
Change(s) ==
  /\ db.revision < MaxWrites
  /\ LET now == db.revision + 1
         pages == db.pages[s]
     IN \/ /\ s \notin db.saved
           /\ db' = [db EXCEPT !.revision = now, !.saved = @ \cup {s}]
        \/ /\ s \in db.saved /\ Len(pages) < MaxPages
           /\ \E page \in {Missing, now} :
                db' = [db EXCEPT !.revision = now, !.pages[s] = Append(@, page)]
        \/ /\ s \in db.saved
           /\ \E i \in DOMAIN pages : db' = [db EXCEPT !.revision = now, !.pages[s][i] = now]
        \/ /\ s \in db.saved
           /\ \E c \in Sessions \ (db.children[s] \cup {s}) :
                db' = [db EXCEPT !.revision = now, !.children[s] = @ \cup {c}]
  /\ UNCHANGED <<discovered, traversals, after, journal, ended, scan, failures, base, top>>

\* Cursor begins a transcript. A run looks for them once, when it starts.
Discover(s) ==
  /\ scan = Nothing /\ s \notin discovered
  /\ discovered' = discovered \cup {s}
  /\ UNCHANGED <<db, traversals, after, journal, ended, scan, failures, base, top>>

EInit ==
  /\ db \in Databases
  /\ discovered = {}
  /\ traversals = [owner \in Owners |-> NoTraversal]
  /\ after = 0
  /\ journal = [s \in Sessions |-> [i \in 1 .. MaxPages |-> Missing]]
  /\ ended = {}
  /\ scan = Nothing
  /\ failures = 0
  /\ base = [s \in Subjects |-> Nothing] /\ top = Nothing

Run == Export \/ ReadFails \/ AppendFails \/ FinishRun

ENext ==
  \/ \E s \in Subjects : StartRun(s)
  \/ Run \/ Crash
  \/ \E s \in Sessions : Change(s)
  \/ \E s \in Transcripts : Discover(s)

ESpec == EInit /\ [][ENext]_evars

\* A run goes on, and hooks of every session keep firing.
EFairSpec ==
  /\ ESpec
  /\ WF_evars(Export \/ (ReadFails /\ UNCHANGED failures) \/ (FinishRun /\ UNCHANGED failures))
  /\ \A s \in Subjects : SF_evars(StartRun(s))

-----------------------------------------------------------------------------
\* A session and its subagents, theirs, and so on: the smallest such set.
Reach(d, s) ==
  {x \in Sessions :
     \A set \in SUBSET Sessions : s \in set /\ UNION {d.children[y] : y \in set} \subseteq set => x \in set}

\* A run that calls its subject complete has behind it, in the journals, every
\* page of every session that could be reached from it when the run began. No
\* page is older than the traversal, and a session of one page not older than
\* the run, however Cursor wrote, and runs died or failed, in between.
CompleteMeansExported ==
  [][ FinishRun /\ Complete =>
        \A s \in Reach(top, scan.subject) :
          /\ s \in db.saved
          /\ \A i \in DOMAIN top.pages[s] :
               /\ journal[s][i] # Missing
               /\ i \in DOMAIN base[scan.subject].pages[s] => journal[s][i] >= base[scan.subject].pages[s][i]
               /\ Len(top.pages[s]) = 1 => journal[s][i] >= top.pages[s][i] ]_evars

\* The terminal event of a session comes behind all of its messages: also
\* behind those that were listed before they were saved.
TerminalLast ==
  [][ \A s \in ended' \ ended : \A i \in DOMAIN db.pages[s] :
        /\ journal'[s][i] # Missing
        /\ i \in DOMAIN base[s].pages[s] => journal'[s][i] >= base[s].pages[s][i] ]_evars

\* Cursor has saved all there is of a session and its subagents.
Saved(s) == \A x \in Reach(db, s) : x \in db.saved /\ Missing \notin ToSet(db.pages[x])

Short(s) == \A x \in Reach(db, s) : Len(db.pages[x]) <= 1

Completes(s) == scan # Nothing /\ scan.subject = s /\ AtLimit /\ Complete

\* A traversal that exceeds the limits of a run resumes and completes, when no
\* session has more than a page: sessions that other hooks left behind and that
\* are never saved do not hinder it.
ShortComplete == \A s \in Subjects : <>[](Saved(s) /\ Short(s)) => []<>Completes(s)

\* Cursor has saved all there is of one session.
Settled(s) == s \in db.saved /\ Missing \notin ToSet(db.pages[s])

Exported(s) == \A i \in DOMAIN db.pages[s] : journal[s][i] = db.pages[s][i]

\* The runs of a subject leave room for discovered sessions, again and again:
\* its traversal completes, or is smaller than a run.
Yields(s) ==
  \/ Cardinality(Reach(db, s)) < SeenLimit
  \/ SeenLimit > 1 /\ Saved(s) /\ Short(s)

\* The discovery reaches all: a run adds all the sessions that are discovered,
\* or each turn takes it further, since none has to be visited again for good
\* and none has subagents.
InTurn ==
  \/ Cardinality(discovered) <= Chunk
  \/ \A s \in discovered : Settled(s) /\ db.children[s] = {}

\* A discovered session is exported in the end, page by page, when all of it was
\* saved, the subjects yield and the discovery reaches all. Nothing is promised
\* when a subject's subagents fill its runs and never complete, since its tasks
\* come first. Nor when there are more discovered sessions than a run adds and
\* the last one visited, behind which the next run goes on, may be a subagent or
\* one that was visited before: others may be passed over for good.
EventuallyExported ==
  \A s \in Transcripts :
    <>[](s \in discovered /\ Settled(s) /\ InTurn /\ \A x \in Subjects : Yields(x)) => <>[]Exported(s)
=============================================================================
