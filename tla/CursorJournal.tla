----------------------------- MODULE CursorJournal -----------------------------
(***************************************************************************)
(* The journal of one session of Cursor: an append-only file of revisions. *)
(* Its writer takes messages from the transcript while the database cannot *)
(* be read and from the database afterwards. It may die within a line. A   *)
(* collector uploads whole lines at any time.                              *)
(* Messages are final once they are listed; results of tools are not.      *)
(***************************************************************************)
EXTENDS Places, SequencesExt

CONSTANTS
  Messages,  \* texts of messages, as the transcript and the database say them
  Result,    \* a result of a tool, of which only the database knows
  None,
  MaxEvents, \* bound: events of the session
  MaxChanges, MaxFaults \* bounds: changes of results, deaths and failures

ASSUME JournalConstants ==
  /\ Result \notin Messages
  /\ {MaxEvents, MaxChanges, MaxFaults} \subseteq Nat

VARIABLES
  transcript, \* messages
  database,   \* messages and results with their quality
  file,       \* the complete lines of the journal
  partial,    \* the file ends within a line
  run,        \* the writer, or None
  sent,       \* what a collector uploaded
  changes, faults

vars == <<transcript, database, file, partial, run, sent, changes, faults>>

-----------------------------------------------------------------------------
Quality == {"available", "missing", "pruned", "partial"}

Degraded == Quality \ {"available"}

\* A line that begins with the rest of another.
Broken == [id |-> None, native |-> None, source |-> None, text |-> None, quality |-> None, revision |-> 0]

FromTranscript(i) ==
  [native |-> <<"transcript", i>>, source |-> "transcript", text |-> transcript[i], quality |-> "partial"]

FromDatabase(i) ==
  [native |-> <<"database", i>>, source |-> "database", text |-> database[i].text,
   quality |-> database[i].quality]

Ids == {file[k].id : k \in DOMAIN file}

Latest(id) == file[CHOOSE k \in DOMAIN file : file[k].id = id /\ \A j \in k + 1 .. Len(file) : file[j].id # id]

\* The identity an event was recorded under: that of the last line with it.
KnownAs(native) ==
  {file[k].id : k \in {k \in DOMAIN file :
     file[k].native = native /\ \A j \in k + 1 .. Len(file) : file[j].native # native}}

\* Identities that the transcript gave to a message, in their order.
Fallback(text) ==
  LET first == {k \in DOMAIN file :
                  /\ file[k].revision = 1
                  /\ Latest(file[k].id).source = "transcript" /\ Latest(file[k].id).text = text}
  IN [i \in 1 .. Cardinality(first) |-> file[Nth(first, i)].id]

-----------------------------------------------------------------------------
Observations ==
  {[i \in DOMAIN transcript |-> FromTranscript(i)]}
    \cup {[i \in 1 .. last - first + 1 |-> FromDatabase(first + i - 1)] :
            first \in DOMAIN database, last \in DOMAIN database}

\* Wrong on purpose: the line before goes too.
OpenCutsLine(observations) ==
  /\ run = None /\ observations # <<>>
  /\ file' = IF partial /\ file # <<>> THEN Front(file) ELSE file
  /\ partial' = FALSE
  /\ run' = [todo |-> observations,
             hasDB |-> \E id \in Ids : Latest(id).source = "database",
             fallback |-> [text \in Messages |-> Fallback(text)]]
  /\ UNCHANGED <<transcript, database, sent, changes, faults>>

\* The writer has read a page, or the transcript, opens the journal, reads all
\* of it and cuts what is left of a line.
Open(observations) ==
  /\ run = None /\ observations # <<>>
  /\ partial' = FALSE
  /\ run' = [todo |-> observations,
             hasDB |-> \E id \in Ids : Latest(id).source = "database",
             fallback |-> [text \in Messages |-> Fallback(text)]]
  /\ UNCHANGED <<transcript, database, file, sent, changes, faults>>

\* Wrong on purpose: messages of the database are recorded beside those of the
\* transcript.
AdoptsNever(event) == FALSE

\* A message of the database that was recorded from the transcript before.
Adopts(event) ==
  /\ event.source = "database" /\ KnownAs(event.native) = {} /\ event.native \notin Ids
  /\ event.text \in Messages /\ run.fallback[event.text] # <<>>

Identity(event) ==
  IF Adopts(event) THEN Head(run.fallback[event.text])
  ELSE IF KnownAs(event.native) # {} THEN CHOOSE id \in KnownAs(event.native) : TRUE
  ELSE event.native

\* A complete record is not replaced by less.
Worse(event, id) == id \in Ids /\ Latest(id).quality = "available" /\ event.quality \in Degraded

\* Wrong on purpose: every observation is a revision.
SameNever(event, id) == FALSE

\* An observation that says what the latest revision says is no revision.
Same(event, id) ==
  /\ id \in Ids
  /\ LET last == Latest(id)
     IN <<last.native, last.source, last.text, last.quality>>
          = <<event.native, event.source, event.text, event.quality>>

Record(event, id) ==
  [id |-> id, native |-> event.native, source |-> event.source, text |-> event.text,
   quality |-> event.quality, revision |-> IF id \in Ids THEN Latest(id).revision + 1 ELSE 1]

\* One observation is recorded, or passed over.
Append1 ==
  /\ run # None /\ run.todo # <<>>
  /\ LET event == Head(run.todo)
         id == Identity(event)
         passed == (event.source = "transcript" /\ run.hasDB) \/ Worse(event, id) \/ Same(event, id)
         left == [run.fallback EXCEPT ![event.text] = Tail(@)]
     IN /\ run' = [run EXCEPT !.todo = Tail(@), !.fallback = IF Adopts(event) THEN left ELSE @]
        /\ file' = IF passed THEN file ELSE Append(file, IF partial THEN Broken ELSE Record(event, id))
        /\ partial' = (partial /\ passed)
  /\ UNCHANGED <<transcript, database, sent, changes, faults>>

Close ==
  /\ run # None /\ run.todo = <<>>
  /\ run' = None
  /\ UNCHANGED <<transcript, database, file, partial, sent, changes, faults>>

\* The writer dies, or a write fails, maybe within a line.
Stop ==
  /\ run # None /\ faults < MaxFaults
  /\ faults' = faults + 1
  /\ run' = None
  /\ (run.todo # <<>> /\ partial' = TRUE) \/ UNCHANGED partial
  /\ UNCHANGED <<transcript, database, file, sent, changes>>

Upload ==
  /\ sent # file
  /\ sent' = file
  /\ UNCHANGED <<transcript, database, file, partial, run, changes, faults>>

-----------------------------------------------------------------------------
\* Cursor saves a message or a result, and lists messages in the transcript.
Save ==
  /\ Len(database) < MaxEvents
  /\ \/ \E text \in Messages : database' = Append(database, [text |-> text, quality |-> "available"])
     \/ \E quality \in {"available", "missing"} :
          database' = Append(database, [text |-> Result, quality |-> quality])
  /\ UNCHANGED <<transcript, file, partial, run, sent, changes, faults>>

Said == {i \in DOMAIN database : database[i].text \in Messages}

List ==
  /\ Len(transcript) < Cardinality(Said)
  /\ transcript' = Append(transcript, database[Nth(Said, Len(transcript) + 1)].text)
  /\ UNCHANGED <<database, file, partial, run, sent, changes, faults>>

ChangeResult ==
  /\ changes < MaxChanges /\ changes' = changes + 1
  /\ \E i \in DOMAIN database, quality \in {"available", "pruned", "partial"} :
       /\ database[i].text = Result /\ database[i].quality # quality
       /\ database' = [database EXCEPT ![i].quality = quality]
  /\ UNCHANGED <<transcript, file, partial, run, sent, faults>>

Init ==
  /\ transcript = <<>> /\ database = <<>>
  /\ file = <<>> /\ partial = FALSE
  /\ run = None
  /\ sent = <<>>
  /\ changes = 0 /\ faults = 0

Next ==
  \/ \E observations \in Observations : Open(observations)
  \/ Append1 \/ Close \/ Stop \/ Upload
  \/ Save \/ List \/ ChangeResult

Spec == Init /\ [][Next]_vars

-----------------------------------------------------------------------------
\* What was uploaded is never cut off or changed, and every line is a record
\* of its own, although writers die within a line.
SentStays == IsPrefix(sent, file) /\ \A k \in DOMAIN file : file[k] # Broken

\* The revisions of an event count up from one, and each says something new:
\* what is read again after a death adds nothing.
RevisionsSay ==
  \A k \in DOMAIN file :
    LET earlier == {j \in 1 .. k - 1 : file[j].id = file[k].id} IN
    /\ file[k].revision = Cardinality(earlier) + 1
    /\ \A j \in earlier :
         file[j].revision + 1 = file[k].revision =>
           [file[j] EXCEPT !.revision = file[k].revision] # file[k]

Count(text, events) == Cardinality({i \in DOMAIN events : events[i] = text})

\* However reads of the transcript and of the database follow one another and
\* end early, a message is one event of the journal.
CountedOnce ==
  \A text \in Messages :
    Cardinality({id \in Ids : Latest(id).text = text}) <= Count(text, [i \in DOMAIN database |-> database[i].text])
=============================================================================
