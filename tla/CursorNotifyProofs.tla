-------------------------- MODULE CursorNotifyProofs --------------------------
(***************************************************************************)
(* What holds of the queue of notices for any number of processes, notices *)
(* and files, whatever processes die.                                      *)
(*                                                                         *)
(* ProcInv says what a process may rely on: who is past the lock holds it, *)
(* and the files it is to collect are in the queue, each once.  Only the   *)
(* holder takes files away, and it takes away the one it collected, so the *)
(* others stay there (TypeOK).  AnswerInv is the strengthening of          *)
(* NoticesAnswered: a notice that is neither in the queue nor reported     *)
(* belongs to a process that would report it.  BoundInv counts, with the   *)
(* files in the queue, those that processes have decided to write.         *)
(***************************************************************************)
EXTENDS CursorNotify, FiniteSetTheorems, SequenceTheorems, TLAPS

Distinct(files) == \A i, j \in 1 .. Len(files) : files[i] = files[j] => i = j

(* What a process relies on. *)
Fine(r, files) ==
  /\ Distinct(r.todo) /\ ToSet(r.todo) \subseteq ToSet(files)
  /\ r.at = "collect" => r.todo # <<>>
  /\ r.at \notin {"take", "collect"} => r.todo = <<>>
  /\ r.at = "write" => r.queued
  /\ r.at \in {"last", "rewrite"} => ~r.queued

QueueInv == queue \in Seq(Events) /\ Distinct(queue)

ProcInv ==
  /\ proc \in [Procs -> Processes \cup {None}]
  /\ \A p \in Procs : Running(p) =>
       /\ Fine(proc[p], queue)
       /\ proc[p].at \notin {"write", "lock"} => lock = p
  /\ lock \in Procs \cup {None}
  /\ \A p \in Procs : lock = p => Running(p) /\ proc[p].at \notin {"write", "lock"}

CountInv ==
  /\ notices \in [Events \ Recurring -> 0 .. MaxNotices] /\ faults \in 0 .. MaxFaults
  /\ due \subseteq Events /\ told \subseteq Events

AnswerInv ==
  \A e \in due :
    Queued(e) \/ e \in told \/ \E p \in Procs : Running(p) /\ proc[p].event = e /\ Unqueued(p)

(* The files there are, or will be when everyone wrote who decided to. *)
Writing(p) == At(p, "write") \/ At(p, "rewrite")

Claimed == ToSet(queue) \cup {proc[p].event : p \in {q \in Procs : Writing(q)}}

BoundInv == IsFiniteSet(Claimed) /\ Cardinality(Claimed) < Limit + Cardinality(Procs)

TypeInv == QueueInv /\ ProcInv /\ CountInv

Inv == TypeInv /\ AnswerInv /\ BoundInv

-----------------------------------------------------------------------------
(* Sequences of files *)

LEMMA ToSetIs ==
  ASSUME NEW S, NEW q \in Seq(S)
  PROVE  /\ ToSet(q) \subseteq S
         /\ ToSet(q) = {q[i] : i \in 1 .. Len(q)}
BY LenProperties, ElementOfSeq DEF ToSet

LEMMA EmptyIs == Distinct(<<>>) /\ ToSet(<<>>) = {}
<1>1. Len(<<>>) = 0
  BY EmptySeq
<1>2. Distinct(<<>>)
  BY <1>1 DEF Distinct
<1>3. ToSet(<<>>) = {}
  BY DEF ToSet
<1> QED
  BY <1>2, <1>3

(* As many files as names. *)
LEMMA DistinctCount ==
  ASSUME NEW S, NEW q \in Seq(S), Distinct(q)
  PROVE  IsFiniteSet(ToSet(q)) /\ Cardinality(ToSet(q)) = Len(q)
<1>1. Len(q) \in Nat /\ q \in [1 .. Len(q) -> S] /\ ToSet(q) = {q[i] : i \in 1 .. Len(q)}
  BY LenProperties, ToSetIs
<1>2. q \in [1 .. Len(q) -> ToSet(q)]
  BY <1>1
<1>3. q \in Injection(1 .. Len(q), ToSet(q))
  BY <1>2 DEF Injection, IsInjective, Distinct
<1>4. q \in Surjection(1 .. Len(q), ToSet(q))
  BY <1>1, <1>2 DEF Surjection
<1>5. IsFiniteSet(1 .. Len(q)) /\ Cardinality(1 .. Len(q)) = Len(q)
  BY <1>1, FS_Interval
<1> QED
  BY <1>3, <1>4, <1>5, FS_Surjection

LEMMA TailDistinct ==
  ASSUME NEW S, NEW q \in Seq(S), q # <<>>, Distinct(q)
  PROVE  /\ Tail(q) \in Seq(S) /\ Distinct(Tail(q)) /\ Head(q) \in S
         /\ ToSet(Tail(q)) = ToSet(q) \ {Head(q)} /\ Head(q) \in ToSet(q)
<1>1. /\ Len(q) \in Nat \ {0} /\ Tail(q) \in Seq(S) /\ Len(Tail(q)) = Len(q) - 1
      /\ \A i \in 1 .. Len(Tail(q)) : Tail(q)[i] = q[i + 1]
      /\ Head(q) = q[1] /\ Head(q) \in S
  BY HeadTailProperties, EmptySeq
<1>2. ToSet(q) = {q[i] : i \in 1 .. Len(q)} /\ ToSet(Tail(q)) = {Tail(q)[i] : i \in 1 .. Len(Tail(q))}
  BY <1>1, ToSetIs
<1>3. Distinct(Tail(q))
  BY <1>1 DEF Distinct
<1>4. ASSUME NEW x \in ToSet(q), x # Head(q)
      PROVE  x \in ToSet(Tail(q))
  <2>1. PICK i \in 1 .. Len(q) : x = q[i]
    BY <1>2
  <2>2. i - 1 \in 1 .. Len(Tail(q)) /\ (i - 1) + 1 = i
    BY <1>1, <1>4, <2>1
  <2> QED
    BY <1>1, <1>2, <2>1, <2>2
<1>5. ASSUME NEW x \in ToSet(Tail(q))
      PROVE  x \in ToSet(q) /\ x # Head(q)
  <2>1. PICK i \in 1 .. Len(Tail(q)) : x = Tail(q)[i]
    BY <1>2
  <2>2. x = q[i + 1] /\ i + 1 \in 1 .. Len(q) /\ i + 1 # 1 /\ 1 \in 1 .. Len(q)
    BY <1>1, <2>1
  <2> QED
    BY <1>1, <1>2, <2>2 DEF Distinct
<1> QED
  BY <1>1, <1>2, <1>3, <1>4, <1>5

(* Removing a file removes its name, and nothing else. *)
LEMMA WithoutIs ==
  ASSUME NEW q \in Seq(Events), Distinct(q), NEW e
  PROVE  /\ Without(q, e) \in Seq(Events) /\ Distinct(Without(q, e))
         /\ ToSet(Without(q, e)) = ToSet(q) \ {e}
<1>1. Len(q) \in Nat /\ DOMAIN q = 1 .. Len(q) /\ ToSet(q) = {q[i] : i \in 1 .. Len(q)}
  BY LenProperties, ToSetIs
<1>2. CASE e \notin ToSet(q)
  BY <1>2 DEF Without
<1>3. CASE e \in ToSet(q)
  <2> DEFINE at == CHOOSE i \in DOMAIN q : q[i] = e
             a == SubSeq(q, 1, at - 1)
             b == SubSeq(q, at + 1, Len(q))
  <2>1. at \in 1 .. Len(q) /\ q[at] = e
    BY <1>1, <1>3
  <2> HIDE DEF at
  <2>2. /\ a \in Seq(Events) /\ Len(a) = at - 1
        /\ \A i \in 1 .. at - 1 : a[i] = q[i]
    <3>1. \A i \in 1 .. at - 1 : q[i] \in Events
      BY <1>1, <2>1, ElementOfSeq
    <3>2. /\ a \in Seq(Events) /\ Len(a) = IF 1 <= at - 1 THEN (at - 1) - 1 + 1 ELSE 0
          /\ \A i \in 1 .. (at - 1) - 1 + 1 : a[i] = q[1 + i - 1]
      BY <2>1, <3>1, SubSeqProperties
    <3>3. \A i \in 1 .. at - 1 : i \in 1 .. (at - 1) - 1 + 1 /\ 1 + i - 1 = i
      BY <2>1
    <3> HIDE DEF a
    <3> QED
      BY <2>1, <3>2, <3>3
  <2>3. /\ b \in Seq(Events) /\ Len(b) = Len(q) - at
        /\ \A i \in 1 .. Len(q) - at : b[i] = q[at + i]
    <3>1. \A i \in at + 1 .. Len(q) : q[i] \in Events
      BY <1>1, <2>1, ElementOfSeq
    <3>2. /\ b \in Seq(Events) /\ Len(b) = IF at + 1 <= Len(q) THEN Len(q) - (at + 1) + 1 ELSE 0
          /\ \A i \in 1 .. Len(q) - (at + 1) + 1 : b[i] = q[(at + 1) + i - 1]
      BY <1>1, <2>1, <3>1, SubSeqProperties
    <3>3. \A i \in 1 .. Len(q) - at : i \in 1 .. Len(q) - (at + 1) + 1 /\ (at + 1) + i - 1 = at + i
      BY <1>1, <2>1
    <3> HIDE DEF b
    <3> QED
      BY <1>1, <2>1, <3>2, <3>3
  <2> DEFINE r == a \o b
  <2>4. Without(q, e) = r
    BY <1>3 DEF Without, RemoveAt, at
  <2> HIDE DEF a, b
  <2>5. /\ r \in Seq(Events) /\ Len(r) = Len(q) - 1
        /\ \A i \in 1 .. Len(q) - 1 : r[i] = IF i < at THEN q[i] ELSE q[i + 1]
    <3>1. /\ r \in Seq(Events) /\ Len(r) = Len(a) + Len(b)
          /\ \A i \in 1 .. Len(a) + Len(b) : r[i] = IF i <= Len(a) THEN a[i] ELSE b[i - Len(a)]
      BY <2>2, <2>3, ConcatProperties
    <3>2. ASSUME NEW i \in 1 .. Len(q) - 1
          PROVE  r[i] = IF i < at THEN q[i] ELSE q[i + 1]
      <4>1. r[i] = IF i <= Len(a) THEN a[i] ELSE b[i - Len(a)]
        BY <1>1, <2>1, <2>2, <2>3, <3>1
      <4>2. CASE i < at
        BY <2>1, <2>2, <4>1, <4>2
      <4>3. CASE ~(i < at)
        <5>1. i - (at - 1) \in 1 .. Len(q) - at /\ at + (i - (at - 1)) = i + 1
          BY <1>1, <2>1, <4>3
        <5> QED
          BY <2>1, <2>2, <2>3, <4>1, <4>3, <5>1
      <4> QED
        BY <4>2, <4>3
    <3> QED
      BY <1>1, <2>1, <2>2, <2>3, <3>1, <3>2
  <2> HIDE DEF r
  <2>6. Distinct(r)
    <3> SUFFICES ASSUME NEW i \in 1 .. Len(r), NEW j \in 1 .. Len(r), r[i] = r[j]
                 PROVE  i = j
      BY DEF Distinct
    <3> DEFINE f(k) == IF k < at THEN k ELSE k + 1
    <3>1. f(i) \in 1 .. Len(q) /\ f(j) \in 1 .. Len(q) /\ q[f(i)] = q[f(j)]
      BY <1>1, <2>1, <2>5
    <3>2. f(i) = f(j)
      BY <3>1 DEF Distinct
    <3> QED
      BY <1>1, <2>1, <2>5, <3>2
  <2>7. ToSet(r) = {r[i] : i \in 1 .. Len(r)}
    BY <2>5, ToSetIs
  <2>8. ASSUME NEW x \in ToSet(r)
        PROVE  x \in ToSet(q) \ {e}
    <3>1. PICK i \in 1 .. Len(r) : x = r[i]
      BY <2>7
    <3>2. PICK k \in 1 .. Len(q) : x = q[k] /\ k # at
      BY <1>1, <2>1, <2>5, <3>1
    <3> QED
      BY <1>1, <2>1, <3>2 DEF Distinct
  <2>9. ASSUME NEW x \in ToSet(q) \ {e}
        PROVE  x \in ToSet(r)
    <3>1. PICK k \in 1 .. Len(q) : x = q[k]
      BY <1>1
    <3>2. k # at
      BY <2>1, <3>1
    <3>3. CASE k < at
      <4>1. k \in 1 .. Len(r) /\ r[k] = x
        BY <1>1, <2>1, <2>5, <3>1, <3>3
      <4> QED
        BY <2>7, <4>1
    <3>4. CASE k > at
      <4>1. k - 1 \in 1 .. Len(q) - 1 /\ ~(k - 1 < at) /\ (k - 1) + 1 = k
        BY <1>1, <2>1, <3>1, <3>4
      <4>2. k - 1 \in 1 .. Len(r) /\ r[k - 1] = x
        BY <2>5, <3>1, <4>1
      <4> QED
        BY <2>7, <4>2
    <3> QED
      BY <2>1, <3>2, <3>3, <3>4
  <2> QED
    BY <2>4, <2>5, <2>6, <2>8, <2>9
<1> QED
  BY <1>2, <1>3

LEMMA LatestIs ==
  ASSUME NEW q \in Seq(Events), Distinct(q), NEW e \in Events
  PROVE  /\ Latest(q, e) \in Seq(Events) /\ Distinct(Latest(q, e))
         /\ ToSet(Latest(q, e)) = ToSet(q) \cup {e}
<1> DEFINE w == Without(q, e)
           r == Append(w, e)
<1>1. w \in Seq(Events) /\ Distinct(w) /\ ToSet(w) = ToSet(q) \ {e}
  BY WithoutIs
<1>2. Latest(q, e) = r
  BY DEF Latest
<1> HIDE DEF w
<1>3. /\ r \in Seq(Events) /\ Len(w) \in Nat /\ Len(r) = Len(w) + 1
      /\ \A i \in 1 .. Len(w) : r[i] = w[i]
      /\ r[Len(w) + 1] = e
  BY <1>1, AppendProperties, LenProperties
<1> HIDE DEF r
<1>4. ToSet(w) = {w[i] : i \in 1 .. Len(w)} /\ ToSet(r) = {r[i] : i \in 1 .. Len(r)}
  BY <1>1, <1>3, ToSetIs
<1>5. Distinct(r)
  <2>1. \A i \in 1 .. Len(w) : w[i] # e
    BY <1>1, <1>4
  <2> QED
    BY <1>1, <1>3, <2>1 DEF Distinct
<1>6. ToSet(r) = ToSet(w) \cup {e}
  <2>1. ASSUME NEW x \in ToSet(r)
        PROVE  x \in ToSet(w) \cup {e}
    BY <1>3, <1>4
  <2>2. ASSUME NEW x \in ToSet(w)
        PROVE  x \in ToSet(r)
    <3>1. PICK i \in 1 .. Len(w) : x = w[i]
      BY <1>4
    <3> QED
      BY <1>3, <1>4, <3>1
  <2>3. e \in ToSet(r)
    <3>1. Len(w) + 1 \in 1 .. Len(r)
      BY <1>3
    <3> QED
      BY <1>3, <1>4, <3>1
  <2> QED
    BY <2>1, <2>2, <2>3
<1> QED
  BY <1>1, <1>2, <1>3, <1>5, <1>6

(* The files of a pass are in the queue, each once. *)
LEMMA SelectedIs ==
  ASSUME QueueInv, NEW e \in Events
  PROVE  /\ Selected(e) \in Seq(Events) /\ Distinct(Selected(e))
         /\ ToSet(Selected(e)) \subseteq ToSet(queue)
<1> DEFINE w == Without(queue, e)
           own == IF Queued(e) THEN <<e>> ELSE <<>>
           q == own \o w
           n == IF Len(q) < Batch THEN Len(q) ELSE Batch
           r == SubSeq(q, 1, n)
<1>1. w \in Seq(Events) /\ Distinct(w) /\ ToSet(w) = ToSet(queue) \ {e}
  BY WithoutIs DEF QueueInv
<1>2. Selected(e) = r
  BY DEF Selected
<1> HIDE DEF w
<1>3. own \in Seq(Events) /\ Len(own) \in Nat /\ (Queued(e) => Len(own) = 1 /\ own[1] = e) /\ (~Queued(e) => Len(own) = 0)
  OBVIOUS
<1> HIDE DEF own
<1>4. /\ q \in Seq(Events) /\ Len(q) \in Nat /\ Len(w) \in Nat /\ Len(q) = Len(own) + Len(w)
      /\ \A i \in 1 .. Len(q) : q[i] = IF i <= Len(own) THEN own[i] ELSE w[i - Len(own)]
  BY <1>1, <1>3, ConcatProperties, LenProperties
<1>5. ToSet(w) = {w[i] : i \in 1 .. Len(w)}
  BY <1>1, ToSetIs
<1>6. \A i \in 1 .. Len(w) : w[i] \in ToSet(queue) /\ w[i] # e
  BY <1>1, <1>5
<1> HIDE DEF q
<1>7. Distinct(q)
  <2> SUFFICES ASSUME NEW i \in 1 .. Len(q), NEW j \in 1 .. Len(q), q[i] = q[j]
               PROVE  i = j
    BY DEF Distinct
  <2>1. CASE ~Queued(e)
    <3>1. q[i] = w[i] /\ q[j] = w[j] /\ i \in 1 .. Len(w) /\ j \in 1 .. Len(w)
      BY <1>3, <1>4, <2>1
    <3> QED
      BY <1>1, <3>1 DEF Distinct
  <2>2. CASE Queued(e)
    <3>1. Len(own) = 1 /\ own[1] = e
      BY <1>3, <2>2
    <3>2. ASSUME NEW k \in 1 .. Len(q)
          PROVE  /\ k = 1 => q[k] = e
                 /\ k # 1 => k - 1 \in 1 .. Len(w) /\ q[k] = w[k - 1]
      <4>1. q[k] = IF k <= 1 THEN own[k] ELSE w[k - 1]
        BY <1>4, <3>1
      <4>2. Len(q) = 1 + Len(w)
        BY <1>4, <3>1
      <4> QED
        BY <1>4, <3>1, <4>1, <4>2
    <3>3. CASE i = 1 \/ j = 1
      BY <1>6, <3>2, <3>3
    <3>4. CASE i # 1 /\ j # 1
      <4>1. i - 1 \in 1 .. Len(w) /\ j - 1 \in 1 .. Len(w) /\ w[i - 1] = w[j - 1]
        BY <3>2, <3>4
      <4>2. i - 1 = j - 1
        BY <1>1, <4>1 DEF Distinct
      <4> QED
        BY <1>4, <4>2
    <3> QED
      BY <3>3, <3>4
  <2> QED
    BY <2>1, <2>2
<1>8. \A i \in 1 .. Len(q) : q[i] \in ToSet(queue)
  <2> TAKE i \in 1 .. Len(q)
  <2>1. CASE i <= Len(own)
    <3>1. Queued(e) /\ i = 1 /\ q[i] = e
      BY <1>3, <1>4, <2>1
    <3> QED
      BY <3>1 DEF Queued
  <2>2. CASE ~(i <= Len(own))
    <3>1. q[i] = w[i - Len(own)]
      BY <1>4, <2>2
    <3>2. i - Len(own) \in 1 .. Len(w)
      BY <1>3, <1>4, <2>2
    <3> QED
      BY <1>6, <3>1, <3>2
  <2> QED
    BY <2>1, <2>2
<1>9. n \in Nat /\ n <= Len(q)
  BY <1>4, NotifyConstants
<1> HIDE DEF n
<1>10. /\ r \in Seq(Events) /\ Len(r) = n
       /\ \A i \in 1 .. n : r[i] = q[i]
  <2>1. \A i \in 1 .. n : q[i] \in Events
    BY <1>4, <1>9, ElementOfSeq
  <2>2. /\ r \in Seq(Events) /\ Len(r) = IF 1 <= n THEN n - 1 + 1 ELSE 0
        /\ \A i \in 1 .. n - 1 + 1 : r[i] = q[1 + i - 1]
    BY <1>9, <2>1, SubSeqProperties
  <2>3. \A i \in 1 .. n : i \in 1 .. n - 1 + 1 /\ 1 + i - 1 = i
    BY <1>9
  <2> HIDE DEF r
  <2>4. Len(r) = n
    BY <1>9, <2>2
  <2>5. ASSUME NEW i \in 1 .. n
        PROVE  r[i] = q[i]
    <3>1. i \in 1 .. n - 1 + 1 /\ 1 + i - 1 = i
      BY <2>3
    <3>2. r[i] = q[1 + i - 1]
      BY Zenon, <2>2, <3>1
    <3> QED
      BY Zenon, <3>1, <3>2
  <2> QED
    BY Zenon, <2>2, <2>4, <2>5
<1> HIDE DEF r
<1>11. Distinct(r)
  BY <1>4, <1>7, <1>9, <1>10 DEF Distinct
<1>12. ToSet(r) = {r[i] : i \in 1 .. Len(r)}
  BY <1>10, ToSetIs
<1>13. ToSet(r) \subseteq ToSet(queue)
  BY <1>4, <1>8, <1>9, <1>10, <1>12
<1> QED
  BY <1>2, <1>10, <1>11, <1>13

-----------------------------------------------------------------------------
(* Steps of one process *)

LEMMA ProcessIs ==
  ASSUME ProcInv, NEW p \in Procs, Running(p)
  PROVE  /\ proc[p] \in Processes
         /\ proc[p].event \in Events /\ proc[p].queued \in BOOLEAN
         /\ proc[p].pass \in 1 .. Passes /\ proc[p].todo \in Seq(Events) /\ proc[p].at \in Steps
<1>1. proc[p] \in Processes
  BY DEF ProcInv, Running
<1> QED
  BY <1>1 DEF Processes

(* A process goes on, with the lock it had or one that was free. *)
LEMMA GoesOn ==
  ASSUME ProcInv, NEW p \in Procs, NEW r \in Processes,
         proc' = [proc EXCEPT ![p] = r], Fine(r, queue'),
         ToSet(queue) \subseteq ToSet(queue') \/ lock = p,
         lock' = lock \/ (lock = None /\ lock' = p),
         r.at \in {"write", "lock"} => lock' # p,
         r.at \notin {"write", "lock"} => lock' = p
  PROVE  ProcInv'
<1>1. /\ proc' \in [Procs -> Processes \cup {None}]
      /\ proc'[p] = r /\ \A q \in Procs \ {p} : proc'[q] = proc[q]
  BY DEF ProcInv
<1>2. Running(p)' /\ r # None /\ None \notin Procs
  BY <1>1, NotifyConstants DEF Running
<1>3. lock' \in Procs \cup {None}
  BY DEF ProcInv
<1>4. ASSUME NEW q \in Procs, Running(q)'
      PROVE  /\ Fine(proc[q], queue)'
             /\ proc'[q].at \notin {"write", "lock"} => lock' = q
  <2>1. CASE q = p
    BY <1>1, <2>1 DEF Fine
  <2>2. CASE q # p
    <3>1. proc'[q] = proc[q] /\ Running(q)
      BY <1>1, <1>4, <2>2 DEF Running
    <3>2. Fine(proc[q], queue) /\ (proc[q].at \notin {"write", "lock"} => lock = q)
      BY <3>1 DEF ProcInv
    <3>3. ToSet(proc[q].todo) \subseteq ToSet(queue')
      <4>1. CASE ToSet(queue) \subseteq ToSet(queue')
        BY <3>2, <4>1 DEF Fine
      <4>2. CASE lock = p
        <5>1. proc[q].todo = <<>>
          BY <2>2, <3>2, <4>2 DEF Fine
        <5> QED
          BY <5>1 DEF ToSet
      <4> QED
        BY <4>1, <4>2
    <3>4. Fine(proc[q], queue')
      BY <3>2, <3>3 DEF Fine
    <3>5. lock = q => lock' = q
      BY <2>2, <1>2
    <3> QED
      BY <3>1, <3>2, <3>4, <3>5 DEF Fine
  <2> QED
    BY <2>1, <2>2
<1>5. ASSUME NEW q \in Procs, lock' = q
      PROVE  Running(q)' /\ proc'[q].at \notin {"write", "lock"}
  <2>1. CASE q = p
    BY <1>1, <1>2, <1>5, <2>1
  <2>2. CASE q # p
    <3>1. lock = q
      BY <1>5, <2>2
    <3> QED
      BY <1>1, <2>2, <3>1 DEF ProcInv, Running
  <2> QED
    BY <2>1, <2>2
<1> QED
  BY <1>1, <1>3, <1>4, <1>5 DEF ProcInv

(* A process ends; its lock is free. *)
LEMMA Ends ==
  ASSUME ProcInv, NEW p \in Procs,
         proc' = [proc EXCEPT ![p] = None], lock' = IF lock = p THEN None ELSE lock,
         ToSet(queue) \subseteq ToSet(queue')
  PROVE  ProcInv'
<1>1. /\ proc' \in [Procs -> Processes \cup {None}]
      /\ proc'[p] = None /\ \A q \in Procs \ {p} : proc'[q] = proc[q]
  BY DEF ProcInv
<1>2. lock' \in Procs \cup {None} /\ None \notin Procs
  BY NotifyConstants DEF ProcInv
<1>3. ASSUME NEW q \in Procs, Running(q)'
      PROVE  /\ Fine(proc[q], queue)'
             /\ proc'[q].at \notin {"write", "lock"} => lock' = q
  <2>1. q # p /\ proc'[q] = proc[q] /\ Running(q)
    BY <1>1, <1>3 DEF Running
  <2>2. Fine(proc[q], queue) /\ (proc[q].at \notin {"write", "lock"} => lock = q)
    BY <2>1 DEF ProcInv
  <2> QED
    BY <2>1, <2>2 DEF Fine
<1>4. ASSUME NEW q \in Procs, lock' = q
      PROVE  Running(q)' /\ proc'[q].at \notin {"write", "lock"}
  BY <1>1, <1>2, <1>4 DEF ProcInv, Running
<1> QED
  BY <1>1, <1>2, <1>3, <1>4 DEF ProcInv

(* Notices stay answered while a process keeps its own. *)
LEMMA Answered ==
  ASSUME ProcInv, AnswerInv, NEW p \in Procs,
         \A q \in Procs \ {p} : proc'[q] = proc[q],
         due' \subseteq due, told \subseteq told',
         \A e \in due' : Queued(e) => Queued(e)',
         Running(p) /\ Unqueued(p) /\ proc[p].event \in due' =>
           \/ proc[p].event \in ToSet(queue') \/ proc[p].event \in told'
           \/ Running(p)' /\ proc'[p].event = proc[p].event /\ Unqueued(p)'
  PROVE  AnswerInv'
<1> SUFFICES ASSUME NEW e \in due'
             PROVE  \/ Queued(e)' \/ e \in told'
                    \/ \E q \in Procs : Running(q)' /\ proc'[q].event = e /\ Unqueued(q)'
  BY DEF AnswerInv
<1>1. CASE Queued(e) \/ e \in told
  BY <1>1
<1>2. CASE ~Queued(e) /\ e \notin told
  <2>1. PICK q \in Procs : Running(q) /\ proc[q].event = e /\ Unqueued(q)
    BY <1>2 DEF AnswerInv
  <2>2. CASE q = p
    <3>1. \/ e \in ToSet(queue') \/ e \in told'
          \/ Running(p)' /\ proc'[p].event = e /\ Unqueued(p)'
      BY <2>1, <2>2
    <3> QED
      BY <3>1 DEF Queued
  <2>3. CASE q # p
    <3>1. proc'[q] = proc[q]
      BY <2>3
    <3>2. Running(q)' /\ proc'[q].event = e /\ Unqueued(q)'
      BY <2>1, <3>1 DEF Running, Unqueued
    <3> QED
      BY <3>2
  <2> QED
    BY <2>2, <2>3
<1> QED
  BY <1>1, <1>2

(* No step but the look at the limit claims a file. *)
LEMMA ClaimsStay ==
  ASSUME BoundInv, NEW p \in Procs,
         \A q \in Procs \ {p} : proc'[q] = proc[q],
         ToSet(queue') \subseteq Claimed,
         Writing(p)' => proc'[p].event \in Claimed
  PROVE  BoundInv'
<1>1. Claimed' \subseteq Claimed
  <2>1. ASSUME NEW q \in Procs, Writing(q)'
        PROVE  proc'[q].event \in Claimed
    <3>1. CASE q = p
      BY <2>1, <3>1
    <3>2. CASE q # p
      <4>1. proc'[q] = proc[q]
        BY <3>2
      <4>2. Writing(q)
        BY <2>1, <4>1 DEF Writing, At, Running
      <4> QED
        BY <4>1, <4>2 DEF Claimed
    <3> QED
      BY <3>1, <3>2
  <2> QED
    BY <2>1 DEF Claimed
<1>2. IsFiniteSet(Claimed') /\ Cardinality(Claimed') <= Cardinality(Claimed)
  BY <1>1, FS_Subset DEF BoundInv
<1>3. Cardinality(Claimed) \in Nat /\ Cardinality(Claimed') \in Nat /\ Cardinality(Procs) \in Nat
  BY <1>2, NotifyConstants, FS_CardinalityType DEF BoundInv
<1>4. Limit \in Nat
  BY NotifyConstants
<1> QED
  BY <1>2, <1>3, <1>4 DEF BoundInv

(* However many look at the limit while there is room, they are processes. *)
LEMMA ClaimsBounded ==
  ASSUME QueueInv, HasRoom
  PROVE  BoundInv
<1> DEFINE W == {q \in Procs : Writing(q)}
           E == {proc[p].event : p \in W}
           f == [p \in W |-> proc[p].event]
<1>1. IsFiniteSet(W) /\ Cardinality(W) <= Cardinality(Procs)
  BY NotifyConstants, FS_Subset
<1>2. f \in Surjection(W, E)
  BY DEF Surjection
<1> HIDE DEF W
<1>3. IsFiniteSet(E) /\ Cardinality(E) <= Cardinality(W)
  BY <1>1, <1>2, FS_Surjection
<1> HIDE DEF E
<1>4. IsFiniteSet(ToSet(queue)) /\ Cardinality(ToSet(queue)) = Len(queue)
  BY DistinctCount DEF QueueInv
<1>5. IsFiniteSet(ToSet(queue) \cup E)
  BY <1>3, <1>4, FS_Union
<1>6. Cardinality(ToSet(queue) \cup E)
        = Cardinality(ToSet(queue)) + Cardinality(E) - Cardinality(ToSet(queue) \cap E)
  BY <1>3, <1>4, FS_Union
<1>7. IsFiniteSet(ToSet(queue) \cap E)
  BY <1>3, <1>4, FS_Intersection
<1>8. /\ Cardinality(E) \in Nat /\ Cardinality(W) \in Nat /\ Cardinality(Procs) \in Nat
      /\ Cardinality(ToSet(queue) \cap E) \in Nat /\ Len(queue) \in Nat /\ Limit \in Nat
  BY <1>1, <1>3, <1>4, <1>7, NotifyConstants, FS_CardinalityType
<1>9. Claimed = ToSet(queue) \cup E
  BY DEF Claimed, E, W
<1> QED
  BY <1>1, <1>3, <1>4, <1>5, <1>6, <1>8, <1>9 DEF BoundInv, HasRoom

-----------------------------------------------------------------------------
(* Actions *)

LEMMA InitInv == Init => Inv
<1> SUFFICES ASSUME Init
             PROVE  Inv
  OBVIOUS
<1> USE DEF Init
<1>1. QueueInv
  BY EmptySeq DEF QueueInv, Distinct
<1>2. ProcInv
  BY NotifyConstants DEF ProcInv, Running
<1>3. CountInv
  BY NotifyConstants DEF CountInv
<1>4. AnswerInv
  BY DEF AnswerInv
<1>5. Limit \in Nat \ {0} /\ Len(queue) = 0
  BY NotifyConstants, EmptySeq
<1>6. BoundInv
  BY <1>1, <1>5, ClaimsBounded DEF HasRoom
<1> QED
  BY <1>1, <1>2, <1>3, <1>4, <1>6 DEF Inv, TypeInv

LEMMA NotifyInv ==
  ASSUME Inv, NEW p \in Procs, NEW e \in Events, Notify(p, e)
  PROVE  Inv'
<1> DEFINE queued == Queued(e) \/ HasRoom
           r == [event |-> e, queued |-> queued, pass |-> 1, todo |-> <<>>,
                 at |-> IF queued THEN "write" ELSE "lock"]
<1>1. /\ ~Running(p) /\ proc' = [proc EXCEPT ![p] = r]
      /\ due' = due \cup {e} /\ told' = told \ {e}
      /\ queue' = queue /\ lock' = lock /\ faults' = faults
  BY DEF Notify
<1>2. /\ QueueInv /\ ProcInv /\ CountInv /\ AnswerInv /\ BoundInv
  BY DEF Inv, TypeInv
<1>3. queued \in BOOLEAN /\ 1 \in 1 .. Passes /\ <<>> \in Seq(Events)
  BY EmptySeq DEF Passes, Queued, HasRoom
<1>4. /\ r \in Processes /\ r.event = e /\ r.queued = queued /\ r.todo = <<>>
      /\ r.at \in {"write", "lock"} /\ (r.at = "write" <=> queued)
  BY <1>3 DEF Processes, Steps
<1> HIDE DEF r
<1>5. Fine(r, queue')
  BY <1>4, EmptyIs DEF Fine
<1>6. lock # p
  BY <1>1, <1>2 DEF ProcInv
<1>7. QueueInv'
  BY <1>1, <1>2 DEF QueueInv
<1>8. ProcInv'
  BY <1>1, <1>2, <1>4, <1>5, <1>6, GoesOn
<1>9. proc'[p] = r /\ \A q \in Procs \ {p} : proc'[q] = proc[q]
  BY <1>1, <1>2 DEF ProcInv
<1>10. CountInv'
  <2>1. notices' \in [Events \ Recurring -> 0 .. MaxNotices]
    <3>1. CASE e \in Recurring
      BY <1>2, <3>1 DEF CountInv, Notify
    <3>2. CASE e \notin Recurring
      <4>1. notices[e] < MaxNotices /\ notices' = [notices EXCEPT ![e] = @ + 1]
        BY <3>2 DEF Notify
      <4>2. notices[e] + 1 \in 0 .. MaxNotices /\ notices \in [Events \ Recurring -> 0 .. MaxNotices]
        BY <1>2, <3>2, <4>1, NotifyConstants DEF CountInv
      <4> QED
        BY <4>1, <4>2
    <3> QED
      BY <3>1, <3>2
  <2> QED
    BY <1>1, <1>2, <2>1 DEF CountInv
<1>11. AnswerInv'
  <2> SUFFICES ASSUME NEW x \in due'
               PROVE  \/ Queued(x)' \/ x \in told'
                      \/ \E q \in Procs : Running(q)' /\ proc'[q].event = x /\ Unqueued(q)'
    BY DEF AnswerInv
  <2>1. CASE x = e
    <3>1. Running(p)' /\ proc'[p].event = e
      BY <1>4, <1>9, NotifyConstants DEF Running
    <3>2. Unqueued(p)'
      BY <1>4, <1>9 DEF Unqueued
    <3> QED
      BY <2>1, <3>1, <3>2
  <2>2. CASE x # e
    <3>1. CASE Queued(x) \/ x \in told
      BY <1>1, <2>2, <3>1 DEF Queued
    <3>2. CASE ~Queued(x) /\ x \notin told
      <4>1. PICK q \in Procs : Running(q) /\ proc[q].event = x /\ Unqueued(q)
        BY <1>1, <1>2, <2>2, <3>2 DEF AnswerInv
      <4>2. proc'[q] = proc[q]
        BY <1>1, <1>9, <4>1
      <4>3. Running(q)' /\ proc'[q].event = x /\ Unqueued(q)'
        BY <4>1, <4>2 DEF Running, Unqueued
      <4> QED
        BY <4>3
    <3> QED
      BY <3>1, <3>2
  <2> QED
    BY <2>1, <2>2
<1>12. BoundInv'
  <2>1. CASE HasRoom
    <3>1. HasRoom'
      BY <1>1, <2>1 DEF HasRoom
    <3>2. BoundInv'
      BY <1>7, <3>1, ClaimsBounded, PTL
    <3> QED
      BY <3>2
  <2>2. CASE ~HasRoom
    <3>1. Writing(p)' => Queued(e)
      BY <1>4, <1>9, <2>2 DEF Writing, At
    <3>2. ToSet(queue') \subseteq Claimed
      BY <1>1 DEF Claimed
    <3>3. Writing(p)' => proc'[p].event \in Claimed
      BY <1>4, <1>9, <3>1 DEF Claimed, Queued
    <3> QED
      BY <1>2, <1>9, <3>2, <3>3, ClaimsStay
  <2> QED
    BY <2>1, <2>2
<1> QED
  BY <1>7, <1>8, <1>10, <1>11, <1>12 DEF Inv, TypeInv

(* What follows for a step that neither touches the queue nor ends. *)
LEMMA GoInv ==
  ASSUME Inv, NEW p \in Procs, Running(p), NEW r \in Processes,
         proc' = [proc EXCEPT ![p] = r], Fine(r, queue),
         queue' = queue, UNCHANGED <<notices, due, told>>, faults' \in 0 .. MaxFaults,
         lock' = lock \/ (lock = None /\ lock' = p),
         r.at \in {"write", "lock"} => lock' # p,
         r.at \notin {"write", "lock"} => lock' = p,
         r.event = proc[p].event, r.queued = proc[p].queued, proc[p].at # "write",
         r.at \in {"write", "rewrite"} => HasRoom
  PROVE  Inv'
<1>1. /\ QueueInv /\ ProcInv /\ CountInv /\ AnswerInv /\ BoundInv
  BY DEF Inv, TypeInv
<1>2. proc'[p] = r /\ \A q \in Procs \ {p} : proc'[q] = proc[q]
  BY <1>1 DEF ProcInv
<1>3. QueueInv'
  BY <1>1 DEF QueueInv
<1>4. ProcInv'
  BY <1>1, GoesOn
<1>5. CountInv'
  BY <1>1 DEF CountInv
<1>6. AnswerInv'
  <2>1. Running(p)'
    BY <1>2, NotifyConstants DEF Running
  <2>2. Unqueued(p) => Unqueued(p)'
    BY <1>2 DEF Unqueued
  <2> QED
    BY <1>1, <1>2, <2>1, <2>2, Answered DEF Queued
<1>7. BoundInv'
  <2>1. CASE HasRoom
    <3>1. HasRoom'
      BY <2>1 DEF HasRoom
    <3> QED
      BY <1>3, <3>1, ClaimsBounded, PTL
  <2>2. CASE ~HasRoom
    <3>1. ~Writing(p)'
      BY <1>2, <2>2 DEF Writing, At
    <3>2. ToSet(queue') \subseteq Claimed
      BY DEF Claimed
    <3> QED
      BY <1>1, <1>2, <3>1, <3>2, ClaimsStay
  <2> QED
    BY <2>1, <2>2
<1> QED
  BY <1>3, <1>4, <1>5, <1>6, <1>7 DEF Inv, TypeInv

(* A process ends, with or without telling. *)
LEMMA ExitInv ==
  ASSUME Inv, NEW p \in Procs, Running(p), NEW failed \in BOOLEAN, Exit(p, failed),
         Unqueued(p) => failed,
         queue' = queue, UNCHANGED <<notices, due>>, faults' \in 0 .. MaxFaults
  PROVE  Inv'
<1>1. /\ QueueInv /\ ProcInv /\ CountInv /\ AnswerInv /\ BoundInv
  BY DEF Inv, TypeInv
<1>2. /\ proc' = [proc EXCEPT ![p] = None]
      /\ lock' = IF lock = p THEN None ELSE lock
      /\ told' = IF failed THEN told \cup {proc[p].event} ELSE told
  BY DEF Exit
<1>3. proc'[p] = None /\ \A q \in Procs \ {p} : proc'[q] = proc[q]
  BY <1>1, <1>2 DEF ProcInv
<1>4. QueueInv'
  BY <1>1 DEF QueueInv
<1>5. ProcInv'
  BY <1>1, <1>2, Ends
<1>6. CountInv'
  BY <1>1, <1>2, ProcessIs DEF CountInv
<1>7. AnswerInv'
  BY <1>1, <1>2, <1>3, Answered DEF Queued
<1>8. BoundInv'
  <2>1. ~Writing(p)'
    BY <1>3 DEF Writing, At, Running
  <2>2. ToSet(queue') \subseteq Claimed
    BY DEF Claimed
  <2> QED
    BY <1>1, <1>3, <2>1, <2>2, ClaimsStay
<1> QED
  BY <1>4, <1>5, <1>6, <1>7, <1>8 DEF Inv, TypeInv

(* The process's own file is written, before or after it drained the queue. *)
LEMMA LatestInv ==
  ASSUME Inv, NEW p \in Procs, Running(p), Writing(p),
         queue' = Latest(queue, proc[p].event)
  PROVE  /\ QueueInv'
         /\ ToSet(queue') = ToSet(queue) \cup {proc[p].event}
         /\ ToSet(queue') \subseteq Claimed
<1>1. QueueInv /\ ProcInv
  BY DEF Inv, TypeInv
<1>2. proc[p].event \in Events
  BY <1>1, ProcessIs
<1>3. /\ queue' \in Seq(Events) /\ Distinct(queue')
      /\ ToSet(queue') = ToSet(queue) \cup {proc[p].event}
  BY <1>1, <1>2, LatestIs DEF QueueInv
<1> QED
  BY <1>3 DEF QueueInv, Claimed

LEMMA WriteInv ==
  ASSUME Inv, NEW p \in Procs, Write(p)
  PROVE  Inv'
<1> DEFINE e == proc[p].event
           r == [proc[p] EXCEPT !.at = "lock"]
<1>1. /\ QueueInv /\ ProcInv /\ CountInv /\ AnswerInv /\ BoundInv
  BY DEF Inv, TypeInv
<1>2. /\ Running(p) /\ proc[p].at = "write" /\ queue' = Latest(queue, e)
      /\ proc' = [proc EXCEPT ![p] = r] /\ UNCHANGED <<lock, notices, faults, due, told>>
  BY DEF Write, At, Go
<1>3. /\ r \in Processes /\ r.event = e /\ r.queued = proc[p].queued /\ r.at = "lock"
      /\ r.todo = proc[p].todo
  BY <1>1, <1>2, ProcessIs DEF Processes, Steps
<1> HIDE DEF r
<1>4. QueueInv' /\ ToSet(queue') = ToSet(queue) \cup {e} /\ ToSet(queue') \subseteq Claimed
  BY <1>2, LatestInv DEF Writing, At
<1>5. Fine(proc[p], queue)
  BY <1>1, <1>2 DEF ProcInv
<1>6. Fine(r, queue')
  BY <1>2, <1>3, <1>4, <1>5 DEF Fine
<1>7. lock # p
  BY <1>1, <1>2 DEF ProcInv
<1>8. ProcInv'
  BY <1>1, <1>2, <1>3, <1>4, <1>6, <1>7, GoesOn
<1>9. proc'[p] = r /\ \A q \in Procs \ {p} : proc'[q] = proc[q]
  BY <1>1, <1>2 DEF ProcInv
<1>10. CountInv'
  BY <1>1, <1>2 DEF CountInv
<1>11. AnswerInv'
  BY <1>1, <1>2, <1>4, <1>9, Answered DEF Queued
<1>12. BoundInv'
  <2>1. ~Writing(p)'
    BY <1>3, <1>9 DEF Writing, At
  <2> QED
    BY <1>1, <1>4, <1>9, <2>1, ClaimsStay
<1> QED
  BY <1>4, <1>8, <1>10, <1>11, <1>12 DEF Inv, TypeInv

LEMMA RewriteInv ==
  ASSUME Inv, NEW p \in Procs, Rewrite(p)
  PROVE  Inv'
<1> DEFINE e == proc[p].event
<1>1. /\ QueueInv /\ ProcInv /\ CountInv /\ AnswerInv /\ BoundInv
  BY DEF Inv, TypeInv
<1>2. /\ Running(p) /\ proc[p].at = "rewrite" /\ queue' = Latest(queue, e)
      /\ proc' = [proc EXCEPT ![p] = None] /\ lock' = IF lock = p THEN None ELSE lock
      /\ told' = told /\ UNCHANGED <<notices, faults, due>>
  BY DEF Rewrite, At, Exit
<1>3. QueueInv' /\ ToSet(queue') = ToSet(queue) \cup {e} /\ ToSet(queue') \subseteq Claimed
  BY <1>2, LatestInv DEF Writing, At
<1>4. ProcInv'
  BY <1>1, <1>2, <1>3, Ends
<1>5. proc'[p] = None /\ \A q \in Procs \ {p} : proc'[q] = proc[q]
  BY <1>1, <1>2 DEF ProcInv
<1>6. CountInv'
  BY <1>1, <1>2 DEF CountInv
<1>7. AnswerInv'
  BY <1>1, <1>2, <1>3, <1>5, Answered DEF Queued
<1>8. BoundInv'
  <2>1. ~Writing(p)'
    BY <1>5 DEF Writing, At, Running
  <2> QED
    BY <1>1, <1>3, <1>5, <2>1, ClaimsStay
<1> QED
  BY <1>3, <1>4, <1>6, <1>7, <1>8 DEF Inv, TypeInv

LEMMA TryLockInv ==
  ASSUME Inv, NEW p \in Procs, TryLock(p)
  PROVE  Inv'
<1>1. /\ ProcInv /\ CountInv /\ Running(p) /\ proc[p].at = "lock"
      /\ UNCHANGED <<queue, notices, faults, due>>
  BY DEF Inv, TypeInv, TryLock, At
<1>2. CASE lock = None
  <2> DEFINE r == [proc[p] EXCEPT !.at = "ensure"]
  <2>1. lock' = p /\ told' = told /\ proc' = [proc EXCEPT ![p] = r]
    BY <1>2 DEF TryLock, Go
  <2>2. /\ r \in Processes /\ r.event = proc[p].event /\ r.queued = proc[p].queued
        /\ r.at = "ensure" /\ r.todo = proc[p].todo
    BY <1>1, ProcessIs DEF Processes, Steps
  <2> HIDE DEF r
  <2>3. Fine(r, queue)
    BY <1>1, <2>2 DEF ProcInv, Fine
  <2>4. faults' \in 0 .. MaxFaults
    BY <1>1 DEF CountInv
  <2> QED
    BY <1>1, <1>2, <2>1, <2>2, <2>3, <2>4, GoInv
<1>3. CASE lock # None
  <2>1. Exit(p, ~proc[p].queued)
    BY <1>3 DEF TryLock
  <2>2. (~proc[p].queued) \in BOOLEAN /\ (Unqueued(p) => ~proc[p].queued)
    BY <1>1 DEF Unqueued
  <2>3. faults' \in 0 .. MaxFaults
    BY <1>1 DEF CountInv
  <2> QED
    BY <1>1, <2>1, <2>2, <2>3, ExitInv
<1> QED
  BY <1>2, <1>3

(* A step to another place, or another pass, of the same process. *)
LEMMA MoveInv ==
  ASSUME Inv, NEW p \in Procs, Running(p), NEW r \in Processes,
         proc' = [proc EXCEPT ![p] = r], r.event = proc[p].event, r.queued = proc[p].queued,
         UNCHANGED <<queue, lock, notices, due, told>>, faults' \in 0 .. MaxFaults,
         proc[p].at \notin {"write", "lock"}, r.at \notin {"write", "lock"},
         r.at = "rewrite" => HasRoom, Fine(r, queue)
  PROVE  Inv'
<1>1. lock' = p
  BY DEF Inv, TypeInv, ProcInv
<1> QED
  BY <1>1, GoInv

LEMMA EnsureInv ==
  ASSUME Inv, NEW p \in Procs, Ensure(p)
  PROVE  Inv'
<1> DEFINE r == [proc[p] EXCEPT !.at = "list"]
<1>1. /\ ProcInv /\ CountInv /\ Running(p) /\ proc[p].at = "ensure"
      /\ proc' = [proc EXCEPT ![p] = r] /\ UNCHANGED <<queue, lock, notices, faults, due, told>>
  BY DEF Inv, TypeInv, Ensure, At, Go
<1>2. /\ r \in Processes /\ r.event = proc[p].event /\ r.queued = proc[p].queued
      /\ r.at = "list" /\ r.todo = proc[p].todo
  BY <1>1, ProcessIs DEF Processes, Steps
<1> HIDE DEF r
<1>3. Fine(r, queue) /\ faults' \in 0 .. MaxFaults
  BY <1>1, <1>2 DEF ProcInv, CountInv, Fine
<1> QED
  BY <1>1, <1>2, <1>3, MoveInv

LEMMA ListInv ==
  ASSUME Inv, NEW p \in Procs, List(p)
  PROVE  Inv'
<1> DEFINE files == Selected(proc[p].event)
           r == [proc[p] EXCEPT !.todo = files, !.at = "take"]
<1>1. /\ QueueInv /\ ProcInv /\ CountInv /\ Running(p) /\ proc[p].at = "list"
      /\ proc' = [proc EXCEPT ![p] = r] /\ UNCHANGED <<queue, lock, notices, faults, due, told>>
  BY DEF Inv, TypeInv, List, At
<1>2. files \in Seq(Events) /\ Distinct(files) /\ ToSet(files) \subseteq ToSet(queue)
  BY <1>1, ProcessIs, SelectedIs
<1> HIDE DEF files
<1>3. /\ r \in Processes /\ r.event = proc[p].event /\ r.queued = proc[p].queued
      /\ r.at = "take" /\ r.todo = files
  BY <1>1, <1>2, ProcessIs DEF Processes, Steps
<1> HIDE DEF r
<1>4. Fine(r, queue) /\ faults' \in 0 .. MaxFaults
  BY <1>1, <1>2, <1>3 DEF CountInv, Fine
<1> QED
  BY <1>1, <1>3, <1>4, MoveInv

(* The holder of the lock touches a file or takes one away. *)
LEMMA HolderInv ==
  ASSUME Inv, NEW p \in Procs, Running(p), NEW r \in Processes,
         proc' = [proc EXCEPT ![p] = r], r.event = proc[p].event, r.queued = proc[p].queued,
         proc[p].at \in {"take", "collect"}, r.at \in {"take", "collect"},
         queue' \in Seq(Events), Distinct(queue'), ToSet(queue') \subseteq ToSet(queue),
         due' \subseteq due, \A e \in due' : Queued(e) => e \in ToSet(queue'),
         Fine(r, queue'), UNCHANGED <<lock, notices, faults, told>>
  PROVE  Inv'
<1>1. /\ QueueInv /\ ProcInv /\ CountInv /\ AnswerInv /\ BoundInv
  BY DEF Inv, TypeInv
<1>2. lock = p /\ lock' = p
  BY <1>1 DEF ProcInv
<1>3. proc'[p] = r /\ \A q \in Procs \ {p} : proc'[q] = proc[q]
  BY <1>1 DEF ProcInv
<1>4. QueueInv'
  BY DEF QueueInv
<1>5. ProcInv'
  BY <1>1, <1>2, GoesOn
<1>6. CountInv'
  BY <1>1 DEF CountInv
<1>7. AnswerInv'
  <2>1. Running(p)' /\ (Unqueued(p) => Unqueued(p)')
    BY <1>3, NotifyConstants DEF Running, Unqueued
  <2> QED
    BY <1>1, <1>3, <2>1, Answered DEF Queued
<1>8. BoundInv'
  <2>1. ~Writing(p)'
    BY <1>3 DEF Writing, At
  <2>2. ToSet(queue') \subseteq Claimed
    BY DEF Claimed
  <2> QED
    BY <1>1, <1>3, <2>1, <2>2, ClaimsStay
<1> QED
  BY <1>4, <1>5, <1>6, <1>7, <1>8 DEF Inv, TypeInv

(* The next file is always there. *)
LEMMA TakeInv ==
  ASSUME Inv, NEW p \in Procs, Take(p)
  PROVE  Inv'
<1> DEFINE e == Head(proc[p].todo)
           r == [proc[p] EXCEPT !.at = "collect"]
<1>1. /\ QueueInv /\ ProcInv /\ CountInv /\ Running(p) /\ proc[p].at = "take" /\ proc[p].todo # <<>>
      /\ UNCHANGED <<notices, faults, due>>
  BY DEF Inv, TypeInv, Take, At
<1>2. Fine(proc[p], queue)
  BY <1>1 DEF ProcInv
<1>3. e \in ToSet(queue) /\ e \in Events
  <2>1. proc[p].todo \in Seq(Events)
    BY <1>1, ProcessIs
  <2> QED
    BY <1>1, <1>2, <2>1, TailDistinct DEF Fine
<1>4. /\ queue' = Latest(queue, e) /\ proc' = [proc EXCEPT ![p] = r]
      /\ UNCHANGED <<lock, told>>
  BY <1>3 DEF Take, Queued, Go
<1>5. /\ queue' \in Seq(Events) /\ Distinct(queue') /\ ToSet(queue') = ToSet(queue)
  <2> HIDE DEF r, e
  <2>1. queue \in Seq(Events) /\ Distinct(queue)
    BY <1>1 DEF QueueInv
  <2>2. /\ Latest(queue, e) \in Seq(Events) /\ Distinct(Latest(queue, e))
        /\ ToSet(Latest(queue, e)) = ToSet(queue) \cup {e}
    BY <1>3, <2>1, LatestIs
  <2>3. ToSet(queue) \cup {e} = ToSet(queue)
    BY <1>3
  <2> QED
    BY <1>4, <2>2, <2>3
<1>6. /\ r \in Processes /\ r.event = proc[p].event /\ r.queued = proc[p].queued
      /\ r.at = "collect" /\ r.todo = proc[p].todo
  BY <1>1, ProcessIs DEF Processes, Steps
<1> HIDE DEF r, e
<1>7. Fine(r, queue')
  BY <1>1, <1>2, <1>5, <1>6 DEF Fine
<1>8. \A x \in due' : Queued(x) => x \in ToSet(queue')
  BY <1>5 DEF Queued
<1> QED
  BY <1>1, <1>4, <1>5, <1>6, <1>7, <1>8, HolderInv

(* What is left of a pass after its first file. *)
LEMMA CollectedIs ==
  ASSUME ProcInv, NEW p \in Procs, Running(p), proc[p].at = "collect", Collected(p)
  PROVE  \E r \in Processes :
           /\ proc' = [proc EXCEPT ![p] = r]
           /\ r.event = proc[p].event /\ r.queued = proc[p].queued /\ r.at = "take"
           /\ Distinct(r.todo)
           /\ ToSet(r.todo) = ToSet(proc[p].todo) \ {Head(proc[p].todo)}
           /\ ToSet(r.todo) \subseteq ToSet(queue)
<1> DEFINE rest == Tail(proc[p].todo)
           r == [proc[p] EXCEPT !.todo = rest, !.at = "take"]
<1>1. proc[p] \in Processes /\ proc[p].todo \in Seq(Events)
  BY ProcessIs
<1>2. Fine(proc[p], queue) /\ proc[p].todo # <<>>
  BY DEF ProcInv, Fine
<1>3. /\ rest \in Seq(Events) /\ Distinct(rest)
      /\ ToSet(rest) = ToSet(proc[p].todo) \ {Head(proc[p].todo)}
  BY <1>1, <1>2, TailDistinct DEF Fine
<1>4. proc' = [proc EXCEPT ![p] = r]
  BY DEF Collected
<1> HIDE DEF rest
<1>5. /\ r \in Processes /\ r.event = proc[p].event /\ r.queued = proc[p].queued
      /\ r.at = "take" /\ r.todo = rest
  BY <1>1, <1>3 DEF Processes, Steps
<1> HIDE DEF r
<1>6. ToSet(r.todo) \subseteq ToSet(queue)
  BY <1>2, <1>3, <1>5 DEF Fine
<1> QED
  BY <1>3, <1>4, <1>5, <1>6

LEMMA CompleteInv ==
  ASSUME Inv, NEW p \in Procs, Complete(p)
  PROVE  Inv'
<1> DEFINE e == Head(proc[p].todo)
<1>1. /\ QueueInv /\ ProcInv /\ CountInv /\ Running(p) /\ proc[p].at = "collect" /\ Collected(p)
      /\ UNCHANGED <<lock, notices, faults, told>>
      /\ proc[p].pass = Passes => queue' = Without(queue, e) /\ due' = due \ {e}
      /\ proc[p].pass # Passes => queue' = queue /\ due' = due
  BY DEF Inv, TypeInv, Complete, At
<1>2. PICK r \in Processes :
         /\ proc' = [proc EXCEPT ![p] = r]
         /\ r.event = proc[p].event /\ r.queued = proc[p].queued /\ r.at = "take"
         /\ Distinct(r.todo) /\ ToSet(r.todo) = ToSet(proc[p].todo) \ {e}
         /\ ToSet(r.todo) \subseteq ToSet(queue)
  BY <1>1, CollectedIs
<1> HIDE DEF e
<1>3. /\ queue' \in Seq(Events) /\ Distinct(queue') /\ ToSet(queue') \subseteq ToSet(queue)
      /\ due' \subseteq due /\ ToSet(r.todo) \subseteq ToSet(queue')
      /\ \A x \in due' : Queued(x) => x \in ToSet(queue')
  <2>1. CASE proc[p].pass = Passes
    <3>1. /\ queue' \in Seq(Events) /\ Distinct(queue')
          /\ ToSet(queue') = ToSet(queue) \ {e} /\ due' = due \ {e}
      BY <1>1, <2>1, WithoutIs DEF QueueInv
    <3> QED
      BY <1>2, <3>1 DEF Queued
  <2>2. CASE proc[p].pass # Passes
    BY <1>1, <1>2, <2>2 DEF QueueInv, Queued
  <2> QED
    BY <2>1, <2>2
<1>4. Fine(r, queue')
  BY <1>2, <1>3 DEF Fine
<1> QED
  BY <1>1, <1>2, <1>3, <1>4, HolderInv

LEMMA FaultIs ==
  ASSUME CountInv, Fault
  PROVE  faults' \in 0 .. MaxFaults
BY NotifyConstants DEF CountInv, Fault

LEMMA IncompleteInv ==
  ASSUME Inv, NEW p \in Procs, Incomplete(p)
  PROVE  Inv'
<1>1. /\ ProcInv /\ CountInv /\ Running(p) /\ proc[p].at = "collect" /\ Collected(p)
      /\ UNCHANGED <<queue, lock, notices, due, told>>
  BY DEF Inv, TypeInv, Incomplete, At
<1>2. PICK r \in Processes :
         /\ proc' = [proc EXCEPT ![p] = r]
         /\ r.event = proc[p].event /\ r.queued = proc[p].queued /\ r.at = "take"
         /\ Distinct(r.todo) /\ ToSet(r.todo) \subseteq ToSet(queue)
  BY <1>1, CollectedIs
<1>3. Fine(r, queue)
  BY <1>2 DEF Fine
<1>4. faults' \in 0 .. MaxFaults
  BY <1>1, FaultIs DEF Incomplete, CountInv
<1> QED
  BY <1>1, <1>2, <1>3, <1>4, MoveInv

LEMMA EndPassInv ==
  ASSUME Inv, NEW p \in Procs, EndPass(p)
  PROVE  Inv'
<1>1. /\ ProcInv /\ CountInv /\ Running(p) /\ proc[p].at = "take" /\ proc[p].todo = <<>>
      /\ UNCHANGED <<queue, notices, faults, due>>
  BY DEF Inv, TypeInv, EndPass, At
<1>2. faults' \in 0 .. MaxFaults /\ Fine(proc[p], queue)
  BY <1>1 DEF CountInv, ProcInv
<1>3. CASE proc[p].pass < Passes
  <2> DEFINE r == [proc[p] EXCEPT !.pass = @ + 1, !.at = "list"]
  <2>1. proc' = [proc EXCEPT ![p] = r] /\ UNCHANGED <<lock, told>>
    BY <1>3 DEF EndPass
  <2>2. proc[p].pass + 1 \in 1 .. Passes
    BY <1>1, <1>3, ProcessIs DEF Passes
  <2>3. /\ r \in Processes /\ r.event = proc[p].event /\ r.queued = proc[p].queued
        /\ r.at = "list" /\ r.todo = <<>>
    BY <1>1, <2>2, ProcessIs DEF Processes, Steps
  <2> HIDE DEF r
  <2>4. Fine(r, queue)
    BY <2>3, EmptyIs DEF Fine
  <2> QED
    BY <1>1, <1>2, <2>1, <2>3, <2>4, MoveInv
<1>4. CASE ~(proc[p].pass < Passes) /\ proc[p].queued
  <2>1. Exit(p, FALSE)
    BY <1>4 DEF EndPass
  <2>2. ~Unqueued(p)
    BY <1>1, <1>4 DEF Unqueued
  <2> QED
    BY <1>1, <1>2, <2>1, <2>2, ExitInv
<1>5. CASE ~(proc[p].pass < Passes) /\ ~proc[p].queued
  <2> DEFINE r == [proc[p] EXCEPT !.at = "last"]
  <2>1. proc' = [proc EXCEPT ![p] = r] /\ UNCHANGED <<lock, told>>
    BY <1>5 DEF EndPass, Go
  <2>2. /\ r \in Processes /\ r.event = proc[p].event /\ r.queued = proc[p].queued
        /\ r.at = "last" /\ r.todo = <<>>
    BY <1>1, ProcessIs DEF Processes, Steps
  <2> HIDE DEF r
  <2>3. Fine(r, queue)
    BY <1>5, <2>2, EmptyIs DEF Fine
  <2> QED
    BY <1>1, <1>2, <2>1, <2>2, <2>3, MoveInv
<1> QED
  BY <1>3, <1>4, <1>5

LEMMA LookAgainInv ==
  ASSUME Inv, NEW p \in Procs, LookAgain(p)
  PROVE  Inv'
<1>1. /\ ProcInv /\ CountInv /\ Running(p) /\ proc[p].at = "last"
      /\ UNCHANGED <<queue, notices, faults, due>>
  BY DEF Inv, TypeInv, LookAgain, At
<1>2. faults' \in 0 .. MaxFaults /\ Fine(proc[p], queue)
  BY <1>1 DEF CountInv, ProcInv
<1>3. CASE HasRoom
  <2> DEFINE r == [proc[p] EXCEPT !.at = "rewrite"]
  <2>1. proc' = [proc EXCEPT ![p] = r] /\ UNCHANGED <<lock, told>>
    BY <1>3 DEF LookAgain, Go
  <2>2. /\ r \in Processes /\ r.event = proc[p].event /\ r.queued = proc[p].queued
        /\ r.at = "rewrite" /\ r.todo = proc[p].todo
    BY <1>1, ProcessIs DEF Processes, Steps
  <2> HIDE DEF r
  <2>3. Fine(r, queue)
    BY <1>1, <1>2, <2>2 DEF Fine
  <2> QED
    BY <1>1, <1>2, <1>3, <2>1, <2>2, <2>3, MoveInv
<1>4. CASE ~HasRoom
  BY <1>1, <1>2, <1>4, ExitInv DEF LookAgain
<1> QED
  BY <1>3, <1>4

LEMMA StopInv ==
  ASSUME Inv, NEW p \in Procs, Stop(p)
  PROVE  Inv'
<1>1. /\ CountInv /\ ProcInv /\ Running(p) /\ Exit(p, Unqueued(p)) /\ Fault
      /\ UNCHANGED <<queue, notices, due>>
  BY DEF Inv, TypeInv, Stop
<1>2. Unqueued(p) \in BOOLEAN
  BY <1>1, ProcessIs DEF Unqueued
<1> QED
  BY <1>1, <1>2, FaultIs, ExitInv

-----------------------------------------------------------------------------
LEMMA StutterInv == Inv /\ UNCHANGED vars => Inv'
<1> SUFFICES ASSUME Inv, UNCHANGED vars
             PROVE  Inv'
  OBVIOUS
<1> USE DEF vars, Running, Queued, Unqueued, Writing, At
<1>1. QueueInv' /\ ProcInv' /\ CountInv'
  BY DEF Inv, TypeInv, QueueInv, ProcInv, CountInv, Fine
<1>2. AnswerInv'
  BY DEF Inv, AnswerInv
<1>3. BoundInv'
  BY DEF Inv, BoundInv, Claimed
<1> QED
  BY <1>1, <1>2, <1>3 DEF Inv, TypeInv

LEMMA NextInv == Inv /\ [Next]_vars => Inv'
<1> SUFFICES ASSUME Inv, [Next]_vars
             PROVE  Inv'
  OBVIOUS
<1>1. ASSUME NEW p \in Procs, Step(p)
      PROVE  Inv'
  BY <1>1, WriteInv, TryLockInv, EnsureInv, ListInv, TakeInv, CompleteInv, IncompleteInv,
     EndPassInv, LookAgainInv, RewriteInv DEF Step
<1> QED
  BY <1>1, NotifyInv, StopInv, StutterInv DEF Next

LEMMA Invariance == Spec => []Inv
<1> QED
  BY InitInv, NextInv, PTL DEF Spec

(* However processes overlap and die, the state of the queue keeps its      *)
(* types, and a file that a pass is to collect is still there when its turn *)
(* comes (cursor_notify.go:83).                                             *)
THEOREM TypeCorrect == Spec => []TypeOK
<1>1. Inv => TypeOK
  <2> SUFFICES ASSUME Inv
               PROVE  TypeOK
    OBVIOUS
  <2>1. QueueInv /\ ProcInv /\ CountInv
    BY DEF Inv, TypeInv
  <2>2. queue \in Seq(Events) /\ Len(queue) = Cardinality(ToSet(queue))
    BY <2>1, DistinctCount DEF QueueInv
  <2>3. \A p \in Procs : Running(p) => ToSet(proc[p].todo) \subseteq ToSet(queue)
    BY <2>1 DEF ProcInv, Fine
  <2> QED
    BY <2>1, <2>2, <2>3 DEF TypeOK, ProcInv, CountInv
<1> QED
  BY <1>1, Invariance, PTL

(* No notice is forgotten: until a complete collection of it ended it is    *)
(* queued, or its process is still there or has failed for all to see.      *)
THEOREM NoNoticeForgotten == Spec => []NoticesAnswered
<1>1. Inv => NoticesAnswered
  BY DEF Inv, AnswerInv, NoticesAnswered, Pending
<1> QED
  BY <1>1, Invariance, PTL

(* Looking at the limit and writing are two steps, so the queue may pass    *)
(* its limit, but by less than the number of processes.                     *)
THEOREM QueueStaysBounded == Spec => []QueueBounded
<1>1. Inv => QueueBounded
  <2> SUFFICES ASSUME Inv
               PROVE  QueueBounded
    OBVIOUS
  <2>1. Cardinality(ToSet(queue)) = Len(queue)
    BY DistinctCount DEF Inv, TypeInv, QueueInv
  <2>2. IsFiniteSet(Claimed) /\ ToSet(queue) \subseteq Claimed
    BY DEF Inv, BoundInv, Claimed
  <2>3. /\ Cardinality(ToSet(queue)) <= Cardinality(Claimed) /\ IsFiniteSet(ToSet(queue))
    BY <2>2, FS_Subset
  <2>4. /\ Cardinality(Claimed) \in Nat /\ Cardinality(ToSet(queue)) \in Nat
        /\ Cardinality(Procs) \in Nat /\ Limit \in Nat
    BY <2>2, <2>3, FS_CardinalityType, NotifyConstants
  <2> QED
    BY <2>1, <2>3, <2>4 DEF Inv, BoundInv, QueueBounded
<1> QED
  BY <1>1, Invariance, PTL
=============================================================================
