-------------------------- MODULE CursorCaptureProofs --------------------------
(***************************************************************************)
(* What holds of the capture of Cursor's sessions for any sessions,        *)
(* messages, results and numbers of pages, wherever writers and runs die.  *)
(*                                                                         *)
(* First the journal of a session (CursorJournal).                         *)
(* LinesInv is about the lines alone: one native identity has one event    *)
(* identity, an event is named after the first thing that was read of it,  *)
(* and once it is taken from the database it stays so.  SourceInv says     *)
(* that a line, and an observation that is not a line yet, is what its     *)
(* source says.  AdoptInv is why a message is one event: as long as events *)
(* of a text wait for the database, the journal names no event of it after *)
(* the database, and the writer has just the events that wait (WriterInv). *)
(*                                                                         *)
(* Then the traversal that exports the sessions (CursorExport).            *)
(* Follows is about the place a traversal came to in a session: what is    *)
(* behind it was read since the traversal began, but for what it will read *)
(* again.  RunInv says that a completed session is Done, all that was      *)
(* there when the run began is in its journal, and that each of its        *)
(* subagents is completed or open; StoredInv says the same of what a run   *)
(* hands to the next, as long as Cursor did not write.  A run with nothing *)
(* open has therefore completed all it could reach.                        *)
(***************************************************************************)
EXTENDS CursorJournal, CursorExport, FiniteSetTheorems, SequenceTheorems, WellFoundedInduction, TLAPS

Texts == Messages \cup {Result}

Natives == {"transcript", "database"} \X (Nat \ {0})

Events == [native : Natives, source : {"transcript", "database"}, text : Texts, quality : Quality]

Lines == [id : Natives, native : Natives, source : {"transcript", "database"}, text : Texts,
          quality : Quality, revision : Nat \ {0}]

Writers == [todo : Seq(Events), hasDB : BOOLEAN, fallback : [Messages -> Seq(Natives)]]

SavedEvents == [text : Texts, quality : Quality]

Distinct(s) == \A i, j \in 1 .. Len(s) : s[i] = s[j] => i = j

-----------------------------------------------------------------------------
(* The definitions of CursorJournal for any lines F *)

LastOf(F, id, k) == F[k].id = id /\ \A j \in k + 1 .. Len(F) : F[j].id # id

IdsOf(F) == {F[k].id : k \in DOMAIN F}

LatestOf(F, id) == F[CHOOSE k \in DOMAIN F : LastOf(F, id, k)]

Earlier(F, k) == {j \in 1 .. k - 1 : F[j].id = F[k].id}

FirstOf(F, text) ==
  {k \in DOMAIN F : F[k].revision = 1 /\ LatestOf(F, F[k].id).source = "transcript"
                                      /\ LatestOf(F, F[k].id).text = text}

FallbackOf(F, text) ==
  [i \in 1 .. Cardinality(FirstOf(F, text)) |-> F[Nth(FirstOf(F, text), i)].id]

(* Events of a text that wait for the database. *)
Waiting(F, text) ==
  {id \in IdsOf(F) : LatestOf(F, id).source = "transcript" /\ LatestOf(F, id).text = text}

SaidIn(D) == {i \in DOMAIN D : D[i].text \in Messages}

-----------------------------------------------------------------------------
LinesInv(F) ==
  /\ F \in Seq(Lines)
  /\ \A j, k \in DOMAIN F : F[j].native = F[k].native => F[j].id = F[k].id
  /\ \A j, k \in DOMAIN F : F[j].id = F[k].id => F[j].text = F[k].text
  /\ \A k \in DOMAIN F : \E j \in 1 .. k : F[j].id = F[k].id /\ F[j].native = F[k].id
  /\ \A k \in DOMAIN F : \A j \in Earlier(F, k) :
       F[j].source = "database" => F[k].source = "database"

RevisionInv(F) ==
  \A k \in DOMAIN F :
    /\ F[k].revision = Cardinality(Earlier(F, k)) + 1
    /\ \A j \in Earlier(F, k) :
         F[j].revision + 1 = F[k].revision => [F[j] EXCEPT !.revision = F[k].revision] # F[k]

AdoptInv(F) ==
  \A text \in Messages : Waiting(F, text) # {} =>
    \A k \in DOMAIN F : F[k].text = text => F[k].id[1] = "transcript"

(* r is what its source says. *)
SaysIn(T, D, r) ==
  \/ \E i \in DOMAIN T :
       /\ r.native = <<"transcript", i>> /\ r.source = "transcript"
       /\ r.text = T[i] /\ r.quality = "partial"
  \/ \E i \in DOMAIN D :
       r.native = <<"database", i>> /\ r.source = "database" /\ r.text = D[i].text

Says(r) == SaysIn(transcript, database, r)

SourceInv ==
  /\ transcript \in Seq(Messages) /\ database \in Seq(SavedEvents)
  /\ Len(transcript) <= Cardinality(Said)
  /\ \A k \in DOMAIN transcript :
       \E i \in Said : Cardinality(Before(Said, i)) = k - 1 /\ database[i].text = transcript[k]
  /\ \A k \in DOMAIN file : Says(file[k])

WriterInv ==
  run # None =>
    /\ run \in Writers /\ ~partial
    /\ \A k \in DOMAIN run.todo : Says(run.todo[k])
    /\ \/ /\ \A k \in DOMAIN run.todo : run.todo[k].source = "transcript"
          /\ ~run.hasDB => \A k \in DOMAIN file : file[k].source = "transcript"
       \/ /\ \A k \in DOMAIN run.todo : run.todo[k].source = "database"
          /\ \A text \in Messages :
               Distinct(run.fallback[text]) /\ ToSet(run.fallback[text]) = Waiting(file, text)

SentInv ==
  /\ sent \in Seq(Lines) /\ Len(sent) <= Len(file)
  /\ \A i \in 1 .. Len(sent) : sent[i] = file[i]

Inv ==
  /\ partial \in BOOLEAN
  /\ LinesInv(file) /\ RevisionInv(file) /\ AdoptInv(file)
  /\ SourceInv /\ WriterInv /\ SentInv

-----------------------------------------------------------------------------
(* Places *)

LEMMA LeastIs ==
  ASSUME NEW S \in SUBSET Nat, S # {}
  PROVE  \E i \in S : \A j \in S : i <= j
<1>1. \E i \in S : \A j \in S : ~(<<j, i>> \in OpToRel(<, Nat))
  BY NatLessThanWellFounded, WFMin
<1>2. \A i, j \in Nat : i < j => <<i, j>> \in OpToRel(<, Nat)
  BY Zenon DEF OpToRel
<1>3. \E i \in S : \A j \in S : ~(j < i)
  BY <1>1, <1>2, Zenon
<1> QED
  BY <1>3

LEMMA GreatestIs ==
  ASSUME NEW n \in Nat, NEW S \in SUBSET (1 .. n), S # {}
  PROVE  \E i \in S : \A j \in S : j <= i
<1> DEFINE R == {n - i : i \in S}
<1>1. R \in SUBSET Nat /\ R # {}
  <2>1. \A i \in S : i \in 1 .. n /\ n - i \in Nat
    OBVIOUS
  <2>2. \E i \in S : n - i \in R
    OBVIOUS
  <2> QED
    BY <2>1, <2>2
<1>2. PICK m \in R : \A j \in R : m <= j
  BY <1>1, LeastIs
<1>3. PICK i \in S : m = n - i
  BY <1>2
<1>4. ASSUME NEW j \in S
      PROVE  j <= i
  <2>1. n - j \in R
    OBVIOUS
  <2> QED
    BY <1>2, <1>3, <2>1
<1> QED
  BY <1>4

(* The places before one are fewer than those before a later one. *)
LEMMA BeforeGrows ==
  ASSUME NEW S \in SUBSET Nat, IsFiniteSet(S), NEW j \in S, NEW k \in Nat, j < k
  PROVE  /\ IsFiniteSet(Before(S, j)) /\ IsFiniteSet(Before(S, k))
         /\ Cardinality(Before(S, j)) \in Nat /\ Cardinality(Before(S, k)) \in Nat
         /\ Cardinality(Before(S, j)) < Cardinality(Before(S, k))
<1>1. /\ Before(S, j) \subseteq S /\ Before(S, k) \subseteq S
      /\ Before(S, j) \cup {j} \subseteq Before(S, k) /\ j \notin Before(S, j)
  <2>1. \A i \in S : i \in Nat /\ ~(j < j) /\ (i < j => i < k)
    OBVIOUS
  <2> QED
    BY <2>1 DEF Before
<1>2. /\ IsFiniteSet(Before(S, j)) /\ IsFiniteSet(Before(S, k))
  BY <1>1, FS_Subset
<1>3. /\ Cardinality(Before(S, j)) \in Nat /\ Cardinality(Before(S, k)) \in Nat
  BY <1>2, FS_CardinalityType
<1>4. Cardinality(Before(S, j) \cup {j}) = Cardinality(Before(S, j)) + 1
  BY <1>1, <1>2, FS_AddElement
<1>5. Cardinality(Before(S, j) \cup {j}) <= Cardinality(Before(S, k))
  BY <1>1, <1>2, FS_Subset
<1> QED
  BY <1>2, <1>3, <1>4, <1>5

(* Places are numbered from one, without gaps. *)
LEMMA NthIs ==
  ASSUME NEW S \in SUBSET Nat, IsFiniteSet(S)
  PROVE  /\ Cardinality(S) \in Nat
         /\ \A i \in 1 .. Cardinality(S) :
              Nth(S, i) \in S /\ Cardinality(Before(S, Nth(S, i))) = i - 1
         /\ \A k \in S : \E i \in 1 .. Cardinality(S) : Nth(S, i) = k
<1> DEFINE n == Cardinality(S)
           rank == [k \in S |-> Cardinality(Before(S, k)) + 1]
<1>1. n \in Nat
  BY FS_CardinalityType
<1>2. ASSUME NEW k \in S
      PROVE  rank[k] \in 1 .. n /\ rank[k] = Cardinality(Before(S, k)) + 1
  <2>1. Before(S, k) \subseteq S \ {k} /\ Before(S, k) \subseteq S
    BY DEF Before
  <2>2. IsFiniteSet(S \ {k}) /\ Cardinality(S \ {k}) = n - 1
    BY FS_RemoveElement
  <2>3. IsFiniteSet(Before(S, k)) /\ Cardinality(Before(S, k)) <= n - 1
    BY <2>1, <2>2, FS_Subset
  <2>4. Cardinality(Before(S, k)) \in Nat
    BY <2>3, FS_CardinalityType
  <2> QED
    BY <1>1, <2>3, <2>4
<1>3. \A j, k \in S : j < k => rank[j] < rank[k]
  BY BeforeGrows, <1>2
<1>4. \A j, k \in S : rank[j] = rank[k] => j = k
  BY <1>2, <1>3
<1>5. rank \in [S -> 1 .. n]
  BY <1>2
<1> HIDE DEF rank
<1>6. rank \in Injection(S, 1 .. n)
  BY <1>4, <1>5 DEF Injection, IsInjective
<1>7. IsFiniteSet(1 .. n) /\ Cardinality(1 .. n) = n
  BY <1>1, FS_Interval
<1>8. rank \in Surjection(S, 1 .. n)
  BY <1>6, <1>7, FS_Injection
<1>9. \A i \in 1 .. n : \E k \in S : Cardinality(Before(S, k)) = i - 1
  <2> SUFFICES ASSUME NEW i \in 1 .. n
               PROVE  \E k \in S : Cardinality(Before(S, k)) = i - 1
    OBVIOUS
  <2>1. PICK k \in S : rank[k] = i
    BY <1>8 DEF Surjection
  <2>2. Before(S, k) \subseteq S
    BY DEF Before
  <2>3. Cardinality(Before(S, k)) \in Nat
    BY <2>2, FS_Subset, FS_CardinalityType
  <2> QED
    BY <1>2, <2>1, <2>3
<1>10. \A i \in 1 .. n : Nth(S, i) \in S /\ Cardinality(Before(S, Nth(S, i))) = i - 1
  BY <1>9 DEF Nth
<1>11. ASSUME NEW k \in S
       PROVE  \E i \in 1 .. n : Nth(S, i) = k
  <2>1. rank[k] \in 1 .. n
    BY <1>2
  <2>2. PICK x \in S : x = Nth(S, rank[k]) /\ Cardinality(Before(S, x)) = rank[k] - 1
    BY <1>10, <2>1
  <2>3. rank[x] = rank[k]
    BY <1>2, <2>1, <2>2
  <2> QED
    BY <1>4, <2>1, <2>2, <2>3
<1> QED
  BY <1>1, <1>10, <1>11

-----------------------------------------------------------------------------
(* Lines *)

LEMMA DomainIs ==
  ASSUME NEW S, NEW F \in Seq(S)
  PROVE  Len(F) \in Nat /\ DOMAIN F = 1 .. Len(F) /\ \A k \in 1 .. Len(F) : F[k] \in S
BY LenProperties, ElementOfSeq

LEMMA AppendIs ==
  ASSUME NEW S, NEW F \in Seq(S), NEW r \in S
  PROVE  /\ Append(F, r) \in Seq(S) /\ Len(Append(F, r)) = Len(F) + 1
         /\ DOMAIN Append(F, r) = 1 .. Len(F) + 1
         /\ \A k \in 1 .. Len(F) : Append(F, r)[k] = F[k]
         /\ Append(F, r)[Len(F) + 1] = r
BY AppendProperties, DomainIs

LEMMA LatestExists ==
  ASSUME NEW F \in Seq(Lines), NEW id \in IdsOf(F)
  PROVE  \E k \in DOMAIN F : LastOf(F, id, k) /\ LatestOf(F, id) = F[k]
<1>1. Len(F) \in Nat /\ DOMAIN F = 1 .. Len(F)
  BY DomainIs
<1> DEFINE S == {k \in 1 .. Len(F) : F[k].id = id}
<1>2. S \in SUBSET (1 .. Len(F)) /\ S # {}
  BY <1>1 DEF IdsOf
<1>3. PICK k \in S : \A j \in S : j <= k
  BY <1>1, <1>2, GreatestIs
<1>4. LastOf(F, id, k)
  BY <1>1, <1>3 DEF LastOf
<1> QED
  BY <1>1, <1>3, <1>4 DEF LatestOf

LEMMA LatestUnique ==
  ASSUME NEW F \in Seq(Lines), NEW id, NEW k \in DOMAIN F, LastOf(F, id, k)
  PROVE  id \in IdsOf(F) /\ LatestOf(F, id) = F[k]
<1>1. Len(F) \in Nat /\ DOMAIN F = 1 .. Len(F)
  BY DomainIs
<1>2. ASSUME NEW j \in DOMAIN F, LastOf(F, id, j)
      PROVE  j = k
  <2>1. j \in Nat /\ k \in Nat /\ j <= Len(F) /\ k <= Len(F)
    BY <1>1
  <2>2. ~(j < k)
    BY <1>2, <2>1 DEF LastOf
  <2>3. ~(k < j)
    BY <1>2, <2>1 DEF LastOf
  <2> QED
    BY <2>1, <2>2, <2>3
<1>3. id \in IdsOf(F)
  BY DEF IdsOf, LastOf
<1> QED
  BY <1>2, <1>3 DEF LatestOf

(* A line that is added is the latest of its event, and of no other. *)
LEMMA LatestAfter ==
  ASSUME NEW F \in Seq(Lines), NEW r \in Lines
  PROVE  /\ IdsOf(Append(F, r)) = IdsOf(F) \cup {r.id}
         /\ LatestOf(Append(F, r), r.id) = r
         /\ \A id \in IdsOf(F) : id # r.id => LatestOf(Append(F, r), id) = LatestOf(F, id)
<1> DEFINE G == Append(F, r)
           n == Len(F)
<1>1. /\ n \in Nat /\ DOMAIN F = 1 .. n /\ G \in Seq(Lines) /\ Len(G) = n + 1
      /\ DOMAIN G = 1 .. n + 1 /\ G[n + 1] = r /\ \A k \in 1 .. n : G[k] = F[k]
  BY DomainIs, AppendIs
<1> HIDE DEF G, n
<1>2. IdsOf(G) = IdsOf(F) \cup {r.id}
  <2>1. \A k \in 1 .. n + 1 : k \in 1 .. n \/ k = n + 1
    BY <1>1
  <2>2. \A k \in 1 .. n : k \in 1 .. n + 1
    BY <1>1
  <2>3. n + 1 \in 1 .. n + 1
    BY <1>1
  <2> QED
    BY <1>1, <2>1, <2>2, <2>3 DEF IdsOf
<1>3. LatestOf(G, r.id) = r
  <2>1. n + 1 \in DOMAIN G /\ LastOf(G, r.id, n + 1)
    BY <1>1 DEF LastOf
  <2> QED
    BY <1>1, <2>1, LatestUnique
<1>4. ASSUME NEW id \in IdsOf(F), id # r.id
      PROVE  LatestOf(G, id) = LatestOf(F, id)
  <2>1. PICK k \in DOMAIN F : LastOf(F, id, k) /\ LatestOf(F, id) = F[k]
    BY LatestExists
  <2>2. /\ k \in 1 .. n /\ G[k].id = id
        /\ \A j \in k + 1 .. n : G[j].id # id
    BY <1>1, <2>1 DEF LastOf, n
  <2>3. \A j \in k + 1 .. n + 1 : j \in k + 1 .. n \/ j = n + 1
    BY <1>1, <2>2
  <2>4. k \in DOMAIN G /\ LastOf(G, id, k)
    BY <1>1, <1>4, <2>2, <2>3 DEF LastOf
  <2> QED
    BY <1>1, <2>1, <2>2, <2>4, LatestUnique
<1> QED
  BY <1>2, <1>3, <1>4 DEF G

LEMMA EarlierIs ==
  ASSUME NEW F, NEW k \in Nat
  PROVE  IsFiniteSet(Earlier(F, k)) /\ Cardinality(Earlier(F, k)) \in Nat
<1>1. Earlier(F, k) \subseteq 1 .. k - 1 /\ IsFiniteSet(1 .. k - 1)
  BY FS_Interval DEF Earlier
<1> QED
  BY <1>1, FS_Subset, FS_CardinalityType

(* The lines before one, of the same event, have lower revisions. *)
LEMMA RevisionsRise ==
  ASSUME NEW F \in Seq(Lines), RevisionInv(F), NEW k \in DOMAIN F, NEW j \in Earlier(F, k)
  PROVE  /\ j \in DOMAIN F /\ j < k /\ Earlier(F, j) \cup {j} \subseteq Earlier(F, k)
         /\ F[j].revision < F[k].revision
<1>1. Len(F) \in Nat /\ DOMAIN F = 1 .. Len(F) /\ k \in Nat
  BY DomainIs
<1>2. j \in DOMAIN F /\ j < k /\ F[j].id = F[k].id
  BY <1>1 DEF Earlier
<1>3. Earlier(F, j) \cup {j} \subseteq Earlier(F, k) /\ j \notin Earlier(F, j)
  BY <1>1, <1>2 DEF Earlier
<1>4. /\ IsFiniteSet(Earlier(F, j)) /\ IsFiniteSet(Earlier(F, k))
      /\ Cardinality(Earlier(F, j)) \in Nat /\ Cardinality(Earlier(F, k)) \in Nat
  BY <1>1, <1>2, EarlierIs
<1>5. Cardinality(Earlier(F, j) \cup {j}) = Cardinality(Earlier(F, j)) + 1
  BY <1>3, <1>4, FS_AddElement
<1>6. Cardinality(Earlier(F, j) \cup {j}) <= Cardinality(Earlier(F, k))
  BY <1>3, <1>4, FS_Subset
<1> QED
  BY <1>2, <1>3, <1>4, <1>5, <1>6 DEF RevisionInv

(* The first line of an event is its only one of revision 1. *)
LEMMA FirstRevision ==
  ASSUME NEW F \in Seq(Lines), RevisionInv(F), NEW id \in IdsOf(F)
  PROVE  /\ \E k \in DOMAIN F : F[k].id = id /\ F[k].revision = 1
         /\ \A j, k \in DOMAIN F :
              F[j].id = F[k].id /\ F[j].revision = 1 /\ F[k].revision = 1 => j = k
<1>1. Len(F) \in Nat /\ DOMAIN F = 1 .. Len(F)
  BY DomainIs
<1> DEFINE S == {k \in 1 .. Len(F) : F[k].id = id}
<1>2. S \in SUBSET Nat /\ S # {}
  BY <1>1 DEF IdsOf
<1>3. PICK k \in S : \A j \in S : k <= j
  BY <1>2, LeastIs
<1>4. k \in Nat /\ k \in DOMAIN F /\ F[k].id = id
  BY <1>1, <1>2
<1>5. Earlier(F, k) = {}
  BY <1>1, <1>3, <1>4 DEF Earlier
<1>6. F[k].revision = 1
  <2>1. F[k].revision = Cardinality(Earlier(F, k)) + 1
    BY <1>4 DEF RevisionInv
  <2> QED
    BY <1>5, <2>1, FS_EmptySet
<1>7. ASSUME NEW i \in DOMAIN F, NEW j \in DOMAIN F,
             F[i].id = F[j].id, F[i].revision = 1, F[j].revision = 1, i < j
      PROVE  FALSE
  <2>1. i \in Earlier(F, j)
    BY <1>1, <1>7 DEF Earlier
  <2> QED
    BY <1>7, <2>1, RevisionsRise
<1>8. \A i, j \in DOMAIN F : i \in Nat /\ j \in Nat
  BY <1>1
<1> QED
  BY <1>4, <1>6, <1>7, <1>8

(* The events that wait are those the writer finds, each once. *)
LEMMA FallbackIs ==
  ASSUME NEW F \in Seq(Lines), RevisionInv(F), NEW text
  PROVE  /\ FallbackOf(F, text) \in Seq(Natives) /\ Distinct(FallbackOf(F, text))
         /\ ToSet(FallbackOf(F, text)) = Waiting(F, text)
<1> DEFINE S == FirstOf(F, text)
           n == Cardinality(S)
           q == FallbackOf(F, text)
<1>1. Len(F) \in Nat /\ DOMAIN F = 1 .. Len(F) /\ \A k \in DOMAIN F : F[k] \in Lines
  BY DomainIs
<1>2. S \in SUBSET Nat /\ S \subseteq DOMAIN F /\ IsFiniteSet(S)
  <2>1. S \subseteq 1 .. Len(F) /\ IsFiniteSet(1 .. Len(F))
    BY <1>1, FS_Interval DEF FirstOf
  <2> QED
    BY <1>1, <2>1, FS_Subset
<1>3. /\ n \in Nat
      /\ \A i \in 1 .. n : Nth(S, i) \in S /\ Cardinality(Before(S, Nth(S, i))) = i - 1
      /\ \A k \in S : \E i \in 1 .. n : Nth(S, i) = k
  BY <1>2, NthIs
<1>4. \A k \in S : /\ k \in DOMAIN F /\ F[k].id \in Natives /\ F[k].revision = 1
                   /\ F[k].id \in IdsOf(F) /\ F[k].id \in Waiting(F, text)
  BY <1>1, <1>2 DEF FirstOf, Lines, IdsOf, Waiting
<1>5. q = [i \in 1 .. n |-> F[Nth(S, i)].id]
  BY DEF FallbackOf
<1> HIDE DEF S, n, q
<1>6. \A i \in 1 .. n : q[i] = F[Nth(S, i)].id /\ q[i] \in Natives
  BY <1>3, <1>4, <1>5
<1>7. q \in Seq(Natives) /\ Len(q) = n /\ DOMAIN q = 1 .. n
  BY <1>3, <1>5, <1>6, SeqDef
<1>8. Distinct(q)
  <2> SUFFICES ASSUME NEW i \in 1 .. n, NEW j \in 1 .. n, q[i] = q[j]
               PROVE  i = j
    BY <1>7 DEF Distinct
  <2>1. /\ Nth(S, i) \in S /\ Nth(S, j) \in S
        /\ Cardinality(Before(S, Nth(S, i))) = i - 1 /\ Cardinality(Before(S, Nth(S, j))) = j - 1
    BY <1>3
  <2>2. /\ Nth(S, i) \in DOMAIN F /\ Nth(S, j) \in DOMAIN F /\ F[Nth(S, i)].id \in IdsOf(F)
        /\ F[Nth(S, i)].revision = 1 /\ F[Nth(S, j)].revision = 1
    BY <1>4, <2>1
  <2>3. F[Nth(S, i)].id = F[Nth(S, j)].id
    BY <1>6
  <2>4. Nth(S, i) = Nth(S, j)
    BY <2>2, <2>3, FirstRevision
  <2> QED
    BY <1>3, <2>1, <2>4
<1>9. ToSet(q) \subseteq Waiting(F, text)
  <2> SUFFICES ASSUME NEW i \in 1 .. n
               PROVE  q[i] \in Waiting(F, text)
    BY <1>7 DEF ToSet
  <2>1. Nth(S, i) \in S
    BY <1>3
  <2> QED
    BY <1>4, <1>6, <2>1
<1>10. ASSUME NEW id \in Waiting(F, text)
       PROVE  id \in ToSet(q)
  <2>1. id \in IdsOf(F)
    BY DEF Waiting
  <2>2. PICK k \in DOMAIN F : F[k].id = id /\ F[k].revision = 1
    BY <2>1, FirstRevision
  <2>3. k \in S
    BY <2>2 DEF S, FirstOf, Waiting
  <2>4. PICK i \in 1 .. n : Nth(S, i) = k
    BY <1>3, <2>3
  <2> QED
    BY <1>6, <1>7, <2>2, <2>4 DEF ToSet
<1> QED
  BY <1>7, <1>8, <1>9, <1>10 DEF q

-----------------------------------------------------------------------------
(* Identities *)

(* An observation was read before, under one identity, or it was not. *)
LEMMA KnownIs ==
  ASSUME LinesInv(file), NEW native
  PROVE  \/ KnownAs(native) = {} /\ \A k \in DOMAIN file : file[k].native # native
         \/ \E k \in DOMAIN file : file[k].native = native /\ KnownAs(native) = {file[k].id}
<1> DEFINE S == {k \in 1 .. Len(file) : file[k].native = native}
           last(k) == file[k].native = native /\ \A j \in k + 1 .. Len(file) : file[j].native # native
<1>1. Len(file) \in Nat /\ DOMAIN file = 1 .. Len(file)
  BY DomainIs DEF LinesInv
<1>2. KnownAs(native) = {file[k].id : k \in {k \in DOMAIN file : last(k)}}
  BY DEF KnownAs
<1>3. CASE S = {}
  BY <1>1, <1>2, <1>3
<1>4. CASE S # {}
  <2>1. PICK k \in S : \A j \in S : j <= k
    BY <1>1, <1>4, GreatestIs
  <2>2. k \in DOMAIN file /\ last(k)
    BY <1>1, <2>1
  <2>3. \A j \in DOMAIN file : last(j) => file[j].id = file[k].id
    BY <2>2 DEF LinesInv
  <2> HIDE DEF last
  <2>4. KnownAs(native) = {file[k].id}
    BY <1>2, <2>2, <2>3
  <2> QED
    BY <2>1, <2>2, <2>4
<1> QED
  BY <1>3, <1>4

LEMMA LatestIsLine ==
  ASSUME NEW F, LinesInv(F), NEW k \in DOMAIN F
  PROVE  \E m \in DOMAIN F :
           /\ k <= m /\ F[m].id = F[k].id /\ LatestOf(F, F[k].id) = F[m] /\ F[m].text = F[k].text
           /\ LastOf(F, F[k].id, m)
           /\ F[k].source = "database" => F[m].source = "database"
<1>1. F \in Seq(Lines) /\ Len(F) \in Nat /\ DOMAIN F = 1 .. Len(F)
  BY DomainIs DEF LinesInv
<1>2. F[k].id \in IdsOf(F)
  BY DEF IdsOf
<1>3. PICK m \in DOMAIN F : LastOf(F, F[k].id, m) /\ LatestOf(F, F[k].id) = F[m]
  BY <1>1, <1>2, LatestExists
<1>4. F[m].id = F[k].id /\ k <= m
  BY <1>1, <1>3 DEF LastOf
<1>5. F[m].text = F[k].text
  BY <1>4 DEF LinesInv
<1>6. F[k].source = "database" => F[m].source = "database"
  <2>1. CASE k = m
    BY <2>1
  <2>2. CASE k < m
    <3>1. k \in Earlier(F, m)
      BY <1>1, <1>4, <2>2 DEF Earlier
    <3> QED
      BY <3>1 DEF LinesInv
  <2> QED
    BY <1>1, <1>4, <2>1, <2>2
<1> QED
  BY <1>3, <1>4, <1>5, <1>6

(* What may become of an observation: a new event, a revision of the one it *)
(* was, or of one that has its text.                                        *)
Belongs(F, r) ==
  \/ r.id = r.native /\ \A k \in DOMAIN F : F[k].native # r.native
  \/ \E k \in DOMAIN F : F[k].native = r.native /\ F[k].id = r.id /\ F[k].text = r.text
  \/ /\ \A k \in DOMAIN F : F[k].native # r.native
     /\ \E k \in DOMAIN F : F[k].id = r.id /\ F[k].text = r.text

Adds(F, r) ==
  /\ r \in Lines /\ Belongs(F, r)
  /\ r.source = "transcript" => \A k \in DOMAIN F : F[k].source = "transcript"
  /\ r.revision = IF r.id \in IdsOf(F) THEN LatestOf(F, r.id).revision + 1 ELSE 1
  /\ r.id \in IdsOf(F) => [LatestOf(F, r.id) EXCEPT !.revision = r.revision] # r

LEMMA LinesGrow ==
  ASSUME NEW F, LinesInv(F), NEW r, Adds(F, r)
  PROVE  LinesInv(Append(F, r))
<1> DEFINE G == Append(F, r)
           n == Len(F)
<1>1. F \in Seq(Lines) /\ r \in Lines
  BY DEF LinesInv, Adds
<1>2. /\ n \in Nat /\ DOMAIN F = 1 .. n /\ G \in Seq(Lines) /\ Len(G) = n + 1
      /\ DOMAIN G = 1 .. n + 1 /\ G[n + 1] = r /\ \A k \in 1 .. n : G[k] = F[k]
  BY <1>1, DomainIs, AppendIs
<1> HIDE DEF G, n
<1>3. \A k \in DOMAIN G : (k \in 1 .. n /\ k \in DOMAIN F /\ G[k] = F[k]) \/ (k = n + 1 /\ G[k] = r)
  BY <1>2
<1>4. r.id \in IdsOf(F) => \E k \in DOMAIN F : F[k].id = r.id /\ F[k].text = r.text
  <2>1. \A k \in DOMAIN F : \E j \in DOMAIN F : F[j].native = F[k].id
    <3> SUFFICES ASSUME NEW k \in DOMAIN F
                 PROVE  \E j \in DOMAIN F : F[j].native = F[k].id
      OBVIOUS
    <3>1. PICK j \in 1 .. k : F[j].native = F[k].id
      BY DEF LinesInv
    <3> QED
      BY <1>2, <3>1
  <2> QED
    BY <2>1 DEF Adds, Belongs, IdsOf
<1>5. \A k \in DOMAIN F : F[k].native = r.native => F[k].id = r.id
  BY DEF Adds, Belongs, LinesInv
<1>6. \A k \in DOMAIN F : F[k].id = r.id => F[k].text = r.text
  <2> SUFFICES ASSUME NEW k \in DOMAIN F, F[k].id = r.id
               PROVE  F[k].text = r.text
    OBVIOUS
  <2>1. PICK j \in DOMAIN F : F[j].id = r.id /\ F[j].text = r.text
    BY <1>4 DEF IdsOf
  <2> QED
    BY <2>1 DEF LinesInv
<1>7. \A j, k \in DOMAIN G : G[j].native = G[k].native => G[j].id = G[k].id
  BY <1>3, <1>5 DEF LinesInv
<1>8. \A j, k \in DOMAIN G : G[j].id = G[k].id => G[j].text = G[k].text
  BY <1>3, <1>6 DEF LinesInv
<1>9. ASSUME NEW k \in DOMAIN G
      PROVE  \E j \in 1 .. k : G[j].id = G[k].id /\ G[j].native = G[k].id
  <2>1. CASE k \in 1 .. n
    <3>1. PICK j \in 1 .. k : F[j].id = F[k].id /\ F[j].native = F[k].id
      BY <1>2, <2>1 DEF LinesInv
    <3> QED
      BY <1>2, <2>1, <3>1
  <2>2. CASE k = n + 1 /\ r.id = r.native
    BY <1>2, <2>2
  <2>3. CASE k = n + 1 /\ \E i \in DOMAIN F : F[i].id = r.id
    <3>1. PICK i \in DOMAIN F : F[i].id = r.id
      BY <2>3
    <3>2. PICK j \in 1 .. i : F[j].id = r.id /\ F[j].native = r.id
      BY <3>1 DEF LinesInv
    <3>3. j \in 1 .. n /\ j \in 1 .. k
      BY <1>2, <2>3, <3>2
    <3> QED
      BY <1>2, <2>3, <3>2, <3>3
  <2> QED
    BY <1>3, <2>1, <2>2, <2>3 DEF Adds, Belongs
<1>10. ASSUME NEW k \in DOMAIN G, NEW j \in Earlier(G, k), G[j].source = "database"
       PROVE  G[k].source = "database"
  <2>1. j \in 1 .. n /\ G[j] = F[j] /\ j < k /\ G[j].id = G[k].id
    BY <1>2 DEF Earlier
  <2>2. CASE k \in 1 .. n
    <3>1. j \in Earlier(F, k)
      BY <1>2, <2>1, <2>2 DEF Earlier
    <3> QED
      BY <1>2, <1>10, <2>1, <2>2, <3>1 DEF LinesInv
  <2>3. CASE k = n + 1
    <3>1. r.source # "transcript"
      BY <1>2, <1>10, <2>1 DEF Adds
    <3> QED
      BY <1>1, <1>2, <2>3, <3>1 DEF Lines
  <2> QED
    BY <1>3, <2>2, <2>3
<1> QED
  BY <1>2, <1>7, <1>8, <1>9, <1>10 DEF LinesInv, G

LEMMA RevisionsGrow ==
  ASSUME NEW F, LinesInv(F), RevisionInv(F), NEW r, Adds(F, r)
  PROVE  RevisionInv(Append(F, r))
<1> DEFINE G == Append(F, r)
           n == Len(F)
<1>1. F \in Seq(Lines) /\ r \in Lines
  BY DEF LinesInv, Adds
<1>2. /\ n \in Nat /\ DOMAIN F = 1 .. n /\ G \in Seq(Lines) /\ Len(G) = n + 1
      /\ DOMAIN G = 1 .. n + 1 /\ G[n + 1] = r /\ \A k \in 1 .. n : G[k] = F[k]
  BY <1>1, DomainIs, AppendIs
<1> HIDE DEF G, n
<1> DEFINE Fits(k) ==
             /\ G[k].revision = Cardinality(Earlier(G, k)) + 1
             /\ \A j \in Earlier(G, k) :
                  G[j].revision + 1 = G[k].revision =>
                    [G[j] EXCEPT !.revision = G[k].revision] # G[k]
<1>3. ASSUME NEW k \in 1 .. n
      PROVE  Fits(k)
  <2>1. \A j \in 1 .. k - 1 : j \in 1 .. n /\ G[j] = F[j]
    BY <1>2
  <2>2. Earlier(G, k) = Earlier(F, k) /\ \A j \in Earlier(F, k) : G[j] = F[j]
    BY <1>2, <2>1 DEF Earlier
  <2>3. k \in DOMAIN F /\ G[k] = F[k]
    BY <1>2
  <2> QED
    BY <2>2, <2>3 DEF RevisionInv
<1>7. Fits(n + 1) => RevisionInv(G)
  <2>1. \A k \in DOMAIN G : k \in 1 .. n \/ k = n + 1
    BY <1>2
  <2> HIDE DEF Fits
  <2>2. Fits(n + 1) => \A k \in DOMAIN G : Fits(k)
    BY <1>3, <2>1
  <2> QED
    BY <2>2 DEF Fits, RevisionInv
<1>4. Earlier(G, n + 1) = {j \in 1 .. n : F[j].id = r.id}
  BY <1>2 DEF Earlier
<1>5. CASE r.id \notin IdsOf(F)
  <2>1. Earlier(G, n + 1) = {}
    BY <1>2, <1>4, <1>5 DEF IdsOf
  <2>2. r.revision = 1
    BY <1>5 DEF Adds
  <2>3. r.revision = Cardinality(Earlier(G, n + 1)) + 1
    BY <2>1, <2>2, FS_EmptySet
  <2> QED
    BY <1>2, <1>7, <2>1, <2>3 DEF G
<1>6. CASE r.id \in IdsOf(F)
  <2>1. PICK m \in DOMAIN F : LastOf(F, r.id, m) /\ LatestOf(F, r.id) = F[m]
    BY <1>1, <1>6, LatestExists
  <2>2. m \in 1 .. n /\ m \in Nat /\ F[m].id = r.id /\ \A j \in m + 1 .. n : F[j].id # r.id
    BY <1>2, <2>1 DEF LastOf, n
  <2>3. Earlier(G, n + 1) = Earlier(F, m) \cup {m} /\ m \notin Earlier(F, m)
    <3>1. \A j \in 1 .. n : F[j].id = r.id => j <= m
      BY <1>2, <2>2
    <3>2. \A j \in 1 .. n : j \in 1 .. m - 1 \/ j = m \/ ~(j <= m)
      BY <1>2, <2>2
    <3>3. \A j \in 1 .. m - 1 : j \in 1 .. n /\ j # m
      BY <1>2, <2>2
    <3> QED
      BY <1>4, <2>2, <3>1, <3>2, <3>3 DEF Earlier
  <2>4. /\ IsFiniteSet(Earlier(F, m)) /\ Cardinality(Earlier(F, m)) \in Nat
        /\ Cardinality(Earlier(G, n + 1)) = Cardinality(Earlier(F, m)) + 1
    BY <2>2, <2>3, EarlierIs, FS_AddElement
  <2>5. F[m].revision = Cardinality(Earlier(F, m)) + 1 /\ r.revision = F[m].revision + 1
    <3>1. F[m].revision = Cardinality(Earlier(F, m)) + 1
      BY DEF RevisionInv
    <3> QED
      BY <1>6, <2>1, <3>1 DEF Adds
  <2>6. r.revision = Cardinality(Earlier(G, n + 1)) + 1
    BY <2>4, <2>5
  <2>7. ASSUME NEW j \in Earlier(G, n + 1), G[j].revision + 1 = r.revision
        PROVE  [G[j] EXCEPT !.revision = r.revision] # r
    <3>1. CASE j = m
      <4>1. [F[m] EXCEPT !.revision = r.revision] # r
        BY <1>6, <2>1 DEF Adds
      <4> QED
        BY <1>2, <2>2, <3>1, <4>1
    <3>2. CASE j \in Earlier(F, m)
      <4>1. j \in DOMAIN F /\ F[j].revision < F[m].revision
        BY <1>1, <3>2, RevisionsRise
      <4>2. F[j] \in Lines /\ F[m] \in Lines /\ G[j] = F[j]
        BY <1>1, <1>2, <2>2, <4>1, DomainIs
      <4>3. F[j].revision \in Nat /\ F[m].revision \in Nat
        BY <4>2 DEF Lines
      <4> QED
        BY <2>5, <2>7, <4>1, <4>2, <4>3
    <3> QED
      BY <2>3, <3>1, <3>2
  <2> QED
    BY <1>2, <1>7, <2>6, <2>7 DEF G
<1> QED
  BY <1>5, <1>6

LEMMA WaitingAfter ==
  ASSUME NEW F \in Seq(Lines), NEW r \in Lines, NEW text
  PROVE  Waiting(Append(F, r), text) =
           IF r.source = "transcript" /\ r.text = text
           THEN Waiting(F, text) \cup {r.id} ELSE Waiting(F, text) \ {r.id}
<1> DEFINE G == Append(F, r)
<1>1. /\ IdsOf(G) = IdsOf(F) \cup {r.id} /\ LatestOf(G, r.id) = r
      /\ \A id \in IdsOf(F) : id # r.id => LatestOf(G, id) = LatestOf(F, id)
  BY LatestAfter
<1> HIDE DEF G
<1>2. \A id : id # r.id => (id \in Waiting(G, text) <=> id \in Waiting(F, text))
  BY <1>1 DEF Waiting
<1>3. r.id \in Waiting(G, text) <=> (r.source = "transcript" /\ r.text = text)
  BY <1>1 DEF Waiting
<1> QED
  BY <1>2, <1>3 DEF G

LEMMA AdoptGrows ==
  ASSUME NEW F, LinesInv(F), AdoptInv(F), NEW r, Adds(F, r),
         \/ /\ r.source = "transcript" /\ r.id[1] = "transcript"
            /\ \A k \in DOMAIN F : F[k].id[1] = "transcript"
         \/ /\ r.source = "database"
            /\ \/ \E k \in DOMAIN F : F[k].id = r.id /\ F[k].text = r.text
               \/ r.text \in Messages => Waiting(F, r.text) = {}
  PROVE  AdoptInv(Append(F, r))
<1> DEFINE G == Append(F, r)
           n == Len(F)
<1>1. F \in Seq(Lines) /\ r \in Lines
  BY DEF LinesInv, Adds
<1>2. /\ DOMAIN F = 1 .. n /\ DOMAIN G = 1 .. n + 1 /\ n \in Nat
      /\ G[n + 1] = r /\ \A k \in 1 .. n : G[k] = F[k]
  BY <1>1, DomainIs, AppendIs
<1> HIDE DEF n
<1>3. \A text : Waiting(G, text) = IF r.source = "transcript" /\ r.text = text
                                   THEN Waiting(F, text) \cup {r.id} ELSE Waiting(F, text) \ {r.id}
  BY <1>1, WaitingAfter
<1> HIDE DEF G
<1>4. \A k \in DOMAIN G : (k \in DOMAIN F /\ G[k] = F[k]) \/ G[k] = r
  BY <1>2
<1>5. CASE r.source = "transcript"
  <2>1. \A k \in DOMAIN G : G[k].id[1] = "transcript"
    BY <1>4, <1>5
  <2> QED
    BY <2>1 DEF AdoptInv, G
<1>6. CASE r.source = "database"
  <2> SUFFICES ASSUME NEW text \in Messages, Waiting(G, text) # {}, NEW k \in DOMAIN G, G[k].text = text
               PROVE  G[k].id[1] = "transcript"
    BY DEF AdoptInv, G
  <2>1. Waiting(F, text) # {}
    BY <1>3, <1>6
  <2>2. \A j \in DOMAIN F : F[j].text = text => F[j].id[1] = "transcript"
    BY <2>1 DEF AdoptInv
  <2>3. CASE k \in DOMAIN F /\ G[k] = F[k]
    BY <2>2, <2>3
  <2>4. CASE G[k] = r
    <3>1. r.text = text /\ Waiting(F, r.text) # {}
      BY <2>1, <2>4
    <3>2. \E j \in DOMAIN F : F[j].id = r.id /\ F[j].text = r.text
      BY <1>6, <3>1
    <3> QED
      BY <2>2, <2>4, <3>1, <3>2
  <2> QED
    BY <1>4, <2>3, <2>4
<1> QED
  BY <1>5, <1>6

-----------------------------------------------------------------------------
(* The writer *)

LEMMA SaysSame ==
  ASSUME NEW a, NEW b, Says(a), Says(b)
  PROVE  /\ a.native[1] = a.source
         /\ a.native = b.native => a.text = b.text /\ a.source = b.source
BY DEF Says, SaysIn

(* Events are named after what was read of their source. *)
LEMMA NamesAre ==
  ASSUME LinesInv(file), SourceInv, NEW k \in DOMAIN file
  PROVE  \E j \in 1 .. k : /\ file[j].id = file[k].id /\ file[j].native = file[k].id
                           /\ file[k].id[1] = file[j].source /\ file[j].text = file[k].text
                           /\ j \in DOMAIN file
<1>1. DOMAIN file = 1 .. Len(file) /\ Len(file) \in Nat
  BY DomainIs DEF LinesInv
<1>2. PICK j \in 1 .. k : file[j].id = file[k].id /\ file[j].native = file[k].id
  BY DEF LinesInv
<1>3. j \in DOMAIN file /\ Says(file[j])
  <2>1. j \in DOMAIN file
    BY <1>1
  <2>2. \A i \in DOMAIN file : Says(file[i])
    BY Zenon DEF SourceInv
  <2> QED
    BY Zenon, <2>1, <2>2
<1>4. file[j].text = file[k].text
  BY <1>2, <1>3 DEF LinesInv
<1> QED
  BY <1>2, <1>3, <1>4, SaysSame

(* How the next observation is identified. *)
LEMMA IdentityIs ==
  ASSUME Inv, run # None, run.todo # <<>>, NEW e, e = Head(run.todo)
  PROVE  /\ e \in Events /\ Says(e) /\ run \in Writers
         /\ \/ /\ ~Adopts(e)
               /\ \E k \in DOMAIN file : /\ file[k].native = e.native /\ Identity(e) = file[k].id
                                         /\ file[k].text = e.text /\ file[k].source = e.source
            \/ /\ Adopts(e) /\ Identity(e) = Head(run.fallback[e.text])
               /\ e.source = "database" /\ e.text \in Messages /\ run.fallback[e.text] # <<>>
               /\ \A k \in DOMAIN file : file[k].native # e.native
            \/ /\ ~Adopts(e) /\ Identity(e) = e.native /\ e.native \notin IdsOf(file)
               /\ \A k \in DOMAIN file : file[k].native # e.native
               /\ e.source = "database" /\ e.text \in Messages => run.fallback[e.text] = <<>>
<1>1. LinesInv(file) /\ SourceInv /\ WriterInv
  BY DEF Inv
<1>2. run \in Writers /\ run.todo \in Seq(Events) /\ \A k \in DOMAIN run.todo : Says(run.todo[k])
  BY <1>1 DEF WriterInv, Writers
<1>3. e \in Events /\ e = run.todo[1] /\ 1 \in DOMAIN run.todo
  BY <1>2, HeadTailProperties, EmptySeq, DomainIs
<1>4. Says(e)
  BY <1>2, <1>3
<1>5. CASE \E k \in DOMAIN file : file[k].native = e.native /\ KnownAs(e.native) = {file[k].id}
  <2>1. PICK k \in DOMAIN file : file[k].native = e.native /\ KnownAs(e.native) = {file[k].id}
    BY <1>5
  <2>2. ~Adopts(e) /\ Identity(e) = file[k].id
    BY <2>1 DEF Adopts, Identity
  <2>3. file[k].text = e.text /\ file[k].source = e.source
    BY <1>1, <1>4, <2>1, SaysSame DEF SourceInv
  <2> QED
    BY <1>2, <1>3, <1>4, <2>1, <2>2, <2>3
<1>6. CASE KnownAs(e.native) = {} /\ \A k \in DOMAIN file : file[k].native # e.native
  <2>1. e.native \notin IdsOf(file) /\ e.native \notin Ids
    <3> SUFFICES ASSUME NEW k \in DOMAIN file, file[k].id = e.native
                 PROVE  FALSE
      BY DEF IdsOf, Ids
    <3>1. \E j \in DOMAIN file : file[j].native = file[k].id
      BY <1>1, NamesAre
    <3> QED
      BY <1>6, <3>1
  <2>2. CASE Adopts(e)
    BY <1>2, <1>3, <1>4, <1>6, <2>2 DEF Adopts, Identity
  <2>3. CASE ~Adopts(e)
    <3>1. Identity(e) = e.native
      BY <1>6, <2>3 DEF Identity
    <3>2. e.source = "database" /\ e.text \in Messages => run.fallback[e.text] = <<>>
      BY <1>6, <2>1, <2>3 DEF Adopts
    <3> QED
      BY <1>2, <1>3, <1>4, <1>6, <2>1, <2>3, <3>1, <3>2
  <2> QED
    BY <2>2, <2>3
<1> QED
  BY <1>1, <1>5, <1>6, KnownIs

LEMMA TailIs ==
  ASSUME NEW S, NEW q \in Seq(S), q # <<>>
  PROVE  /\ Tail(q) \in Seq(S) /\ Head(q) \in S
         /\ \A i \in DOMAIN Tail(q) : i + 1 \in DOMAIN q /\ Tail(q)[i] = q[i + 1]
         /\ Distinct(q) => /\ Distinct(Tail(q)) /\ ToSet(Tail(q)) = ToSet(q) \ {Head(q)}
                           /\ Head(q) \in ToSet(q)
<1>1. /\ Len(q) \in Nat \ {0} /\ Tail(q) \in Seq(S) /\ Len(Tail(q)) = Len(q) - 1
      /\ \A i \in 1 .. Len(Tail(q)) : Tail(q)[i] = q[i + 1]
      /\ Head(q) = q[1] /\ Head(q) \in S
  BY HeadTailProperties, EmptySeq, LenProperties
<1>2. DOMAIN q = 1 .. Len(q) /\ DOMAIN Tail(q) = 1 .. Len(q) - 1
  BY <1>1, DomainIs
<1>3. \A i \in DOMAIN Tail(q) : i + 1 \in DOMAIN q /\ Tail(q)[i] = q[i + 1]
  BY <1>1, <1>2
<1>4. ASSUME Distinct(q)
      PROVE  /\ Distinct(Tail(q)) /\ ToSet(Tail(q)) = ToSet(q) \ {Head(q)}
             /\ Head(q) \in ToSet(q)
  <2>1. \A i, j \in DOMAIN q : q[i] = q[j] => i = j
    BY <1>2, <1>4 DEF Distinct
  <2>2. Distinct(Tail(q))
    BY <1>1, <1>2, <1>3, <2>1 DEF Distinct
  <2>3. \A i \in DOMAIN Tail(q) : Tail(q)[i] \in ToSet(q) /\ Tail(q)[i] # Head(q)
    <3>1. \A i \in DOMAIN Tail(q) : i + 1 # 1 /\ 1 \in DOMAIN q
      BY <1>1, <1>2
    <3> QED
      BY <1>1, <1>3, <2>1, <3>1 DEF ToSet
  <2>4. ASSUME NEW i \in DOMAIN q, q[i] # Head(q)
        PROVE  q[i] \in ToSet(Tail(q))
    <3>1. i - 1 \in DOMAIN Tail(q) /\ (i - 1) + 1 = i
      BY <1>1, <1>2, <2>4
    <3> QED
      BY <1>3, <3>1 DEF ToSet
  <2>5. Head(q) \in ToSet(q)
    BY <1>1, <1>2 DEF ToSet
  <2> QED
    BY <2>2, <2>3, <2>4, <2>5 DEF ToSet
<1> QED
  BY <1>1, <1>3, <1>4

(* A recorded observation is a line that fits. *)
LEMMA RecordAdds ==
  ASSUME Inv, run # None, run.todo # <<>>, NEW e, e = Head(run.todo),
         ~(e.source = "transcript" /\ run.hasDB), ~Same(e, Identity(e))
  PROVE  Adds(file, Record(e, Identity(e)))
<1> DEFINE id == Identity(e)
           r == Record(e, id)
<1>1. LinesInv(file) /\ SourceInv /\ WriterInv /\ file \in Seq(Lines)
  BY DEF Inv, LinesInv
<1>2. e \in Events /\ run \in Writers
  BY IdentityIs
<1>3. Ids = IdsOf(file) /\ Latest(id) = LatestOf(file, id)
  BY DEF Ids, IdsOf, Latest, LatestOf, LastOf
<1>4. \/ /\ ~Adopts(e)
         /\ \E k \in DOMAIN file : file[k].native = e.native /\ id = file[k].id /\ file[k].text = e.text
      \/ /\ id = Head(run.fallback[e.text]) /\ e.source = "database" /\ e.text \in Messages
         /\ run.fallback[e.text] # <<>> /\ \A k \in DOMAIN file : file[k].native # e.native
      \/ /\ id = e.native /\ \A k \in DOMAIN file : file[k].native # e.native
  BY IdentityIs
<1>5. 1 \in DOMAIN run.todo /\ e = run.todo[1]
  BY <1>2, HeadTailProperties, EmptySeq, DomainIs DEF Writers
<1> HIDE DEF id
<1>6. \/ \E k \in DOMAIN file : file[k].native = e.native /\ id = file[k].id /\ file[k].text = e.text
      \/ /\ id = e.native /\ \A k \in DOMAIN file : file[k].native # e.native
      \/ /\ \A k \in DOMAIN file : file[k].native # e.native
         /\ \E k \in DOMAIN file : id = file[k].id /\ file[k].text = e.text
  <2>1. CASE /\ id = Head(run.fallback[e.text]) /\ e.source = "database" /\ e.text \in Messages
             /\ run.fallback[e.text] # <<>> /\ \A k \in DOMAIN file : file[k].native # e.native
    <3>1. run.fallback[e.text] \in Seq(Natives)
      BY <1>2, <2>1 DEF Writers
    <3>2. /\ Distinct(run.fallback[e.text])
          /\ ToSet(run.fallback[e.text]) = Waiting(file, e.text)
      BY <1>1, <1>5, <2>1 DEF WriterInv
    <3>3. id \in Waiting(file, e.text)
      BY <2>1, <3>1, <3>2, TailIs
    <3>4. PICK k \in DOMAIN file : LastOf(file, id, k) /\ LatestOf(file, id) = file[k]
      BY <1>1, <3>3, LatestExists DEF Waiting
    <3> QED
      BY <2>1, <3>3, <3>4 DEF Waiting, LastOf
  <2> QED
    BY <1>4, <2>1
<1>7. r.id = id /\ r.native = e.native /\ r.text = e.text /\ r.source = e.source /\ r.quality = e.quality
      /\ r.revision = IF id \in IdsOf(file) THEN LatestOf(file, id).revision + 1 ELSE 1
  BY <1>3 DEF Record
<1>8. id \in Natives /\ (id \in IdsOf(file) => LatestOf(file, id) \in Lines)
  <2>1. \A k \in DOMAIN file : file[k].id \in Natives
    <3>1. \A k \in DOMAIN file : file[k] \in Lines
      BY <1>1, DomainIs
    <3> QED
      BY <3>1 DEF Lines
  <2>2. id \in Natives
    BY <1>2, <1>6, <2>1 DEF Events
  <2> QED
    BY <1>1, <2>2, LatestExists, DomainIs
<1>9. r \in Lines
  <2>1. r.revision \in Nat \ {0}
    BY <1>7, <1>8 DEF Lines
  <2> QED
    BY <1>2, <1>7, <1>8, <2>1 DEF Lines, Events, Record
<1>10. e.source = "transcript" => \A k \in DOMAIN file : file[k].source = "transcript"
  BY <1>1, <1>5 DEF WriterInv
<1>11. id \in IdsOf(file) => [LatestOf(file, id) EXCEPT !.revision = r.revision] # r
  <2>1. id \in IdsOf(file) =>
          \/ LatestOf(file, id).native # e.native \/ LatestOf(file, id).source # e.source
          \/ LatestOf(file, id).text # e.text \/ LatestOf(file, id).quality # e.quality
    BY <1>3 DEF Same, id
  <2> QED
    BY <1>7, <1>8, <2>1 DEF Lines
<1> HIDE DEF r
<1>12. Belongs(file, r)
  BY <1>6, <1>7 DEF Belongs
<1> QED
  BY <1>7, <1>9, <1>10, <1>11, <1>12 DEF Adds, r, id

LEMMA SourceStays ==
  ASSUME SourceInv, UNCHANGED <<transcript, database>>, \A k \in DOMAIN file' : Says(file'[k])
  PROVE  SourceInv'
<1>1. Said' = Said
  BY DEF Said
<1>2. \A k \in DOMAIN file' : SaysIn(transcript', database', file'[k])
  BY DEF Says
<1> QED
  BY <1>1, <1>2 DEF SourceInv, Says

(* What is recorded keeps the lines in order, and what waits apart. *)
LEMMA RecordKeeps ==
  ASSUME Inv, run # None, run.todo # <<>>, NEW e, e = Head(run.todo),
         ~(e.source = "transcript" /\ run.hasDB), ~Same(e, Identity(e)),
         file' = Append(file, Record(e, Identity(e))), UNCHANGED <<transcript, database>>
  PROVE  /\ LinesInv(file') /\ RevisionInv(file') /\ AdoptInv(file') /\ SourceInv'
         /\ file' \in Seq(Lines) /\ Len(file') = Len(file) + 1
         /\ \A k \in 1 .. Len(file) : file'[k] = file[k]
         /\ e.source = "transcript" => \A k \in DOMAIN file' : file'[k].source = "transcript"
<1> DEFINE r == Record(e, Identity(e))
<1>1. LinesInv(file) /\ RevisionInv(file) /\ AdoptInv(file) /\ SourceInv /\ WriterInv
  BY DEF Inv
<1>2. Adds(file, r)
  BY RecordAdds
<1>3. /\ e \in Events /\ Says(e) /\ run \in Writers /\ r.text = e.text /\ r.source = e.source
      /\ r.native = e.native /\ r.quality = e.quality /\ r.id = Identity(e)
  BY IdentityIs DEF Record
<1>4. 1 \in DOMAIN run.todo /\ e = run.todo[1]
  BY <1>3, HeadTailProperties, EmptySeq, DomainIs DEF Writers
<1>5. file \in Seq(Lines) /\ r \in Lines
  BY <1>1, <1>2 DEF LinesInv, Adds
<1>6. \/ \E k \in DOMAIN file : file[k].native = e.native /\ r.id = file[k].id /\ file[k].text = e.text
      \/ /\ r.id = Head(run.fallback[e.text]) /\ e.source = "database" /\ e.text \in Messages
         /\ run.fallback[e.text] # <<>>
      \/ /\ r.id = e.native /\ \A k \in DOMAIN file : file[k].native # e.native
         /\ e.source = "database" /\ e.text \in Messages => run.fallback[e.text] = <<>>
  BY <1>3, IdentityIs
<1> HIDE DEF r
<1>7. e.source = "transcript" => AdoptInv(Append(file, r))
  <2> SUFFICES ASSUME e.source = "transcript"
               PROVE  AdoptInv(Append(file, r))
    OBVIOUS
  <2>1. \A k \in DOMAIN file : file[k].source = "transcript"
    BY <1>2, <1>3 DEF Adds
  <2>2. ASSUME NEW k \in DOMAIN file
        PROVE  file[k].id[1] = "transcript"
    <3>1. PICK j \in 1 .. k : file[k].id[1] = file[j].source /\ j \in DOMAIN file
      BY Zenon, <1>1, NamesAre
    <3> QED
      BY Zenon, <2>1, <3>1
  <2>3. e.native[1] = "transcript"
    BY <1>3, SaysSame
  <2>4. r.id[1] = "transcript"
    BY <1>6, <2>2, <2>3
  <2> QED
    BY <1>1, <1>2, <1>3, <2>2, <2>4, AdoptGrows
<1>8. e.source = "database" => AdoptInv(Append(file, r))
  <2> SUFFICES ASSUME e.source = "database"
               PROVE  AdoptInv(Append(file, r))
    OBVIOUS
  <2>1. \A text \in Messages : Distinct(run.fallback[text]) /\ ToSet(run.fallback[text]) = Waiting(file, text)
    BY <1>1, <1>4 DEF WriterInv
  <2>2. CASE r.id = Head(run.fallback[e.text]) /\ e.text \in Messages /\ run.fallback[e.text] # <<>>
    <3>1. run.fallback[e.text] \in Seq(Natives)
      BY <1>3, <2>2 DEF Writers
    <3>2. r.id \in Waiting(file, e.text)
      BY <2>1, <2>2, <3>1, TailIs
    <3>3. PICK k \in DOMAIN file : LastOf(file, r.id, k) /\ LatestOf(file, r.id) = file[k]
      BY <1>5, <3>2, LatestExists DEF Waiting
    <3>4. file[k].id = r.id /\ file[k].text = r.text
      BY <1>3, <3>2, <3>3 DEF Waiting, LastOf
    <3> QED
      BY <1>1, <1>2, <1>3, <3>4, AdoptGrows
  <2>3. CASE \E k \in DOMAIN file : file[k].native = e.native /\ r.id = file[k].id /\ file[k].text = e.text
    BY <1>1, <1>2, <1>3, <2>3, AdoptGrows
  <2>4. CASE e.text \in Messages => run.fallback[e.text] = <<>>
    <3>1. r.text \in Messages => Waiting(file, r.text) = {}
      BY <1>3, <2>1, <2>4 DEF ToSet
    <3> QED
      BY <1>1, <1>2, <1>3, <3>1, AdoptGrows
  <2> QED
    BY <1>6, <2>2, <2>3, <2>4
<1>9. /\ DOMAIN file = 1 .. Len(file) /\ DOMAIN file' = 1 .. Len(file) + 1 /\ Len(file) \in Nat
      /\ file' \in Seq(Lines) /\ Len(file') = Len(file) + 1
      /\ file'[Len(file) + 1] = r /\ \A k \in 1 .. Len(file) : file'[k] = file[k]
  BY <1>5, DomainIs, AppendIs DEF r
<1>10. \A k \in DOMAIN file' : (k \in DOMAIN file /\ file'[k] = file[k]) \/ file'[k] = r
  BY <1>9
<1>11. AdoptInv(file')
  BY <1>3, <1>7, <1>8 DEF Events, r
<1>12. LinesInv(file') /\ RevisionInv(file')
  BY <1>1, <1>2, LinesGrow, RevisionsGrow DEF r
<1>13. Says(r)
  BY <1>3 DEF Says, SaysIn, r, Record
<1>14. \A k \in DOMAIN file' : Says(file'[k])
  BY <1>1, <1>10, <1>13 DEF SourceInv
<1>15. SourceInv'
  BY <1>1, <1>14, SourceStays
<1>16. e.source = "transcript" => \A k \in DOMAIN file' : file'[k].source = "transcript"
  BY <1>2, <1>3, <1>10 DEF Adds
<1> QED
  BY <1>9, <1>11, <1>12, <1>15, <1>16

(* The writer's view stays true of what is left of its observations. *)
LEMMA AppendInv ==
  ASSUME Inv, Append1
  PROVE  Inv'
<1> DEFINE e == Head(run.todo)
           id == Identity(e)
           passed == (e.source = "transcript" /\ run.hasDB) \/ Worse(e, id) \/ Same(e, id)
<1>1. /\ LinesInv(file) /\ RevisionInv(file) /\ AdoptInv(file) /\ SourceInv /\ WriterInv /\ SentInv
      /\ partial \in BOOLEAN /\ run # None /\ run.todo # <<>>
  BY DEF Inv, Append1
<1>2. /\ run' = [run EXCEPT !.todo = Tail(run.todo),
                            !.fallback = IF Adopts(e)
                                         THEN [run.fallback EXCEPT ![e.text] = Tail(run.fallback[e.text])]
                                         ELSE run.fallback]
      /\ file' = IF passed THEN file ELSE Append(file, IF partial THEN Broken ELSE Record(e, id))
      /\ partial' = (partial /\ passed)
      /\ UNCHANGED <<transcript, database, sent>>
  BY DEF Append1
<1>3. ~partial /\ run \in Writers /\ run.todo \in Seq(Events)
  BY <1>1 DEF WriterInv, Writers
<1>4. /\ e \in Events /\ Says(e) /\ 1 \in DOMAIN run.todo /\ e = run.todo[1]
      /\ Tail(run.todo) \in Seq(Events)
      /\ \A i \in DOMAIN Tail(run.todo) : i + 1 \in DOMAIN run.todo /\ Tail(run.todo)[i] = run.todo[i + 1]
  <2>1. e = run.todo[1] /\ 1 \in DOMAIN run.todo
    BY <1>1, <1>3, HeadTailProperties, EmptySeq, DomainIs
  <2> QED
    BY <1>1, <1>3, <2>1, IdentityIs, TailIs
<1>5. file \in Seq(Lines)
  BY <1>1 DEF LinesInv
<1>6. \/ /\ ~Adopts(e)
         /\ \E k \in DOMAIN file : /\ file[k].native = e.native /\ id = file[k].id
                                   /\ file[k].text = e.text /\ file[k].source = e.source
      \/ /\ Adopts(e) /\ id = Head(run.fallback[e.text])
         /\ e.source = "database" /\ e.text \in Messages /\ run.fallback[e.text] # <<>>
         /\ \A k \in DOMAIN file : file[k].native # e.native
      \/ /\ ~Adopts(e) /\ id = e.native /\ e.native \notin IdsOf(file)
  BY <1>1, IdentityIs
<1>7. Ids = IdsOf(file) /\ Latest(id) = LatestOf(file, id)
  BY DEF Ids, IdsOf, Latest, LatestOf, LastOf
<1> HIDE DEF e, id, passed
<1>8. Adopts(e) =>
        /\ run.fallback[e.text] \in Seq(Natives)
        /\ Distinct(run.fallback[e.text]) /\ ToSet(run.fallback[e.text]) = Waiting(file, e.text)
        /\ id \in Waiting(file, e.text)
  <2> SUFFICES ASSUME Adopts(e)
               PROVE  /\ run.fallback[e.text] \in Seq(Natives)
                      /\ Distinct(run.fallback[e.text])
                      /\ ToSet(run.fallback[e.text]) = Waiting(file, e.text)
                      /\ id \in Waiting(file, e.text)
    OBVIOUS
  <2>1. id = Head(run.fallback[e.text]) /\ e.source = "database" /\ e.text \in Messages
        /\ run.fallback[e.text] # <<>>
    BY <1>6
  <2>2. run.fallback[e.text] \in Seq(Natives)
    BY <1>3, <2>1 DEF Writers
  <2>3. /\ Distinct(run.fallback[e.text]) /\ ToSet(run.fallback[e.text]) = Waiting(file, e.text)
    BY <1>1, <1>4, <2>1 DEF WriterInv
  <2> QED
    BY <2>1, <2>2, <2>3, TailIs
<1>9. Adopts(e) => ~passed
  <2> SUFFICES ASSUME Adopts(e)
               PROVE  ~passed
    OBVIOUS
  <2>1. id \in IdsOf(file) /\ LatestOf(file, id).source = "transcript" /\ e.source = "database"
    BY <1>6, <1>8 DEF Waiting
  <2>2. PICK k \in DOMAIN file : LatestOf(file, id) = file[k]
    BY <1>5, <2>1, LatestExists
  <2>3. Says(file[k])
    BY <1>1 DEF SourceInv
  <2>4. file[k].quality = "partial"
    BY <2>1, <2>2, <2>3 DEF Says, SaysIn
  <2>5. ~Worse(e, id)
    BY <1>7, <2>2, <2>4 DEF Worse
  <2>6. ~Same(e, id)
    BY <1>7, <2>1 DEF Same
  <2> QED
    BY <2>1, <2>5, <2>6 DEF passed
<1>10. run' \in Writers /\ partial' = FALSE /\ run'.todo = Tail(run.todo) /\ run'.hasDB = run.hasDB
  <2>1. Adopts(e) => [run.fallback EXCEPT ![e.text] = Tail(run.fallback[e.text])] \in [Messages -> Seq(Natives)]
    <3> SUFFICES ASSUME Adopts(e)
                 PROVE  [run.fallback EXCEPT ![e.text] = Tail(run.fallback[e.text])] \in [Messages -> Seq(Natives)]
      OBVIOUS
    <3>1. Tail(run.fallback[e.text]) \in Seq(Natives)
      BY <1>6, <1>8, TailIs
    <3>2. run.fallback \in [Messages -> Seq(Natives)]
      BY <1>3 DEF Writers
    <3> QED
      BY <3>1, <3>2
  <2> QED
    BY <1>2, <1>3, <1>4, <2>1 DEF Writers
<1>11. CASE passed
  <2>1. ~Adopts(e) /\ file' = file /\ run'.fallback = run.fallback
    BY <1>2, <1>3, <1>9, <1>11 DEF Writers
  <2>2. SourceInv'
    BY <1>1, <1>2, <2>1, SourceStays DEF SourceInv
  <2>3. SentInv'
    BY <1>1, <1>2, <2>1 DEF SentInv
  <2>4. \A k \in DOMAIN run'.todo : SaysIn(transcript', database', run'.todo[k])
    BY <1>1, <1>2, <1>4, <1>10 DEF WriterInv, Says
  <2>5. \A k \in DOMAIN run'.todo : \E j \in DOMAIN run.todo : run'.todo[k] = run.todo[j]
    BY <1>4, <1>10
  <2>6. WriterInv'
    BY <1>1, <1>10, <2>1, <2>4, <2>5 DEF WriterInv, Says
  <2> QED
    BY <1>1, <1>10, <2>1, <2>2, <2>3, <2>6 DEF Inv
<1>12. CASE ~passed
  <2> DEFINE r == Record(e, id)
  <2>1. file' = Append(file, r) /\ ~(e.source = "transcript" /\ run.hasDB) /\ ~Same(e, id)
    BY <1>2, <1>3, <1>12 DEF passed
  <2>2. /\ LinesInv(file') /\ RevisionInv(file') /\ AdoptInv(file') /\ SourceInv'
        /\ file' \in Seq(Lines) /\ Len(file') = Len(file) + 1
        /\ \A k \in 1 .. Len(file) : file'[k] = file[k]
        /\ e.source = "transcript" => \A k \in DOMAIN file' : file'[k].source = "transcript"
    BY <1>1, <1>2, <2>1, RecordKeeps DEF e, id
  <2>3. r \in Lines /\ r.id = id /\ r.source = e.source /\ r.text = e.text
    BY <1>1, <2>1, RecordAdds DEF Adds, Record, e, id
  <2> HIDE DEF r
  <2>4. SentInv'
    <3>1. Len(sent) \in Nat /\ Len(file) \in Nat /\ Len(sent) <= Len(file)
      BY <1>1, <1>5, DomainIs DEF SentInv
    <3> QED
      BY <1>1, <1>2, <2>2, <3>1 DEF SentInv
  <2>5. \A k \in DOMAIN run'.todo : SaysIn(transcript', database', run'.todo[k])
    BY <1>1, <1>2, <1>4, <1>10 DEF WriterInv, Says
  <2>6. \A k \in DOMAIN run'.todo : \E j \in DOMAIN run.todo : run'.todo[k] = run.todo[j]
    BY <1>4, <1>10
  <2>7. CASE e.source = "transcript"
    <3>1. \A k \in DOMAIN run'.todo : run'.todo[k].source = "transcript"
      BY <1>1, <1>4, <2>6, <2>7 DEF WriterInv
    <3>2. WriterInv'
      BY <1>10, <2>2, <2>5, <2>7, <3>1 DEF WriterInv, Says
    <3> QED
      BY <1>10, <2>2, <2>4, <3>2 DEF Inv
  <2>8. CASE e.source = "database"
    <3>1. /\ \A k \in DOMAIN run'.todo : run'.todo[k].source = "database"
          /\ \A text \in Messages :
               Distinct(run.fallback[text]) /\ ToSet(run.fallback[text]) = Waiting(file, text)
      BY <1>1, <1>4, <2>6, <2>8 DEF WriterInv
    <3>2. \A text \in Messages : Waiting(file', text) = Waiting(file, text) \ {id}
      BY <1>5, <2>1, <2>3, <2>8, WaitingAfter
    <3>3. ASSUME NEW text \in Messages
          PROVE  /\ Distinct(run'.fallback[text])
                 /\ ToSet(run'.fallback[text]) = Waiting(file, text) \ {id}
      <4>1. CASE Adopts(e) /\ text = e.text
        <5>1. run'.fallback[text] = Tail(run.fallback[text])
          BY <1>2, <1>3, <4>1 DEF Writers
        <5> QED
          BY <1>6, <1>8, <4>1, <5>1, TailIs
      <4>2. CASE Adopts(e) /\ text # e.text
        <5>1. run'.fallback[text] = run.fallback[text]
          BY <1>2, <1>3, <4>2 DEF Writers
        <5>2. id \notin Waiting(file, text)
          BY <1>8, <4>2 DEF Waiting
        <5> QED
          BY <3>1, <5>1, <5>2
      <4>3. CASE ~Adopts(e)
        <5>1. run'.fallback[text] = run.fallback[text]
          BY <1>2, <1>3, <4>3 DEF Writers
        <5>2. id \notin Waiting(file, text)
          <6>1. CASE id \notin IdsOf(file)
            BY <6>1 DEF Waiting
          <6>2. CASE \E k \in DOMAIN file : id = file[k].id /\ file[k].source = e.source
            <7>1. LatestOf(file, id).source = "database"
              BY <1>1, <2>8, <6>2, LatestIsLine
            <7> QED
              BY <7>1 DEF Waiting
          <6> QED
            BY <1>6, <4>3, <6>1, <6>2
        <5> QED
          BY <3>1, <5>1, <5>2
      <4> QED
        BY <4>1, <4>2, <4>3
    <3>4. \A text \in Messages :
            Distinct(run'.fallback[text]) /\ ToSet(run'.fallback[text]) = Waiting(file', text)
      BY <3>2, <3>3
    <3>5. WriterInv'
      BY <1>10, <2>5, <3>1, <3>4 DEF WriterInv, Says
    <3> QED
      BY <1>10, <2>2, <2>4, <3>5 DEF Inv
  <2> QED
    BY <1>4, <2>7, <2>8 DEF Events
<1> QED
  BY <1>11, <1>12

(* A writer that opened the journal knows what it says. *)
LEMMA OpenInv ==
  ASSUME Inv, NEW observations \in Observations, Open(observations)
  PROVE  Inv'
<1>1. /\ LinesInv(file) /\ RevisionInv(file) /\ AdoptInv(file) /\ SourceInv /\ SentInv
      /\ file \in Seq(Lines) /\ transcript \in Seq(Messages) /\ database \in Seq(SavedEvents)
  BY DEF Inv, LinesInv, SourceInv
<1>2. /\ UNCHANGED <<transcript, database, sent, file>> /\ partial' = FALSE
  BY DEF Open
<1> DEFINE hasDB == \E id \in Ids : Latest(id).source = "database"
           fallback == [text \in Messages |-> Fallback(text)]
<1>3. run' = [todo |-> observations, hasDB |-> hasDB, fallback |-> fallback]
  BY DEF Open
<1>4. \A text : Fallback(text) = FallbackOf(file, text)
  BY DEF Fallback, FallbackOf, FirstOf, Latest, LatestOf, LastOf
<1>5. /\ fallback \in [Messages -> Seq(Natives)]
      /\ \A text \in Messages :
           Distinct(fallback[text]) /\ ToSet(fallback[text]) = Waiting(file, text)
  BY <1>1, <1>4, FallbackIs
<1>6. ~hasDB => \A k \in DOMAIN file : file[k].source = "transcript"
  <2> SUFFICES ASSUME NEW k \in DOMAIN file, file[k].source # "transcript"
               PROVE  hasDB
    OBVIOUS
  <2>1. file[k] \in Lines
    BY <1>1, DomainIs
  <2>2. file[k].source = "database"
    BY <2>1 DEF Lines
  <2>3. LatestOf(file, file[k].id).source = "database"
    BY <1>1, <2>2, LatestIsLine
  <2> QED
    BY <2>3 DEF Ids, Latest, LatestOf, LastOf
<1>7. \/ observations = [i \in DOMAIN transcript |-> FromTranscript(i)]
      \/ \E first, last \in DOMAIN database :
           observations = [i \in 1 .. last - first + 1 |-> FromDatabase(first + i - 1)]
  BY DEF Observations
<1> HIDE DEF hasDB, fallback
<1>8. CASE observations = [i \in DOMAIN transcript |-> FromTranscript(i)]
  <2>1. \A i \in DOMAIN transcript : /\ FromTranscript(i) \in Events /\ Says(FromTranscript(i))
                                     /\ FromTranscript(i).source = "transcript"
    <3> SUFFICES ASSUME NEW i \in DOMAIN transcript
                 PROVE  /\ FromTranscript(i) \in Events /\ Says(FromTranscript(i))
                        /\ FromTranscript(i).source = "transcript"
      OBVIOUS
    <3>1. i \in Nat \ {0} /\ transcript[i] \in Messages
      BY <1>1, DomainIs
    <3>2. FromTranscript(i) \in Events
      BY <3>1 DEF FromTranscript, Events, Natives, Texts, Quality
    <3>3. Says(FromTranscript(i))
      BY DEF FromTranscript, Says, SaysIn
    <3> QED
      BY <3>2, <3>3 DEF FromTranscript
  <2>2. DOMAIN transcript = 1 .. Len(transcript) /\ Len(transcript) \in Nat
    BY <1>1, DomainIs
  <2>3. observations \in Seq(Events)
    BY <1>8, <2>1, <2>2, SeqDef
  <2>4. run' \in Writers
    BY <1>3, <1>5, <2>3 DEF Writers, hasDB
  <2>5. \A k \in DOMAIN run'.todo :
          SaysIn(transcript', database', run'.todo[k]) /\ run'.todo[k].source = "transcript"
    BY <1>2, <1>3, <1>8, <2>1 DEF Says
  <2>6. WriterInv'
    BY <1>2, <1>3, <1>6, <2>4, <2>5 DEF WriterInv, Says
  <2>7. SourceInv' /\ SentInv'
    BY <1>1, <1>2, SourceStays DEF SourceInv, SentInv
  <2> QED
    BY <1>1, <1>2, <2>6, <2>7 DEF Inv
<1>9. CASE \E first, last \in DOMAIN database :
             observations = [i \in 1 .. last - first + 1 |-> FromDatabase(first + i - 1)]
  <2>1. PICK first, last \in DOMAIN database :
          observations = [i \in 1 .. last - first + 1 |-> FromDatabase(first + i - 1)]
    BY <1>9
  <2>2. /\ first \in Nat \ {0} /\ last \in Nat \ {0} /\ DOMAIN database = 1 .. Len(database)
        /\ first \in 1 .. Len(database) /\ last \in 1 .. Len(database) /\ Len(database) \in Nat
    BY <1>1, DomainIs
  <2>3. \A i \in DOMAIN database : /\ FromDatabase(i) \in Events /\ Says(FromDatabase(i))
                                   /\ FromDatabase(i).source = "database"
    <3> SUFFICES ASSUME NEW i \in DOMAIN database
                 PROVE  /\ FromDatabase(i) \in Events /\ Says(FromDatabase(i))
                        /\ FromDatabase(i).source = "database"
      OBVIOUS
    <3>1. i \in Nat \ {0} /\ database[i] \in SavedEvents
      BY <1>1, DomainIs
    <3>2. FromDatabase(i) \in Events
      BY <3>1 DEF FromDatabase, Events, Natives, SavedEvents
    <3>3. Says(FromDatabase(i))
      BY DEF FromDatabase, Says, SaysIn
    <3> QED
      BY <3>2, <3>3 DEF FromDatabase
  <2>4. observations # <<>> /\ last - first + 1 \in Int
    BY <2>2 DEF Open
  <2>5. last - first + 1 \in Nat
    <3>1. ASSUME last - first + 1 < 0
          PROVE  FALSE
      <4>1. DOMAIN observations = {}
        BY <2>1, <2>2, <3>1
      <4>2. observations \in Seq(Events) /\ Len(observations) = 0
        <5>1. observations = [i \in 1 .. 0 |-> FromDatabase(first + i - 1)]
          BY <2>1, <2>2, <3>1
        <5> HIDE DEF FromDatabase
        <5>2. observations \in [1 .. 0 -> Events]
          BY <5>1
        <5> QED
          BY <5>2, SeqDef, LenProperties
      <4> QED
        BY <2>4, <4>2, EmptySeq
    <3> QED
      BY <2>4, <3>1
  <2>6. \A i \in 1 .. last - first + 1 : first + i - 1 \in DOMAIN database
    BY <2>2
  <2>7. observations \in Seq(Events)
    BY <2>1, <2>3, <2>5, <2>6, SeqDef
  <2>8. run' \in Writers
    BY <1>3, <1>5, <2>7 DEF Writers, hasDB
  <2>9. \A k \in DOMAIN run'.todo :
          SaysIn(transcript', database', run'.todo[k]) /\ run'.todo[k].source = "database"
    BY <1>2, <1>3, <2>1, <2>3, <2>6 DEF Says
  <2>10. WriterInv'
    BY <1>2, <1>3, <1>5, <2>8, <2>9 DEF WriterInv, Says
  <2>11. SourceInv' /\ SentInv'
    BY <1>1, <1>2, SourceStays DEF SourceInv, SentInv
  <2> QED
    BY <1>1, <1>2, <2>10, <2>11 DEF Inv
<1> QED
  BY <1>7, <1>8, <1>9

LEMMA EndInv ==
  ASSUME Inv, Close \/ Stop
  PROVE  Inv'
<1>1. UNCHANGED <<transcript, database, file, sent>> /\ run' = None /\ partial' \in BOOLEAN
  BY DEF Close, Stop, Inv
<1>2. SourceInv' /\ SentInv'
  BY <1>1, SourceStays DEF Inv, SourceInv, SentInv
<1> QED
  BY <1>1, <1>2 DEF Inv, WriterInv

LEMMA UploadInv ==
  ASSUME Inv, Upload
  PROVE  Inv'
<1>1. UNCHANGED <<transcript, database, file, partial, run>> /\ sent' = file /\ file \in Seq(Lines)
  BY DEF Upload, Inv, LinesInv
<1>2. SourceInv'
  BY <1>1, SourceStays DEF Inv, SourceInv
<1>3. SentInv'
  BY <1>1, DomainIs DEF SentInv
<1> QED
  BY <1>1, <1>2, <1>3 DEF Inv, WriterInv, Says

-----------------------------------------------------------------------------
(* Cursor *)

LEMMA SaidIs ==
  ASSUME SourceInv
  PROVE  /\ Said \subseteq DOMAIN database /\ Said \in SUBSET Nat /\ IsFiniteSet(Said)
         /\ Cardinality(Said) \in Nat
         /\ Len(database) \in Nat /\ DOMAIN database = 1 .. Len(database)
<1>1. Len(database) \in Nat /\ DOMAIN database = 1 .. Len(database)
  BY DomainIs DEF SourceInv
<1>2. Said \subseteq 1 .. Len(database) /\ IsFiniteSet(1 .. Len(database))
  BY <1>1, FS_Interval DEF Said
<1>3. IsFiniteSet(Said)
  BY <1>2, FS_Subset
<1>4. Cardinality(Said) \in Nat
  BY <1>3, FS_CardinalityType
<1> QED
  BY <1>1, <1>2, <1>3, <1>4

(* What was read stays true when more is saved or listed. *)
LEMMA WorldInv ==
  ASSUME Inv, UNCHANGED <<file, partial, run, sent>>,
         transcript' \in Seq(Messages), database' \in Seq(SavedEvents),
         \A i \in DOMAIN transcript : i \in DOMAIN transcript' /\ transcript'[i] = transcript[i],
         \A i \in DOMAIN database : i \in DOMAIN database' /\ database'[i].text = database[i].text,
         Len(transcript') <= Cardinality(Said'),
         \A k \in DOMAIN transcript' : \E i \in Said' :
           Cardinality(Before(Said', i)) = k - 1 /\ database'[i].text = transcript'[k]
  PROVE  Inv'
<1>1. \A r : SaysIn(transcript, database, r) => SaysIn(transcript', database', r)
  BY DEF SaysIn
<1>2. SourceInv'
  BY <1>1 DEF Inv, SourceInv, Says
<1>3. WriterInv'
  BY <1>1 DEF Inv, WriterInv, Says
<1> QED
  BY <1>2, <1>3 DEF Inv, SentInv

LEMMA SaveInv ==
  ASSUME Inv, Save
  PROVE  Inv'
<1>1. SourceInv /\ transcript \in Seq(Messages) /\ database \in Seq(SavedEvents)
  BY DEF Inv, SourceInv
<1>2. /\ UNCHANGED <<transcript, file, partial, run, sent>>
      /\ \E e \in SavedEvents : database' = Append(database, e)
  BY DEF Save, SavedEvents, Texts, Quality
<1>3. PICK e \in SavedEvents : database' = Append(database, e)
  BY <1>2
<1> DEFINE n == Len(database)
<1>4. /\ Said \subseteq 1 .. n /\ Said \in SUBSET Nat /\ IsFiniteSet(Said) /\ Cardinality(Said) \in Nat
      /\ n \in Nat /\ DOMAIN database = 1 .. n
  BY <1>1, SaidIs
<1>5. /\ database' \in Seq(SavedEvents) /\ DOMAIN database' = 1 .. n + 1
      /\ \A i \in 1 .. n : database'[i] = database[i]
  BY <1>1, <1>3, AppendIs
<1> HIDE DEF n
<1>6. Said \subseteq Said' /\ Said' \subseteq 1 .. n + 1 /\ \A i \in Said' : i \in Said \/ i = n + 1
  <2>1. \A i \in 1 .. n + 1 : i \in 1 .. n \/ i = n + 1
    BY <1>4
  <2>2. \A i \in 1 .. n : i \in 1 .. n + 1
    BY <1>4
  <2> QED
    BY <1>4, <1>5, <2>1, <2>2 DEF Said
<1>7. IsFiniteSet(Said') /\ Cardinality(Said) <= Cardinality(Said')
  <2>1. IsFiniteSet(1 .. n + 1)
    BY <1>4, FS_Interval
  <2>2. IsFiniteSet(Said')
    BY <1>6, <2>1, FS_Subset
  <2> QED
    BY <1>6, <2>2, FS_Subset
<1>8. Cardinality(Said') \in Nat
  BY <1>7, FS_CardinalityType
<1>9. \A i \in Said : Before(Said', i) = Before(Said, i)
  <2>1. \A i \in Said : i \in Nat /\ ~(n + 1 < i)
    BY <1>4
  <2> QED
    BY <1>6, <2>1 DEF Before
<1>10. Len(transcript) \in Nat /\ Len(transcript) <= Cardinality(Said)
  BY <1>1, LenProperties DEF SourceInv
<1>11. Len(transcript') <= Cardinality(Said')
  BY <1>2, <1>4, <1>7, <1>8, <1>10
<1>12. \A k \in DOMAIN transcript' : \E i \in Said' :
         Cardinality(Before(Said', i)) = k - 1 /\ database'[i].text = transcript'[k]
  <2> SUFFICES ASSUME NEW k \in DOMAIN transcript
               PROVE  \E i \in Said' : Cardinality(Before(Said', i)) = k - 1 /\ database'[i].text = transcript[k]
    BY <1>2
  <2>1. PICK i \in Said : Cardinality(Before(Said, i)) = k - 1 /\ database[i].text = transcript[k]
    BY <1>1 DEF SourceInv
  <2> QED
    BY <1>4, <1>5, <1>6, <1>9, <2>1
<1>13. \A i \in DOMAIN database : i \in DOMAIN database' /\ database'[i].text = database[i].text
  BY <1>4, <1>5
<1>14. \A i \in DOMAIN transcript : i \in DOMAIN transcript' /\ transcript'[i] = transcript[i]
  BY <1>2
<1>15. transcript' \in Seq(Messages) /\ UNCHANGED <<file, partial, run, sent>>
  BY <1>1, <1>2
<1> QED
  BY <1>5, <1>11, <1>12, <1>13, <1>14, <1>15, WorldInv

LEMMA ListInv ==
  ASSUME Inv, List
  PROVE  Inv'
<1> DEFINE n == Len(transcript)
           i == Nth(Said, n + 1)
<1>1. SourceInv /\ transcript \in Seq(Messages) /\ database \in Seq(SavedEvents)
  BY DEF Inv, SourceInv
<1>2. /\ n < Cardinality(Said) /\ transcript' = Append(transcript, database[i].text)
      /\ UNCHANGED <<database, file, partial, run, sent>>
  BY DEF List
<1>3. /\ n \in Nat /\ DOMAIN transcript = 1 .. n
      /\ Said \in SUBSET Nat /\ IsFiniteSet(Said) /\ Cardinality(Said) \in Nat
  BY <1>1, SaidIs, DomainIs
<1>4. i \in Said /\ Cardinality(Before(Said, i)) = n
  <2>1. n + 1 \in 1 .. Cardinality(Said)
    BY <1>2, <1>3
  <2> QED
    BY <1>3, <2>1, NthIs
<1>5. database[i].text \in Messages
  BY <1>4 DEF Said
<1> HIDE DEF i
<1>6. /\ transcript' \in Seq(Messages) /\ Len(transcript') = n + 1 /\ DOMAIN transcript' = 1 .. n + 1
      /\ transcript'[n + 1] = database[i].text /\ \A k \in 1 .. n : transcript'[k] = transcript[k]
  BY <1>1, <1>2, <1>5, AppendIs
<1> HIDE DEF n
<1>7. Said' = Said
  BY <1>2 DEF Said
<1>8. \A k \in DOMAIN transcript' : \E j \in Said' :
        Cardinality(Before(Said', j)) = k - 1 /\ database'[j].text = transcript'[k]
  <2> SUFFICES ASSUME NEW k \in 1 .. n + 1
               PROVE  \E j \in Said : Cardinality(Before(Said, j)) = k - 1 /\ database[j].text = transcript'[k]
    BY <1>2, <1>6, <1>7
  <2>1. CASE k = n + 1
    BY <1>3, <1>4, <1>6, <2>1
  <2>2. CASE k \in 1 .. n
    BY <1>1, <1>3, <1>6, <2>2 DEF SourceInv
  <2> QED
    BY <1>3, <2>1, <2>2
<1>9. Len(transcript') <= Cardinality(Said')
  BY <1>2, <1>3, <1>6, <1>7
<1>10. \A k \in DOMAIN transcript : k \in DOMAIN transcript' /\ transcript'[k] = transcript[k]
  BY <1>3, <1>6
<1> QED
  BY <1>1, <1>2, <1>6, <1>8, <1>9, <1>10, WorldInv

LEMMA ChangeResultInv ==
  ASSUME Inv, ChangeResult
  PROVE  Inv'
<1>1. SourceInv /\ transcript \in Seq(Messages) /\ database \in Seq(SavedEvents)
  BY DEF Inv, SourceInv
<1>2. UNCHANGED <<transcript, file, partial, run, sent>>
  BY DEF ChangeResult
<1>3. PICK i \in DOMAIN database, quality \in {"available", "pruned", "partial"} :
        database' = [database EXCEPT ![i].quality = quality]
  BY DEF ChangeResult
<1>4. Len(database) \in Nat /\ DOMAIN database = 1 .. Len(database) /\ \A j \in DOMAIN database : database[j] \in SavedEvents
  BY <1>1, DomainIs
<1>5. /\ DOMAIN database' = DOMAIN database
      /\ \A j \in DOMAIN database : database'[j] \in SavedEvents /\ database'[j].text = database[j].text
  BY <1>3, <1>4 DEF SavedEvents, Quality
<1>6. database' \in Seq(SavedEvents)
  <2>1. database' \in [1 .. Len(database) -> SavedEvents]
    BY <1>3, <1>4, <1>5
  <2> QED
    BY <1>4, <2>1, SeqDef
<1>7. Said' = Said
  BY <1>5 DEF Said
<1>8. \A j \in Said : j \in DOMAIN database
  BY DEF Said
<1> QED
  BY <1>1, <1>2, <1>5, <1>6, <1>7, <1>8, WorldInv DEF SourceInv

LEMMA InitInv ==
  ASSUME Init
  PROVE  Inv
<1>1. /\ transcript = <<>> /\ database = <<>> /\ file = <<>> /\ partial = FALSE /\ run = None /\ sent = <<>>
  BY DEF Init
<1>2. \A S : <<>> \in Seq(S) /\ Len(<<>>) = 0 /\ DOMAIN <<>> = {}
  BY EmptySeq
<1>3. LinesInv(file) /\ RevisionInv(file) /\ AdoptInv(file) /\ SentInv
  BY <1>1, <1>2 DEF LinesInv, RevisionInv, AdoptInv, SentInv
<1>4. Said = {}
  BY <1>1, <1>2 DEF Said
<1>5. SourceInv
  BY <1>1, <1>2, <1>4, FS_EmptySet DEF SourceInv
<1> QED
  BY <1>1, <1>3, <1>5 DEF Inv, WriterInv

LEMMA NextInv ==
  ASSUME Inv, [Next]_vars
  PROVE  Inv'
<1>1. CASE UNCHANGED vars
  <2>1. UNCHANGED <<transcript, database, file, partial, run, sent>>
    BY <1>1 DEF vars
  <2>2. SourceInv' /\ SentInv'
    BY <2>1, SourceStays DEF Inv, SourceInv, SentInv
  <2> QED
    BY <2>1, <2>2 DEF Inv, WriterInv, Says
<1>2. ASSUME NEW observations \in Observations, Open(observations)
      PROVE  Inv'
  BY <1>2, OpenInv
<1> QED
  BY <1>1, <1>2, AppendInv, EndInv, UploadInv, SaveInv, ListInv, ChangeResultInv DEF Next

LEMMA Invariance == Spec => []Inv
<1> QED
  BY InitInv, NextInv, PTL DEF Spec

-----------------------------------------------------------------------------
(* What was uploaded stays a prefix of the journal, and no line begins with *)
(* the rest of one that a writer died in: who opens the journal cuts it     *)
(* (cursor_capture.go:165) before anything is appended.                     *)
THEOREM UploadedStays == Spec => []SentStays
<1>1. Inv => SentStays
  <2> SUFFICES ASSUME Inv
               PROVE  SentStays
    OBVIOUS
  <2>1. /\ file \in Seq(Lines) /\ RevisionInv(file) /\ sent \in Seq(Lines) /\ Len(sent) <= Len(file)
        /\ \A i \in 1 .. Len(sent) : sent[i] = file[i]
    BY DEF Inv, LinesInv, SentInv
  <2>2. Len(sent) \in Nat /\ Len(file) \in Nat
    BY <2>1, LenProperties
  <2>3. SubSeq(sent, 1, Len(sent)) = SubSeq(file, 1, Len(sent))
    <3> DEFINE p == SubSeq(sent, 1, Len(sent))
               q == SubSeq(file, 1, Len(sent))
    <3> DEFINE n == Len(sent)
    <3>1. \A i \in 1 .. n : sent[i] \in Lines /\ file[i] \in Lines
      BY <2>1, <2>2, DomainIs
    <3>2. n \in Nat /\ n - 1 + 1 = n /\ \A i \in 1 .. n : 1 + i - 1 = i
      BY <2>2
    <3>3. /\ p \in Seq(Lines) /\ Len(p) = n /\ \A i \in 1 .. n : p[i] = sent[i]
      BY <3>1, <3>2, SubSeqProperties
    <3>4. /\ q \in Seq(Lines) /\ Len(q) = n /\ \A i \in 1 .. n : q[i] = file[i]
      BY <3>1, <3>2, SubSeqProperties
    <3> HIDE DEF p, q, n
    <3>5. \A i \in 1 .. Len(p) : p[i] = q[i]
      BY <2>1, <3>3, <3>4 DEF n
    <3>6. p = q
      BY <3>3, <3>4, <3>5, SeqEqual
    <3> QED
      BY <3>6 DEF p, q, n
  <2>4. ASSUME NEW k \in DOMAIN file
        PROVE  file[k] # Broken
    <3>1. file[k] \in Lines
      BY <2>1, DomainIs
    <3>2. file[k].revision # 0 /\ Broken.revision = 0
      BY <3>1 DEF Lines, Broken
    <3> QED
      BY <3>2
  <2> QED
    BY <2>1, <2>3, <2>4 DEF SentStays, IsPrefix
<1> QED
  BY <1>1, Invariance, PTL

(* Revisions count up by one and each says something new, although pages    *)
(* are read again after every death.                                        *)
THEOREM RevisionsAlwaysSay == Spec => []RevisionsSay
<1>1. Inv => RevisionsSay
  BY DEF Inv, RevisionInv, RevisionsSay, Earlier
<1> QED
  BY <1>1, Invariance, PTL

(* Places of the database, one for each that a map names. *)
LEMMA CountIs ==
  ASSUME SourceInv, NEW text \in Messages, NEW S, NEW f \in [S -> DOMAIN database],
         \A x, y \in S : f[x] = f[y] => x = y,
         \A x \in S : database[f[x]].text = text
  PROVE  Cardinality(S) <= Count(text, [i \in DOMAIN database |-> database[i].text])
<1> DEFINE D == [i \in DOMAIN database |-> database[i].text]
           T == {i \in DOMAIN D : D[i] = text}
<1>1. T \subseteq 1 .. Len(database) /\ Len(database) \in Nat
  BY SaidIs
<1>2. IsFiniteSet(T)
  <2>1. IsFiniteSet(1 .. Len(database))
    BY <1>1, FS_Interval
  <2> QED
    BY <1>1, <2>1, FS_Subset
<1>3. f \in Injection(S, T)
  BY DEF Injection, IsInjective
<1>4. Cardinality(S) <= Cardinality(T)
  BY <1>2, <1>3, FS_Injection
<1> QED
  BY <1>4 DEF Count

(* A message is one event: events that wait for the database are listed     *)
(* messages, each another one; and when none of a text waits, each event of *)
(* it is a message of the database.                                         *)
LEMMA EventsCounted ==
  ASSUME Inv
  PROVE  CountedOnce
<1> SUFFICES ASSUME NEW text \in Messages
             PROVE  Cardinality({id \in Ids : Latest(id).text = text})
                      <= Count(text, [i \in DOMAIN database |-> database[i].text])
  BY DEF CountedOnce
<1> DEFINE S == {id \in IdsOf(file) : LatestOf(file, id).text = text}
<1>1. {id \in Ids : Latest(id).text = text} = S
  BY DEF Ids, IdsOf, Latest, LatestOf, LastOf
<1>2. /\ LinesInv(file) /\ AdoptInv(file) /\ SourceInv /\ file \in Seq(Lines)
      /\ transcript \in Seq(Messages) /\ \A k \in DOMAIN file : Says(file[k])
  BY DEF Inv, LinesInv, SourceInv
<1>3. \A id \in S : \E k \in DOMAIN file : /\ file[k].id = id /\ LatestOf(file, id) = file[k]
                                           /\ file[k].text = text /\ Says(file[k])
  <2> SUFFICES ASSUME NEW id \in S
               PROVE  \E k \in DOMAIN file : /\ file[k].id = id /\ LatestOf(file, id) = file[k]
                                             /\ file[k].text = text /\ Says(file[k])
    OBVIOUS
  <2>1. PICK k \in DOMAIN file : LastOf(file, id, k) /\ LatestOf(file, id) = file[k]
    BY <1>2, LatestExists
  <2> QED
    BY <1>2, <2>1 DEF LastOf
<1>4. CASE Waiting(file, text) = {}
  <2> DEFINE f == [id \in S |-> LatestOf(file, id).native[2]]
  <2>1. ASSUME NEW id \in S
        PROVE  /\ LatestOf(file, id).native = <<"database", f[id]>> /\ f[id] \in DOMAIN database
               /\ database[f[id]].text = text
    <3>1. PICK k \in DOMAIN file : /\ file[k].id = id /\ LatestOf(file, id) = file[k]
                                   /\ file[k].text = text /\ Says(file[k])
      BY <1>3
    <3>2. file[k].source # "transcript"
      BY <1>4, <3>1 DEF Waiting
    <3>3. PICK i \in DOMAIN database : file[k].native = <<"database", i>> /\ database[i].text = text
      BY <3>1, <3>2 DEF Says, SaysIn
    <3> QED
      BY <3>1, <3>3
  <2>2. ASSUME NEW x \in S, NEW y \in S, f[x] = f[y]
        PROVE  x = y
    <3>1. PICK j \in DOMAIN file : file[j].id = x /\ LatestOf(file, x) = file[j]
      BY <1>3
    <3>2. PICK k \in DOMAIN file : file[k].id = y /\ LatestOf(file, y) = file[k]
      BY <1>3
    <3>3. file[j].native = file[k].native
      BY <2>1, <2>2, <3>1, <3>2
    <3> QED
      BY <1>2, <3>1, <3>2, <3>3 DEF LinesInv
  <2>3. f \in [S -> DOMAIN database]
    BY <2>1
  <2> HIDE DEF f, S
  <2> QED
    BY <1>1, <1>2, <2>1, <2>2, <2>3, CountIs
<1>5. CASE Waiting(file, text) # {}
  <2> DEFINE spot(k) == CHOOSE i \in Said : Cardinality(Before(Said, i)) = k - 1 /\ database[i].text = transcript[k]
             f == [id \in S |-> spot(id[2])]
  <2>1. ASSUME NEW id \in S
        PROVE  /\ id = <<"transcript", id[2]>> /\ id[2] \in DOMAIN transcript
               /\ f[id] \in Said /\ Cardinality(Before(Said, f[id])) = id[2] - 1
               /\ database[f[id]].text = text
    <3>1. PICK k \in DOMAIN file : file[k].id = id /\ file[k].text = text
      BY <1>3
    <3>2. id[1] = "transcript"
      BY <1>2, <1>5, <3>1 DEF AdoptInv
    <3>3. PICK j \in DOMAIN file : file[j].native = id /\ id[1] = file[j].source /\ file[j].text = text
      BY <1>2, <3>1, NamesAre
    <3>4. PICK i \in DOMAIN transcript : id = <<"transcript", i>> /\ transcript[i] = text
      BY <1>2, <3>2, <3>3 DEF Says, SaysIn
    <3>5. \E s \in Said : Cardinality(Before(Said, s)) = i - 1 /\ database[s].text = transcript[i]
      BY <1>2 DEF SourceInv
    <3>6. f[id] = spot(i) /\ id[2] = i
      BY <3>4
    <3> QED
      BY <3>4, <3>5, <3>6
  <2> HIDE DEF f
  <2>2. ASSUME NEW x \in S, NEW y \in S, f[x] = f[y]
        PROVE  x = y
    <3>1. x[2] - 1 = y[2] - 1 /\ x[2] \in Nat /\ y[2] \in Nat
      BY <1>2, <2>1, <2>2, DomainIs
    <3> QED
      BY <2>1, <3>1
  <2>3. f \in [S -> DOMAIN database]
    <3>1. DOMAIN f = S /\ f = [x \in S |-> f[x]]
      BY DEF f
    <3> QED
      BY <1>2, <2>1, <3>1, SaidIs
  <2> HIDE DEF S
  <2> QED
    BY <1>1, <1>2, <2>1, <2>2, <2>3, CountIs
<1> QED
  BY <1>4, <1>5

(* However reads of the transcript and of the database follow one another   *)
(* and end early, a message is one event of the journal.                    *)
THEOREM MessagesCountOnce == Spec => []CountedOnce
<1> QED
  BY EventsCounted, Invariance, PTL

-----------------------------------------------------------------------------
(* The traversal *)

(* A database that Cursor wrote on: nothing it had is gone. *)
Grown(d, e) ==
  /\ d.revision <= e.revision /\ (d.revision = e.revision => d = e)
  /\ d.saved \subseteq e.saved
  /\ \A s \in Sessions :
       /\ d.children[s] \subseteq e.children[s] /\ Len(d.pages[s]) <= Len(e.pages[s])
       /\ \A i \in 1 .. Len(d.pages[s]) : d.pages[s][i] <= e.pages[s][i]

IsSeq(q) == q \in Seq(ToSet(q))

IsTraversal(t) ==
  /\ t = [pending |-> t.pending, offsets |-> t.offsets, retries |-> t.retries,
          completed |-> t.completed, revision |-> t.revision]
  /\ IsSeq(t.pending)
  /\ t.offsets \in [Sessions -> Nat] /\ t.retries \in [Sessions -> Nat \cup {Nothing}]

IsTasks(q, s) == IsSeq(q) /\ \A i \in 1 .. Len(q) : q[i] = <<q[i][1], q[i][2]>> /\ q[i][2] \in {s, Nobody}

IsScan(r) ==
  /\ r = [subject |-> r.subject, revision |-> r.revision, tasks |-> r.tasks,
          scheduled |-> r.scheduled, seen |-> r.seen, retry |-> r.retry, after |-> r.after,
          work |-> r.work]
  /\ r.subject \in Subjects /\ IsTasks(r.tasks, r.subject) /\ IsTasks(r.retry, r.subject)
  /\ r.work = [owner \in {r.subject, Nobody} |-> r.work[owner]]
  /\ \A owner \in {r.subject, Nobody} : IsTraversal(r.work[owner])

ExportTypes ==
  /\ IsDatabase(db)
  /\ journal \in [Sessions -> [1 .. MaxPages -> Nat]]
  /\ traversals = [owner \in Owners |-> traversals[owner]]
  /\ \A owner \in Owners : IsTraversal(traversals[owner])
  /\ base = [s \in Subjects |-> base[s]]
  /\ scan # Nothing => IsScan(scan) /\ IsDatabase(top)

(* What a journal has was read. *)
Read(j, d) ==
  \A x \in Sessions : \A i \in 1 .. MaxPages :
    j[x][i] # Missing => i <= Len(d.pages[x]) /\ j[x][i] <= d.pages[x][i]

(* Page i of a session is in the journal, not older than in b, and a session *)
(* of one page in t not older than there.                                    *)
Since(j, b, t, x, i) ==
  /\ j[x][i] # Missing
  /\ i <= Len(b.pages[x]) => b.pages[x][i] <= j[x][i]
  /\ Len(t.pages[x]) = 1 /\ i = 1 => t.pages[x][i] <= j[x][i]

(* Behind the place that a traversal came to are such pages, but for those it *)
(* will read again.                                                           *)
Follows(w, j, d, b, t) ==
  \A x \in Sessions :
    /\ w.offsets[x] = 0 \/ w.offsets[x] < Len(d.pages[x])
    /\ w.retries[x] # Nothing => w.retries[x] < Len(d.pages[x])
    /\ \A i \in 1 .. w.offsets[x] :
         (w.retries[x] # Nothing /\ w.retries[x] < i) \/ Since(j, b, t, x, i)

Done(x, j, d, b, t) ==
  /\ x \in Sessions /\ x \in d.saved
  /\ \A i \in 1 .. Len(t.pages[x]) : Since(j, b, t, x, i)

Based(s) == IsDatabase(base[s]) /\ Grown(base[s], db)

(* The tasks that a run has not completed. *)
OpenTasks(r) == ToSet(r.tasks) \cup ToSet(r.retry)

(* What is completed was read since, and its subagents are completed or will *)
(* be visited.                                                               *)
StoredInv ==
  \A s \in Subjects :
    traversals[s] # NoTraversal =>
      /\ Based(s) /\ Follows(traversals[s], journal, db, base[s], base[s])
      /\ traversals[s].revision \in 0 .. db.revision
      /\ traversals[s].revision = db.revision =>
           \A x \in traversals[s].completed :
             /\ Done(x, journal, db, base[s], db)
             /\ \A c \in db.children[x] :
                  c \in traversals[s].completed \/ c \in ToSet(traversals[s].pending)

(* The same of a run and the database at its beginning. *)
Reached(r, s, c) == c \in r.work[s].completed \/ <<c, s>> \in OpenTasks(r)

RunInv(r, s) ==
  /\ Based(s) /\ Grown(top, db) /\ r.revision = top.revision
  /\ Follows(r.work[s], journal, db, base[s], top)
  /\ <<s, s>> \in r.scheduled
  /\ \A p \in r.scheduled : p[2] = s => Reached(r, s, p[1])
  /\ \A x \in r.work[s].completed :
       /\ Done(x, journal, db, base[s], top)
       /\ \A c \in top.children[x] : Reached(r, s, c)

ExportInv ==
  /\ ExportTypes /\ Read(journal, db) /\ StoredInv
  /\ scan # Nothing => RunInv(scan, scan.subject)

-----------------------------------------------------------------------------
(* Sequences *)

LEMMA ToSetAre ==
  ASSUME NEW q, IsSeq(q)
  PROVE  /\ Len(q) \in Nat /\ DOMAIN q = 1 .. Len(q)
         /\ ToSet(q) = {q[i] : i \in 1 .. Len(q)}
<1>1. Len(q) \in Nat /\ DOMAIN q = 1 .. Len(q)
  BY LenProperties DEF IsSeq
<1> QED
  BY <1>1 DEF ToSet

LEMMA ListOf ==
  ASSUME NEW S, NEW q \in Seq(S)
  PROVE  IsSeq(q)
<1>1. Len(q) \in Nat /\ DOMAIN q = 1 .. Len(q) /\ q \in [1 .. Len(q) -> S]
  BY LenProperties
<1>2. q \in [1 .. Len(q) -> ToSet(q)]
  BY <1>1 DEF ToSet
<1> QED
  BY <1>1, <1>2 DEF IsSeq

LEMMA ListIs ==
  ASSUME NEW n \in Nat, NEW q, q = [i \in 1 .. n |-> q[i]]
  PROVE  IsSeq(q) /\ Len(q) = n /\ ToSet(q) = {q[i] : i \in 1 .. n}
<1>1. q \in [1 .. n -> ToSet(q)]
  <2>1. DOMAIN q = 1 .. n
    BY Zenon
  <2>2. \A i \in 1 .. n : q[i] \in ToSet(q)
    BY <2>1 DEF ToSet
  <2> QED
    BY <2>1, <2>2
<1>2. q \in Seq(ToSet(q))
  BY <1>1, SeqDef
<1>3. Len(q) = n
  BY <1>1, <1>2
<1>4. IsSeq(q)
  BY <1>2 DEF IsSeq
<1>5. ToSet(q) = {q[i] : i \in 1 .. n}
  BY <1>3, <1>4, ToSetAre
<1> QED
  BY <1>3, <1>4, <1>5

(* Two sequences, one behind the other. *)
LEMMA JoinIs ==
  ASSUME NEW p, IsSeq(p), NEW q, IsSeq(q)
  PROVE  /\ IsSeq(p \o q) /\ Len(p \o q) = Len(p) + Len(q)
         /\ ToSet(p \o q) = ToSet(p) \cup ToSet(q)
         /\ \A i \in 1 .. Len(p \o q) :
              (p \o q)[i] = IF i <= Len(p) THEN p[i] ELSE q[i - Len(p)]
<1> DEFINE S == ToSet(p) \cup ToSet(q)
           r == p \o q
<1>1. p \in Seq(S) /\ q \in Seq(S)
  <2>1. p \in Seq(ToSet(p)) /\ q \in Seq(ToSet(q))
    BY DEF IsSeq
  <2> QED
    BY <2>1, SeqDef
<1>2. /\ r \in Seq(S) /\ Len(r) = Len(p) + Len(q)
      /\ \A i \in 1 .. Len(p) + Len(q) : r[i] = IF i <= Len(p) THEN p[i] ELSE q[i - Len(p)]
  BY <1>1, ConcatProperties
<1>3. IsSeq(r)
  BY <1>2, ListOf
<1>4. /\ Len(p) \in Nat /\ Len(q) \in Nat
      /\ ToSet(p) = {p[i] : i \in 1 .. Len(p)} /\ ToSet(q) = {q[i] : i \in 1 .. Len(q)}
      /\ ToSet(r) = {r[i] : i \in 1 .. Len(r)}
  BY <1>3, ToSetAre
<1> HIDE DEF r, S
<1>5. ASSUME NEW i \in 1 .. Len(r)
      PROVE  r[i] \in ToSet(p) \cup ToSet(q)
  <2>1. CASE i <= Len(p)
    BY <1>2, <1>4, <2>1
  <2>2. CASE ~(i <= Len(p))
    <3>1. i - Len(p) \in 1 .. Len(q) /\ r[i] = q[i - Len(p)]
      BY <1>2, <1>4, <2>2
    <3> QED
      BY <1>4, <3>1
  <2> QED
    BY <2>1, <2>2
<1>6. ASSUME NEW i \in 1 .. Len(p)
      PROVE  p[i] \in ToSet(r)
  <2>1. i \in 1 .. Len(r) /\ r[i] = p[i]
    BY <1>2, <1>4
  <2> QED
    BY <1>4, <2>1
<1>7. ASSUME NEW i \in 1 .. Len(q)
      PROVE  q[i] \in ToSet(r)
  <2>1. /\ Len(p) + i \in 1 .. Len(r) /\ ~(Len(p) + i <= Len(p))
        /\ Len(p) + i - Len(p) = i
    BY <1>2, <1>4
  <2>2. r[Len(p) + i] = q[i]
    BY <1>2, <2>1
  <2> QED
    BY <1>4, <2>1, <2>2
<1>8. ToSet(r) = ToSet(p) \cup ToSet(q)
  BY <1>4, <1>5, <1>6, <1>7
<1> QED
  BY <1>2, <1>3, <1>8 DEF r

(* The first is taken off, and another put behind. *)
LEMMA TailOf ==
  ASSUME NEW q, IsSeq(q), q # <<>>
  PROVE  /\ Len(q) \in Nat \ {0} /\ Head(q) = q[1] /\ Head(q) \in ToSet(q)
         /\ IsSeq(Tail(q)) /\ Len(Tail(q)) = Len(q) - 1
         /\ \A i \in 1 .. Len(Tail(q)) : Tail(q)[i] = q[i + 1]
         /\ ToSet(q) = {Head(q)} \cup ToSet(Tail(q))
<1>1. q \in Seq(ToSet(q))
  BY DEF IsSeq
<1>2. Len(q) \in Nat \ {0} /\ Head(q) = q[1]
  BY <1>1
<1>3. /\ Tail(q) \in Seq(ToSet(q)) /\ Len(Tail(q)) = Len(q) - 1
      /\ \A i \in 1 .. Len(Tail(q)) : Tail(q)[i] = q[i + 1]
  BY <1>1, HeadTailProperties
<1>4. IsSeq(Tail(q))
  BY <1>3, ListOf
<1> DEFINE t == Tail(q)
           h == Head(q)
<1>5. /\ ToSet(q) = {q[i] : i \in 1 .. Len(q)} /\ ToSet(t) = {t[i] : i \in 1 .. Len(t)}
  BY <1>4, ToSetAre
<1> HIDE DEF t, h
<1>6. Len(t) = Len(q) - 1 /\ h = q[1] /\ \A i \in 1 .. Len(t) : t[i] = q[i + 1]
  BY <1>2, <1>3 DEF t, h
<1>7. h \in ToSet(q)
  BY <1>2, <1>5, <1>6
<1>8. ASSUME NEW i \in 1 .. Len(q)
      PROVE  q[i] \in {h} \cup ToSet(t)
  <2>1. CASE i = 1
    BY <1>6, <2>1
  <2>2. CASE i # 1
    <3>1. i - 1 \in 1 .. Len(t) /\ i - 1 + 1 = i
      BY <1>2, <1>6, <2>2
    <3>2. t[i - 1] = q[i]
      BY <1>6, <3>1
    <3> QED
      BY <1>5, <3>1, <3>2
  <2> QED
    BY <2>1, <2>2
<1>9. ASSUME NEW i \in 1 .. Len(t)
      PROVE  t[i] \in ToSet(q)
  <2>1. i + 1 \in 1 .. Len(q)
    BY <1>2, <1>6
  <2> QED
    BY <1>5, <1>6, <2>1
<1>10. ToSet(q) = {h} \cup ToSet(t)
  BY <1>5, <1>7, <1>8, <1>9
<1> QED
  BY <1>2, <1>3, <1>4, <1>7, <1>10 DEF t, h

LEMMA AppendOf ==
  ASSUME NEW q, IsSeq(q), NEW e
  PROVE  /\ IsSeq(Append(q, e)) /\ Len(Append(q, e)) = Len(q) + 1
         /\ ToSet(Append(q, e)) = ToSet(q) \cup {e}
         /\ \A i \in 1 .. Len(q) : Append(q, e)[i] = q[i]
         /\ Append(q, e)[Len(q) + 1] = e
<1> DEFINE S == ToSet(q) \cup {e}
           r == Append(q, e)
<1>1. q \in Seq(S) /\ e \in S
  <2>1. q \in Seq(ToSet(q))
    BY DEF IsSeq
  <2> QED
    BY <2>1, SeqDef
<1>2. /\ r \in Seq(S) /\ Len(r) = Len(q) + 1
      /\ \A i \in 1 .. Len(q) : r[i] = q[i]
      /\ r[Len(q) + 1] = e
  BY <1>1, AppendProperties, LenProperties
<1>3. IsSeq(r)
  BY <1>2, ListOf
<1>4. /\ Len(q) \in Nat /\ ToSet(q) = {q[i] : i \in 1 .. Len(q)}
      /\ ToSet(r) = {r[i] : i \in 1 .. Len(r)}
  BY <1>3, ToSetAre
<1> HIDE DEF r, S
<1>5. \A i \in 1 .. Len(r) : i \in 1 .. Len(q) \/ i = Len(q) + 1
  BY <1>2, <1>4
<1>6. Len(q) + 1 \in 1 .. Len(r) /\ \A i \in 1 .. Len(q) : i \in 1 .. Len(r)
  BY <1>2, <1>4
<1>7. ToSet(r) = ToSet(q) \cup {e}
  BY <1>2, <1>4, <1>5, <1>6
<1> QED
  BY <1>2, <1>3, <1>7 DEF r

(* Nothing at a place that is selected is lost. *)
LEMMA SelectIs ==
  ASSUME NEW q, NEW places, IsFiniteSet(places), places \subseteq Nat
  PROVE  /\ IsSeq(Select(q, places)) /\ Len(Select(q, places)) = Cardinality(places)
         /\ Cardinality(places) \in Nat
         /\ \A i \in places : q[i] \in ToSet(Select(q, places))
<1> DEFINE n == Cardinality(places)
           r == Select(q, places)
<1>1. n \in Nat /\ \A i \in places : \E k \in 1 .. n : Nth(places, k) = i
  BY NthIs
<1>2. r = [k \in 1 .. n |-> q[Nth(places, k)]]
  BY DEF Select
<1> HIDE DEF n, r
<1>3. r = [k \in 1 .. n |-> r[k]]
  BY <1>2
<1>4. IsSeq(r) /\ Len(r) = n
  BY <1>1, <1>3, ListIs
<1>5. ToSet(r) = {r[k] : k \in 1 .. n}
  BY <1>4, ToSetAre
<1>6. ASSUME NEW i \in places
      PROVE  q[i] \in ToSet(r)
  <2>1. PICK k \in 1 .. n : Nth(places, k) = i
    BY <1>1
  <2>2. r[k] = q[i]
    BY <1>2, <2>1
  <2> QED
    BY <1>5, <2>2
<1> QED
  BY <1>1, <1>4, <1>6 DEF n, r

-----------------------------------------------------------------------------
(* Databases and journals *)

LEMMA DatabaseIs ==
  ASSUME NEW d, IsDatabase(d)
  PROVE  /\ d.revision \in Nat /\ d.saved \subseteq Sessions
         /\ \A x \in Sessions :
              /\ d.pages[x] \in Seq(Nat) /\ Len(d.pages[x]) \in Nat
              /\ DOMAIN d.pages[x] = 1 .. Len(d.pages[x]) /\ Len(d.pages[x]) <= MaxPages
              /\ \A i \in 1 .. Len(d.pages[x]) :
                   d.pages[x][i] \in Nat /\ d.pages[x][i] <= d.revision
              /\ d.children[x] \subseteq Sessions
<1>1. /\ d.revision \in Nat /\ d.saved \subseteq Sessions
      /\ d.pages \in [Sessions -> Seq(Nat)] /\ d.children \in [Sessions -> SUBSET Sessions]
  BY DEF IsDatabase
<1> SUFFICES ASSUME NEW x \in Sessions
             PROVE  /\ d.pages[x] \in Seq(Nat) /\ Len(d.pages[x]) \in Nat
                    /\ DOMAIN d.pages[x] = 1 .. Len(d.pages[x]) /\ Len(d.pages[x]) <= MaxPages
                    /\ \A i \in 1 .. Len(d.pages[x]) :
                         d.pages[x][i] \in Nat /\ d.pages[x][i] <= d.revision
                    /\ d.children[x] \subseteq Sessions
  BY <1>1
<1>2. d.pages[x] \in Seq(Nat) /\ d.children[x] \subseteq Sessions
  BY <1>1
<1>3. /\ Len(d.pages[x]) \in Nat /\ DOMAIN d.pages[x] = 1 .. Len(d.pages[x])
      /\ \A i \in 1 .. Len(d.pages[x]) : d.pages[x][i] \in Nat
  BY <1>2, LenProperties, ElementOfSeq
<1>4. /\ Len(d.pages[x]) <= MaxPages
      /\ \A i \in 1 .. Len(d.pages[x]) : d.pages[x][i] <= d.revision
  BY DEF IsDatabase
<1> QED
  BY <1>2, <1>3, <1>4

LEMMA GrownSelf ==
  ASSUME NEW d, IsDatabase(d)
  PROVE  Grown(d, d)
BY DatabaseIs DEF Grown

LEMMA GrownOn ==
  ASSUME NEW c, IsDatabase(c), NEW d, IsDatabase(d), NEW e, IsDatabase(e),
         Grown(c, d), Grown(d, e)
  PROVE  Grown(c, e)
<1>1. /\ c.revision \in Nat /\ d.revision \in Nat /\ e.revision \in Nat
      /\ c.revision <= d.revision /\ d.revision <= e.revision
      /\ c.revision = d.revision => c = d
      /\ d.revision = e.revision => d = e
  BY DatabaseIs DEF Grown
<1>2. c.revision <= e.revision /\ (c.revision = e.revision => c = e)
  BY <1>1
<1>3. c.saved \subseteq e.saved
  BY DEF Grown
<1>4. ASSUME NEW x \in Sessions
      PROVE  /\ c.children[x] \subseteq e.children[x] /\ Len(c.pages[x]) <= Len(e.pages[x])
             /\ \A i \in 1 .. Len(c.pages[x]) : c.pages[x][i] <= e.pages[x][i]
  <2>1. /\ c.children[x] \subseteq d.children[x] /\ Len(c.pages[x]) <= Len(d.pages[x])
        /\ d.children[x] \subseteq e.children[x] /\ Len(d.pages[x]) <= Len(e.pages[x])
    BY DEF Grown
  <2>2. /\ Len(c.pages[x]) \in Nat /\ Len(d.pages[x]) \in Nat /\ Len(e.pages[x]) \in Nat
    BY DatabaseIs
  <2>3. ASSUME NEW i \in 1 .. Len(c.pages[x])
        PROVE  c.pages[x][i] <= e.pages[x][i]
    <3>1. i \in 1 .. Len(d.pages[x]) /\ i \in 1 .. Len(e.pages[x])
      BY <2>1, <2>2
    <3>2. c.pages[x][i] \in Nat /\ d.pages[x][i] \in Nat /\ e.pages[x][i] \in Nat
      BY <3>1, DatabaseIs
    <3>3. c.pages[x][i] <= d.pages[x][i]
      BY DEF Grown
    <3>4. d.pages[x][i] <= e.pages[x][i]
      BY <3>1 DEF Grown
    <3> QED
      BY <3>2, <3>3, <3>4
  <2> QED
    BY <2>1, <2>2, <2>3
<1> QED
  BY <1>2, <1>3, <1>4 DEF Grown

Journals == [Sessions -> [1 .. MaxPages -> Nat]]

(* Pages are appended to a journal, and no later one is older. *)
Longer(j, k) ==
  /\ j \in Journals /\ k \in Journals
  /\ \A x \in Sessions : \A i \in 1 .. MaxPages : j[x][i] <= k[x][i]

LEMMA SinceStays ==
  ASSUME NEW j, NEW k, Longer(j, k), NEW b, IsDatabase(b), NEW t, IsDatabase(t),
         NEW x \in Sessions, NEW i \in 1 .. MaxPages, Since(j, b, t, x, i)
  PROVE  Since(k, b, t, x, i)
<1>1. MaxPages \in Nat
  BY ExportConstants
<1>2. j[x][i] \in Nat /\ k[x][i] \in Nat /\ j[x][i] <= k[x][i]
  BY DEF Longer, Journals
<1>3. k[x][i] # Missing
  BY <1>2 DEF Since, Missing
<1>4. i <= Len(b.pages[x]) => b.pages[x][i] <= k[x][i]
  <2> SUFFICES ASSUME i <= Len(b.pages[x])
               PROVE  b.pages[x][i] <= k[x][i]
    OBVIOUS
  <2>1. i \in 1 .. Len(b.pages[x])
    BY <1>1, DatabaseIs
  <2>2. b.pages[x][i] \in Nat
    BY <2>1, DatabaseIs
  <2>3. b.pages[x][i] <= j[x][i]
    BY DEF Since
  <2> QED
    BY <1>2, <2>2, <2>3
<1>5. Len(t.pages[x]) = 1 /\ i = 1 => t.pages[x][i] <= k[x][i]
  <2> SUFFICES ASSUME Len(t.pages[x]) = 1 /\ i = 1
               PROVE  t.pages[x][i] <= k[x][i]
    OBVIOUS
  <2>1. t.pages[x][i] \in Nat
    BY DatabaseIs
  <2>2. t.pages[x][i] <= j[x][i]
    BY DEF Since
  <2> QED
    BY <1>2, <2>1, <2>2
<1> QED
  BY <1>3, <1>4, <1>5 DEF Since

LEMMA FollowsStays ==
  ASSUME NEW w, IsTraversal(w), NEW j, NEW k, Longer(j, k),
         NEW d, IsDatabase(d), NEW e, IsDatabase(e), Grown(d, e),
         NEW b, IsDatabase(b), NEW t, IsDatabase(t), Follows(w, j, d, b, t)
  PROVE  Follows(w, k, e, b, t)
<1> SUFFICES ASSUME NEW x \in Sessions
             PROVE  /\ w.offsets[x] = 0 \/ w.offsets[x] < Len(e.pages[x])
                    /\ w.retries[x] # Nothing => w.retries[x] < Len(e.pages[x])
                    /\ \A i \in 1 .. w.offsets[x] :
                         (w.retries[x] # Nothing /\ w.retries[x] < i) \/ Since(k, b, t, x, i)
  BY DEF Follows
<1>1. w.offsets[x] \in Nat /\ w.retries[x] \in Nat \cup {Nothing}
  BY DEF IsTraversal
<1>2. /\ Len(d.pages[x]) \in Nat /\ Len(e.pages[x]) \in Nat /\ MaxPages \in Nat
      /\ Len(d.pages[x]) <= Len(e.pages[x]) /\ Len(d.pages[x]) <= MaxPages
  BY DatabaseIs, ExportConstants DEF Grown
<1>3. /\ w.offsets[x] = 0 \/ w.offsets[x] < Len(d.pages[x])
      /\ w.retries[x] # Nothing => w.retries[x] < Len(d.pages[x])
      /\ \A i \in 1 .. w.offsets[x] :
           (w.retries[x] # Nothing /\ w.retries[x] < i) \/ Since(j, b, t, x, i)
  BY DEF Follows
<1>4. /\ w.offsets[x] = 0 \/ w.offsets[x] < Len(e.pages[x])
      /\ w.retries[x] # Nothing => w.retries[x] < Len(e.pages[x])
  BY <1>1, <1>2, <1>3
<1>5. ASSUME NEW i \in 1 .. w.offsets[x]
      PROVE  (w.retries[x] # Nothing /\ w.retries[x] < i) \/ Since(k, b, t, x, i)
  <2>1. i \in 1 .. MaxPages
    BY <1>1, <1>2, <1>3
  <2>2. CASE w.retries[x] # Nothing /\ w.retries[x] < i
    BY <2>2
  <2>3. CASE Since(j, b, t, x, i)
    BY <2>1, <2>3, SinceStays
  <2> QED
    BY <1>3, <2>2, <2>3
<1> QED
  BY <1>4, <1>5

LEMMA DoneStays ==
  ASSUME NEW j, NEW k, Longer(j, k), NEW d, NEW e, Grown(d, e),
         NEW b, IsDatabase(b), NEW t, IsDatabase(t), NEW x, Done(x, j, d, b, t)
  PROVE  Done(x, k, e, b, t)
<1>1. x \in Sessions /\ x \in e.saved
  BY DEF Done, Grown
<1>2. ASSUME NEW i \in 1 .. Len(t.pages[x])
      PROVE  Since(k, b, t, x, i)
  <2>1. i \in 1 .. MaxPages
    BY <1>1, DatabaseIs, ExportConstants
  <2>2. Since(j, b, t, x, i)
    BY DEF Done
  <2> QED
    BY <1>1, <2>1, <2>2, SinceStays
<1> QED
  BY <1>1, <1>2 DEF Done

(* What a run followed since it began, the traversal did since its base. *)
LEMMA FollowsBase ==
  ASSUME NEW w, NEW j, NEW d, NEW b, IsDatabase(b), NEW t, Follows(w, j, d, b, t)
  PROVE  Follows(w, j, d, b, b)
<1>1. ASSUME NEW x \in Sessions, NEW i, Since(j, b, t, x, i)
      PROVE  Since(j, b, b, x, i)
  <2>1. Len(b.pages[x]) = 1 /\ i = 1 => i <= Len(b.pages[x])
    OBVIOUS
  <2> QED
    BY <1>1, <2>1 DEF Since
<1> QED
  BY <1>1 DEF Follows

-----------------------------------------------------------------------------
(* A page *)

(* A page that was read; what is behind the place it leaves was read, or will be *)
(* again.                                                                    *)
PageIs(p, x, offset, retry) ==
  LET n == Len(db.pages[x])
  IN /\ p.at \in Nat /\ (p.at < n \/ p.at = 0) /\ (offset < n => p.at = offset)
     /\ p.next \in Nat /\ (p.next = 0 \/ p.next < n)
     /\ p.retry \in Nat \cup {Nothing} /\ (p.retry # Nothing => p.retry < n)
     /\ \A i \in 1 .. p.next :
          \/ p.retry # Nothing /\ p.retry < i
          \/ /\ i <= p.at + 1 /\ (i = p.at + 1 => db.pages[x][i] # Missing)
             /\ ~(retry # Nothing /\ retry < n /\ retry < i)
     /\ p.complete =>
          /\ ~(retry # Nothing /\ retry < n)
          /\ n <= p.at + 1 /\ (p.at < n => db.pages[x][p.at + 1] # Missing)

LEMMA ReadPageIs ==
  ASSUME IsDatabase(db), NEW x \in Sessions, NEW offset \in Nat,
         NEW retry \in Nat \cup {Nothing}
  PROVE  PageIs(ReadPage(x, offset, retry), x, offset, retry)
<1> DEFINE pages == db.pages[x]
           n == Len(pages)
           at == IF offset < n THEN offset ELSE 0
           next == IF at + 1 < n THEN at + 1 ELSE 0
           again == (IF retry # Nothing /\ retry < n THEN {retry} ELSE {})
                      \cup (IF at < n /\ pages[at + 1] = Missing THEN {at} ELSE {})
           earliest == CHOOSE m \in again : \A k \in again : m <= k
           p == ReadPage(x, offset, retry)
<1>1. n \in Nat /\ Nothing \notin Nat
  BY DatabaseIs, ExportConstants
<1>2. /\ p.at = at
      /\ p.next = IF again # {} /\ next = 0 THEN earliest ELSE next
      /\ p.retry = IF again # {} /\ next # 0 THEN earliest ELSE Nothing
      /\ p.complete = (again = {} /\ next = 0)
  BY DEF ReadPage
<1> HIDE DEF p
<1>3. /\ retry # Nothing /\ retry < n => retry \in again
      /\ at < n /\ pages[at + 1] = Missing => at \in again
      /\ again \subseteq {retry, at}
      /\ \A m \in again : (m = retry /\ retry # Nothing /\ retry < n) \/ (m = at /\ at < n)
  OBVIOUS
<1>4. /\ at \in Nat /\ (at < n \/ at = 0) /\ (offset < n => at = offset)
      /\ next \in Nat /\ (next = 0 \/ next < n) /\ (next # 0 => next = at + 1 /\ at < n)
      /\ next = 0 => n <= at + 1
  BY <1>1
<1> HIDE DEF n, at, next, again, earliest
<1>5. again # {} => earliest \in again /\ \A k \in again : earliest <= k
  <2> SUFFICES ASSUME again # {}
               PROVE  \E m \in again : \A k \in again : m <= k
    BY DEF earliest
  <2>1. \A m \in again : m \in Nat
    BY <1>1, <1>3, <1>4
  <2>2. CASE retry \in again /\ at \in again
    <3>1. retry \in Nat /\ at \in Nat
      BY <2>1, <2>2
    <3>2. CASE retry <= at
      BY <1>3, <2>2, <3>1, <3>2
    <3>3. CASE at <= retry
      BY <1>3, <2>2, <3>1, <3>3
    <3> QED
      BY <3>1, <3>2, <3>3
  <2>3. CASE ~(retry \in again /\ at \in again)
    <3>1. PICK m \in again : TRUE
      OBVIOUS
    <3>2. \A k \in again : k = m
      BY <1>3, <2>3, <3>1
    <3> QED
      BY <2>1, <3>1, <3>2
  <2> QED
    BY <2>2, <2>3
<1>6. again # {} => /\ earliest \in Nat /\ earliest < n
                    /\ (retry # Nothing /\ retry < n => earliest <= retry)
                    /\ (at < n /\ pages[at + 1] = Missing => earliest <= at)
  BY <1>1, <1>3, <1>4, <1>5
<1>7. /\ p.next \in Nat /\ (p.next = 0 \/ p.next < n)
      /\ p.retry \in Nat \cup {Nothing} /\ (p.retry # Nothing => p.retry < n)
  BY <1>2, <1>4, <1>6
<1>8. ASSUME NEW i \in 1 .. p.next
      PROVE  \/ p.retry # Nothing /\ p.retry < i
             \/ /\ i <= at + 1 /\ (i = at + 1 => pages[i] # Missing)
                /\ ~(retry # Nothing /\ retry < n /\ retry < i)
  <2>1. CASE again = {}
    <3>1. p.next = next /\ next = at + 1 /\ at < n /\ i <= at + 1
      BY <1>2, <1>4, <1>8, <2>1
    <3>2. pages[at + 1] # Missing /\ ~(retry # Nothing /\ retry < n)
      BY <1>3, <2>1, <3>1
    <3> QED
      BY <3>1, <3>2
  <2>2. CASE again # {} /\ next = 0
    <3>1. p.next = earliest /\ i <= earliest
      BY <1>2, <1>6, <1>8, <2>2
    <3>2. i < n /\ i < at + 1 /\ n \in Nat
      BY <1>1, <1>4, <1>6, <2>2, <3>1
    <3>3. retry # Nothing /\ retry < n => ~(retry < i)
      BY <1>6, <2>2, <3>1
    <3> QED
      BY <1>4, <3>2, <3>3
  <2>3. CASE again # {} /\ next # 0
    <3>1. p.next = at + 1 /\ p.retry = earliest /\ at < n
      BY <1>2, <1>4, <2>3
    <3>2. CASE earliest < i
      BY <1>1, <1>6, <2>3, <3>1, <3>2
    <3>3. CASE ~(earliest < i)
      <4>1. i <= at + 1 /\ ~(retry # Nothing /\ retry < n /\ retry < i)
        BY <1>6, <1>8, <2>3, <3>1, <3>3
      <4>2. i = at + 1 => pages[i] # Missing
        <5>1. pages[at + 1] = Missing => earliest < at + 1
          BY <1>4, <1>6, <2>3, <3>1
        <5> QED
          BY <3>3, <5>1
      <4> QED
        BY <4>1, <4>2
    <3> QED
      BY <3>2, <3>3
  <2> QED
    BY <2>1, <2>2, <2>3
<1>9. p.complete => /\ ~(retry # Nothing /\ retry < n)
                    /\ n <= at + 1 /\ (at < n => pages[at + 1] # Missing)
  BY <1>2, <1>3, <1>4
<1> QED
  BY <1>2, <1>4, <1>7, <1>8, <1>9 DEF n, p, pages, PageIs

LEMMA AppendedIs ==
  ASSUME IsDatabase(db), journal \in Journals, Read(journal, db),
         NEW x \in Sessions, NEW at \in Nat, NEW k, k = Appended(x, at)
  PROVE  /\ Longer(journal, k) /\ Read(k, db)
         /\ at < Len(db.pages[x]) => k[x][at + 1] = db.pages[x][at + 1]
<1> DEFINE n == Len(db.pages[x])
           page == db.pages[x][at + 1]
<1>1. /\ n \in Nat /\ n <= MaxPages /\ MaxPages \in Nat
      /\ \A y \in Sessions : \A i \in 1 .. MaxPages : journal[y][i] \in Nat
  BY DatabaseIs, ExportConstants DEF Journals
<1>2. CASE ~(at < n)
  <2>1. k = journal
    BY <1>2 DEF Appended
  <2> QED
    BY <1>1, <1>2, <2>1 DEF Longer
<1>3. CASE at < n
  <2>1. k = [journal EXCEPT ![x][at + 1] = page]
    BY <1>3 DEF Appended
  <2>2. at + 1 \in 1 .. n /\ at + 1 \in 1 .. MaxPages
    BY <1>1, <1>3
  <2>3. page \in Nat
    BY <2>2, DatabaseIs
  <2> HIDE DEF page, n
  <2>4. k[x][at + 1] = page
    BY <2>1, <2>2 DEF Journals
  <2>5. ASSUME NEW y \in Sessions, NEW i \in 1 .. MaxPages, y # x \/ i # at + 1
        PROVE  k[y][i] = journal[y][i]
    BY <2>1, <2>5 DEF Journals
  <2>6. k \in Journals
    BY <2>1, <2>3 DEF Journals
  <2>7. journal[x][at + 1] <= page
    <3>1. journal[x][at + 1] # Missing => journal[x][at + 1] <= page
      BY <2>2 DEF Read, page
    <3> QED
      BY <2>3, <3>1 DEF Missing
  <2>8. ASSUME NEW y \in Sessions, NEW i \in 1 .. MaxPages
        PROVE  /\ journal[y][i] <= k[y][i]
               /\ k[y][i] # Missing => i <= Len(db.pages[y]) /\ k[y][i] <= db.pages[y][i]
    <3>1. CASE y = x /\ i = at + 1
      <4>1. k[y][i] = page /\ page <= page /\ i <= Len(db.pages[y])
        BY <2>2, <2>3, <2>4, <3>1 DEF n
      <4> QED
        BY <2>7, <3>1, <4>1 DEF page
    <3>2. CASE ~(y = x /\ i = at + 1)
      <4>1. k[y][i] = journal[y][i]
        BY <2>5, <3>2
      <4> QED
        BY <1>1, <4>1 DEF Read
    <3> QED
      BY <3>1, <3>2
  <2> QED
    BY <2>4, <2>6, <2>8 DEF Longer, Read, page
<1> QED
  BY <1>2, <1>3

(* What is appended is not older than any database before. *)
LEMMA PageSince ==
  ASSUME IsDatabase(db), NEW b, IsDatabase(b), Grown(b, db), NEW t, IsDatabase(t), Grown(t, db),
         NEW k, NEW x \in Sessions, NEW i \in 1 .. Len(db.pages[x]),
         k[x][i] = db.pages[x][i], db.pages[x][i] # Missing
  PROVE  Since(k, b, t, x, i)
<1>1. i \in Nat /\ 1 <= i
  BY DatabaseIs
<1>2. i <= Len(b.pages[x]) => b.pages[x][i] <= k[x][i]
  <2>1. i <= Len(b.pages[x]) => i \in 1 .. Len(b.pages[x])
    BY <1>1, DatabaseIs
  <2> QED
    BY <2>1 DEF Grown
<1>3. Len(t.pages[x]) = 1 /\ i = 1 => t.pages[x][i] <= k[x][i]
  <2>1. Len(t.pages[x]) = 1 /\ i = 1 => i \in 1 .. Len(t.pages[x])
    OBVIOUS
  <2> QED
    BY <2>1 DEF Grown
<1> QED
  BY <1>2, <1>3 DEF Since

(* A page that is read and appended lets a traversal follow. *)
LEMMA PageFollows ==
  ASSUME IsDatabase(db), journal \in Journals, Read(journal, db), NEW x \in Sessions,
         NEW w, IsTraversal(w), NEW p, p = ReadPage(x, w.offsets[x], w.retries[x]),
         NEW k, k = Appended(x, p.at),
         NEW b, IsDatabase(b), Grown(b, db), NEW t, IsDatabase(t), Grown(t, db),
         Follows(w, journal, db, b, t),
         NEW v, IsTraversal(v), v.offsets = [w.offsets EXCEPT ![x] = p.next],
         v.retries = [w.retries EXCEPT ![x] = p.retry]
  PROVE  /\ Follows(v, k, db, b, t)
         /\ p.complete => \A i \in 1 .. Len(db.pages[x]) : Since(k, b, t, x, i)
<1> DEFINE n == Len(db.pages[x])
           offset == w.offsets[x]
           retry == w.retries[x]
<1>1. /\ offset \in Nat /\ retry \in Nat \cup {Nothing} /\ n \in Nat
      /\ w.offsets \in [Sessions -> Nat] /\ w.retries \in [Sessions -> Nat \cup {Nothing}]
  BY DatabaseIs DEF IsTraversal
<1>2. /\ p.at \in Nat /\ (p.at < n \/ p.at = 0) /\ (offset < n => p.at = offset)
      /\ p.next \in Nat /\ (p.next = 0 \/ p.next < n)
      /\ p.retry \in Nat \cup {Nothing} /\ (p.retry # Nothing => p.retry < n)
      /\ \A i \in 1 .. p.next :
           \/ p.retry # Nothing /\ p.retry < i
           \/ /\ i <= p.at + 1 /\ (i = p.at + 1 => db.pages[x][i] # Missing)
              /\ ~(retry # Nothing /\ retry < n /\ retry < i)
      /\ p.complete =>
           /\ ~(retry # Nothing /\ retry < n)
           /\ n <= p.at + 1 /\ (p.at < n => db.pages[x][p.at + 1] # Missing)
  <2>1. PageIs(p, x, offset, retry)
    BY <1>1, ReadPageIs
  <2> QED
    BY <2>1 DEF PageIs
<1>3. /\ Longer(journal, k)
      /\ p.at < n => k[x][p.at + 1] = db.pages[x][p.at + 1]
  BY <1>2, AppendedIs
<1>4. Follows(w, k, db, b, t)
  BY <1>3, FollowsStays, GrownSelf
<1>5. /\ offset = 0 \/ offset < n
      /\ retry # Nothing => retry < n
      /\ \A i \in 1 .. offset : (retry # Nothing /\ retry < i) \/ Since(k, b, t, x, i)
  BY <1>4 DEF Follows
<1>6. offset = p.at
  BY <1>1, <1>2, <1>5
<1>7. v.offsets[x] = p.next /\ v.retries[x] = p.retry
  BY <1>1
<1>8. \A y \in Sessions \ {x} : v.offsets[y] = w.offsets[y] /\ v.retries[y] = w.retries[y]
  BY <1>1
<1> HIDE DEF n, offset, retry
<1>9. ASSUME NEW i \in 1 .. n, i <= p.at + 1, i = p.at + 1 => db.pages[x][i] # Missing,
             ~(retry # Nothing /\ retry < n /\ retry < i)
      PROVE  Since(k, b, t, x, i)
  <2>1. CASE i = p.at + 1
    <3>1. p.at < n
      BY <1>1, <1>2, <2>1
    <3>2. k[x][i] = db.pages[x][i] /\ db.pages[x][i] # Missing /\ i \in 1 .. Len(db.pages[x])
      BY <1>3, <1>9, <2>1, <3>1 DEF n
    <3> QED
      BY <3>2, PageSince
  <2>2. CASE i # p.at + 1
    <3>1. i \in 1 .. offset /\ ~(retry # Nothing /\ retry < i)
      BY <1>2, <1>5, <1>6, <1>9, <2>2
    <3> QED
      BY <1>5, <3>1
  <2> QED
    BY <2>1, <2>2
<1>10. ASSUME NEW i \in 1 .. p.next
       PROVE  (p.retry # Nothing /\ p.retry < i) \/ Since(k, b, t, x, i)
  <2>1. i \in 1 .. n
    BY <1>1, <1>2
  <2> QED
    BY <1>2, <1>9, <2>1
<1>11. Follows(v, k, db, b, t)
  <2> SUFFICES ASSUME NEW y \in Sessions
               PROVE  /\ v.offsets[y] = 0 \/ v.offsets[y] < Len(db.pages[y])
                      /\ v.retries[y] # Nothing => v.retries[y] < Len(db.pages[y])
                      /\ \A i \in 1 .. v.offsets[y] :
                           (v.retries[y] # Nothing /\ v.retries[y] < i) \/ Since(k, b, t, y, i)
    BY DEF Follows
  <2>1. CASE y = x
    BY <1>2, <1>7, <1>10, <2>1 DEF n
  <2>2. CASE y # x
    <3>1. v.offsets[y] = w.offsets[y] /\ v.retries[y] = w.retries[y]
      BY <1>8, <2>2
    <3> QED
      BY <1>4, <3>1 DEF Follows
  <2> QED
    BY <2>1, <2>2
<1>12. ASSUME p.complete, NEW i \in 1 .. n
       PROVE  Since(k, b, t, x, i)
  <2>1. i <= p.at + 1 /\ (i = p.at + 1 => db.pages[x][i] # Missing)
    BY <1>1, <1>2, <1>12
  <2> QED
    BY <1>2, <1>9, <1>12, <2>1
<1> QED
  BY <1>11, <1>12 DEF n

-----------------------------------------------------------------------------
(* A task is done *)

IsWorked(v, w, s, page, saved) ==
  /\ IsTraversal(v)
  /\ v.offsets = IF saved THEN [w.offsets EXCEPT ![s] = page.next] ELSE w.offsets
  /\ v.retries = IF saved THEN [w.retries EXCEPT ![s] = page.retry] ELSE w.retries
  /\ v.completed = IF saved /\ page.complete THEN w.completed \cup {s} ELSE w.completed \ {s}

LEMMA WorkedIs ==
  ASSUME NEW w, IsTraversal(w), NEW s, NEW page, NEW saved \in BOOLEAN,
         saved => s \in Sessions /\ page.next \in Nat /\ page.retry \in Nat \cup {Nothing}
  PROVE  IsWorked(Worked(w, s, page, saved), w, s, page, saved)
<1> DEFINE v == Worked(w, s, page, saved)
           offsets == IF saved THEN [w.offsets EXCEPT ![s] = page.next] ELSE w.offsets
           retries == IF saved THEN [w.retries EXCEPT ![s] = page.retry] ELSE w.retries
           completed == IF saved /\ page.complete THEN w.completed \cup {s} ELSE w.completed \ {s}
<1>1. /\ w = [pending |-> w.pending, offsets |-> w.offsets, retries |-> w.retries,
              completed |-> w.completed, revision |-> w.revision]
      /\ IsSeq(w.pending)
      /\ w.offsets \in [Sessions -> Nat] /\ w.retries \in [Sessions -> Nat \cup {Nothing}]
  BY Zenon DEF IsTraversal
<1>2. offsets \in [Sessions -> Nat] /\ retries \in [Sessions -> Nat \cup {Nothing}]
  BY <1>1
<1>3. v = [w EXCEPT !.offsets = offsets, !.retries = retries, !.completed = completed]
  BY Zenon DEF Worked, v, offsets, retries, completed
<1> HIDE DEF v, offsets, retries, completed
<1>4. v = [pending |-> w.pending, offsets |-> offsets, retries |-> retries,
           completed |-> completed, revision |-> w.revision]
  BY <1>1, <1>3
<1>5. /\ v.pending = w.pending /\ v.offsets = offsets /\ v.retries = retries
      /\ v.completed = completed /\ v.revision = w.revision
  BY <1>4
<1>6. v = [pending |-> v.pending, offsets |-> v.offsets, retries |-> v.retries,
           completed |-> v.completed, revision |-> v.revision]
  BY <1>4, <1>5, Zenon
<1>7. IsTraversal(v)
  BY <1>1, <1>2, <1>5, <1>6, Zenon DEF IsTraversal
<1> QED
  BY <1>5, <1>7, Zenon DEF IsWorked, v, offsets, retries, completed

(* A run whose fields change. *)
Changed(q, r, tasks, scheduled, seen, work, last, retry) ==
  q = [r EXCEPT !.tasks = tasks, !.scheduled = scheduled, !.seen = seen, !.work = work,
                !.after = last, !.retry = retry]

HasFields(q, r, tasks, scheduled, seen, work, last, retry) ==
  /\ q = [subject |-> r.subject, revision |-> r.revision, tasks |-> tasks,
          scheduled |-> scheduled, seen |-> seen, retry |-> retry, after |-> last,
          work |-> work]
  /\ q.subject = r.subject /\ q.revision = r.revision /\ q.tasks = tasks
  /\ q.scheduled = scheduled /\ q.seen = seen /\ q.retry = retry /\ q.after = last
  /\ q.work = work

LEMMA ChangedFields ==
  ASSUME NEW r, IsScan(r), NEW tasks, NEW scheduled, NEW seen, NEW work, NEW last, NEW retry,
         NEW q, Changed(q, r, tasks, scheduled, seen, work, last, retry)
  PROVE  HasFields(q, r, tasks, scheduled, seen, work, last, retry)
<1>1. r = [subject |-> r.subject, revision |-> r.revision, tasks |-> r.tasks,
           scheduled |-> r.scheduled, seen |-> r.seen, retry |-> r.retry, after |-> r.after,
           work |-> r.work]
  BY Zenon DEF IsScan
<1>2. q = [r EXCEPT !.tasks = tasks, !.scheduled = scheduled, !.seen = seen, !.work = work,
                    !.after = last, !.retry = retry]
  BY Zenon DEF Changed
<1>3. q = [subject |-> r.subject, revision |-> r.revision, tasks |-> tasks,
           scheduled |-> scheduled, seen |-> seen, retry |-> retry, after |-> last,
           work |-> work]
  BY <1>1, <1>2
<1>4. /\ q.subject = r.subject /\ q.revision = r.revision /\ q.tasks = tasks
      /\ q.scheduled = scheduled /\ q.seen = seen /\ q.retry = retry /\ q.after = last
      /\ q.work = work
  BY <1>3
<1> QED
  BY <1>3, <1>4, Zenon DEF HasFields

(* A run after a task. *)
AfterTask(q, r, owner, tasks, scheduled, v, retry) ==
  /\ IsScan(q) /\ q.subject = r.subject /\ q.revision = r.revision
  /\ q.tasks = tasks /\ q.scheduled = scheduled /\ q.retry = retry
  /\ q.work[owner] = v
  /\ \A o \in {r.subject, Nobody} \ {owner} : q.work[o] = r.work[o]

LEMMA ScanIs ==
  ASSUME NEW r, IsScan(r), NEW owner, owner \in {r.subject, Nobody},
         NEW tasks, NEW scheduled, NEW seen, NEW v, NEW last, NEW retry,
         IsTasks(tasks, r.subject), IsTasks(retry, r.subject), IsTraversal(v),
         NEW q, Changed(q, r, tasks, scheduled, seen, [r.work EXCEPT ![owner] = v], last, retry)
  PROVE  AfterTask(q, r, owner, tasks, scheduled, v, retry)
<1> DEFINE work == [r.work EXCEPT ![owner] = v]
<1>1. /\ r.subject \in Subjects
      /\ r.work = [o \in {r.subject, Nobody} |-> r.work[o]]
      /\ \A o \in {r.subject, Nobody} : IsTraversal(r.work[o])
  BY Zenon DEF IsScan
<1>2. /\ work = [o \in {r.subject, Nobody} |-> work[o]] /\ work[owner] = v
      /\ \A o \in {r.subject, Nobody} \ {owner} : work[o] = r.work[o]
  <2>1. DOMAIN r.work = {r.subject, Nobody}
    BY <1>1, Zenon
  <2> QED
    BY <2>1
<1>3. HasFields(q, r, tasks, scheduled, seen, work, last, retry)
  BY ChangedFields
<1> HIDE DEF work
<1>4. /\ q.subject = r.subject /\ q.revision = r.revision /\ q.tasks = tasks
      /\ q.scheduled = scheduled /\ q.seen = seen /\ q.retry = retry /\ q.after = last
      /\ q.work = work
      /\ q = [subject |-> q.subject, revision |-> q.revision, tasks |-> q.tasks,
             scheduled |-> q.scheduled, seen |-> q.seen, retry |-> q.retry, after |-> q.after,
             work |-> q.work]
  BY <1>3, Zenon DEF HasFields
<1>5. \A o \in {r.subject, Nobody} : IsTraversal(work[o])
  BY <1>1, <1>2, Zenon
<1>6. IsScan(q)
  BY <1>1, <1>2, <1>4, <1>5, Zenon DEF IsScan
<1> QED
  BY <1>2, <1>4, <1>6, Zenon DEF AfterTask

(* Sessions that a run adds, as tasks. *)
LEMMA AddedIs ==
  ASSUME NEW new, new \subseteq Sessions, NEW owner, NEW subject, owner \in {subject, Nobody},
         NEW added, added = [i \in 1 .. Cardinality(new) |-> <<Sorted(new)[i], owner>>]
  PROVE  IsTasks(added, subject) /\ \A c \in new : <<c, owner>> \in ToSet(added)
<1> DEFINE n == Cardinality(new)
<1>1. IsFiniteSet(new) /\ new \in SUBSET Nat
  BY FS_Subset, ExportConstants
<1>2. n \in Nat /\ \A c \in new : \E i \in 1 .. n : Nth(new, i) = c
  BY <1>1, NthIs
<1>3. added = [i \in 1 .. n |-> <<Nth(new, i), owner>>]
  BY DEF Sorted
<1> HIDE DEF n
<1>4. added = [i \in 1 .. n |-> added[i]]
  BY <1>3
<1>5. IsSeq(added) /\ Len(added) = n
  BY <1>2, <1>4, ListIs
<1>6. ToSet(added) = {added[i] : i \in 1 .. n}
  <2>1. DOMAIN added = 1 .. n
    BY <1>3, Zenon
  <2> QED
    BY <2>1, Zenon DEF ToSet
<1>7. \A c \in new : <<c, owner>> \in ToSet(added)
  BY <1>2, <1>3, <1>6
<1>8. ASSUME NEW i \in 1 .. n
      PROVE  added[i] = <<added[i][1], added[i][2]>> /\ added[i][2] \in {subject, Nobody}
  <2>1. added[i] = <<Nth(new, i), owner>>
    BY <1>3
  <2>2. added[i][1] = Nth(new, i) /\ added[i][2] = owner
    BY <2>1
  <2> QED
    BY <2>1, <2>2
<1> QED
  BY <1>5, <1>7, <1>8 DEF IsTasks

LEMMA TasksJoin ==
  ASSUME NEW s, NEW p, IsTasks(p, s), NEW q, IsTasks(q, s)
  PROVE  IsTasks(p \o q, s)
<1>1. /\ IsSeq(p \o q) /\ Len(p \o q) = Len(p) + Len(q) /\ Len(p) \in Nat /\ Len(q) \in Nat
      /\ \A i \in 1 .. Len(p \o q) :
           (p \o q)[i] = IF i <= Len(p) THEN p[i] ELSE q[i - Len(p)]
  BY JoinIs, ToSetAre DEF IsTasks
<1>2. ASSUME NEW i \in 1 .. Len(p \o q)
      PROVE  /\ (p \o q)[i] = <<(p \o q)[i][1], (p \o q)[i][2]>>
             /\ (p \o q)[i][2] \in {s, Nobody}
  <2>1. CASE i <= Len(p)
    <3>1. i \in 1 .. Len(p) /\ (p \o q)[i] = p[i]
      BY <1>1, <2>1
    <3> QED
      BY <3>1 DEF IsTasks
  <2>2. CASE ~(i <= Len(p))
    <3>1. i - Len(p) \in 1 .. Len(q) /\ (p \o q)[i] = q[i - Len(p)]
      BY <1>1, <2>2
    <3> QED
      BY <3>1 DEF IsTasks
  <2> QED
    BY <2>1, <2>2
<1> QED
  BY <1>1, <1>2 DEF IsTasks

LEMMA TasksTail ==
  ASSUME NEW s, NEW q, IsTasks(q, s), q # <<>>
  PROVE  /\ IsTasks(Tail(q), s) /\ Head(q) = <<Head(q)[1], Head(q)[2]>>
         /\ Head(q)[2] \in {s, Nobody}
<1>1. /\ Len(q) \in Nat \ {0} /\ Head(q) = q[1]
      /\ IsSeq(Tail(q)) /\ Len(Tail(q)) = Len(q) - 1
      /\ \A i \in 1 .. Len(Tail(q)) : Tail(q)[i] = q[i + 1]
  BY TailOf DEF IsTasks
<1>2. 1 \in 1 .. Len(q) /\ \A i \in 1 .. Len(Tail(q)) : i + 1 \in 1 .. Len(q)
  BY <1>1
<1> QED
  BY <1>1, <1>2 DEF IsTasks

LEMMA TasksAppend ==
  ASSUME NEW s, NEW q, IsTasks(q, s), NEW x, NEW owner \in {s, Nobody}
  PROVE  IsTasks(Append(q, <<x, owner>>), s)
<1> DEFINE r == Append(q, <<x, owner>>)
<1>1. /\ IsSeq(r) /\ Len(r) = Len(q) + 1 /\ Len(q) \in Nat
      /\ \A i \in 1 .. Len(q) : r[i] = q[i]
      /\ r[Len(q) + 1] = <<x, owner>>
  BY AppendOf, ToSetAre DEF IsTasks
<1> HIDE DEF r
<1>2. ASSUME NEW i \in 1 .. Len(r)
      PROVE  r[i] = <<r[i][1], r[i][2]>> /\ r[i][2] \in {s, Nobody}
  <2>1. CASE i \in 1 .. Len(q)
    BY <1>1, <2>1 DEF IsTasks
  <2>2. CASE i = Len(q) + 1
    BY <1>1, <2>2
  <2> QED
    BY <1>1, <2>1, <2>2
<1> QED
  BY <1>1, <1>2 DEF IsTasks, r

LEMMA TaskIs ==
  ASSUME NEW s, NEW q, IsTasks(q, s), NEW task \in ToSet(q)
  PROVE  task = <<task[1], task[2]>> /\ task[2] \in {s, Nobody}
<1>1. ToSet(q) = {q[i] : i \in 1 .. Len(q)}
  BY ToSetAre DEF IsTasks
<1>2. PICK i \in 1 .. Len(q) : task = q[i]
  BY <1>1
<1> QED
  BY <1>2, Zenon DEF IsTasks

(* What a task of a session and its owner leaves of a run: its children are *)
(* scheduled, and it is completed or left.                                  *)
Moves(r, q, s, owner, children, done) ==
  /\ IsScan(q) /\ q.subject = r.subject /\ q.revision = r.revision
  /\ owner \in {r.subject, Nobody}
  /\ q.work[owner].completed =
       IF done THEN r.work[owner].completed \cup {s} ELSE r.work[owner].completed \ {s}
  /\ \A o \in {r.subject, Nobody} \ {owner} : q.work[o] = r.work[o]
  /\ r.scheduled \subseteq q.scheduled /\ q.scheduled \subseteq r.scheduled \cup OpenTasks(q)
  /\ \A c \in children : <<c, owner>> \in q.scheduled \/ c \in r.work[owner].completed
  /\ OpenTasks(r) \subseteq OpenTasks(q) \cup {<<s, owner>>}
  /\ done \/ <<s, owner>> \in OpenTasks(q)

LEMMA AdvanceIs ==
  ASSUME scan # Nothing, IsScan(scan), Working, NEW saved \in BOOLEAN, NEW page,
         NEW children, children \subseteq Sessions, Advance(page, children, saved),
         NEW s, NEW owner, s = Head(scan.tasks)[1], owner = Head(scan.tasks)[2],
         saved => s \in Sessions /\ page.next \in Nat /\ page.retry \in Nat \cup {Nothing}
  PROVE  /\ Moves(scan, scan', s, owner, children, saved /\ page.complete)
         /\ scan'.work[owner] = Worked(scan.work[owner], s, page, saved)
<1> DEFINE new == {c \in children : <<c, owner>> \notin scan.scheduled
                                      /\ c \notin scan.work[owner].completed}
           added == [i \in 1 .. Cardinality(new) |-> <<Sorted(new)[i], owner>>]
           tasks == Tail(scan.tasks) \o added
           scheduled == scan.scheduled \cup ToSet(added)
           seen == scan.seen + 1
           v == Worked(scan.work[owner], s, page, saved)
           last == IF owner = Nobody THEN s ELSE scan.after
           retry == IF saved /\ page.complete THEN scan.retry ELSE Append(scan.retry, <<s, owner>>)
<1>1. /\ scan.tasks # <<>> /\ IsTasks(scan.tasks, scan.subject) /\ IsTasks(scan.retry, scan.subject)
      /\ \A o \in {scan.subject, Nobody} : IsTraversal(scan.work[o])
  BY DEF Working, AtLimit, IsScan
<1>2. /\ IsTasks(Tail(scan.tasks), scan.subject) /\ Head(scan.tasks) = <<s, owner>>
      /\ owner \in {scan.subject, Nobody}
  BY <1>1, TasksTail
<1>3. IsTasks(added, scan.subject) /\ \A c \in new : <<c, owner>> \in ToSet(added)
  <2>1. new \subseteq Sessions
    OBVIOUS
  <2> HIDE DEF new
  <2> QED
    BY <1>2, <2>1, AddedIs
<1>4. Changed(scan', scan, tasks, scheduled, seen, [scan.work EXCEPT ![owner] = v], last, retry)
  <2>1. scan' = [scan EXCEPT !.tasks = tasks, !.scheduled = scheduled, !.seen = seen,
                             !.work = [scan.work EXCEPT ![owner] = v], !.after = last,
                             !.retry = retry]
    BY ZenonT(60) DEF Advance
  <2> HIDE DEF tasks, scheduled, seen, v, last, retry
  <2> QED
    BY <2>1, Zenon DEF Changed
<1>5. \A c \in children : c \in new \/ <<c, owner>> \in scan.scheduled
                                    \/ c \in scan.work[owner].completed
  OBVIOUS
<1> HIDE DEF new, added
<1>6. IsTasks(tasks, scan.subject) /\ ToSet(tasks) = ToSet(Tail(scan.tasks)) \cup ToSet(added)
  BY <1>2, <1>3, TasksJoin, JoinIs DEF IsTasks
<1>7. /\ IsTasks(retry, scan.subject) /\ ToSet(scan.retry) \subseteq ToSet(retry)
      /\ (saved /\ page.complete) \/ <<s, owner>> \in ToSet(retry)
  <2>1. /\ IsTasks(Append(scan.retry, <<s, owner>>), scan.subject)
        /\ ToSet(Append(scan.retry, <<s, owner>>)) = ToSet(scan.retry) \cup {<<s, owner>>}
    BY <1>1, <1>2, TasksAppend, AppendOf DEF IsTasks
  <2> QED
    BY <1>1, <2>1
<1>8. IsWorked(v, scan.work[owner], s, page, saved) /\ IsTraversal(v)
  <2>1. IsTraversal(scan.work[owner])
    BY <1>1, <1>2
  <2>2. IsWorked(v, scan.work[owner], s, page, saved)
    BY <2>1, WorkedIs
  <2> QED
    BY <2>2, Zenon DEF IsWorked
<1> HIDE DEF tasks, scheduled, seen, v, last, retry
<1>9. /\ IsScan(scan') /\ scan'.subject = scan.subject /\ scan'.revision = scan.revision
       /\ scan'.tasks = tasks /\ scan'.scheduled = scheduled /\ scan'.retry = retry
       /\ scan'.work[owner] = v
       /\ \A o \in {scan.subject, Nobody} \ {owner} : scan'.work[o] = scan.work[o]
  <2>1. AfterTask(scan', scan, owner, tasks, scheduled, v, retry)
    BY <1>2, <1>4, <1>6, <1>7, <1>8, ScanIs
  <2> QED
    BY <2>1, Zenon DEF AfterTask
<1>10. ToSet(scan.tasks) = {<<s, owner>>} \cup ToSet(Tail(scan.tasks))
  BY <1>1, <1>2, TailOf DEF IsTasks
<1>11. OpenTasks(scan') = ToSet(tasks) \cup ToSet(retry)
  BY Zenon, <1>9 DEF OpenTasks
<1>12. OpenTasks(scan) = ToSet(scan.tasks) \cup ToSet(scan.retry)
  BY Zenon DEF OpenTasks
<1>13. OpenTasks(scan) \subseteq OpenTasks(scan') \cup {<<s, owner>>}
  BY <1>6, <1>7, <1>10, <1>11, <1>12
<1>14. /\ scan.scheduled \subseteq scan'.scheduled
       /\ scan'.scheduled \subseteq scan.scheduled \cup OpenTasks(scan')
  BY <1>6, <1>9, <1>11 DEF scheduled
<1>15. \A c \in children : <<c, owner>> \in scan'.scheduled \/ c \in scan.work[owner].completed
  BY <1>3, <1>5, <1>9 DEF scheduled
<1>16. v.completed = IF saved /\ page.complete THEN scan.work[owner].completed \cup {s}
                                             ELSE scan.work[owner].completed \ {s}
  BY <1>8, Zenon DEF IsWorked
<1>17. (saved /\ page.complete) \/ <<s, owner>> \in OpenTasks(scan')
  BY <1>7, <1>11
<1>18. Moves(scan, scan', s, owner, children, saved /\ page.complete)
  BY <1>2, <1>9, <1>13, <1>14, <1>15, <1>16, <1>17, Zenon DEF Moves
<1> QED
  BY <1>9, <1>18 DEF v
(* What was reached stays reached. *)
LEMMA ReachedStays ==
  ASSUME NEW r, NEW q, NEW s, NEW owner, NEW children, NEW done \in BOOLEAN,
         Moves(r, q, s, owner, children, done), NEW c, Reached(r, r.subject, c)
  PROVE  Reached(q, r.subject, c)
<1> DEFINE sub == r.subject
<1>1. /\ owner \in {sub, Nobody}
      /\ q.work[owner].completed =
           IF done THEN r.work[owner].completed \cup {s} ELSE r.work[owner].completed \ {s}
      /\ \A o \in {sub, Nobody} \ {owner} : q.work[o] = r.work[o]
      /\ OpenTasks(r) \subseteq OpenTasks(q) \cup {<<s, owner>>}
      /\ done \/ <<s, owner>> \in OpenTasks(q)
  BY DEF Moves
<1>2. c \in r.work[sub].completed \/ <<c, sub>> \in OpenTasks(r)
  BY DEF Reached
<1> HIDE DEF sub
<1>3. CASE c = s /\ owner = sub
  <2>1. CASE done
    BY <1>1, <1>3, <2>1 DEF Reached, sub
  <2>2. CASE ~done
    BY <1>1, <1>3, <2>2 DEF Reached, sub
  <2> QED
    BY <2>1, <2>2
<1>4. CASE ~(c = s /\ owner = sub)
  <2>1. <<c, sub>> # <<s, owner>>
    BY <1>4
  <2>2. CASE <<c, sub>> \in OpenTasks(r)
    BY <1>1, <2>1, <2>2 DEF Reached, sub
  <2>3. CASE c \in r.work[sub].completed
    <3>1. CASE owner = sub
      BY <1>1, <1>4, <2>3, <3>1 DEF Reached, sub
    <3>2. CASE owner # sub
      BY <1>1, <2>3, <3>2 DEF Reached, sub
    <3> QED
      BY <3>1, <3>2
  <2> QED
    BY <1>2, <2>2, <2>3
<1> QED
  BY <1>3, <1>4

(* What is stored stays true while only the journals grow. *)
LEMMA StoredStays ==
  ASSUME ExportTypes, StoredInv, UNCHANGED <<db, traversals, base>>, Longer(journal, journal')
  PROVE  StoredInv'
<1> SUFFICES ASSUME NEW s \in Subjects, traversals[s] # NoTraversal
             PROVE  /\ Based(s) /\ Follows(traversals[s], journal', db, base[s], base[s])
                    /\ traversals[s].revision \in 0 .. db.revision
                    /\ traversals[s].revision = db.revision =>
                         \A x \in traversals[s].completed :
                           /\ Done(x, journal', db, base[s], db)
                           /\ \A c \in db.children[x] :
                                c \in traversals[s].completed \/ c \in ToSet(traversals[s].pending)
  BY DEF StoredInv, Based
<1>1. /\ Based(s) /\ Follows(traversals[s], journal, db, base[s], base[s])
      /\ traversals[s].revision \in 0 .. db.revision
      /\ traversals[s].revision = db.revision =>
           \A x \in traversals[s].completed :
             /\ Done(x, journal, db, base[s], db)
             /\ \A c \in db.children[x] :
                  c \in traversals[s].completed \/ c \in ToSet(traversals[s].pending)
  BY Zenon DEF StoredInv
<1>2. /\ IsDatabase(db) /\ Grown(db, db) /\ IsDatabase(base[s]) /\ IsTraversal(traversals[s])
  <2>1. s \in Owners
    BY ExportConstants DEF Owners
  <2> QED
    BY <1>1, <2>1, GrownSelf DEF ExportTypes, Based
<1>3. Follows(traversals[s], journal', db, base[s], base[s])
  BY <1>1, <1>2, FollowsStays
<1>4. ASSUME traversals[s].revision = db.revision, NEW x \in traversals[s].completed
      PROVE  /\ Done(x, journal', db, base[s], db)
             /\ \A c \in db.children[x] :
                  c \in traversals[s].completed \/ c \in ToSet(traversals[s].pending)
  BY <1>1, <1>2, <1>4, DoneStays
<1> QED
  BY <1>1, <1>3, <1>4, Zenon

(* A traversal after one of its tasks. *)
LEMMA FollowsOn ==
  ASSUME IsDatabase(db), journal \in Journals, Read(journal, db),
         NEW w, IsTraversal(w), NEW s, NEW page, NEW saved \in BOOLEAN,
         NEW b, IsDatabase(b), Grown(b, db), NEW t, IsDatabase(t), Grown(t, db),
         Follows(w, journal, db, b, t), NEW k, Longer(journal, k),
         saved => /\ s \in Sessions /\ page = ReadPage(s, w.offsets[s], w.retries[s])
                  /\ k = Appended(s, page.at)
  PROVE  /\ Follows(Worked(w, s, page, saved), k, db, b, t)
         /\ saved /\ page.complete => \A i \in 1 .. Len(db.pages[s]) : Since(k, b, t, s, i)
<1> DEFINE v == Worked(w, s, page, saved)
<1>1. w.offsets \in [Sessions -> Nat] /\ w.retries \in [Sessions -> Nat \cup {Nothing}]
  BY Zenon DEF IsTraversal
<1>2. saved => page.next \in Nat /\ page.retry \in Nat \cup {Nothing}
  <2> SUFFICES ASSUME saved
               PROVE  page.next \in Nat /\ page.retry \in Nat \cup {Nothing}
    OBVIOUS
  <2>1. w.offsets[s] \in Nat /\ w.retries[s] \in Nat \cup {Nothing}
    BY <1>1
  <2>2. PageIs(page, s, w.offsets[s], w.retries[s])
    BY <2>1, ReadPageIs
  <2> QED
    BY <2>2, Zenon DEF PageIs
<1>3. IsWorked(v, w, s, page, saved)
  BY <1>2, WorkedIs
<1> HIDE DEF v
<1>4. /\ IsTraversal(v)
      /\ v.offsets = IF saved THEN [w.offsets EXCEPT ![s] = page.next] ELSE w.offsets
      /\ v.retries = IF saved THEN [w.retries EXCEPT ![s] = page.retry] ELSE w.retries
  BY <1>3, Zenon DEF IsWorked
<1>5. CASE saved
  <2>1. /\ s \in Sessions /\ page = ReadPage(s, w.offsets[s], w.retries[s])
        /\ k = Appended(s, page.at)
        /\ v.offsets = [w.offsets EXCEPT ![s] = page.next]
        /\ v.retries = [w.retries EXCEPT ![s] = page.retry]
    BY <1>4, <1>5
  <2>2. /\ Follows(v, k, db, b, t)
        /\ page.complete => \A i \in 1 .. Len(db.pages[s]) : Since(k, b, t, s, i)
    BY <1>4, <2>1, PageFollows
  <2> QED
    BY <2>2 DEF v
<1>6. CASE ~saved
  <2>1. v.offsets = w.offsets /\ v.retries = w.retries
    BY <1>4, <1>6
  <2>2. Follows(w, k, db, b, t)
    BY FollowsStays, GrownSelf
  <2>3. Follows(v, k, db, b, t)
    BY <2>1, <2>2, Zenon DEF Follows
  <2> QED
    BY <1>6, <2>3 DEF v
<1> QED
  BY <1>5, <1>6

(* A run's tasks are pairs of a session and its owner. *)
LEMMA OpenIs ==
  ASSUME NEW r, IsScan(r), NEW p \in OpenTasks(r)
  PROVE  p = <<p[1], p[2]>>
<1>1. IsTasks(r.tasks, r.subject) /\ IsTasks(r.retry, r.subject)
  BY Zenon DEF IsScan
<1> QED
  BY <1>1, TaskIs DEF OpenTasks

(* The invariant of the run after one of its tasks. *)
RunAt(q, s, k) ==
  /\ <<s, s>> \in q.scheduled
  /\ Follows(q.work[s], k, db, base[s], top)
  /\ \A p \in q.scheduled : p[2] = s => Reached(q, s, p[1])
  /\ \A x \in q.work[s].completed :
       /\ Done(x, k, db, base[s], top)
       /\ \A c \in top.children[x] : Reached(q, s, c)

LEMMA RunGoesOn ==
  ASSUME NEW r, IsScan(r), NEW q, NEW s, NEW owner, NEW children, NEW page, NEW saved \in BOOLEAN,
         Moves(r, q, s, owner, children, saved /\ page.complete),
         q.work[owner] = Worked(r.work[owner], s, page, saved),
         IsDatabase(db), journal \in Journals, Read(journal, db), IsDatabase(top),
         RunInv(r, r.subject), NEW k, Longer(journal, k),
         saved => /\ s \in db.saved /\ children = db.children[s]
                  /\ page = ReadPage(s, r.work[owner].offsets[s], r.work[owner].retries[s])
                  /\ k = Appended(s, page.at)
  PROVE  RunAt(q, r.subject, k)
<1> DEFINE sub == r.subject
           done == saved /\ page.complete
<1>1. /\ IsDatabase(base[sub]) /\ Grown(base[sub], db) /\ Grown(top, db)
      /\ Follows(r.work[sub], journal, db, base[sub], top)
      /\ <<sub, sub>> \in r.scheduled
      /\ \A p \in r.scheduled : p[2] = sub => Reached(r, sub, p[1])
      /\ \A x \in r.work[sub].completed :
           /\ Done(x, journal, db, base[sub], top)
           /\ \A c \in top.children[x] : Reached(r, sub, c)
  BY Zenon DEF RunInv, Based
<1>2. /\ IsScan(q) /\ owner \in {sub, Nobody}
      /\ q.work[owner].completed =
           IF done THEN r.work[owner].completed \cup {s} ELSE r.work[owner].completed \ {s}
      /\ \A o \in {sub, Nobody} \ {owner} : q.work[o] = r.work[o]
      /\ r.scheduled \subseteq q.scheduled /\ q.scheduled \subseteq r.scheduled \cup OpenTasks(q)
      /\ \A c \in children : <<c, owner>> \in q.scheduled \/ c \in r.work[owner].completed
  BY Zenon DEF Moves
<1>3. IsTraversal(r.work[sub]) /\ IsTraversal(r.work[owner])
  <2>1. \A o \in {r.subject, Nobody} : IsTraversal(r.work[o])
    BY Zenon DEF IsScan
  <2> QED
    BY <1>2, <2>1
<1>4. ASSUME NEW c, Reached(r, sub, c)
      PROVE  Reached(q, sub, c)
  <2>1. done \in BOOLEAN
    OBVIOUS
  <2> QED
    BY <1>4, <2>1, ReachedStays
<1>5. saved => s \in Sessions
  BY DatabaseIs
<1> HIDE DEF sub
<1>6. owner = sub => /\ Follows(q.work[sub], k, db, base[sub], top)
                     /\ done => \A i \in 1 .. Len(db.pages[s]) : Since(k, base[sub], top, s, i)
  <2> SUFFICES ASSUME owner = sub
               PROVE  /\ Follows(q.work[owner], k, db, base[sub], top)
                      /\ done => \A i \in 1 .. Len(db.pages[s]) : Since(k, base[sub], top, s, i)
    OBVIOUS
  <2>1. Follows(r.work[owner], journal, db, base[sub], top)
    BY <1>1
  <2> QED
    BY <1>1, <1>3, <1>5, <2>1, FollowsOn
<1>7. Follows(q.work[sub], k, db, base[sub], top)
  <2>1. CASE owner = sub
    BY <1>6, <2>1
  <2>2. CASE owner # sub
    <3>1. q.work[sub] = r.work[sub]
      BY <1>2, <2>2
    <3> QED
      BY <1>1, <1>3, <3>1, FollowsStays, GrownSelf
  <2> QED
    BY <2>1, <2>2
<1>8. ASSUME NEW p \in q.scheduled, p[2] = sub
      PROVE  Reached(q, sub, p[1])
  <2>1. CASE p \in r.scheduled
    BY <1>1, <1>4, <1>8, <2>1
  <2>2. CASE p \in OpenTasks(q)
    <3>1. p = <<p[1], sub>>
      BY <1>2, <1>8, <2>2, OpenIs
    <3> QED
      BY <2>2, <3>1 DEF Reached
  <2> QED
    BY <1>2, <1>8, <2>1, <2>2
<1>9. ASSUME NEW x \in r.work[sub].completed
      PROVE  Done(x, k, db, base[sub], top) /\ \A c \in top.children[x] : Reached(q, sub, c)
  <2>1. Done(x, journal, db, base[sub], top) /\ \A c \in top.children[x] : Reached(r, sub, c)
    BY <1>1
  <2> QED
    BY <1>1, <1>4, <2>1, DoneStays, GrownSelf
<1>10. ASSUME owner = sub, done
       PROVE  Done(s, k, db, base[sub], top) /\ \A c \in top.children[s] : Reached(q, sub, c)
  <2>1. s \in Sessions /\ s \in db.saved /\ children = db.children[s]
    BY <1>5, <1>10
  <2>2. /\ top.children[s] \subseteq db.children[s] /\ Len(top.pages[s]) <= Len(db.pages[s])
        /\ Len(top.pages[s]) \in Nat /\ Len(db.pages[s]) \in Nat
    BY <1>1, <2>1, DatabaseIs DEF Grown
  <2>3. \A i \in 1 .. Len(top.pages[s]) : i \in 1 .. Len(db.pages[s])
    BY <2>2
  <2>4. Done(s, k, db, base[sub], top)
    BY <1>6, <1>10, <2>1, <2>3 DEF Done
  <2>5. ASSUME NEW c \in top.children[s]
        PROVE  Reached(q, sub, c)
    <3>1. <<c, sub>> \in q.scheduled \/ c \in r.work[sub].completed
      BY <1>2, <1>10, <2>1, <2>2, <2>5
    <3>2. CASE <<c, sub>> \in q.scheduled
      <4>1. <<c, sub>>[1] = c /\ <<c, sub>>[2] = sub
        OBVIOUS
      <4> QED
        BY <1>8, <3>2, <4>1
    <3>3. CASE c \in r.work[sub].completed
      <4>1. Reached(r, sub, c)
        BY <3>3 DEF Reached
      <4> QED
        BY <1>4, <4>1
    <3> QED
      BY <3>1, <3>2, <3>3
  <2> QED
    BY <2>4, <2>5
<1>11. ASSUME NEW x \in q.work[sub].completed
       PROVE  Done(x, k, db, base[sub], top) /\ \A c \in top.children[x] : Reached(q, sub, c)
  <2>1. x \in r.work[sub].completed \/ (x = s /\ owner = sub /\ done)
    BY <1>2, <1>11
  <2> QED
    BY <1>9, <1>10, <2>1
<1>12. <<sub, sub>> \in q.scheduled
  BY <1>1, <1>2
<1> QED
  BY <1>7, <1>8, <1>11, <1>12, Zenon DEF RunAt, sub

-----------------------------------------------------------------------------
(* Steps of a run *)

LEMMA StepInv ==
  ASSUME ExportInv, Working, NEW saved \in BOOLEAN, NEW page, NEW children,
         Advance(page, children, saved), UNCHANGED <<db, traversals, base, top>>,
         NEW s, NEW owner, s = Head(scan.tasks)[1], owner = Head(scan.tasks)[2],
         saved => /\ s \in db.saved /\ page = Page /\ children = db.children[s]
                  /\ journal' = Appended(s, page.at),
         ~saved => journal' = journal /\ children \subseteq Sessions
  PROVE  ExportInv'
<1>1. /\ scan # Nothing /\ ExportTypes /\ StoredInv /\ IsDatabase(db) /\ journal \in Journals
      /\ Read(journal, db) /\ IsScan(scan) /\ IsDatabase(top) /\ RunInv(scan, scan.subject)
  BY Zenon DEF ExportInv, ExportTypes, Working, Journals
<1>2. scan.tasks # <<>> /\ owner \in {scan.subject, Nobody} /\ IsTraversal(scan.work[owner])
  <2>1. /\ scan.tasks # <<>> /\ IsTasks(scan.tasks, scan.subject)
        /\ \A o \in {scan.subject, Nobody} : IsTraversal(scan.work[o])
    BY <1>1, Zenon DEF Working, AtLimit, IsScan
  <2>2. owner \in {scan.subject, Nobody}
    BY <2>1, TasksTail
  <2> QED
    BY <2>1, <2>2
<1>3. /\ s \in db.saved => s \in Sessions
      /\ saved => page = ReadPage(s, scan.work[owner].offsets[s], scan.work[owner].retries[s])
  BY <1>1, DatabaseIs DEF Page
<1>4. ASSUME saved
      PROVE  page.at \in Nat /\ page.next \in Nat /\ page.retry \in Nat \cup {Nothing}
  <2>1. s \in Sessions /\ page = ReadPage(s, scan.work[owner].offsets[s], scan.work[owner].retries[s])
    BY <1>3, <1>4
  <2>2. /\ scan.work[owner].offsets \in [Sessions -> Nat]
        /\ scan.work[owner].retries \in [Sessions -> Nat \cup {Nothing}]
    BY <1>2, Zenon DEF IsTraversal
  <2>3. PageIs(page, s, scan.work[owner].offsets[s], scan.work[owner].retries[s])
    BY <1>1, <2>1, <2>2, ReadPageIs
  <2> QED
    BY <2>3, Zenon DEF PageIs
<1>5. children \subseteq Sessions
  BY <1>1, <1>3, DatabaseIs
<1>6. Longer(journal, journal') /\ Read(journal', db)
  <2>1. CASE saved
    BY <1>1, <1>3, <1>4, <2>1, AppendedIs
  <2>2. CASE ~saved
    <3>1. journal' = journal
      BY <2>2
    <3>2. ASSUME NEW x \in Sessions, NEW i \in 1 .. MaxPages
          PROVE  journal[x][i] <= journal[x][i]
      <4>1. journal[x][i] \in Nat
        BY <1>1 DEF Journals
      <4> QED
        BY <4>1
    <3> QED
      BY <1>1, <3>1, <3>2 DEF Longer
  <2> QED
    BY <2>1, <2>2
<1>7. /\ Moves(scan, scan', s, owner, children, saved /\ page.complete)
      /\ scan'.work[owner] = Worked(scan.work[owner], s, page, saved)
  BY <1>1, <1>3, <1>4, <1>5, AdvanceIs
<1>8. RunAt(scan', scan.subject, journal')
  BY <1>1, <1>3, <1>6, <1>7, RunGoesOn
<1>9. IsScan(scan') /\ scan'.subject = scan.subject /\ scan'.revision = scan.revision
  BY <1>7, Zenon DEF Moves
<1>10. journal' \in Journals
  BY <1>6 DEF Longer
<1>11. ExportTypes'
  BY <1>1, <1>9, <1>10, Zenon DEF ExportTypes, Journals
<1>12. Read(journal, db)'
  BY <1>6, Zenon
<1>13. StoredInv'
  BY <1>1, <1>6, StoredStays
<1>14. RunInv(scan, scan.subject)'
  BY <1>1, <1>8, <1>9, Zenon DEF RunInv, RunAt, Based
<1> QED
  BY <1>11, <1>12, <1>13, <1>14, Zenon DEF ExportInv

LEMMA ExportStep ==
  ASSUME ExportInv, Export
  PROVE  ExportInv'
<1> DEFINE s == Head(scan.tasks)[1]
           owner == Head(scan.tasks)[2]
<1>1. /\ Working /\ s \in db.saved /\ journal' = Appended(s, Page.at)
      /\ Advance(Page, db.children[s], TRUE) /\ UNCHANGED <<db, traversals, base, top>>
  BY Zenon DEF Export
<1> HIDE DEF s, owner
<1>2. s = Head(scan.tasks)[1] /\ owner = Head(scan.tasks)[2]
  BY DEF s, owner
<1> QED
  BY <1>1, <1>2, StepInv

LEMMA ReadFailsStep ==
  ASSUME ExportInv, ReadFails
  PROVE  ExportInv'
<1> DEFINE s == Head(scan.tasks)[1]
           owner == Head(scan.tasks)[2]
           children == {}
<1>1. /\ Working /\ journal' = journal /\ children \subseteq Sessions
      /\ Advance(Nothing, children, FALSE) /\ UNCHANGED <<db, traversals, base, top>>
  BY Zenon DEF ReadFails
<1> HIDE DEF s, owner, children
<1>2. s = Head(scan.tasks)[1] /\ owner = Head(scan.tasks)[2]
  BY DEF s, owner
<1> QED
  BY <1>1, <1>2, StepInv

LEMMA AppendFailsStep ==
  ASSUME ExportInv, AppendFails
  PROVE  ExportInv'
<1> DEFINE s == Head(scan.tasks)[1]
           owner == Head(scan.tasks)[2]
<1>1. /\ Working /\ journal' = journal /\ s \in db.saved
      /\ Advance(Page, db.children[s], FALSE) /\ UNCHANGED <<db, traversals, base, top>>
  BY Zenon DEF AppendFails
<1>2. db.children[s] \subseteq Sessions
  BY <1>1, DatabaseIs DEF ExportInv, ExportTypes
<1> HIDE DEF s, owner
<1>3. s = Head(scan.tasks)[1] /\ owner = Head(scan.tasks)[2]
  BY DEF s, owner
<1> QED
  BY <1>1, <1>2, <1>3, StepInv

-----------------------------------------------------------------------------
(* A run begins *)

(* Sessions as the tasks of an owner. *)
Tagged(ids, owner) == [i \in 1 .. Len(ids) |-> <<ids[i], owner>>]

LEMMA TaggedIs ==
  ASSUME NEW ids, IsSeq(ids), NEW owner, NEW subject, owner \in {subject, Nobody}
  PROVE  /\ IsTasks(Tagged(ids, owner), subject)
         /\ \A c \in ToSet(ids) : <<c, owner>> \in ToSet(Tagged(ids, owner))
<1> DEFINE q == Tagged(ids, owner)
           n == Len(ids)
<1>1. n \in Nat /\ ToSet(ids) = {ids[i] : i \in 1 .. n}
  BY ToSetAre
<1>2. q = [i \in 1 .. n |-> <<ids[i], owner>>]
  BY Zenon DEF Tagged
<1> HIDE DEF q, n
<1>3. q = [i \in 1 .. n |-> q[i]]
  BY <1>2
<1>4. IsSeq(q) /\ Len(q) = n
  BY <1>1, <1>3, ListIs
<1>5. ToSet(q) = {q[i] : i \in 1 .. n}
  <2>1. DOMAIN q = 1 .. n
    BY <1>2, Zenon
  <2> QED
    BY <2>1, Zenon DEF ToSet
<1>6. ASSUME NEW i \in 1 .. n
      PROVE  q[i] = <<ids[i], owner>> /\ q[i] = <<q[i][1], q[i][2]>> /\ q[i][2] \in {subject, Nobody}
  <2>1. q[i] = <<ids[i], owner>>
    BY <1>2
  <2>2. q[i][1] = ids[i] /\ q[i][2] = owner
    BY <2>1
  <2> QED
    BY <2>1, <2>2
<1>7. \A c \in ToSet(ids) : <<c, owner>> \in ToSet(q)
  BY <1>1, <1>5, <1>6
<1>8. IsTasks(q, subject)
  BY <1>4, <1>6 DEF IsTasks
<1> QED
  BY <1>7, <1>8 DEF q

LEMMA PlacesAre ==
  ASSUME NEW q, IsSeq(q), NEW places, places \subseteq DOMAIN q
  PROVE  IsFiniteSet(places) /\ places \subseteq Nat
<1>1. Len(q) \in Nat /\ DOMAIN q = 1 .. Len(q)
  BY ToSetAre
<1>2. IsFiniteSet(1 .. Len(q)) /\ 1 .. Len(q) \subseteq Nat
  BY <1>1, FS_Interval
<1> QED
  BY <1>1, <1>2, FS_Subset

LEMMA SortedIs ==
  ASSUME NEW set, set \subseteq Sessions
  PROVE  IsSeq(Sorted(set))
<1> DEFINE n == Cardinality(set)
           q == Sorted(set)
<1>1. IsFiniteSet(set)
  BY FS_Subset, ExportConstants
<1>2. n \in Nat
  BY <1>1, FS_CardinalityType
<1>3. q = [i \in 1 .. n |-> Nth(set, i)]
  BY Zenon DEF Sorted
<1> HIDE DEF q, n
<1>4. q = [i \in 1 .. n |-> q[i]]
  BY <1>3
<1>5. IsSeq(q)
  BY <1>2, <1>4, ListIs
<1> QED
  BY <1>5 DEF q

LEMMA PrefixIs ==
  ASSUME NEW q, IsSeq(q), NEW n \in Nat
  PROVE  IsSeq(Prefix(q, n))
<1> DEFINE m == IF Len(q) < n THEN Len(q) ELSE n
           p == Prefix(q, n)
<1>1. Len(q) \in Nat /\ q \in Seq(ToSet(q))
  BY ToSetAre DEF IsSeq
<1>2. m \in 0 .. Len(q)
  BY <1>1
<1>3. p = SubSeq(q, 1, m)
  BY Zenon DEF Prefix
<1> HIDE DEF m, p
<1>4. SubSeq(q, 1, m) \in Seq(ToSet(q))
  BY <1>1, <1>2
<1>5. IsSeq(p)
  BY <1>3, <1>4, ListOf
<1> QED
  BY <1>5 DEF p

LEMMA OrderedIs ==
  ASSUME NEW subject
  PROVE  IsSeq(Ordered(subject))
<1> DEFINE others == {s \in Sessions \ {subject} : s \in discovered}
           behind == {s \in others : s > after}
           rest == {s \in others : s <= after}
<1>1. behind \subseteq Sessions /\ rest \subseteq Sessions
  OBVIOUS
<1>2. Ordered(subject) = Sorted(behind) \o Sorted(rest)
  BY Zenon DEF Ordered
<1> HIDE DEF behind, rest
<1>3. IsSeq(Sorted(behind)) /\ IsSeq(Sorted(rest))
  BY <1>1, SortedIs
<1> QED
  BY <1>2, <1>3, JoinIs

(* The tasks of a run: of the subject's traversal those that are pending. *)
LEMMA TasksAre ==
  ASSUME NEW subject \in Subjects, NEW owner \in {subject, Nobody}, IsTraversal(traversals[owner])
  PROVE  /\ IsTasks(Tasks(owner, subject), subject)
         /\ owner # Nobody =>
              /\ <<subject, owner>> \in ToSet(Tasks(owner, subject))
              /\ \A c \in ToSet(traversals[owner].pending) :
                   <<c, owner>> \in ToSet(Tasks(owner, subject))
<1> DEFINE pending == traversals[owner].pending
           found == Prefix(Ordered(subject), Chunk)
           unseen == {i \in DOMAIN found : found[i] \notin ToSet(pending)}
           others == {i \in DOMAIN pending : pending[i] # subject}
           ids == IF owner = Nobody THEN pending \o Select(found, unseen)
                  ELSE <<subject>> \o Select(pending, others)
<1>1. Tasks(owner, subject) = Tagged(ids, owner)
  BY Zenon DEF Tasks, Tagged
<1>2. IsSeq(pending)
  BY Zenon DEF IsTraversal
<1>3. Chunk \in Nat
  BY ExportConstants
<1>4. IsSeq(found)
  BY <1>3, OrderedIs, PrefixIs
<1>5. unseen \subseteq DOMAIN found /\ others \subseteq DOMAIN pending
  OBVIOUS
<1>6. \A i \in DOMAIN pending : i \in others \/ pending[i] = subject
  OBVIOUS
<1> HIDE DEF pending, found, unseen, others
<1>7. /\ IsFiniteSet(unseen) /\ unseen \subseteq Nat
      /\ IsFiniteSet(others) /\ others \subseteq Nat
  BY <1>2, <1>4, <1>5, PlacesAre
<1>8. /\ IsSeq(Select(found, unseen)) /\ IsSeq(Select(pending, others))
      /\ \A i \in others : pending[i] \in ToSet(Select(pending, others))
  BY <1>7, SelectIs
<1>9. IsSeq(<<subject>>) /\ ToSet(<<subject>>) = {subject}
  <2>1. <<subject>> \in Seq({subject})
    OBVIOUS
  <2>2. IsSeq(<<subject>>)
    BY <2>1, ListOf
  <2>3. Len(<<subject>>) = 1 /\ <<subject>>[1] = subject
    OBVIOUS
  <2>4. DOMAIN <<subject>> = 1 .. 1
    OBVIOUS
  <2> QED
    BY <2>2, <2>3, <2>4 DEF ToSet
<1>10. IsSeq(ids)
  BY <1>2, <1>8, <1>9, JoinIs
<1>11. ASSUME owner # Nobody, NEW c, c = subject \/ c \in ToSet(pending)
       PROVE  c \in ToSet(ids)
  <2>1. ToSet(ids) = ToSet(<<subject>>) \cup ToSet(Select(pending, others))
    BY <1>8, <1>9, <1>11, JoinIs
  <2>2. CASE c = subject
    BY <1>9, <2>1, <2>2
  <2>3. CASE c # subject
    <3>1. ToSet(pending) = {pending[i] : i \in DOMAIN pending}
      BY DEF ToSet
    <3>2. PICK i \in DOMAIN pending : pending[i] = c
      BY <1>11, <2>3, <3>1
    <3> QED
      BY <1>6, <1>8, <2>1, <2>3, <3>2
  <2> QED
    BY <2>2, <2>3
<1> HIDE DEF ids
<1>12. /\ IsTasks(Tagged(ids, owner), subject)
       /\ \A c \in ToSet(ids) : <<c, owner>> \in ToSet(Tagged(ids, owner))
  BY <1>10, TaggedIs
<1> QED
  BY <1>1, <1>11, <1>12 DEF pending

(* What a run takes over. *)
IsResumed(v, w) ==
  /\ IsTraversal(v) /\ v.offsets = w.offsets /\ v.retries = w.retries
  /\ v.completed = IF w.revision = db.revision THEN w.completed ELSE {}

LEMMA ResumedIs ==
  ASSUME NEW owner, IsTraversal(traversals[owner])
  PROVE  IsResumed(Resumed(owner), traversals[owner])
<1> DEFINE w == traversals[owner]
           v == Resumed(owner)
<1>1. v = IF w.revision = db.revision THEN w ELSE [w EXCEPT !.completed = {}]
  BY Zenon DEF Resumed
<1>2. /\ w = [pending |-> w.pending, offsets |-> w.offsets, retries |-> w.retries,
              completed |-> w.completed, revision |-> w.revision]
      /\ IsSeq(w.pending)
      /\ w.offsets \in [Sessions -> Nat] /\ w.retries \in [Sessions -> Nat \cup {Nothing}]
  BY Zenon DEF IsTraversal
<1> HIDE DEF v
<1>3. CASE w.revision = db.revision
  <2>1. v = w /\ IsTraversal(w)
    BY <1>1, <1>3
  <2> HIDE DEF w
  <2>2. IsResumed(v, w)
    BY <1>3, <2>1 DEF IsResumed
  <2> QED
    BY <2>2 DEF v, w
<1>4. CASE w.revision # db.revision
  <2>1. v = [w EXCEPT !.completed = {}]
    BY <1>1, <1>4
  <2> HIDE DEF w
  <2>2. v = [pending |-> w.pending, offsets |-> w.offsets, retries |-> w.retries,
             completed |-> {}, revision |-> w.revision]
    BY <1>2, <2>1
  <2>3. /\ v.pending = w.pending /\ v.offsets = w.offsets /\ v.retries = w.retries
        /\ v.completed = {} /\ v.revision = w.revision
    BY <2>2
  <2>4. v = [pending |-> v.pending, offsets |-> v.offsets, retries |-> v.retries,
             completed |-> v.completed, revision |-> v.revision]
    BY <2>2, <2>3, Zenon
  <2>5. IsTraversal(v)
    BY <1>2, <2>3, <2>4, Zenon DEF IsTraversal
  <2> QED
    <3>1. IsResumed(v, w)
      BY <1>4, <2>3, <2>5 DEF IsResumed
    <3> QED
      BY <3>1 DEF v, w
<1> QED
  BY <1>3, <1>4 DEF v

LEMMA NoTraversalIs ==
  /\ IsTraversal(NoTraversal) /\ NoTraversal.revision = Nothing
  /\ NoTraversal.completed = {}
  /\ \A s \in Sessions : NoTraversal.offsets[s] = 0 /\ NoTraversal.retries[s] = Nothing
<1> DEFINE offsets == [s \in Sessions |-> 0]
           retries == [s \in Sessions |-> Nothing]
           w == NoTraversal
<1>1. IsSeq(<<>>)
  <2>1. <<>> \in Seq({})
    OBVIOUS
  <2> QED
    BY <2>1, ListOf
<1>2. /\ offsets \in [Sessions -> Nat] /\ retries \in [Sessions -> Nat \cup {Nothing}]
      /\ \A s \in Sessions : offsets[s] = 0 /\ retries[s] = Nothing
  OBVIOUS
<1>3. w = [pending |-> <<>>, offsets |-> offsets, retries |-> retries,
           completed |-> {}, revision |-> Nothing]
  BY Zenon DEF NoTraversal
<1> HIDE DEF offsets, retries, w
<1>4. /\ w.pending = <<>> /\ w.offsets = offsets /\ w.retries = retries
      /\ w.completed = {} /\ w.revision = Nothing
  BY <1>3
<1>5. w = [pending |-> w.pending, offsets |-> w.offsets, retries |-> w.retries,
           completed |-> w.completed, revision |-> w.revision]
  BY <1>3, <1>4, Zenon
<1>6. IsTraversal(w)
  BY <1>1, <1>2, <1>4, <1>5, Zenon DEF IsTraversal
<1>7. \A s \in Sessions : w.offsets[s] = 0 /\ w.retries[s] = Nothing
  BY <1>2, <1>4
<1> QED
  BY <1>4, <1>6, <1>7 DEF w

(* A run whose pages are those of one that begins. *)
LEMMA FollowsStart ==
  ASSUME IsDatabase(db), NEW j, NEW w, IsTraversal(w), NEW b, IsDatabase(b),
         Follows(w, j, db, b, b), NEW v, v.offsets = w.offsets, v.retries = w.retries
  PROVE  Follows(v, j, db, b, db)
<1> SUFFICES ASSUME NEW x \in Sessions
             PROVE  /\ v.offsets[x] = 0 \/ v.offsets[x] < Len(db.pages[x])
                    /\ v.retries[x] # Nothing => v.retries[x] < Len(db.pages[x])
                    /\ \A i \in 1 .. v.offsets[x] :
                         (v.retries[x] # Nothing /\ v.retries[x] < i) \/ Since(j, b, db, x, i)
  BY DEF Follows
<1>1. /\ w.offsets[x] = 0 \/ w.offsets[x] < Len(db.pages[x])
      /\ w.retries[x] # Nothing => w.retries[x] < Len(db.pages[x])
      /\ \A i \in 1 .. w.offsets[x] :
           (w.retries[x] # Nothing /\ w.retries[x] < i) \/ Since(j, b, b, x, i)
  BY DEF Follows
<1>2. w.offsets[x] \in Nat /\ Len(db.pages[x]) \in Nat
  BY DatabaseIs DEF IsTraversal
<1>3. ASSUME NEW i \in 1 .. w.offsets[x], Since(j, b, b, x, i)
      PROVE  Since(j, b, db, x, i)
  <2>1. w.offsets[x] # 0
    BY <1>2, <1>3
  <2>2. w.offsets[x] < Len(db.pages[x])
    BY <1>1, <2>1
  <2> DEFINE o == w.offsets[x]
             n == Len(db.pages[x])
  <2>3. o \in Nat /\ n \in Nat /\ o # 0 /\ o < n
    BY <1>2, <2>1, <2>2
  <2> HIDE DEF o, n
  <2>4. ~(n = 1)
    BY <2>3
  <2>5. ~(Len(db.pages[x]) = 1)
    BY <2>4 DEF n
  <2> QED
    BY <1>3, <2>5 DEF Since
<1> QED
  BY <1>1, <1>3

(* A run that begins, field by field. *)
LEMMA BeginsIs ==
  ASSUME NEW subject \in Subjects, IsTraversal(traversals[subject]),
         IsTraversal(traversals[Nobody]),
         NEW tasks, IsTasks(tasks, subject),
         NEW q, q = [subject |-> subject, revision |-> db.revision, tasks |-> tasks,
                     scheduled |-> ToSet(tasks), seen |-> 0, retry |-> <<>>, after |-> after,
                     work |-> [owner \in {subject, Nobody} |-> Resumed(owner)]]
  PROVE  /\ IsScan(q) /\ q.subject = subject /\ q.revision = db.revision
         /\ q.scheduled = ToSet(tasks) /\ ToSet(tasks) \subseteq OpenTasks(q)
         /\ q.work[subject] = Resumed(subject)
<1> DEFINE work == [owner \in {subject, Nobody} |-> Resumed(owner)]
<1>1. \A owner \in {subject, Nobody} : work[owner] = Resumed(owner) /\ IsTraversal(Resumed(owner))
  <2>1. IsResumed(Resumed(subject), traversals[subject])
    BY ResumedIs
  <2>2. IsResumed(Resumed(Nobody), traversals[Nobody])
    BY ResumedIs
  <2>3. IsTraversal(Resumed(subject)) /\ IsTraversal(Resumed(Nobody))
    BY <2>1, <2>2, Zenon DEF IsResumed
  <2> QED
    BY <2>3
<1>2. work = [owner \in {subject, Nobody} |-> work[owner]]
  BY <1>1
<1> HIDE DEF work
<1>3. /\ q.subject = subject /\ q.revision = db.revision /\ q.tasks = tasks
      /\ q.scheduled = ToSet(tasks) /\ q.seen = 0 /\ q.retry = <<>> /\ q.after = after
      /\ q.work = work
  BY DEF work
<1>4. q = [subject |-> q.subject, revision |-> q.revision, tasks |-> q.tasks,
           scheduled |-> q.scheduled, seen |-> q.seen, retry |-> q.retry, after |-> q.after,
           work |-> q.work]
  BY <1>3, Zenon DEF work
<1>5. IsTasks(<<>>, subject)
  <2>1. <<>> \in Seq({}) /\ Len(<<>>) = 0
    OBVIOUS
  <2>2. IsSeq(<<>>)
    BY <2>1, ListOf
  <2> QED
    BY <2>1, <2>2 DEF IsTasks
<1>6. IsScan(q)
  BY <1>1, <1>2, <1>3, <1>4, <1>5, Zenon DEF IsScan
<1>7. ToSet(tasks) \subseteq OpenTasks(q)
  BY <1>3, Zenon DEF OpenTasks
<1> QED
  BY <1>1, <1>3, <1>6, <1>7

LEMMA StartRunStep ==
  ASSUME ExportInv, NEW s \in Subjects, StartRun(s)
  PROVE  ExportInv'
<1> DEFINE tasks == Tasks(s, s) \o Tasks(Nobody, s)
           w == traversals[s]
           b == IF traversals[s] = NoTraversal THEN db ELSE base[s]
<1>1. /\ ExportTypes /\ StoredInv /\ IsDatabase(db) /\ journal \in Journals /\ Read(journal, db)
      /\ \A owner \in Owners : IsTraversal(traversals[owner])
      /\ base = [x \in Subjects |-> base[x]]
  BY Zenon DEF ExportInv, ExportTypes, Journals
<1>2. s \in Sessions /\ s \in Owners /\ Nobody \in Owners /\ s # Nobody
  BY ExportConstants DEF Owners
<1>3. /\ scan' = [subject |-> s, revision |-> db.revision, tasks |-> tasks,
                  scheduled |-> ToSet(tasks), seen |-> 0, retry |-> <<>>, after |-> after,
                  work |-> [owner \in {s, Nobody} |-> Resumed(owner)]]
      /\ top' = db /\ UNCHANGED <<db, traversals, journal>>
  BY Zenon DEF StartRun
<1>4. /\ base' = [x \in Subjects |-> base'[x]] /\ base'[s] = b
      /\ \A x \in Subjects \ {s} : base'[x] = base[x]
  <2>1. base' = [base EXCEPT ![s] = b]
    BY Zenon DEF StartRun
  <2>2. DOMAIN base = Subjects
    BY <1>1, Zenon
  <2> HIDE DEF b
  <2> QED
    BY <2>1, <2>2
<1>5. IsTraversal(w) /\ IsTraversal(traversals[Nobody])
  BY <1>1, <1>2
<1>6. /\ IsTasks(Tasks(s, s), s) /\ IsTasks(Tasks(Nobody, s), s)
      /\ <<s, s>> \in ToSet(Tasks(s, s))
      /\ \A c \in ToSet(w.pending) : <<c, s>> \in ToSet(Tasks(s, s))
  BY <1>2, <1>5, TasksAre
<1>7. IsTasks(tasks, s) /\ ToSet(Tasks(s, s)) \subseteq ToSet(tasks)
  BY <1>6, TasksJoin, JoinIs DEF IsTasks
<1> HIDE DEF tasks
<1>8. /\ IsScan(scan') /\ scan'.subject = s /\ scan'.revision = db.revision
      /\ scan'.scheduled = ToSet(tasks) /\ ToSet(tasks) \subseteq OpenTasks(scan')
      /\ scan'.work[s] = Resumed(s)
  BY <1>3, <1>5, <1>7, BeginsIs
<1>9. /\ IsTraversal(Resumed(s)) /\ Resumed(s).offsets = w.offsets /\ Resumed(s).retries = w.retries
      /\ Resumed(s).completed = IF w.revision = db.revision THEN w.completed ELSE {}
  BY <1>5, ResumedIs, Zenon DEF IsResumed
<1>10. w # NoTraversal =>
         /\ IsDatabase(base[s]) /\ Grown(base[s], db) /\ Follows(w, journal, db, base[s], base[s])
         /\ w.revision = db.revision =>
              \A x \in w.completed :
                /\ Done(x, journal, db, base[s], db)
                /\ \A c \in db.children[x] : c \in w.completed \/ c \in ToSet(w.pending)
  BY <1>1, Zenon DEF StoredInv, Based
<1>11. IsDatabase(b) /\ Grown(b, db)
  BY <1>1, <1>10, GrownSelf
<1>12. Follows(Resumed(s), journal, db, b, db)
  <2>1. CASE w = NoTraversal
    <3>1. \A x \in Sessions : Resumed(s).offsets[x] = 0 /\ Resumed(s).retries[x] = Nothing
      BY <1>9, <2>1, NoTraversalIs
    <3>2. 1 .. 0 = {}
      OBVIOUS
    <3> QED
      BY <3>1, <3>2, Zenon DEF Follows
  <2>2. CASE w # NoTraversal
    <3>1. b = base[s] /\ Follows(w, journal, db, b, b)
      BY <1>10, <2>2
    <3> HIDE DEF b, w
    <3> QED
      BY <1>1, <1>5, <1>9, <1>11, <3>1, FollowsStart
  <2> QED
    BY <2>1, <2>2
<1>13. ASSUME NEW x \in Resumed(s).completed
       PROVE  /\ Done(x, journal, db, b, db)
              /\ \A c \in db.children[x] : Reached(scan', s, c)
  <2>1. w.revision = db.revision /\ x \in w.completed
    BY <1>9, <1>13
  <2>2. w # NoTraversal
    BY <2>1, NoTraversalIs
  <2>3. /\ b = base[s] /\ Done(x, journal, db, base[s], db)
        /\ \A c \in db.children[x] : c \in w.completed \/ c \in ToSet(w.pending)
    BY <1>10, <2>1, <2>2
  <2>4. ASSUME NEW c \in db.children[x]
        PROVE  Reached(scan', s, c)
    <3>1. CASE c \in w.completed
      BY <1>8, <1>9, <2>1, <3>1 DEF Reached
    <3>2. CASE c \in ToSet(w.pending)
      BY <1>6, <1>7, <1>8, <3>2 DEF Reached
    <3> QED
      BY <2>3, <3>1, <3>2
  <2> QED
    BY <2>3, <2>4
<1> HIDE DEF b
<1>14. ASSUME NEW p \in scan'.scheduled, p[2] = s
       PROVE  Reached(scan', s, p[1])
  <2>1. p \in OpenTasks(scan')
    BY <1>8, <1>14
  <2>2. p = <<p[1], s>>
    BY <1>8, <1>14, <2>1, OpenIs
  <2> QED
    BY <2>1, <2>2 DEF Reached
<1>15. ExportTypes'
  BY <1>1, <1>3, <1>4, <1>8, Zenon DEF ExportTypes
<1>16. Read(journal, db)'
  BY <1>1, <1>3, Zenon
<1>17. StoredInv'
  <2> SUFFICES ASSUME NEW x \in Subjects, traversals[x] # NoTraversal
               PROVE  base'[x] = base[x]
    BY <1>1, <1>3, Zenon DEF StoredInv, Based
  <2> QED
    BY <1>4 DEF b
<1>18. RunInv(scan, s)'
  <2>1. <<s, s>> \in scan'.scheduled
    BY <1>6, <1>7, <1>8
  <2>2. Grown(db, db)
    BY <1>1, GrownSelf
  <2> QED
    BY <1>3, <1>4, <1>8, <1>11, <1>12, <1>13, <1>14, <2>1, <2>2, Zenon DEF RunInv, Based
<1> QED
  BY <1>8, <1>15, <1>16, <1>17, <1>18, Zenon DEF ExportInv

LEMMA CrashStep ==
  ASSUME ExportInv, Crash
  PROVE  ExportInv'
<1>1. scan' = Nothing /\ UNCHANGED <<db, traversals, journal, base>>
  BY Zenon DEF Crash
<1>2. ExportTypes' /\ Read(journal, db)'
  BY <1>1, Zenon DEF ExportInv, ExportTypes
<1>3. StoredInv'
  BY <1>1, Zenon DEF ExportInv, StoredInv, Based
<1> QED
  BY <1>1, <1>2, <1>3, Zenon DEF ExportInv

-----------------------------------------------------------------------------
(* A run ends *)

(* What a run has not completed remains. *)
LEMMA RemainingIs ==
  ASSUME IsScan(scan), NEW owner
  PROVE  /\ IsSeq(Remaining(owner))
         /\ \A c : <<c, owner>> \in OpenTasks(scan) => c \in ToSet(Remaining(owner))
<1> DEFINE left == scan.tasks \o scan.retry
           places == {i \in DOMAIN left : left[i][2] = owner}
           owned == Select(left, places)
           q == Remaining(owner)
<1>1. IsSeq(scan.tasks) /\ IsSeq(scan.retry)
  BY Zenon DEF IsScan, IsTasks
<1>2. IsSeq(left) /\ ToSet(left) = OpenTasks(scan)
  BY <1>1, JoinIs DEF OpenTasks
<1>3. q = [i \in DOMAIN owned |-> owned[i][1]]
  BY Zenon DEF Remaining
<1>4. places \subseteq DOMAIN left /\ \A i \in DOMAIN left : left[i][2] = owner => i \in places
  OBVIOUS
<1> HIDE DEF left, places, q
<1>5. IsFiniteSet(places) /\ places \subseteq Nat
  BY <1>2, <1>4, PlacesAre
<1>6. IsSeq(owned) /\ \A i \in places : left[i] \in ToSet(owned)
  BY <1>5, SelectIs
<1> HIDE DEF owned
<1>7. Len(owned) \in Nat /\ DOMAIN owned = 1 .. Len(owned)
  BY <1>6, ToSetAre
<1>8. q = [i \in 1 .. Len(owned) |-> q[i]]
  BY <1>3, <1>7
<1>9. IsSeq(q) /\ Len(q) = Len(owned)
  BY <1>7, <1>8, ListIs
<1>10. ASSUME NEW c, <<c, owner>> \in OpenTasks(scan)
       PROVE  c \in ToSet(q)
  <2>1. PICK i \in DOMAIN left : left[i] = <<c, owner>>
    BY <1>2, <1>10 DEF ToSet
  <2>2. left[i][2] = owner
    BY <2>1
  <2>3. left[i] \in ToSet(owned)
    BY <1>4, <1>6, <2>1, <2>2
  <2>4. PICK k \in DOMAIN owned : owned[k] = <<c, owner>>
    BY <2>1, <2>3 DEF ToSet
  <2>5. q[k] = c /\ k \in DOMAIN q
    BY <1>3, <2>4
  <2> QED
    BY <2>5 DEF ToSet
<1> QED
  BY <1>9, <1>10 DEF q

(* What is stored of a traversal. *)
IsStored(v, w, pending, completed, revision) ==
  /\ IsTraversal(v) /\ v.offsets = w.offsets /\ v.retries = w.retries
  /\ v.pending = pending /\ v.completed = completed /\ v.revision = revision

LEMMA StoredIs ==
  ASSUME NEW w, IsTraversal(w), NEW pending, IsSeq(pending), NEW completed, NEW revision,
         NEW v, v = [w EXCEPT !.pending = pending, !.completed = completed, !.revision = revision]
  PROVE  IsStored(v, w, pending, completed, revision)
<1>1. /\ w = [pending |-> w.pending, offsets |-> w.offsets, retries |-> w.retries,
              completed |-> w.completed, revision |-> w.revision]
      /\ w.offsets \in [Sessions -> Nat] /\ w.retries \in [Sessions -> Nat \cup {Nothing}]
  BY Zenon DEF IsTraversal
<1>2. v = [pending |-> pending, offsets |-> w.offsets, retries |-> w.retries,
           completed |-> completed, revision |-> revision]
  BY <1>1
<1>3. /\ v.pending = pending /\ v.offsets = w.offsets /\ v.retries = w.retries
      /\ v.completed = completed /\ v.revision = revision
  BY <1>2
<1>4. v = [pending |-> v.pending, offsets |-> v.offsets, retries |-> v.retries,
           completed |-> v.completed, revision |-> v.revision]
  BY <1>2, <1>3, Zenon
<1>5. IsTraversal(v)
  BY <1>1, <1>3, <1>4, Zenon DEF IsTraversal
<1> QED
  BY <1>3, <1>5, Zenon DEF IsStored

(* What a run leaves of the traversal of one of its owners. *)
LEMMA SavedIs ==
  ASSUME IsScan(scan), FinishRun, NEW owner \in {scan.subject, Nobody}, owner \in Owners
  PROVE  IF Remaining(owner) = <<>> THEN traversals'[owner] = NoTraversal
         ELSE IsStored(traversals'[owner], scan.work[owner], Remaining(owner),
                       Remembered(owner), scan.revision)
<1> DEFINE v == [scan.work[owner] EXCEPT !.pending = Remaining(owner),
                                         !.completed = Remembered(owner),
                                         !.revision = scan.revision]
<1>1. /\ DOMAIN scan.work = {scan.subject, Nobody}
      /\ IsTraversal(scan.work[owner])
  BY Zenon DEF IsScan
<1>2. traversals'[owner] =
        IF owner \notin DOMAIN scan.work THEN traversals[owner]
        ELSE IF Remaining(owner) = <<>> THEN NoTraversal ELSE v
  BY Zenon DEF FinishRun
<1>3. traversals'[owner] = IF Remaining(owner) = <<>> THEN NoTraversal ELSE v
  BY <1>1, <1>2, Zenon
<1>4. IsStored(v, scan.work[owner], Remaining(owner), Remembered(owner), scan.revision)
  BY <1>1, RemainingIs, StoredIs
<1> HIDE DEF v
<1> QED
  BY <1>3, <1>4

LEMMA FinishRunStep ==
  ASSUME ExportInv, FinishRun
  PROVE  ExportInv'
<1> DEFINE sub == scan.subject
           work == scan.work[sub]
<1>1. /\ scan # Nothing /\ ExportTypes /\ StoredInv /\ IsDatabase(db) /\ journal \in Journals
      /\ Read(journal, db) /\ IsScan(scan) /\ IsDatabase(top) /\ RunInv(scan, sub)
      /\ base = [s \in Subjects |-> base[s]]
      /\ \A owner \in Owners : IsTraversal(traversals[owner])
  BY Zenon DEF ExportInv, ExportTypes, FinishRun, Journals
<1>2. /\ sub \in Subjects /\ sub \in Sessions /\ sub # Nobody
      /\ Nobody \in Owners /\ Subjects \subseteq Owners /\ Nobody \notin Subjects
  <2>1. sub \in Subjects
    BY <1>1, Zenon DEF IsScan
  <2> QED
    BY <2>1, ExportConstants DEF Owners
<1>3. /\ scan' = Nothing /\ UNCHANGED <<db, journal>>
      /\ traversals' = [owner \in Owners |-> traversals'[owner]]
  BY Zenon DEF FinishRun
<1>4. /\ base' = [s \in Subjects |-> base'[s]]
      /\ Remaining(sub) # <<>> => base'[sub] = base[sub]
      /\ \A s \in Subjects \ {sub} : base'[s] = base[s]
  <2> DEFINE b == IF Complete THEN Nothing ELSE base[sub]
  <2>1. base' = [base EXCEPT ![sub] = b]
    BY Zenon DEF FinishRun
  <2>2. Remaining(sub) # <<>> => b = base[sub]
    BY DEF Complete
  <2>3. DOMAIN base = Subjects
    BY <1>1, Zenon
  <2> HIDE DEF b, sub
  <2> QED
    BY <1>2, <2>1, <2>2, <2>3
<1>5. \A owner \in Owners \ {sub, Nobody} : traversals'[owner] = traversals[owner]
  <2>1. DOMAIN scan.work = {sub, Nobody}
    BY <1>1, Zenon DEF IsScan
  <2>2. ASSUME NEW owner \in Owners \ {sub, Nobody}
        PROVE  traversals'[owner] = traversals[owner]
    <3>1. owner \in Owners /\ owner \notin DOMAIN scan.work
      BY <2>1
    <3> QED
      BY <3>1, Zenon DEF FinishRun
  <2> QED
    BY <2>2
<1>6. \A owner \in {sub, Nobody} :
        IF Remaining(owner) = <<>> THEN traversals'[owner] = NoTraversal
        ELSE IsStored(traversals'[owner], scan.work[owner], Remaining(owner),
                      Remembered(owner), scan.revision)
  BY <1>1, <1>2, SavedIs
<1>7. \A owner \in Owners : IsTraversal(traversals'[owner])
  <2>1. ASSUME NEW owner \in {sub, Nobody}
        PROVE  IsTraversal(traversals'[owner])
    BY <1>6, <2>1, NoTraversalIs, Zenon DEF IsStored
  <2> QED
    BY <1>1, <1>5, <2>1
<1>8. ExportTypes'
  BY <1>1, <1>3, <1>4, <1>7, Zenon DEF ExportTypes
<1>9. Read(journal, db)'
  BY <1>1, <1>3, Zenon
<1>10. ASSUME Remaining(sub) # <<>>
       PROVE  /\ IsDatabase(base'[sub]) /\ Grown(base'[sub], db)
              /\ Follows(traversals'[sub], journal, db, base[sub], base[sub])
              /\ traversals'[sub].revision \in 0 .. db.revision
              /\ traversals'[sub].revision = db.revision =>
                   \A x \in traversals'[sub].completed :
                     /\ Done(x, journal, db, base[sub], db)
                     /\ \A c \in db.children[x] :
                          c \in traversals'[sub].completed \/ c \in ToSet(traversals'[sub].pending)
  <2> DEFINE v == traversals'[sub]
  <2>1. /\ IsTraversal(v) /\ v.offsets = work.offsets /\ v.retries = work.retries
        /\ v.pending = Remaining(sub) /\ v.completed = Remembered(sub) /\ v.revision = scan.revision
    BY <1>6, <1>10, Zenon DEF IsStored
  <2>2. /\ IsDatabase(base[sub]) /\ Grown(base[sub], db) /\ Grown(top, db)
        /\ scan.revision = top.revision /\ Follows(work, journal, db, base[sub], top)
        /\ \A x \in work.completed :
             /\ Done(x, journal, db, base[sub], top)
             /\ \A c \in top.children[x] : Reached(scan, sub, c)
    BY <1>1, Zenon DEF RunInv, Based
  <2> HIDE DEF v
  <2>3. IsDatabase(base'[sub]) /\ Grown(base'[sub], db)
    BY <1>4, <1>10, <2>2, Zenon
  <2>4. Follows(v, journal, db, base[sub], base[sub])
    <3>1. Follows(work, journal, db, base[sub], base[sub])
      BY <2>2, FollowsBase
    <3> QED
      BY <2>1, <3>1, Zenon DEF Follows
  <2>5. v.revision \in 0 .. db.revision /\ (v.revision = db.revision => top = db)
    <3>1. top.revision \in Nat /\ db.revision \in Nat
      BY <1>1, DatabaseIs
    <3> QED
      BY <2>1, <2>2, <3>1 DEF Grown
  <2>6. ASSUME v.revision = db.revision, NEW x \in v.completed
        PROVE  /\ Done(x, journal, db, base[sub], db)
               /\ \A c \in db.children[x] : c \in v.completed \/ c \in ToSet(v.pending)
    <3>1. v.completed = work.completed
      BY <2>1, <2>6 DEF Remembered
    <3>2. Done(x, journal, db, base[sub], db) /\ \A c \in db.children[x] : Reached(scan, sub, c)
      BY <2>2, <2>5, <2>6, <3>1
    <3>3. ASSUME NEW c \in db.children[x]
          PROVE  c \in v.completed \/ c \in ToSet(v.pending)
      <4>1. c \in work.completed \/ <<c, sub>> \in OpenTasks(scan)
        BY <3>2, <3>3 DEF Reached
      <4> QED
        BY <1>1, <2>1, <3>1, <4>1, RemainingIs
    <3> QED
      BY <3>2, <3>3
  <2> QED
    BY <2>3, <2>4, <2>5, <2>6, Zenon DEF v
<1>11. StoredInv'
  <2> SUFFICES ASSUME NEW s \in Subjects, traversals'[s] # NoTraversal
               PROVE  /\ IsDatabase(base'[s]) /\ Grown(base'[s], db)
                      /\ Follows(traversals'[s], journal, db, base'[s], base'[s])
                      /\ traversals'[s].revision \in 0 .. db.revision
                      /\ traversals'[s].revision = db.revision =>
                           \A x \in traversals'[s].completed :
                             /\ Done(x, journal, db, base'[s], db)
                             /\ \A c \in db.children[x] :
                                  \/ c \in traversals'[s].completed
                                  \/ c \in ToSet(traversals'[s].pending)
    BY <1>3, Zenon DEF StoredInv, Based
  <2>1. CASE s = sub
    <3>1. Remaining(sub) # <<>>
      BY <1>6, <2>1
    <3>2. base'[sub] = base[sub]
      BY <1>4, <3>1
    <3> QED
      BY <1>10, <2>1, <3>1, <3>2, Zenon
  <2>2. CASE s # sub
    <3>1. s \in Owners \ {sub, Nobody} /\ s \in Subjects \ {sub}
      BY <1>2, <2>2
    <3>2. traversals'[s] = traversals[s] /\ base'[s] = base[s]
      BY <1>4, <1>5, <3>1
    <3> QED
      BY <1>1, <1>3, <3>2, Zenon DEF StoredInv, Based
  <2> QED
    BY <2>1, <2>2
<1> QED
  BY <1>3, <1>8, <1>9, <1>11, Zenon DEF ExportInv

-----------------------------------------------------------------------------
(* Cursor writes *)

(* Whatever Cursor writes, the invariant stays true of a database that grows. *)
LEMMA GrowsInv ==
  ASSUME ExportInv, IsDatabase(db'), Grown(db, db'), db.revision < db'.revision,
         UNCHANGED <<traversals, journal, scan, base, top>>
  PROVE  ExportInv'
<1>1. /\ ExportTypes /\ StoredInv /\ IsDatabase(db) /\ journal \in Journals /\ Read(journal, db)
      /\ \A owner \in Owners : IsTraversal(traversals[owner])
  BY Zenon DEF ExportInv, ExportTypes, Journals
<1>2. Longer(journal, journal)
  <2>1. ASSUME NEW x \in Sessions, NEW i \in 1 .. MaxPages
        PROVE  journal[x][i] <= journal[x][i]
    <3>1. journal[x][i] \in Nat
      BY <1>1 DEF Journals
    <3> QED
      BY <3>1
  <2> QED
    BY <1>1, <2>1 DEF Longer
<1>3. ExportTypes'
  BY <1>1, Zenon DEF ExportTypes, ExportInv
<1>4. Read(journal, db)'
  <2>1. ASSUME NEW x \in Sessions, NEW i \in 1 .. MaxPages, journal[x][i] # Missing
        PROVE  i <= Len(db'.pages[x]) /\ journal[x][i] <= db'.pages[x][i]
    <3>1. i <= Len(db.pages[x]) /\ journal[x][i] <= db.pages[x][i]
      BY <1>1, <2>1 DEF Read
    <3>2. /\ Len(db.pages[x]) \in Nat /\ Len(db'.pages[x]) \in Nat
          /\ Len(db.pages[x]) <= Len(db'.pages[x]) /\ journal[x][i] \in Nat
      BY <1>1, DatabaseIs DEF Grown, Journals
    <3>3. i \in 1 .. Len(db.pages[x]) /\ i \in 1 .. Len(db'.pages[x])
      BY <3>1, <3>2
    <3>4. /\ db.pages[x][i] \in Nat /\ db'.pages[x][i] \in Nat
          /\ db.pages[x][i] <= db'.pages[x][i]
      BY <1>1, <3>3, DatabaseIs DEF Grown
    <3> QED
      BY <3>1, <3>2, <3>3, <3>4
  <2> QED
    BY <2>1 DEF Read
<1>5. db.revision \in Nat /\ db'.revision \in Nat
  BY <1>1, DatabaseIs
<1>6. ASSUME NEW s \in Subjects, traversals[s] # NoTraversal
      PROVE  /\ IsDatabase(base[s]) /\ Grown(base[s], db')
             /\ Follows(traversals[s], journal, db', base[s], base[s])
             /\ traversals[s].revision \in 0 .. db'.revision
             /\ traversals[s].revision # db'.revision
  <2>1. /\ IsDatabase(base[s]) /\ Grown(base[s], db)
        /\ Follows(traversals[s], journal, db, base[s], base[s])
        /\ traversals[s].revision \in 0 .. db.revision
    BY <1>1, <1>6, Zenon DEF StoredInv, Based
  <2>2. IsTraversal(traversals[s])
    BY <1>1, ExportConstants DEF Owners
  <2>3. Follows(traversals[s], journal, db', base[s], base[s])
    BY <1>1, <1>2, <2>1, <2>2, FollowsStays
  <2>4. Grown(base[s], db')
    BY <1>1, <2>1, GrownOn
  <2> QED
    BY <1>5, <2>1, <2>3, <2>4
<1>7. StoredInv'
  BY <1>6, Zenon DEF StoredInv, Based
<1>8. ASSUME scan # Nothing
      PROVE  RunInv(scan, scan.subject)'
  <2> DEFINE s == scan.subject
  <2>1. /\ IsScan(scan) /\ IsDatabase(top) /\ RunInv(scan, s)
    BY <1>8, Zenon DEF ExportInv, ExportTypes
  <2>2. /\ IsDatabase(base[s]) /\ Grown(base[s], db) /\ Grown(top, db)
        /\ scan.revision = top.revision /\ Follows(scan.work[s], journal, db, base[s], top)
        /\ <<s, s>> \in scan.scheduled
        /\ \A p \in scan.scheduled : p[2] = s => Reached(scan, s, p[1])
        /\ \A x \in scan.work[s].completed :
             /\ Done(x, journal, db, base[s], top)
             /\ \A c \in top.children[x] : Reached(scan, s, c)
    BY <2>1, Zenon DEF RunInv, Based
  <2>3. IsTraversal(scan.work[s])
    BY <2>1, Zenon DEF IsScan
  <2> HIDE DEF s
  <2>4. Grown(base[s], db') /\ Grown(top, db')
    BY <1>1, <2>1, <2>2, GrownOn
  <2>5. Follows(scan.work[s], journal, db', base[s], top)
    BY <1>1, <1>2, <2>1, <2>2, <2>3, FollowsStays
  <2>6. ASSUME NEW x \in scan.work[s].completed
        PROVE  Done(x, journal, db', base[s], top) /\ \A c \in top.children[x] : Reached(scan, s, c)
    <3>1. Done(x, journal, db, base[s], top) /\ \A c \in top.children[x] : Reached(scan, s, c)
      BY <2>2
    <3>2. Done(x, journal, db', base[s], top)
      BY <1>2, <2>1, <2>2, <3>1, DoneStays
    <3> QED
      BY <3>1, <3>2
  <2> QED
    BY <2>2, <2>4, <2>5, <2>6, Zenon DEF RunInv, Based, s
<1> QED
  BY <1>3, <1>4, <1>7, <1>8, Zenon DEF ExportInv

(* A database on which Cursor wrote once. *)
LEMMA WrittenIs ==
  ASSUME IsDatabase(db), NEW d,
         d \in [revision : Nat, saved : SUBSET Sessions, pages : [Sessions -> Seq(Nat)],
                children : [Sessions -> SUBSET Sessions]],
         d.revision = db.revision + 1, db.saved \subseteq d.saved,
         \A x \in Sessions :
           /\ db.children[x] \subseteq d.children[x]
           /\ Len(db.pages[x]) <= Len(d.pages[x]) /\ Len(d.pages[x]) <= MaxPages
           /\ \A i \in 1 .. Len(d.pages[x]) :
                \/ i \in 1 .. Len(db.pages[x]) /\ d.pages[x][i] = db.pages[x][i]
                \/ d.pages[x][i] = d.revision
                \/ i \notin 1 .. Len(db.pages[x]) /\ d.pages[x][i] = Missing
  PROVE  IsDatabase(d) /\ Grown(db, d) /\ db.revision < d.revision
<1>1. db.revision \in Nat /\ d.revision \in Nat /\ db.revision < d.revision
  BY DatabaseIs
<1>2. ASSUME NEW x \in Sessions
      PROVE  /\ Len(db.pages[x]) \in Nat /\ Len(d.pages[x]) \in Nat
             /\ \A i \in 1 .. Len(db.pages[x]) :
                  db.pages[x][i] \in Nat /\ db.pages[x][i] <= db.revision
  <2>1. d.pages[x] \in Seq(Nat)
    OBVIOUS
  <2> QED
    BY <2>1, DatabaseIs
<1>3. ASSUME NEW x \in Sessions, NEW i \in 1 .. Len(d.pages[x])
      PROVE  d.pages[x][i] <= d.revision
  <2>1. CASE i \in 1 .. Len(db.pages[x]) /\ d.pages[x][i] = db.pages[x][i]
    BY <1>1, <1>2, <2>1
  <2>2. CASE d.pages[x][i] = d.revision
    BY <1>1, <2>2
  <2>3. CASE d.pages[x][i] = 0
    BY <1>1, <2>3
  <2> QED
    BY <2>1, <2>2, <2>3 DEF Missing
<1>4. IsDatabase(d)
  BY <1>3 DEF IsDatabase
<1>5. ASSUME NEW x \in Sessions, NEW i \in 1 .. Len(db.pages[x])
      PROVE  db.pages[x][i] <= d.pages[x][i]
  <2>1. i \in 1 .. Len(d.pages[x])
    BY <1>2
  <2>2. d.pages[x][i] = db.pages[x][i] \/ d.pages[x][i] = d.revision
    BY <2>1
  <2> QED
    BY <1>1, <1>2, <2>2
<1>6. Grown(db, d)
  BY <1>1, <1>5 DEF Grown
<1> QED
  BY <1>1, <1>4, <1>6

(* Cursor's database after a write, and the pages that it may write. *)
Written(d, saved, pages, children) ==
  d = [revision |-> db.revision + 1, saved |-> saved, pages |-> pages, children |-> children]

PagesGrow(pages) ==
  /\ pages \in [Sessions -> Seq(Nat)]
  /\ \A x \in Sessions :
       /\ Len(db.pages[x]) <= Len(pages[x]) /\ Len(pages[x]) <= MaxPages
       /\ \A i \in 1 .. Len(pages[x]) :
            \/ i \in 1 .. Len(db.pages[x]) /\ pages[x][i] = db.pages[x][i]
            \/ pages[x][i] = db.revision + 1
            \/ i \notin 1 .. Len(db.pages[x]) /\ pages[x][i] = Missing

LEMMA WrittenWith ==
  ASSUME IsDatabase(db), NEW saved, NEW pages, NEW children, NEW d,
         Written(d, saved, pages, children), PagesGrow(pages),
         saved \in SUBSET Sessions, db.saved \subseteq saved,
         children \in [Sessions -> SUBSET Sessions],
         \A x \in Sessions : db.children[x] \subseteq children[x]
  PROVE  IsDatabase(d) /\ Grown(db, d) /\ db.revision < d.revision
<1>1. db.revision + 1 \in Nat
  BY DatabaseIs
<1>2. pages \in [Sessions -> Seq(Nat)]
  BY DEF PagesGrow
<1>3. /\ d \in [revision : Nat, saved : SUBSET Sessions, pages : [Sessions -> Seq(Nat)],
                children : [Sessions -> SUBSET Sessions]]
      /\ d.revision = db.revision + 1 /\ d.saved = saved /\ d.pages = pages
      /\ d.children = children
  BY <1>1, <1>2 DEF Written
<1> QED
  BY <1>3, WrittenIs DEF PagesGrow

LEMMA PagesSelf ==
  ASSUME IsDatabase(db)
  PROVE  PagesGrow(db.pages)
<1>1. db.pages \in [Sessions -> Seq(Nat)]
  BY Zenon DEF IsDatabase
<1>2. \A x \in Sessions : Len(db.pages[x]) \in Nat /\ Len(db.pages[x]) <= MaxPages
  BY DatabaseIs
<1> QED
  BY <1>1, <1>2 DEF PagesGrow

(* Another page of a session. *)
LEMMA PagesWith ==
  ASSUME IsDatabase(db), NEW s \in Sessions, NEW q \in Seq(Nat),
         Len(db.pages[s]) <= Len(q), Len(q) <= MaxPages,
         \A i \in 1 .. Len(q) :
           \/ i \in 1 .. Len(db.pages[s]) /\ q[i] = db.pages[s][i]
           \/ q[i] = db.revision + 1
           \/ i \notin 1 .. Len(db.pages[s]) /\ q[i] = Missing
  PROVE  PagesGrow([db.pages EXCEPT ![s] = q])
<1> DEFINE pages == [db.pages EXCEPT ![s] = q]
<1>1. db.pages \in [Sessions -> Seq(Nat)]
  BY Zenon DEF IsDatabase
<1>2. /\ pages \in [Sessions -> Seq(Nat)] /\ pages[s] = q
      /\ \A x \in Sessions \ {s} : pages[x] = db.pages[x]
  BY <1>1
<1> HIDE DEF pages
<1>3. PagesGrow(db.pages)
  BY PagesSelf
<1>4. ASSUME NEW x \in Sessions
      PROVE  /\ Len(db.pages[x]) <= Len(pages[x]) /\ Len(pages[x]) <= MaxPages
             /\ \A i \in 1 .. Len(pages[x]) :
                  \/ i \in 1 .. Len(db.pages[x]) /\ pages[x][i] = db.pages[x][i]
                  \/ pages[x][i] = db.revision + 1
                  \/ i \notin 1 .. Len(db.pages[x]) /\ pages[x][i] = Missing
  <2>1. CASE x = s
    BY <1>2, <2>1
  <2>2. CASE x # s
    <3>1. pages[x] = db.pages[x]
      BY <1>2, <2>2
    <3> QED
      BY <1>3, <3>1 DEF PagesGrow
  <2> QED
    BY <2>1, <2>2
<1>5. PagesGrow(pages)
  BY <1>2, <1>4, Zenon DEF PagesGrow
<1> QED
  BY <1>5 DEF pages

LEMMA ChangeIs ==
  ASSUME IsDatabase(db), NEW s \in Sessions, Change(s)
  PROVE  IsDatabase(db') /\ Grown(db, db') /\ db.revision < db'.revision
<1> DEFINE now == db.revision + 1
           old == db.pages[s]
<1>1. /\ db.revision \in Nat /\ db.saved \in SUBSET Sessions
      /\ db.pages \in [Sessions -> Seq(Nat)] /\ db.children \in [Sessions -> SUBSET Sessions]
      /\ db = [revision |-> db.revision, saved |-> db.saved, pages |-> db.pages,
               children |-> db.children]
  <2>1. db \in [revision : Nat, saved : SUBSET Sessions, pages : [Sessions -> Seq(Nat)],
                children : [Sessions -> SUBSET Sessions]]
    BY Zenon DEF IsDatabase
  <2> QED
    BY <2>1
<1>2. PagesGrow(db.pages) /\ \A x \in Sessions : db.children[x] \subseteq db.children[x]
  BY PagesSelf
<1>3. old \in Seq(Nat) /\ Len(old) \in Nat /\ DOMAIN old = 1 .. Len(old) /\ Len(old) <= MaxPages
  BY DatabaseIs
<1>4. MaxPages \in Nat
  BY ExportConstants
<1>5. ASSUME db' = [db EXCEPT !.revision = now, !.saved = db.saved \cup {s}]
      PROVE  IsDatabase(db') /\ Grown(db, db') /\ db.revision < db'.revision
  <2>1. Written(db', db.saved \cup {s}, db.pages, db.children)
    BY <1>1, <1>5 DEF Written
  <2>2. db.saved \cup {s} \in SUBSET Sessions /\ db.saved \subseteq db.saved \cup {s}
    BY <1>1
  <2> QED
    BY <1>1, <1>2, <2>1, <2>2, WrittenWith
<1>6. ASSUME NEW q, PagesGrow([db.pages EXCEPT ![s] = q]),
             db' = [db EXCEPT !.revision = now, !.pages = [db.pages EXCEPT ![s] = q]]
      PROVE  IsDatabase(db') /\ Grown(db, db') /\ db.revision < db'.revision
  <2>1. Written(db', db.saved, [db.pages EXCEPT ![s] = q], db.children)
    BY <1>1, <1>6 DEF Written
  <2> QED
    BY <1>1, <1>2, <1>6, <2>1, WrittenWith
<1>7. ASSUME NEW c \in Sessions,
             db' = [db EXCEPT !.revision = now,
                              !.children = [db.children EXCEPT ![s] = db.children[s] \cup {c}]]
      PROVE  IsDatabase(db') /\ Grown(db, db') /\ db.revision < db'.revision
  <2> DEFINE children == [db.children EXCEPT ![s] = db.children[s] \cup {c}]
  <2>1. /\ children \in [Sessions -> SUBSET Sessions]
        /\ \A x \in Sessions : db.children[x] \subseteq children[x]
    BY <1>1
  <2> HIDE DEF children
  <2>2. Written(db', db.saved, db.pages, children)
    BY <1>1, <1>7 DEF Written, children
  <2> QED
    BY <1>1, <1>2, <2>1, <2>2, WrittenWith
<1>8. ASSUME NEW page \in {Missing, now}, Len(old) < MaxPages
      PROVE  PagesGrow([db.pages EXCEPT ![s] = Append(old, page)])
  <2> DEFINE q == Append(old, page)
  <2>1. page \in Nat
    BY <1>1 DEF Missing
  <2>2. /\ q \in Seq(Nat) /\ Len(q) = Len(old) + 1
        /\ \A i \in 1 .. Len(old) : q[i] = old[i]
        /\ q[Len(old) + 1] = page
    BY <1>3, <2>1, AppendProperties
  <2> HIDE DEF q
  <2>3. Len(old) <= Len(q) /\ Len(q) <= MaxPages
    BY <1>3, <1>4, <1>8, <2>2
  <2>4. ASSUME NEW i \in 1 .. Len(q)
        PROVE  \/ i \in 1 .. Len(old) /\ q[i] = old[i]
               \/ q[i] = db.revision + 1
               \/ i \notin 1 .. Len(old) /\ q[i] = Missing
    <3>1. CASE i \in 1 .. Len(old)
      BY <2>2, <3>1
    <3>2. CASE i \notin 1 .. Len(old)
      <4>1. i = Len(old) + 1
        BY <1>3, <2>2, <3>2
      <4> QED
        BY <1>8, <2>2, <3>2, <4>1
    <3> QED
      BY <3>1, <3>2
  <2> QED
    BY <2>2, <2>3, <2>4, PagesWith DEF q
<1>9. ASSUME NEW k \in DOMAIN old
      PROVE  PagesGrow([db.pages EXCEPT ![s] = [old EXCEPT ![k] = now]])
  <2> DEFINE q == [old EXCEPT ![k] = now]
  <2>1. q \in Seq(Nat) /\ Len(q) = Len(old) /\ \A i \in 1 .. Len(old) : q[i] = old[i] \/ q[i] = now
    BY <1>1, <1>3
  <2> HIDE DEF q
  <2>2. Len(old) <= Len(q) /\ Len(q) <= MaxPages
    BY <1>3, <2>1
  <2> QED
    BY <2>1, <2>2, PagesWith DEF q
<1>10. \/ db' = [db EXCEPT !.revision = now, !.saved = db.saved \cup {s}]
       \/ /\ Len(old) < MaxPages
          /\ \E page \in {Missing, now} :
               db' = [db EXCEPT !.revision = now, !.pages = [db.pages EXCEPT ![s] = Append(old, page)]]
       \/ \E k \in DOMAIN old :
            db' = [db EXCEPT !.revision = now,
                             !.pages = [db.pages EXCEPT ![s] = [old EXCEPT ![k] = now]]]
       \/ \E c \in Sessions :
            db' = [db EXCEPT !.revision = now,
                             !.children = [db.children EXCEPT ![s] = db.children[s] \cup {c}]]
  <2>1. CASE /\ s \notin db.saved
             /\ db' = [db EXCEPT !.revision = now, !.saved = @ \cup {s}]
    BY <2>1, Zenon
  <2>2. CASE /\ s \in db.saved /\ Len(old) < MaxPages
             /\ \E page \in {Missing, now} :
                  db' = [db EXCEPT !.revision = now, !.pages[s] = Append(@, page)]
    BY <2>2, Zenon
  <2>3. CASE /\ s \in db.saved
             /\ \E i \in DOMAIN old : db' = [db EXCEPT !.revision = now, !.pages[s][i] = now]
    <3>1. PICK k \in DOMAIN old : db' = [db EXCEPT !.revision = now, !.pages[s][k] = now]
      BY <2>3, Zenon
    <3>2. db' = [db EXCEPT !.revision = now, !.pages = [db.pages EXCEPT ![s] = [old EXCEPT ![k] = now]]]
      BY <3>1, Zenon
    <3> QED
      BY <3>2, Zenon
  <2>4. CASE /\ s \in db.saved
             /\ \E c \in Sessions \ (db.children[s] \cup {s}) :
                  db' = [db EXCEPT !.revision = now, !.children[s] = @ \cup {c}]
    <3>1. PICK c \in Sessions : db' = [db EXCEPT !.revision = now, !.children[s] = @ \cup {c}]
      BY <2>4, Zenon
    <3>2. db' = [db EXCEPT !.revision = now,
                           !.children = [db.children EXCEPT ![s] = db.children[s] \cup {c}]]
      BY <3>1, Zenon
    <3> QED
      BY <3>2, Zenon
  <2> QED
    BY <2>1, <2>2, <2>3, <2>4, Zenon DEF Change
<1> HIDE DEF now, old
<1> QED
  BY <1>5, <1>6, <1>7, <1>8, <1>9, <1>10

LEMMA ChangeStep ==
  ASSUME ExportInv, NEW s \in Sessions, Change(s)
  PROVE  ExportInv'
<1>1. IsDatabase(db)
  BY Zenon DEF ExportInv, ExportTypes
<1>2. IsDatabase(db') /\ Grown(db, db') /\ db.revision < db'.revision
  BY <1>1, ChangeIs
<1>3. UNCHANGED <<traversals, journal, scan, base, top>>
  BY Zenon DEF Change
<1> QED
  BY <1>2, <1>3, GrowsInv

LEMMA DiscoverStep ==
  ASSUME ExportInv, NEW s \in Transcripts, Discover(s)
  PROVE  ExportInv'
<1>1. UNCHANGED <<db, traversals, journal, scan, base, top>>
  BY Zenon DEF Discover
<1> QED
  BY <1>1, Zenon DEF ExportInv, ExportTypes, StoredInv, RunInv, Based

-----------------------------------------------------------------------------
(* The theorems about the traversal *)

LEMMA ExportInit ==
  ASSUME EInit
  PROVE  ExportInv
<1>1. /\ IsDatabase(db) /\ scan = Nothing /\ MaxPages \in Nat
      /\ traversals = [owner \in Owners |-> NoTraversal] /\ base = [s \in Subjects |-> Nothing]
      /\ journal = [s \in Sessions |-> [i \in 1 .. MaxPages |-> Missing]]
  BY ExportConstants DEF EInit
<1>2. \A owner \in Owners : IsTraversal(traversals[owner])
  BY <1>1, NoTraversalIs
<1>3. traversals = [owner \in Owners |-> traversals[owner]] /\ base = [s \in Subjects |-> base[s]]
  BY <1>1
<1>4. /\ journal \in [Sessions -> [1 .. MaxPages -> Nat]]
      /\ \A s \in Sessions : \A i \in 1 .. MaxPages : journal[s][i] = Missing
  BY <1>1 DEF Missing
<1>5. ExportTypes
  BY <1>1, <1>2, <1>3, <1>4, Zenon DEF ExportTypes
<1>6. Read(journal, db)
  BY <1>4 DEF Read
<1>7. StoredInv
  <2>1. Subjects \subseteq Owners
    BY ExportConstants DEF Owners
  <2> QED
    BY <1>1, <2>1 DEF StoredInv
<1> QED
  BY <1>1, <1>5, <1>6, <1>7 DEF ExportInv

LEMMA ExportNext ==
  ASSUME ExportInv, [ENext]_evars
  PROVE  ExportInv'
<1>1. CASE \E s \in Subjects : StartRun(s)
  BY <1>1, StartRunStep
<1>2. CASE Export
  BY <1>2, ExportStep
<1>3. CASE ReadFails
  BY <1>3, ReadFailsStep
<1>4. CASE AppendFails
  BY <1>4, AppendFailsStep
<1>5. CASE FinishRun
  BY <1>5, FinishRunStep
<1>6. CASE Crash
  BY <1>6, CrashStep
<1>7. CASE \E s \in Sessions : Change(s)
  BY <1>7, ChangeStep
<1>8. CASE \E s \in Transcripts : Discover(s)
  BY <1>8, DiscoverStep
<1>9. CASE UNCHANGED evars
  <2>1. UNCHANGED <<db, traversals, journal, scan, base, top>>
    BY <1>9, Zenon DEF evars
  <2> QED
    BY <2>1, Zenon DEF ExportInv, ExportTypes, StoredInv, RunInv, Based
<1> QED
  BY <1>1, <1>2, <1>3, <1>4, <1>5, <1>6, <1>7, <1>8, <1>9, Zenon DEF ENext, Run

LEMMA ExportAlways == ESpec => []ExportInv
<1>1. EInit => ExportInv
  BY ExportInit
<1>2. ExportInv /\ [ENext]_evars => ExportInv'
  BY ExportNext
<1> QED
  BY <1>1, <1>2, PTL DEF ESpec

(* The page that completes a subject is behind all of its pages. *)
LEMMA TerminalStep ==
  ASSUME ExportInv, [ENext]_evars, NEW s \in ended' \ ended, NEW i \in DOMAIN db.pages[s]
  PROVE  /\ journal'[s][i] # Missing
         /\ i \in DOMAIN base[s].pages[s] => journal'[s][i] >= base[s].pages[s][i]
<1>1. Export
  <2>1. ASSUME NEW x \in Subjects, StartRun(x)
        PROVE  FALSE
    <3>1. ended' = ended \ {x}
      BY <2>1, Zenon DEF StartRun
    <3> QED
      BY <3>1
  <2>2. ASSUME ReadFails \/ AppendFails \/ FinishRun \/ Crash \/ (\E x \in Sessions : Change(x))
                 \/ (\E x \in Transcripts : Discover(x)) \/ UNCHANGED evars
        PROVE  FALSE
    <3>1. ended' = ended
      BY <2>2, Zenon DEF ReadFails, AppendFails, FinishRun, Crash, Change, Discover, evars
    <3> QED
      BY <3>1
  <2> QED
    BY <2>1, <2>2, Zenon DEF ENext, Run
<1> DEFINE x == Head(scan.tasks)[1]
           owner == Head(scan.tasks)[2]
<1>2. /\ x \in db.saved /\ journal' = Appended(x, Page.at)
      /\ ended' = IF x = scan.subject /\ owner = x /\ Page.complete THEN ended \cup {x} ELSE ended
  BY <1>1, Zenon DEF Export
<1>3. s = x /\ s = scan.subject /\ owner = s /\ Page.complete
  BY <1>2
<1>4. Page = ReadPage(x, scan.work[owner].offsets[x], scan.work[owner].retries[x])
  BY Zenon DEF Page
<1> HIDE DEF x, owner
<1>5. /\ IsDatabase(db) /\ journal \in Journals /\ Read(journal, db) /\ IsScan(scan)
      /\ IsDatabase(top) /\ RunInv(scan, s)
  BY <1>1, <1>3, Zenon DEF ExportInv, ExportTypes, Export, Working, Journals
<1>6. /\ s \in Sessions /\ IsDatabase(base[s]) /\ Grown(base[s], db) /\ Grown(top, db)
      /\ Follows(scan.work[s], journal, db, base[s], top)
      /\ IsTraversal(scan.work[s])
  BY <1>2, <1>3, <1>5, DatabaseIs DEF RunInv, Based, IsScan
<1> DEFINE w == scan.work[s]
           p == ReadPage(s, w.offsets[s], w.retries[s])
           k == Appended(s, p.at)
<1>7. journal' = k /\ p.complete
  BY <1>2, <1>3, <1>4
<1>8. w.offsets \in [Sessions -> Nat] /\ w.retries \in [Sessions -> Nat \cup {Nothing}]
  BY <1>6, Zenon DEF IsTraversal
<1>9. PageIs(p, s, w.offsets[s], w.retries[s])
  BY <1>5, <1>6, <1>8, ReadPageIs
<1> HIDE DEF w, p
<1>10. p.at \in Nat
  BY <1>9, Zenon DEF PageIs
<1>11. Longer(journal, k)
  BY <1>5, <1>6, <1>10, AppendedIs
<1>12. \A n \in 1 .. Len(db.pages[s]) : Since(k, base[s], top, s, n)
  <2>1. TRUE \in BOOLEAN /\ p = ReadPage(s, w.offsets[s], w.retries[s])
    BY DEF p
  <2> QED
    BY <1>5, <1>6, <1>7, <1>11, <2>1, FollowsOn DEF w
<1>13. /\ i \in 1 .. Len(db.pages[s])
       /\ DOMAIN base[s].pages[s] = 1 .. Len(base[s].pages[s])
       /\ Len(base[s].pages[s]) \in Nat
       /\ \A n \in 1 .. Len(base[s].pages[s]) : base[s].pages[s][n] \in Nat
  BY <1>5, <1>6, DatabaseIs
<1>14. Since(k, base[s], top, s, i)
  BY <1>12, <1>13
<1>15. k[s][i] \in Nat
  <2>1. Len(db.pages[s]) <= MaxPages /\ Len(db.pages[s]) \in Nat /\ MaxPages \in Nat
    BY <1>5, <1>6, DatabaseIs, ExportConstants
  <2> QED
    BY <1>6, <1>11, <1>13, <2>1 DEF Longer, Journals
<1> HIDE DEF k
<1>16. k[s][i] # Missing /\ (i <= Len(base[s].pages[s]) => base[s].pages[s][i] <= k[s][i])
  BY <1>14 DEF Since
<1> QED
  BY <1>7, <1>13, <1>15, <1>16

(* No session gets its terminal event before all of its messages, also those *)
(* that Cursor listed before it saved them, however the run came to its last  *)
(* page.                                                                      *)
THEOREM TerminalComesLast == ESpec => TerminalLast
<1>1. ExportInv /\ [ENext]_evars =>
        [\A s \in ended' \ ended : \A i \in DOMAIN db.pages[s] :
           /\ journal'[s][i] # Missing
           /\ i \in DOMAIN base[s].pages[s] => journal'[s][i] >= base[s].pages[s][i]]_evars
  BY TerminalStep
<1> QED
  BY <1>1, ExportAlways, PTL DEF ESpec, TerminalLast

(* A run that has nothing left has completed all it could reach. *)
LEMMA ReachIsCompleted ==
  ASSUME ExportInv, scan # Nothing, Complete, NEW s \in Reach(top, scan.subject)
  PROVE  s \in scan.work[scan.subject].completed
<1> DEFINE sub == scan.subject
           set == scan.work[sub].completed
<1>1. /\ IsScan(scan) /\ <<sub, sub>> \in scan.scheduled
      /\ \A p \in scan.scheduled : p[2] = sub => Reached(scan, sub, p[1])
      /\ \A x \in set : x \in Sessions /\ \A c \in top.children[x] : Reached(scan, sub, c)
  BY Zenon DEF ExportInv, ExportTypes, RunInv, Done
<1> HIDE DEF sub, set
<1>2. ASSUME NEW c, Reached(scan, sub, c)
      PROVE  c \in set
  <2>1. Remaining(sub) = <<>>
    BY DEF Complete, sub
  <2>2. ToSet(<<>>) = {}
    BY DEF ToSet
  <2>3. <<c, sub>> \in OpenTasks(scan) => c \in ToSet(Remaining(sub))
    BY <1>1, RemainingIs
  <2> QED
    BY <1>2, <2>1, <2>2, <2>3 DEF Reached, set
<1>3. sub \in set
  <2>1. <<sub, sub>>[1] = sub /\ <<sub, sub>>[2] = sub
    OBVIOUS
  <2> QED
    BY <1>1, <1>2, <2>1
<1>4. set \in SUBSET Sessions /\ UNION {top.children[y] : y \in set} \subseteq set
  BY <1>1, <1>2
<1>5. s \in set
  BY <1>3, <1>4 DEF Reach, sub
<1> QED
  BY <1>5 DEF set, sub

LEMMA CompleteStep ==
  ASSUME ExportInv, FinishRun, Complete, NEW s \in Reach(top, scan.subject)
  PROVE  /\ s \in db.saved
         /\ \A i \in DOMAIN top.pages[s] :
              /\ journal[s][i] # Missing
              /\ i \in DOMAIN base[scan.subject].pages[s] => journal[s][i] >= base[scan.subject].pages[s][i]
              /\ Len(top.pages[s]) = 1 => journal[s][i] >= top.pages[s][i]
<1> DEFINE b == base[scan.subject]
<1>1. scan # Nothing
  BY Zenon DEF FinishRun
<1>2. /\ IsDatabase(db) /\ IsDatabase(top) /\ IsDatabase(b) /\ Grown(top, db)
      /\ journal \in Journals /\ RunInv(scan, scan.subject)
  BY <1>1, Zenon DEF ExportInv, ExportTypes, RunInv, Based, Journals
<1>3. s \in scan.work[scan.subject].completed
  BY <1>1, ReachIsCompleted
<1>4. Done(s, journal, db, b, top)
  BY <1>2, <1>3, Zenon DEF RunInv
<1> HIDE DEF b
<1>5. /\ s \in Sessions /\ s \in db.saved
      /\ \A i \in 1 .. Len(top.pages[s]) : Since(journal, b, top, s, i)
  BY <1>4 DEF Done
<1>6. /\ DOMAIN top.pages[s] = 1 .. Len(top.pages[s]) /\ Len(top.pages[s]) \in Nat
      /\ Len(top.pages[s]) <= MaxPages
      /\ DOMAIN b.pages[s] = 1 .. Len(b.pages[s]) /\ Len(b.pages[s]) \in Nat
      /\ \A i \in 1 .. Len(top.pages[s]) : top.pages[s][i] \in Nat
      /\ \A i \in 1 .. Len(b.pages[s]) : b.pages[s][i] \in Nat
  BY <1>2, <1>5, DatabaseIs
<1>7. ASSUME NEW i \in DOMAIN top.pages[s]
      PROVE  /\ journal[s][i] # Missing
             /\ i \in DOMAIN b.pages[s] => journal[s][i] >= b.pages[s][i]
             /\ Len(top.pages[s]) = 1 => journal[s][i] >= top.pages[s][i]
  <2>1. /\ journal[s][i] # Missing
        /\ i <= Len(b.pages[s]) => b.pages[s][i] <= journal[s][i]
        /\ Len(top.pages[s]) = 1 /\ i = 1 => top.pages[s][i] <= journal[s][i]
    BY <1>5, <1>6, <1>7 DEF Since
  <2>2. journal[s][i] \in Nat
    <3>1. MaxPages \in Nat
      BY ExportConstants
    <3>2. i \in 1 .. MaxPages
      BY <1>6, <1>7, <3>1
    <3> QED
      BY <1>2, <1>5, <3>2 DEF Journals
  <2> QED
    BY <1>6, <1>7, <2>1, <2>2
<1> QED
  BY <1>5, <1>7 DEF b

(* A run that calls its subject complete has exported all that was reachable  *)
(* from it: what is behind the traversal's places, what is completed and what *)
(* is open leave no session and no page out.                                  *)
THEOREM CompleteIsExported == ESpec => CompleteMeansExported
<1>1. ExportInv /\ [ENext]_evars =>
        [FinishRun /\ Complete =>
           \A s \in Reach(top, scan.subject) :
             /\ s \in db.saved
             /\ \A i \in DOMAIN top.pages[s] :
                  /\ journal[s][i] # Missing
                  /\ i \in DOMAIN base[scan.subject].pages[s] => journal[s][i] >= base[scan.subject].pages[s][i]
                  /\ Len(top.pages[s]) = 1 => journal[s][i] >= top.pages[s][i]]_evars
  BY CompleteStep
<1> QED
  BY <1>1, ExportAlways, PTL DEF ESpec, CompleteMeansExported

=============================================================================
