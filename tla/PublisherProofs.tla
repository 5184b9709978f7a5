--------------------------- MODULE PublisherProofs ---------------------------
(***************************************************************************)
(* Theorems about Releases and Publisher, for any contents, versions,      *)
(* committers and bounds, with and without the GitLab template.  First, in *)
(* Releases: a version names one content for ever, and none is lowered.    *)
(* Then: the runs that push to two branches implement Releases, where a    *)
(* publication is one step.                                                *)
(*                                                                         *)
(* The second argument is about what the push leaves out.  A branch that   *)
(* has the wanted revision goes without a lease, so a push could move one  *)
(* branch and never look at the other. SnapshotInv rules it out: after a   *)
(* run has looked at the source branch, commits of its own do not appear   *)
(* there, so the branch cannot have what the run wants; and as long as the *)
(* source branch stays, so does the release branch (BaseInv). Every push   *)
(* therefore moves both branches from where the run found them.            *)
(***************************************************************************)
EXTENDS Publisher, SequenceTheorems, TLAPS

Typed ==
  /\ source \in Seq(SourceCommit) /\ source # <<>>
  /\ release \in Seq(ReleaseCommit)

-----------------------------------------------------------------------------
(* A nonempty sequence has a last element; SubSeq keeps a start of it. *)
LEMMA LastIs ==
  ASSUME NEW S, NEW s \in Seq(S), s # <<>>
  PROVE  Last(s) \in S /\ Last(s) = s[Len(s)] /\ Len(s) \in 1 .. Len(s)
BY DEF Last

LEMMA StartIs ==
  ASSUME NEW S, NEW s \in Seq(S), NEW n \in 1 .. Len(s)
  PROVE  LET t == SubSeq(s, 1, n)
         IN /\ t \in Seq(S) /\ t # <<>> /\ Len(t) = n
            /\ \A i \in 1 .. n : t[i] = s[i]
            /\ Last(t) = s[n]
<1>1. /\ SubSeq(s, 1, n) \in Seq(S) /\ Len(SubSeq(s, 1, n)) = n
      /\ \A i \in 1 .. n : SubSeq(s, 1, n)[i] = s[i]
  BY SubSeqProperties
<1>2. SubSeq(s, 1, n) # <<>>
  BY <1>1
<1> QED BY <1>1, <1>2 DEF Last

(* What an author commits. *)
AuthorsCommit(s, c, v, by) ==
  [content |-> c, version |-> v, pointer |-> Last(s).pointer, by |-> by]

LEMMA AuthoredIs ==
  ASSUME NEW s \in Seq(SourceCommit), s # <<>>, NEW c \in Contents,
         NEW v \in Requested \cup {Last(s).version}, NEW by \in Committers \cup {None}
  PROVE  /\ AuthorsCommit(s, c, v, by) \in SourceCommit /\ AuthorsCommit(s, c, v, by).by = by
         /\ Authored(s, c, v, by) = Append(s, AuthorsCommit(s, c, v, by))
<1>1. Last(s) \in SourceCommit
  BY LastIs
<1>2. AuthorsCommit(s, c, v, by) \in SourceCommit
  BY <1>1, ReleasesConstants DEF SourceCommit, AuthorsCommit
<1> QED BY <1>2 DEF Authored, AuthorsCommit

(* The resolved version of a tip is a version, not below that of the last   *)
(* release and, for another content, above it.                              *)
LEMMA ResolveVersionIs ==
  ASSUME NEW tip \in SourceCommit, NEW s \in Seq(ReleaseCommit)
  PROVE  LET v == ResolveVersion(tip, s)
         IN /\ v \in Nat /\ Built(tip, v) \in ReleaseCommit
            /\ s # <<>> => /\ Last(s).version <= v
                           /\ Last(s).version = v => Last(s).content = tip.content
<1>1. tip.version \in Nat /\ tip.content \in Contents
  BY DEF SourceCommit
<1>2. CASE s = <<>>
  BY <1>1, <1>2 DEF ResolveVersion, Built, ReleaseCommit
<1>3. CASE s # <<>>
  <2>1. Last(s).version \in Nat /\ Last(s).content \in Contents
    <3>1. Last(s) \in ReleaseCommit
      BY <1>3, LastIs
    <3> QED BY <3>1 DEF ReleaseCommit
  <2>2. CASE Last(s).content = tip.content
    BY <1>1, <1>3, <2>1, <2>2 DEF ResolveVersion, Max2, Built, ReleaseCommit
  <2>3. CASE Last(s).content # tip.content
    BY <1>1, <1>3, <2>1, <2>3 DEF ResolveVersion, Max2, Built, ReleaseCommit
  <2> QED BY <2>2, <2>3
<1> QED BY <1>2, <1>3

(* A release on top of others keeps what is said of them. *)
LEMMA NamesStays ==
  ASSUME Typed, VersionNamesContent, NEW tip \in SourceCommit,
         release' = Append(release, Built(tip, ResolveVersion(tip, release)))
  PROVE  release' \in Seq(ReleaseCommit) /\ VersionNamesContent'
<1> DEFINE v == ResolveVersion(tip, release)
           n == Len(release)
<1>1. /\ v \in Nat /\ Built(tip, v) \in ReleaseCommit
      /\ release # <<>> => /\ Last(release).version <= v
                           /\ Last(release).version = v => Last(release).content = tip.content
  BY ResolveVersionIs DEF Typed
<1> HIDE DEF v
<1>2. /\ n \in Nat /\ Len(release') = n + 1 /\ release' \in Seq(ReleaseCommit)
      /\ release'[n + 1] = Built(tip, v) /\ \A i \in 1 .. n : release'[i] = release[i]
  BY <1>1 DEF Typed, v
<1>3. ASSUME NEW i \in 1 .. n + 1, NEW j \in 1 .. n + 1, i < j
      PROVE  /\ release'[i].version <= release'[j].version
             /\ release'[i].version = release'[j].version =>
                  release'[i].content = release'[j].content
  <2>1. CASE j <= n
    BY <1>2, <1>3, <2>1 DEF VersionNamesContent
  <2>2. CASE j = n + 1
    <3>1. i \in 1 .. n /\ n \in 1 .. n /\ release # <<>> /\ Last(release) = release[n]
      BY <1>2, <1>3, <2>2, LastIs DEF Typed
    <3>2. release[i].version \in Nat /\ release[n].version \in Nat
      <4>1. release[i] \in ReleaseCommit /\ release[n] \in ReleaseCommit
        BY <3>1 DEF Typed
      <4> QED BY <4>1 DEF ReleaseCommit
    <3>3. /\ release[i].version <= release[n].version
          /\ release[i].version = release[n].version => release[i].content = release[n].content
      <4>1. CASE i < n
        BY <3>1, <4>1 DEF VersionNamesContent
      <4>2. CASE i = n
        BY <3>2, <4>2
      <4> QED BY <1>2, <3>1, <4>1, <4>2
    <3>4. release'[i] = release[i] /\ release'[j] = [content |-> tip.content, version |-> v]
      BY <1>2, <2>2, <3>1 DEF Built
    <3> QED BY <1>1, <3>1, <3>2, <3>3, <3>4
  <2> QED BY <1>2, <2>1, <2>2
<1> QED
  <2>1. Len(release') = n + 1
    BY <1>2
  <2> HIDE DEF n
  <2>2. VersionNamesContent'
    <3> SUFFICES ASSUME NEW i \in 1 .. Len(release'), NEW j \in 1 .. Len(release'), i < j
                 PROVE  /\ release'[i].version <= release'[j].version
                        /\ release'[i].version = release'[j].version =>
                             release'[i].content = release'[j].content
      BY Zenon DEF VersionNamesContent
    <3>1. i \in 1 .. n + 1 /\ j \in 1 .. n + 1
      BY <2>1
    <3> QED BY Zenon, <1>3, <3>1
  <2> QED BY Zenon, <1>2, <2>2

-----------------------------------------------------------------------------
Inv == Typed /\ VersionNamesContent

(* Nothing is released at first. *)
LEMMA InitInv == Init => Inv
<1> SUFFICES ASSUME Init PROVE Inv
  OBVIOUS
<1>1. PICK c \in Contents, v \in Requested :
        source = <<[content |-> c, version |-> v, pointer |-> None, by |-> None]>>
  BY DEF Init
<1>2. [content |-> c, version |-> v, pointer |-> None, by |-> None] \in SourceCommit
  BY ReleasesConstants DEF SourceCommit
<1> QED BY <1>1, <1>2 DEF Init, Inv, Typed, VersionNamesContent

(* A release is built from a commit of the new source. *)
LEMMA PublishInv == Inv /\ Publish => Inv'
<1> SUFFICES ASSUME Inv, Publish PROVE Inv'
  OBVIOUS
<1> USE DEF Inv
<1>1. source' \in Seq(SourceCommit)
  BY DEF Publish
<1>2. source' # <<>>
  <2>1. Len(source) <= Len(source') /\ Len(source) # 0
    BY DEF Publish, IsPrefix, Typed
  <2> QED BY <1>1, <2>1 DEF Typed
<1>3. ASSUME NEW s, Last(s) \in SourceCommit, Release(s)
      PROVE  release' \in Seq(ReleaseCommit) /\ VersionNamesContent'
  BY <1>3, NamesStays DEF Release
<1>4. CASE Release(source)
  BY <1>1, <1>2, <1>3, <1>4, LastIs DEF Typed
<1>5. ASSUME NEW n \in Len(source) + 1 .. Len(source'), Release(SubSeq(source', 1, n))
      PROVE  Inv'
  <2>1. n \in 1 .. Len(source')
    BY <1>1 DEF Typed
  <2>2. Last(SubSeq(source', 1, n)) = source'[n] /\ source'[n] \in SourceCommit
    BY <1>1, <2>1, StartIs
  <2> QED BY <1>1, <1>2, <1>3, <1>5, <2>2 DEF Typed
<1> QED BY <1>4, <1>5 DEF Publish

(* Steps keep the invariant. *)
LEMMA NextInv == Inv /\ [Next]_vars => Inv'
<1> SUFFICES ASSUME Inv, [Next]_vars PROVE Inv'
  OBVIOUS
<1>1. CASE Edit
  <2>1. PICK c \in Contents, v \in Requested \cup {Last(source).version} :
          source' = Authored(source, c, v, None)
    BY <1>1 DEF Edit
  <2>2. \E commit \in SourceCommit : source' = Append(source, commit)
    BY <2>1, AuthoredIs DEF Inv, Typed
  <2> QED BY <1>1, <2>2 DEF Edit, Inv, Typed, VersionNamesContent
<1>2. CASE Publish
  BY <1>2, PublishInv
<1>3. CASE UNCHANGED vars
  BY <1>3 DEF vars, Inv, Typed, VersionNamesContent
<1> QED BY <1>1, <1>2, <1>3 DEF Next

(* However authors and publications interleave, a version, once released,   *)
(* names one content, and no release has a lower version than an earlier    *)
(* one (versions.py:117).                                                   *)
THEOREM VersionsNameContents == Spec => []VersionNamesContent
<1>1. Inv => VersionNamesContent
  BY DEF Inv
<1> QED BY InitInv, NextInv, <1>1, PTL DEF Spec

-----------------------------------------------------------------------------
(* Up to its n-th commit, s is a start of t. *)
Agrees(s, t, n) == n <= Len(s) /\ n <= Len(t) /\ \A i \in 1 .. n : s[i] = t[i]

(* Other people's commits in a checkout come from the source branch. *)
HeadInv ==
  \A r \in Committers : \A n \in 1 .. Len(head[r]) :
    head[r][n].by # r => Agrees(head[r], source, n)

Started == {"fetch", "build", "connect", "update"}

(* A run has no base before it takes its snapshot. *)
NoBaseInv == \A r \in Committers : pc[r] \notin Started => sourceBase[r] = <<>>

(* Since its snapshot the source branch has got no commits of the run.      *)
SnapshotInv ==
  \A r \in Committers :
    pc[r] \in Started =>
      /\ Agrees(sourceBase[r], source, Len(sourceBase[r]))
      /\ \A n \in 1 .. Len(source) : source[n].by = r => n <= Len(sourceBase[r])
      /\ \A n \in 1 .. Len(head[r]) : head[r][n].by # r => n <= Len(sourceBase[r])

(* The release branch does not move without the source branch. *)
BaseInv ==
  \A r \in Committers :
    pc[r] \in {"build", "connect", "update"} /\ source = sourceBase[r] =>
      release = releaseBase[r]

(* What a run wants the branches to have. *)
Tip(r) == Last(head[r])
Version(r) == ResolveVersion(Tip(r), releaseBase[r])
Output(r) == Built(Tip(r), Version(r))
WantsRelease(r) == NewRelease(releaseBase[r], Output(r))
WantsSource(r) ==
  NewSource(head[r], Recorded(Tip(r), Version(r), r), WantsRelease(r) # releaseBase[r])

PlanInv ==
  \A r \in Committers :
    pc[r] \in {"connect", "update"} =>
      /\ sourceCommit[r] = WantsSource(r)
      /\ releaseCommit[r]
           = NewRecord(releaseBase[r], Output(r), WantsSource(r) # sourceBase[r])

SentInv ==
  \A r \in Committers :
    pc[r] = "update" =>
      sent[r] = {"source", "release"} /\ sourceCommit[r] # sourceBase[r]

PInv ==
  /\ TypeOK /\ HeadInv /\ NoBaseInv /\ SnapshotInv /\ BaseInv /\ PlanInv /\ SentInv

-----------------------------------------------------------------------------
(* Prefixes commit by commit. *)
LEMMA PrefixIs ==
  ASSUME NEW S, NEW s \in Seq(S), NEW t \in Seq(S)
  PROVE  IsPrefix(s, t) <=> Agrees(s, t, Len(s))
<1>1. Len(s) \in Nat /\ Len(t) \in Nat
  OBVIOUS
<1>2. CASE Len(s) <= Len(t)
  <2> DEFINE u == SubSeq(s, 1, Len(s))
             v == SubSeq(t, 1, Len(s))
  <2>1. u \in Seq(S) /\ Len(u) = Len(s) /\ \A i \in 1 .. Len(s) : u[i] = s[i]
    BY <1>1, SubSeqProperties
  <2>2. v \in Seq(S) /\ Len(v) = Len(s) /\ \A i \in 1 .. Len(s) : v[i] = t[i]
    BY <1>1, <1>2, SubSeqProperties
  <2>3. IsPrefix(s, t) <=> u = v
    BY <1>2 DEF IsPrefix
  <2> HIDE DEF u, v
  <2>4. u = v <=> \A i \in 1 .. Len(s) : s[i] = t[i]
    <3>1. ASSUME \A i \in 1 .. Len(s) : s[i] = t[i]
          PROVE  u = v
      <4>1. Len(u) = Len(v) /\ \A i \in 1 .. Len(u) : u[i] = v[i]
        BY <2>1, <2>2, <3>1
      <4> QED BY <2>1, <2>2, <4>1, SeqEqual
    <3>2. ASSUME u = v, NEW i \in 1 .. Len(s)
          PROVE  s[i] = t[i]
      <4>1. u[i] = s[i] /\ v[i] = t[i]
        BY <2>1, <2>2
      <4> QED BY <3>2, <4>1
    <3> QED BY <3>1, <3>2
  <2> QED BY <1>1, <1>2, <2>3, <2>4 DEF Agrees
<1>3. CASE ~(Len(s) <= Len(t))
  BY <1>1, <1>3 DEF IsPrefix, Agrees
<1> QED BY <1>2, <1>3

(* Nothing is a prefix of everything. *)
LEMMA EmptyPrefix ==
  ASSUME NEW S, NEW s \in Seq(S)
  PROVE  IsPrefix(<<>>, s)
<1>1. <<>> \in Seq(S) /\ Agrees(<<>>, s, Len(<<>>))
  BY DEF Agrees
<1> QED BY <1>1, PrefixIs

(* What a run commits are commits, one in each branch at most. *)
LEMMA WantsAre ==
  ASSUME TypeOK, NEW r \in Committers
  PROVE  /\ Tip(r) \in SourceCommit /\ Tip(r) = head[r][Len(head[r])]
         /\ Len(head[r]) \in 1 .. Len(head[r])
         /\ Output(r) \in ReleaseCommit
         /\ Recorded(Tip(r), Version(r), r) \in SourceCommit
         /\ Recorded(Tip(r), Version(r), r).by = r
         /\ WantsSource(r) \in {head[r], Append(head[r], Recorded(Tip(r), Version(r), r))}
         /\ WantsSource(r) \in Seq(SourceCommit)
         /\ WantsRelease(r) \in Seq(ReleaseCommit)
         /\ NewRecord(releaseBase[r], Output(r), WantsSource(r) # sourceBase[r])
              \in Seq(ReleaseCommit)
<1>1. /\ head[r] \in Seq(SourceCommit) /\ head[r] # <<>>
      /\ releaseBase[r] \in Seq(ReleaseCommit)
  BY DEF TypeOK
<1>2. /\ Tip(r) \in SourceCommit /\ Tip(r) = head[r][Len(head[r])]
      /\ Len(head[r]) \in 1 .. Len(head[r])
  BY <1>1, LastIs DEF Tip
<1>3. Output(r) \in ReleaseCommit /\ Version(r) \in Nat
  BY <1>1, <1>2, ResolveVersionIs DEF Output, Version
<1>4. /\ Recorded(Tip(r), Version(r), r) \in SourceCommit
      /\ Recorded(Tip(r), Version(r), r).by = r
  BY <1>2, <1>3 DEF Recorded, SourceCommit
<1>5. WantsSource(r) \in {head[r], Append(head[r], Recorded(Tip(r), Version(r), r))}
  BY DEF WantsSource, NewSource
<1>6. WantsSource(r) \in Seq(SourceCommit)
  <2>1. Append(head[r], Recorded(Tip(r), Version(r), r)) \in Seq(SourceCommit)
    BY Zenon, <1>1, <1>4, AppendProperties
  <2> QED BY <1>1, <1>5, <2>1
<1>7. /\ WantsRelease(r) \in Seq(ReleaseCommit)
      /\ NewRecord(releaseBase[r], Output(r), WantsSource(r) # sourceBase[r])
           \in Seq(ReleaseCommit)
  BY <1>1, <1>3 DEF WantsRelease, NewRelease, NewRecord
<1> QED BY <1>2, <1>3, <1>4, <1>5, <1>6, <1>7

(* No run has started at first. *)
LEMMA PInitInv == PInit => PInv
<1> SUFFICES ASSUME PInit PROVE PInv
  OBVIOUS
<1>1. Typed
  BY InitInv DEF PInit, Inv
<1>2. TypeOK
  <2>1. \A r \in Committers : IsPrefix(<<>>, source)
    BY <1>1, EmptyPrefix DEF Typed
  <2> QED BY <1>1, <2>1, PublisherConstants DEF PInit, Init, TypeOK, Typed
<1>3. HeadInv
  BY <1>1 DEF PInit, HeadInv, Agrees, Typed
<1> QED BY <1>2, <1>3
        DEF PInit, PInv, NoBaseInv, SnapshotInv, BaseInv, PlanInv, SentInv, Started

(* A run ends, and its checkout has only its own commits and some of the     *)
(* source branch.                                                            *)
LEMMA PExitInv ==
  ASSUME PInv, NEW r \in Committers, Exit(r), UNCHANGED vars,
         edits' \in 0 .. MaxEdits, faults' \in 0 .. MaxFaults,
         NEW h \in Seq(SourceCommit), h # <<>>, head' = [head EXCEPT ![r] = h],
         \A n \in 1 .. Len(h) : h[n].by # r => Agrees(h, source, n)
  PROVE  PInv'
<1> USE DEF PInv, Exit, Goto, vars
<1>1. TypeOK'
  <2>1. IsPrefix(<<>>, h)
    BY EmptyPrefix
  <2> QED BY <2>1 DEF TypeOK
<1>2. HeadInv'
  BY DEF TypeOK, HeadInv
<1>3. NoBaseInv'
  BY DEF TypeOK, NoBaseInv, Started
<1>4. SnapshotInv'
  BY DEF TypeOK, SnapshotInv, Started
<1>5. BaseInv'
  BY DEF TypeOK, BaseInv
<1>6. PlanInv'
  BY DEF TypeOK, PlanInv, WantsSource, WantsRelease, Output, Version, Tip
<1>7. SentInv'
  BY DEF TypeOK, SentInv
<1> QED BY <1>1, <1>2, <1>3, <1>4, <1>5, <1>6, <1>7

(* The source branch grows by an author's commit. *)
LEMMA AuthorPushesInv ==
  ASSUME PInv, AuthorPushes
  PROVE  PInv'
<1> USE DEF PInv
<1>1. PICK c \in Contents, v \in Requested \cup {Last(source).version} :
        source' = Authored(source, c, v, None)
  BY DEF AuthorPushes, Edit
<1> DEFINE commit == AuthorsCommit(source, c, v, None)
<1>2. commit \in SourceCommit /\ commit.by = None /\ source' = Append(source, commit)
  <2>1. source \in Seq(SourceCommit) /\ source # <<>> /\ None \in Committers \cup {None}
    BY DEF TypeOK
  <2>2. /\ commit \in SourceCommit /\ commit.by = None
        /\ Authored(source, c, v, None) = Append(source, commit)
    BY <2>1, AuthoredIs
  <2> QED BY <1>1, <2>2
<1> HIDE DEF commit
<1>3. /\ source' \in Seq(SourceCommit) /\ source' # <<>> /\ Len(source) \in Nat
      /\ Len(source') = Len(source) + 1 /\ source'[Len(source) + 1].by = None
      /\ \A i \in 1 .. Len(source) : source'[i] = source[i]
  BY <1>2 DEF TypeOK
<1>4. UNCHANGED <<release, pc, head, sourceBase, releaseBase, sourceCommit, releaseCommit, sent,
                  faults>>
  BY DEF AuthorPushes, Edit, locals
<1>5. edits' \in 0 .. MaxEdits
  BY PublisherConstants DEF AuthorPushes, TypeOK
<1>6. ASSUME NEW s, NEW n \in Nat, Agrees(s, source, n) PROVE Agrees(s, source', n)
  BY <1>3, <1>6 DEF Agrees
<1>7. TypeOK'
  BY <1>3, <1>4, <1>5 DEF TypeOK
<1>8. HeadInv' /\ NoBaseInv'
  BY <1>4, <1>6 DEF HeadInv, NoBaseInv, TypeOK
<1>9. SnapshotInv'
  <2> SUFFICES ASSUME NEW r \in Committers, pc[r] \in Started
               PROVE  /\ Agrees(sourceBase[r], source', Len(sourceBase[r]))
                      /\ \A n \in 1 .. Len(source') : source'[n].by = r => n <= Len(sourceBase[r])
    BY <1>4 DEF SnapshotInv
  <2>1. Len(sourceBase[r]) \in Nat
    BY DEF TypeOK
  <2>2. ASSUME NEW n \in 1 .. Len(source'), source'[n].by = r
        PROVE  n \in 1 .. Len(source) /\ source[n].by = r
    BY <1>3, <2>2, ReleasesConstants
  <2> QED BY <1>6, <2>1, <2>2 DEF SnapshotInv
<1>10. BaseInv'
  <2>1. ASSUME NEW r \in Committers, pc[r] \in Started, source' = sourceBase[r]
        PROVE  FALSE
    BY <1>3, <2>1 DEF SnapshotInv, Agrees
  <2> QED BY <1>4, <2>1 DEF BaseInv, Started
<1>11. PlanInv' /\ SentInv'
  BY <1>4 DEF PlanInv, SentInv, WantsSource, WantsRelease, Output, Version, Tip
<1> QED BY <1>7, <1>8, <1>9, <1>10, <1>11

(* A checkout grows by a commit of the one who publishes from it. *)
LEMMA CommitLocallyInv ==
  ASSUME PInv, NEW r \in Committers, CommitLocally(r)
  PROVE  PInv'
<1> USE DEF PInv
<1>1. PICK c \in Contents, v \in Requested \cup {Last(head[r]).version} :
        head' = [head EXCEPT ![r] = Authored(head[r], c, v, r)]
  BY DEF CommitLocally
<1> DEFINE commit == AuthorsCommit(head[r], c, v, r)
           h == Append(head[r], commit)
<1>2. commit \in SourceCommit /\ commit.by = r /\ head' = [head EXCEPT ![r] = h]
  <2>1. head[r] \in Seq(SourceCommit) /\ head[r] # <<>> /\ r \in Committers \cup {None}
    BY DEF TypeOK
  <2>2. commit \in SourceCommit /\ commit.by = r /\ Authored(head[r], c, v, r) = h
    BY <2>1, AuthoredIs
  <2> QED BY <1>1, <2>2
<1> HIDE DEF commit
<1>3. /\ h \in Seq(SourceCommit) /\ h # <<>> /\ Len(head[r]) \in Nat
      /\ Len(h) = Len(head[r]) + 1 /\ h[Len(head[r]) + 1] = commit
      /\ \A i \in 1 .. Len(head[r]) : h[i] = head[r][i]
  <2>1. head[r] \in Seq(SourceCommit)
    BY DEF TypeOK
  <2> QED BY <1>2, <2>1, AppendProperties
<1> HIDE DEF h
<1>4. /\ UNCHANGED <<source, release, pc, sourceBase, releaseBase, sourceCommit, releaseCommit,
                     sent, faults>>
      /\ head' = [head EXCEPT ![r] = h] /\ pc[r] = "idle"
  BY <1>2 DEF CommitLocally, locals, h
<1>5. edits' \in 0 .. MaxEdits
  BY PublisherConstants DEF CommitLocally, TypeOK
<1>6. TypeOK'
  <2>1. sourceBase[r] = <<>> /\ IsPrefix(<<>>, h)
    BY <1>3, <1>4, EmptyPrefix DEF NoBaseInv, Started
  <2>2. head' \in [Committers -> Seq(SourceCommit)]
    BY <1>3, <1>4 DEF TypeOK
  <2>3. \A q \in Committers : head'[q] # <<>> /\ IsPrefix(sourceBase[q], head'[q])
    BY <1>3, <1>4, <2>1 DEF TypeOK
  <2> QED BY <1>4, <1>5, <2>2, <2>3 DEF TypeOK
<1>7. HeadInv'
  <2>1. ASSUME NEW n \in 1 .. Len(h), h[n].by # r PROVE Agrees(h, source, n)
    <3>1. n \in 1 .. Len(head[r]) /\ head[r][n].by # r
      BY <1>2, <1>3, <2>1
    <3>2. Agrees(head[r], source, n)
      BY Zenon, <3>1 DEF HeadInv
    <3> QED BY <1>3, <3>1, <3>2 DEF Agrees
  <2> QED BY <1>4, <2>1 DEF HeadInv, TypeOK
<1>8. NoBaseInv' /\ BaseInv' /\ SentInv'
  BY <1>4 DEF NoBaseInv, BaseInv, SentInv
<1>9. SnapshotInv' /\ PlanInv'
  BY <1>4 DEF SnapshotInv, PlanInv, Started, WantsSource, WantsRelease, Output, Version, Tip,
              TypeOK
<1> QED BY <1>6, <1>7, <1>8, <1>9

(* A run starts, or goes on, from its checkout or from the source branch. *)
LEMMA BeginInv ==
  ASSUME PInv, NEW r \in Committers, pc[r] \in {"idle", "template"},
         NEW h \in {head[r], source}, head' = [head EXCEPT ![r] = h],
         NEW step \in {"template", "snapshot"}, Goto(r, step), UNCHANGED <<vars, locals, counts>>
  PROVE  PInv'
<1> USE DEF PInv, Goto, vars, locals, counts
<1>1. h \in Seq(SourceCommit) /\ h # <<>> /\ sourceBase[r] = <<>> /\ IsPrefix(<<>>, h)
  BY EmptyPrefix DEF TypeOK, NoBaseInv, Started
<1>2. TypeOK'
  <2>1. head' \in [Committers -> Seq(SourceCommit)]
    BY <1>1 DEF TypeOK
  <2>2. \A q \in Committers : head'[q] # <<>> /\ IsPrefix(sourceBase[q], head'[q])
    BY <1>1 DEF TypeOK
  <2>3. pc' \in [Committers -> {"idle", "template", "snapshot", "fetch", "build", "connect",
                                "update"}]
    BY DEF TypeOK
  <2> QED BY <2>1, <2>2, <2>3 DEF TypeOK
<1>3. HeadInv'
  <2>1. ASSUME NEW n \in 1 .. Len(h), h[n].by # r PROVE Agrees(h, source, n)
    BY <2>1 DEF HeadInv, Agrees, TypeOK
  <2> QED BY <2>1 DEF HeadInv, TypeOK
<1>4. NoBaseInv' /\ BaseInv' /\ SentInv'
  BY DEF NoBaseInv, BaseInv, SentInv, TypeOK, Started
<1>5. SnapshotInv' /\ PlanInv'
  BY DEF SnapshotInv, PlanInv, Started, WantsSource, WantsRelease, Output, Version, Tip, TypeOK
<1> QED BY <1>2, <1>3, <1>4, <1>5

(* A run starts. *)
LEMMA StartInv ==
  ASSUME PInv, NEW r \in Committers, Start(r)
  PROVE  PInv'
<1>1. PICK h \in {head[r], source} : head' = [head EXCEPT ![r] = h]
  BY DEF Start
<1>2. PICK step \in Starts : Goto(r, step)
  BY DEF Start
<1>3. step \in {"template", "snapshot"}
  BY <1>2, PublisherConstants
<1>4. pc[r] = "idle" /\ UNCHANGED <<vars, locals, counts>>
  BY DEF Start
<1> QED BY <1>1, <1>2, <1>3, <1>4, BeginInv

(* A run that ends as it is. *)
LEMMA StopInv ==
  ASSUME PInv, NEW r \in Committers, Exit(r), UNCHANGED <<vars, head>>,
         edits' \in 0 .. MaxEdits, faults' \in 0 .. MaxFaults
  PROVE  PInv'
<1>1. /\ head[r] \in Seq(SourceCommit) /\ head[r] # <<>>
      /\ head' = [head EXCEPT ![r] = head[r]]
      /\ \A n \in 1 .. Len(head[r]) : head[r][n].by # r => Agrees(head[r], source, n)
  BY DEF PInv, TypeOK, HeadInv
<1> QED BY <1>1, PExitInv DEF vars

(* The template's job goes on from a commit of the source branch, or ends. *)
LEMMA CheckSupersededInv ==
  ASSUME PInv, NEW r \in Committers, CheckSuperseded(r)
  PROVE  PInv'
<1>1. CASE /\ head' = [head EXCEPT ![r] = IF IsPrefix(@, source) THEN source ELSE @]
           /\ Goto(r, "snapshot") /\ UNCHANGED locals
  <2>1. \E h \in {head[r], source} : head' = [head EXCEPT ![r] = h]
    BY <1>1
  <2> QED BY <1>1, <2>1, BeginInv DEF CheckSuperseded
<1>2. CASE Exit(r) /\ UNCHANGED head
  BY <1>2, StopInv DEF CheckSuperseded, counts, PInv, TypeOK
<1> QED BY <1>1, <1>2 DEF CheckSuperseded

(* A run is cancelled or fails. *)
LEMMA FailsInv ==
  ASSUME PInv, NEW r \in Committers, Fails(r)
  PROVE  PInv'
<1>1. edits' \in 0 .. MaxEdits /\ faults' \in 0 .. MaxFaults
  BY PublisherConstants DEF Fails, PInv, TypeOK
<1> QED BY <1>1, StopInv DEF Fails

(* A run looks at the source branch: all of it is in its checkout, and what  *)
(* is beyond in the checkout are commits of its own.                         *)
LEMMA SnapshotTaken ==
  ASSUME PInv, NEW r \in Committers, Snapshot(r)
  PROVE  PInv'
<1> USE DEF PInv
<1>1. CASE ~IsPrefix(source, head[r])
  BY <1>1, StopInv DEF Snapshot, counts, TypeOK
<1>2. CASE IsPrefix(source, head[r])
  <2>1. /\ pc[r] = "snapshot" /\ sourceBase' = [sourceBase EXCEPT ![r] = source]
        /\ pc' = [pc EXCEPT ![r] = "fetch"]
        /\ UNCHANGED <<source, release, head, releaseBase, sourceCommit, releaseCommit, sent,
                       edits, faults>>
    BY <1>2 DEF Snapshot, Goto, vars, counts
  <2>2. source \in Seq(SourceCommit) /\ head[r] \in Seq(SourceCommit)
    BY DEF TypeOK
  <2>3. Agrees(source, head[r], Len(source))
    BY <1>2, <2>2, PrefixIs
  <2>4. TypeOK'
    BY <1>2, <2>1 DEF TypeOK
  <2>5. HeadInv' /\ NoBaseInv' /\ BaseInv' /\ SentInv'
    BY <2>1 DEF HeadInv, NoBaseInv, BaseInv, SentInv, TypeOK, Started
  <2>6. SnapshotInv'
    <3>1. /\ Agrees(source, source, Len(source))
          /\ \A n \in 1 .. Len(source) : n <= Len(source)
          /\ \A n \in 1 .. Len(head[r]) : head[r][n].by # r => n <= Len(source)
      BY <2>2 DEF HeadInv, Agrees
    <3>2. ASSUME NEW q \in Committers, q # r, pc'[q] \in Started
          PROVE  pc[q] \in Started /\ sourceBase'[q] = sourceBase[q]
      BY <2>1, <3>2 DEF TypeOK
    <3>3. sourceBase'[r] = source
      BY <2>1 DEF TypeOK
    <3> QED BY <2>1, <3>1, <3>2, <3>3 DEF SnapshotInv
  <2>7. PlanInv'
    BY <2>1 DEF PlanInv, WantsSource, WantsRelease, Output, Version, Tip, TypeOK
  <2> QED BY <2>4, <2>5, <2>6, <2>7
<1> QED BY <1>1, <1>2

(* It looks at the release branch. *)
LEMMA FetchReleaseInv ==
  ASSUME PInv, NEW r \in Committers, FetchRelease(r)
  PROVE  PInv'
<1> USE DEF PInv
<1>1. /\ pc[r] = "fetch" /\ releaseBase' = [releaseBase EXCEPT ![r] = release]
      /\ pc' = [pc EXCEPT ![r] = "build"]
      /\ UNCHANGED <<source, release, head, sourceBase, sourceCommit, releaseCommit, sent,
                     edits, faults>>
  BY DEF FetchRelease, Goto, vars, counts
<1>2. TypeOK'
  BY <1>1 DEF TypeOK
<1>3. HeadInv' /\ NoBaseInv' /\ BaseInv' /\ SentInv'
  BY <1>1 DEF HeadInv, NoBaseInv, BaseInv, SentInv, TypeOK, Started
<1>4. SnapshotInv' /\ PlanInv'
  BY <1>1 DEF SnapshotInv, PlanInv, Started, WantsSource, WantsRelease, Output, Version, Tip,
              TypeOK
<1> QED BY <1>2, <1>3, <1>4

(* It builds what it wants. *)
LEMMA BuildInv ==
  ASSUME PInv, NEW r \in Committers, Build(r)
  PROVE  PInv'
<1> USE DEF PInv
<1> DEFINE newRecord == NewRecord(releaseBase[r], Output(r), WantsSource(r) # sourceBase[r])
<1>1. /\ pc[r] = "build" /\ pc' = [pc EXCEPT ![r] = "connect"]
      /\ sourceCommit' = [sourceCommit EXCEPT ![r] = WantsSource(r)]
      /\ releaseCommit' = [releaseCommit EXCEPT ![r] = newRecord]
      /\ UNCHANGED <<source, release, head, sourceBase, releaseBase, sent, edits, faults>>
  BY DEF Build, Goto, vars, counts, WantsSource, WantsRelease, Output, Version, Tip
<1>2. WantsSource(r) \in Seq(SourceCommit) /\ newRecord \in Seq(ReleaseCommit)
  BY WantsAre
<1>3. TypeOK'
  BY <1>1, <1>2 DEF TypeOK
<1>4. HeadInv' /\ NoBaseInv' /\ BaseInv' /\ SentInv'
  BY <1>1 DEF HeadInv, NoBaseInv, BaseInv, SentInv, TypeOK, Started
<1>5. SnapshotInv'
  BY <1>1 DEF SnapshotInv, Started, TypeOK
<1>6. \A q \in Committers : WantsSource(q)' = WantsSource(q) /\ Output(q)' = Output(q)
  BY <1>1 DEF WantsSource, WantsRelease, Output, Version, Tip
<1>7. PlanInv'
  BY <1>1, <1>6 DEF PlanInv, TypeOK
<1> QED BY <1>3, <1>4, <1>5, <1>7

(* What is beyond the base of a run in what it wants is its own.            *)
LEMMA WantedIsOwn ==
  ASSUME PInv, NEW r \in Committers, pc[r] \in {"connect", "update"}
  PROVE  /\ sourceCommit[r] \in Seq(SourceCommit)
         /\ Agrees(sourceBase[r], sourceCommit[r], Len(sourceBase[r]))
         /\ \A n \in 1 .. Len(sourceCommit[r]) :
              sourceCommit[r][n].by # r =>
                n <= Len(sourceBase[r]) /\ Agrees(sourceCommit[r], source, n)
         /\ sourceCommit[r] # sourceBase[r] => Len(sourceCommit[r]) > Len(sourceBase[r])
<1> USE DEF PInv
<1> DEFINE h == head[r]
           b == sourceBase[r]
           s == sourceCommit[r]
           recorded == Recorded(Tip(r), Version(r), r)
<1>1. /\ h \in Seq(SourceCommit) /\ b \in Seq(SourceCommit) /\ s \in Seq(SourceCommit)
      /\ IsPrefix(b, h)
  BY DEF TypeOK
<1>2. Agrees(b, h, Len(b))
  BY <1>1, PrefixIs
<1>3. s \in {h, Append(h, recorded)} /\ recorded \in SourceCommit /\ recorded.by = r
  BY WantsAre DEF PlanInv
<1>4. \A n \in 1 .. Len(h) : h[n].by # r => n <= Len(b) /\ Agrees(h, source, n)
  BY DEF HeadInv, SnapshotInv, Started
<1> HIDE DEF h, b, s, recorded
<1>5. /\ Len(h) \in Nat /\ Len(h) <= Len(s) /\ \A n \in 1 .. Len(h) : s[n] = h[n]
      /\ Len(s) \in {Len(h), Len(h) + 1}
      /\ Len(s) = Len(h) + 1 => s[Len(h) + 1].by = r
  <2>1. CASE s = h
    BY <1>1, <2>1
  <2>2. CASE s = Append(h, recorded)
    BY <1>1, <1>3, <2>2, AppendProperties
  <2> QED BY <1>3, <2>1, <2>2
<1>6. Len(b) \in Nat /\ Agrees(b, s, Len(b))
  BY <1>1, <1>2, <1>5 DEF Agrees
<1>7. ASSUME NEW n \in 1 .. Len(s), s[n].by # r
      PROVE  n <= Len(b) /\ Agrees(s, source, n)
  <2>1. n \in 1 .. Len(h) /\ h[n].by # r
    BY <1>5, <1>7
  <2>2. n <= Len(b) /\ Agrees(h, source, n)
    BY <1>4, <2>1
  <2> QED BY <1>5, <2>1, <2>2 DEF Agrees
<1>8. s # b => Len(s) > Len(b)
  <2> SUFFICES ASSUME ~(Len(s) > Len(b)) PROVE s = b
    OBVIOUS
  <2>1. Len(s) = Len(b) /\ \A n \in 1 .. Len(s) : s[n] = b[n]
    BY <1>1, <1>6 DEF Agrees
  <2> QED BY <1>1, <2>1, SeqEqual
<1> QED BY <1>1, <1>6, <1>7, <1>8 DEF h, b, s

(* A run that wants the source branch where it found it wants the same of    *)
(* the release branch; one that wants to move it moves both.                 *)
LEMMA WantsBoth ==
  ASSUME PInv, NEW r \in Committers, pc[r] \in {"connect", "update"}
  PROVE  sourceCommit[r] = sourceBase[r] <=> releaseCommit[r] = releaseBase[r]
<1> USE DEF PInv
<1> DEFINE base == releaseBase[r]
           recorded == Recorded(Tip(r), Version(r), r)
<1>1. /\ base \in Seq(ReleaseCommit) /\ Output(r) \in ReleaseCommit
      /\ head[r] \in Seq(SourceCommit) /\ recorded \in SourceCommit
      /\ sourceBase[r] \in Seq(SourceCommit) /\ IsPrefix(sourceBase[r], head[r])
  BY WantsAre DEF TypeOK
<1>2. /\ sourceCommit[r] = WantsSource(r)
      /\ releaseCommit[r] = NewRecord(base, Output(r), WantsSource(r) # sourceBase[r])
  BY DEF PlanInv
<1>3. Append(base, Output(r)) # base
  BY <1>1
<1>4. CASE sourceCommit[r] # sourceBase[r]
  BY <1>2, <1>3, <1>4 DEF NewRecord
<1>5. CASE sourceCommit[r] = sourceBase[r]
  <2>1. Len(sourceBase[r]) <= Len(head[r])
    BY <1>1 DEF IsPrefix
  <2>2. Append(head[r], recorded) # sourceBase[r]
    <3>1. Len(Append(head[r], recorded)) = Len(head[r]) + 1
      BY <1>1, AppendProperties
    <3> QED BY <1>1, <2>1, <3>1
  <2>3. WantsRelease(r) = base
    BY <1>2, <1>5, <2>2 DEF WantsSource, NewSource
  <2> QED BY <1>2, <1>5, <2>3 DEF NewRecord, WantsRelease
<1> QED BY <1>4, <1>5

(* The server lets a push through that moves anything only if it moves both  *)
(* branches from where the run found them.                                   *)
LEMMA BothSent ==
  ASSUME PInv, NEW r \in Committers, pc[r] = "connect",
         source # sourceCommit[r] \/ release # releaseCommit[r],
         source # sourceCommit[r] => source = sourceBase[r],
         release # releaseCommit[r] => release = releaseBase[r]
  PROVE  /\ source = sourceBase[r] /\ release = releaseBase[r]
         /\ source # sourceCommit[r] /\ release # releaseCommit[r]
<1> USE DEF PInv
<1>1. source = sourceBase[r]
  <2> SUFFICES ASSUME source # sourceBase[r] PROVE FALSE
    OBVIOUS
  <2> DEFINE n == Len(sourceCommit[r])
  <2>1. /\ source = sourceCommit[r] /\ sourceCommit[r] # sourceBase[r]
        /\ source \in Seq(SourceCommit)
    BY DEF TypeOK
  <2>2. /\ Len(sourceCommit[r]) > Len(sourceBase[r])
        /\ \A i \in 1 .. Len(sourceCommit[r]) :
             sourceCommit[r][i].by # r => i <= Len(sourceBase[r])
        /\ Len(sourceBase[r]) \in Nat /\ n \in Nat
    BY <2>1, WantedIsOwn DEF TypeOK
  <2>3. n \in 1 .. Len(source) /\ source[n].by = r
    BY <2>1, <2>2
  <2>4. n <= Len(sourceBase[r])
    BY <2>3 DEF SnapshotInv, Started
  <2> QED BY <2>2, <2>4
<1>2. release = releaseBase[r]
  BY <1>1 DEF BaseInv
<1>3. sourceCommit[r] = sourceBase[r] <=> releaseCommit[r] = releaseBase[r]
  BY WantsBoth
<1> QED BY <1>1, <1>2, <1>3

(* The server answers. *)
LEMMA ConnectInv ==
  ASSUME PInv, NEW r \in Committers, Connect(r)
  PROVE  PInv'
<1> USE DEF PInv
<1> DEFINE moved == {ref \in {"source", "release"} :
                       \/ ref = "source" /\ source # sourceCommit[r]
                       \/ ref = "release" /\ release # releaseCommit[r]}
<1>1. pc[r] = "connect" /\ UNCHANGED <<vars, edits, faults>>
  BY DEF Connect, counts
<1>2. CASE /\ moved # {} /\ ("source" \in moved => source = sourceBase[r])
           /\ ("release" \in moved => release = releaseBase[r])
  <2>1. /\ sent' = [sent EXCEPT ![r] = moved] /\ pc' = [pc EXCEPT ![r] = "update"]
        /\ UNCHANGED <<source, release, head, sourceBase, releaseBase, sourceCommit,
                       releaseCommit, edits, faults>>
    BY <1>1, <1>2 DEF Connect, Goto, vars
  <2>2. /\ source = sourceBase[r] /\ source # sourceCommit[r] /\ release # releaseCommit[r]
    BY <1>1, <1>2, BothSent
  <2>3. moved = {"source", "release"}
    BY <2>2
  <2> HIDE DEF moved
  <2>4. TypeOK'
    BY <2>1, <2>3 DEF TypeOK
  <2>5. HeadInv' /\ NoBaseInv' /\ BaseInv'
    BY <1>1, <2>1 DEF HeadInv, NoBaseInv, BaseInv, TypeOK, Started
  <2>6. SnapshotInv' /\ PlanInv'
    BY <1>1, <2>1 DEF SnapshotInv, PlanInv, Started, WantsSource, WantsRelease, Output, Version,
                      Tip, TypeOK
  <2>7. SentInv'
    BY <1>1, <2>1, <2>2, <2>3 DEF SentInv, TypeOK
  <2> QED BY <2>4, <2>5, <2>6, <2>7
<1>3. CASE ~ /\ moved # {} /\ ("source" \in moved => source = sourceBase[r])
             /\ ("release" \in moved => release = releaseBase[r])
  <2>1. Exit(r) /\ head' = [head EXCEPT ![r] = IF moved = {} THEN sourceCommit[r] ELSE @]
    BY <1>3 DEF Connect
  <2>2. CASE moved = {}
    <3>1. source = sourceCommit[r] /\ source \in Seq(SourceCommit) /\ source # <<>>
      BY <2>2 DEF TypeOK
    <3>2. head' = [head EXCEPT ![r] = source]
      BY <2>1, <2>2, <3>1
    <3>3. \A n \in 1 .. Len(source) : source[n].by # r => Agrees(source, source, n)
      BY <3>1 DEF Agrees
    <3> QED BY <1>1, <2>1, <3>1, <3>2, <3>3, PExitInv DEF TypeOK
  <2>3. CASE moved # {}
    BY <1>1, <2>1, <2>3, StopInv DEF TypeOK
  <2> QED BY <2>2, <2>3
<1> QED BY <1>2, <1>3

-----------------------------------------------------------------------------
(* A push that lands: the branches were where the run found them. *)
Lands(r) == source = sourceBase[r] /\ release = releaseBase[r]

(* What a landing does, and what other runs make of it. *)
LEMMA LandsInv ==
  ASSUME PInv, NEW r \in Committers, pc[r] = "update", Lands(r), Exit(r),
         source' = sourceCommit[r], release' = releaseCommit[r],
         NEW h \in {head[r], sourceCommit[r]}, head' = [head EXCEPT ![r] = h],
         edits' \in 0 .. MaxEdits, faults' \in 0 .. MaxFaults
  PROVE  PInv'
<1> USE DEF PInv
<1> DEFINE s == sourceCommit[r]
<1>1. /\ s \in Seq(SourceCommit) /\ Agrees(source, s, Len(source)) /\ Len(s) > Len(source)
      /\ \A n \in 1 .. Len(s) : s[n].by # r => n <= Len(source) /\ Agrees(s, source, n)
  BY WantedIsOwn DEF Lands, SentInv
<1> HIDE DEF s
<1>2. ASSUME NEW t, NEW n \in Nat, Agrees(t, source, n) PROVE Agrees(t, s, n)
  <2>1. source \in Seq(SourceCommit)
    BY DEF TypeOK
  <2> QED BY <1>1, <1>2, <2>1 DEF Agrees
<1>3. source' = s /\ s # <<>> /\ source \in Seq(SourceCommit) /\ Len(source) \in Nat
  BY <1>1 DEF s, TypeOK
<1>4. h \in Seq(SourceCommit) /\ h # <<>> /\ IsPrefix(<<>>, h)
  <2>1. h \in Seq(SourceCommit) /\ h # <<>>
    BY <1>1, <1>3 DEF TypeOK, s
  <2> QED BY <2>1, EmptyPrefix
<1>5. \A n \in 1 .. Len(h) : h[n].by # r => Agrees(h, s, n)
  <2>1. CASE h = head[r]
    <3> SUFFICES ASSUME NEW n \in 1 .. Len(h), h[n].by # r PROVE Agrees(h, s, n)
      OBVIOUS
    <3>1. Agrees(h, source, n) /\ n \in Nat
      BY <1>4, <2>1 DEF HeadInv
    <3> QED BY <1>2, <3>1
  <2>2. CASE h = s
    BY <1>1, <2>2 DEF Agrees
  <2> QED BY <2>1, <2>2 DEF s
<1>6. TypeOK'
  <2>1. /\ source' \in Seq(SourceCommit) /\ source' # <<>> /\ release' \in Seq(ReleaseCommit)
        /\ edits' \in 0 .. MaxEdits /\ faults' \in 0 .. MaxFaults
    BY <1>1, <1>3 DEF TypeOK
  <2>2. head' \in [Committers -> Seq(SourceCommit)]
    BY <1>4 DEF TypeOK
  <2>3. sourceBase' = [sourceBase EXCEPT ![r] = <<>>]
    BY DEF Exit
  <2>4. \A q \in Committers : head'[q] # <<>> /\ IsPrefix(sourceBase'[q], head'[q])
    BY <1>4, <2>3 DEF TypeOK
  <2>5. /\ {sourceBase, sourceCommit}' \subseteq [Committers -> Seq(SourceCommit)]
        /\ {releaseBase, releaseCommit}' \subseteq [Committers -> Seq(ReleaseCommit)]
    BY DEF TypeOK, Exit
  <2>6. /\ pc' \in [Committers -> {"idle", "template", "snapshot", "fetch", "build", "connect",
                                   "update"}]
        /\ sent' \in [Committers -> SUBSET {"source", "release"}]
    BY DEF TypeOK, Exit, Goto
  <2> QED BY <2>1, <2>2, <2>4, <2>5, <2>6 DEF TypeOK
<1>7. HeadInv'
  <2>1. ASSUME NEW q \in Committers, NEW n \in 1 .. Len(head[q]), head[q][n].by # q
        PROVE  Agrees(head[q], s, n)
    <3>1. n \in Nat /\ Agrees(head[q], source, n)
      BY <2>1 DEF HeadInv
    <3> QED BY Zenon, <1>2, <3>1
  <2> QED BY <1>3, <1>5, <2>1 DEF HeadInv, TypeOK
<1>8. NoBaseInv'
  BY DEF NoBaseInv, TypeOK, Exit, Goto, Started
<1>9. \A q \in Committers : pc'[q] \in Started =>
        /\ q # r /\ pc'[q] = pc[q] /\ sourceBase'[q] = sourceBase[q] /\ head'[q] = head[q]
        /\ releaseBase'[q] = releaseBase[q] /\ sourceCommit'[q] = sourceCommit[q]
        /\ releaseCommit'[q] = releaseCommit[q] /\ sent'[q] = sent[q]
  BY DEF TypeOK, Exit, Goto, Started
<1>10. SnapshotInv'
  <2> SUFFICES ASSUME NEW q \in Committers, pc'[q] \in Started
               PROVE  /\ Agrees(sourceBase[q], s, Len(sourceBase[q]))
                      /\ \A n \in 1 .. Len(s) : s[n].by = q => n <= Len(sourceBase[q])
                      /\ \A n \in 1 .. Len(head[q]) : head[q][n].by # q => n <= Len(sourceBase[q])
    BY <1>3, <1>9 DEF SnapshotInv
  <2>1. Len(sourceBase[q]) \in Nat
    BY DEF TypeOK
  <2>2. ASSUME NEW n \in 1 .. Len(s), s[n].by = q
        PROVE  n <= Len(sourceBase[q])
    <3>1. n <= Len(source) /\ Agrees(s, source, n)
      BY <1>1, <1>9, <2>2
    <3>2. n \in 1 .. Len(source) /\ source[n].by = q
      BY <1>1, <2>2, <3>1 DEF Agrees
    <3> QED BY <1>9, <3>2 DEF SnapshotInv
  <2> QED BY <1>2, <1>9, <2>1, <2>2 DEF SnapshotInv
<1>11. BaseInv'
  <2>1. ASSUME NEW q \in Committers, pc'[q] \in Started, s = sourceBase[q]
        PROVE  FALSE
    BY <1>1, <1>9, <2>1 DEF SnapshotInv, Agrees
  <2> QED BY <1>3, <1>9, <2>1 DEF BaseInv, Started
<1>12. PlanInv' /\ SentInv'
  BY <1>9 DEF PlanInv, SentInv, Started, WantsSource, WantsRelease, Output, Version, Tip
<1> QED BY <1>6, <1>7, <1>8, <1>10, <1>11, <1>12

(* The server moves both branches or none. *)
LEMMA UpdateIs ==
  ASSUME PInv, NEW r \in Committers, Update(r)
  PROVE  /\ pc[r] = "update" /\ Exit(r)
         /\ edits' \in 0 .. MaxEdits /\ faults' \in 0 .. MaxFaults
         /\ Lands(r) => /\ source' = sourceCommit[r] /\ release' = releaseCommit[r]
                        /\ \E h \in {head[r], sourceCommit[r]} : head' = [head EXCEPT ![r] = h]
         /\ ~Lands(r) => UNCHANGED <<vars, head>>
<1> USE DEF PInv
<1>1. pc[r] = "update" /\ sent[r] = {"source", "release"} /\ Exit(r)
  BY DEF Update, SentInv
<1>2. edits' \in 0 .. MaxEdits /\ faults' \in 0 .. MaxFaults
  BY PublisherConstants DEF Update, TypeOK
<1>3. head = [head EXCEPT ![r] = head[r]]
  BY DEF TypeOK
<1>4. CASE Lands(r)
  BY <1>1, <1>2, <1>3, <1>4 DEF Update, Lands
<1>5. CASE ~Lands(r)
  BY <1>1, <1>2, <1>3, <1>5 DEF Update, Lands, vars
<1> QED BY <1>1, <1>2, <1>4, <1>5

(* The push is over, whether it landed or not. *)
LEMMA UpdateInv ==
  ASSUME PInv, NEW r \in Committers, Update(r)
  PROVE  PInv'
<1>1. CASE Lands(r)
  BY <1>1, UpdateIs, LandsInv
<1>2. CASE ~Lands(r)
  BY <1>2, UpdateIs, StopInv
<1> QED BY <1>1, <1>2

(* Every step keeps the invariant. *)
LEMMA PNextInv == PInv /\ [PNext]_pvars => PInv'
<1> SUFFICES ASSUME PInv, [PNext]_pvars PROVE PInv'
  OBVIOUS
<1>1. CASE AuthorPushes
  BY <1>1, AuthorPushesInv
<1>2. ASSUME NEW r \in Committers, CommitLocally(r) \/ Start(r) \/ RunStep(r) \/ Fails(r)
      PROVE  PInv'
  <2>1. CASE CommitLocally(r) \/ Start(r) \/ Fails(r)
    BY <2>1, CommitLocallyInv, StartInv, FailsInv
  <2>2. CASE CheckSuperseded(r) \/ Snapshot(r) \/ FetchRelease(r)
    BY <2>2, CheckSupersededInv, SnapshotTaken, FetchReleaseInv
  <2>3. CASE Build(r) \/ Connect(r) \/ Update(r)
    BY <2>3, BuildInv, ConnectInv, UpdateInv
  <2> QED BY <1>2, <2>1, <2>2, <2>3 DEF RunStep
<1>3. CASE UNCHANGED pvars
  BY <1>3 DEF pvars, vars, locals, counts, PInv, TypeOK, HeadInv, NoBaseInv, SnapshotInv, BaseInv,
              PlanInv, SentInv, WantsSource, WantsRelease, Output, Version, Tip
<1> QED BY <1>1, <1>2, <1>3 DEF PNext

LEMMA PInvariance == PSpec => []PInv
BY PInitInv, PNextInv, PTL DEF PSpec

-----------------------------------------------------------------------------
(* With nothing to publish, a run wants the source branch as it is. *)
LEMMA SettledWantsNothing ==
  ASSUME PInv, NEW r \in Committers, Settled, head[r] = source, releaseBase[r] = release
  PROVE  WantsSource(r) = source
<1> USE DEF PInv
<1> DEFINE tip == Tip(r)
<1>1. tip \in SourceCommit /\ tip = Last(source)
  BY WantsAre DEF Tip
<1>2. release # <<>> /\ tip.pointer = tip.content /\ Last(release) = Built(tip, tip.version)
  BY <1>1 DEF Settled
<1>3. tip.version \in Nat /\ tip = [content |-> tip.content, version |-> tip.version,
                                  pointer |-> tip.pointer, by |-> tip.by]
  BY <1>1 DEF SourceCommit
<1>4. Version(r) = tip.version
  <2>1. Last(release).content = tip.content /\ Last(release).version = tip.version
    BY <1>2 DEF Built
  <2> QED BY <1>2, <1>3, <2>1 DEF Version, ResolveVersion, Max2
<1>5. WantsRelease(r) = releaseBase[r]
  BY <1>2, <1>4 DEF WantsRelease, NewRelease, Output
<1>6. [Recorded(tip, Version(r), r) EXCEPT !.by = tip.by] = tip
  BY <1>2, <1>3, <1>4 DEF Recorded
<1> QED BY <1>5, <1>6 DEF WantsSource, NewSource, Tip

(* A push that lands is a release of the checkout on top of the branches as  *)
(* they are.                                                                 *)
LEMMA LandingReleases ==
  ASSUME PInv, NEW r \in Committers, pc[r] = "update", Lands(r),
         source' = sourceCommit[r], release' = releaseCommit[r]
  PROVE  Release(head[r])
<1> USE DEF PInv
<1> DEFINE h == head[r]
           recorded == Recorded(Tip(r), Version(r), r)
<1>1. /\ source' = WantsSource(r) /\ source # source'
      /\ release' = NewRecord(release, Output(r), TRUE)
  BY DEF Lands, PlanInv, SentInv
<1>2. Version(r) = ResolveVersion(Last(h), release) /\ Tip(r) = Last(h)
  BY DEF Version, Tip, Lands
<1>3. release' = Append(release, Built(Last(h), ResolveVersion(Last(h), release)))
  BY <1>1, <1>2 DEF NewRecord, NewRelease, Output
<1>4. CASE source' = Append(h, recorded)
  BY <1>1, <1>2, <1>3, <1>4 DEF Release
<1>5. CASE source' # Append(h, recorded)
  <2>1. source' = h /\ Last(h) = [recorded EXCEPT !.by = Last(h).by]
    BY <1>1, <1>5 DEF WantsSource, NewSource
  <2>2. [recorded EXCEPT !.by = Last(h).by] = Recorded(Last(h), Version(r), Last(h).by)
    BY <1>2 DEF Recorded
  <2> QED BY <1>1, <1>2, <1>3, <2>1, <2>2 DEF Release
<1> QED BY <1>4, <1>5

(* A push that lands is a publication. *)
LEMMA LandingPublishes ==
  ASSUME PInv, NEW r \in Committers, pc[r] = "update", Lands(r),
         source' = sourceCommit[r], release' = releaseCommit[r]
  PROVE  Publish
<1> USE DEF PInv
<1> DEFINE h == head[r]
           s == sourceCommit[r]
           n == Len(h)
<1>1. Release(h)
  BY LandingReleases
<1>2. /\ s \in Seq(SourceCommit) /\ source \in Seq(SourceCommit) /\ h \in Seq(SourceCommit)
      /\ Agrees(source, s, Len(source)) /\ IsPrefix(source, h)
  BY WantedIsOwn DEF Lands, TypeOK
<1>3. IsPrefix(source, source') /\ source' \in Seq(SourceCommit)
  BY <1>2, PrefixIs
<1>4. CASE h = source
  <2>1. ~Settled
    BY <1>4, SettledWantsNothing DEF Lands, PlanInv, SentInv
  <2> QED BY <1>1, <1>3, <1>4, <2>1 DEF Publish
<1>5. CASE h # source
  <2>1. s \in {h, Append(h, Recorded(Tip(r), Version(r), r))}
        /\ Recorded(Tip(r), Version(r), r) \in SourceCommit
    BY WantsAre DEF PlanInv
  <2>2. Agrees(source, h, Len(source)) /\ n \in Nat /\ Len(source) \in Nat
    BY <1>2, PrefixIs
  <2> HIDE DEF h, s
  <2>3. Len(source) < n
    <3> SUFFICES ASSUME ~(Len(source) < n) PROVE FALSE
      OBVIOUS
    <3>1. Len(source) = n /\ \A i \in 1 .. Len(source) : source[i] = h[i]
      BY <2>2 DEF Agrees
    <3> QED BY <1>2, <1>5, <3>1, SeqEqual
  <2>4. n <= Len(s) /\ \A i \in 1 .. n : s[i] = h[i]
    <3>1. CASE s = h
      BY <2>2, <3>1
    <3>2. CASE s = Append(h, Recorded(Tip(r), Version(r), r))
      BY <1>2, <2>1, <3>2, AppendProperties
    <3> QED BY <2>1, <3>1, <3>2 DEF h, s
  <2>5. SubSeq(s, 1, n) = h
    <3>1. n \in 1 .. Len(s) /\ Len(s) \in Nat
      BY <1>2, <2>2, <2>3, <2>4
    <3>2. /\ SubSeq(s, 1, n) \in Seq(SourceCommit) /\ Len(SubSeq(s, 1, n)) = n
          /\ \A i \in 1 .. n : SubSeq(s, 1, n)[i] = s[i]
      BY <1>2, <3>1, StartIs
    <3> QED BY <1>2, <2>4, <3>2, SeqEqual
  <2>6. n \in Len(source) + 1 .. Len(s) /\ Len(s) \in Nat
    BY <1>2, <2>2, <2>3, <2>4
  <2>7. n \in Len(source) + 1 .. Len(source') /\ Release(SubSeq(source', 1, n))
    BY <1>1, <2>5, <2>6 DEF h, s
  <2> QED BY <1>3, <2>7 DEF Publish
<1> QED BY <1>4, <1>5

(* Every step is one of Releases or changes neither branch. *)
LEMMA StepSimulation == PInv /\ [PNext]_pvars => [Next]_vars
<1> SUFFICES ASSUME PInv, [PNext]_pvars PROVE [Next]_vars
  OBVIOUS
<1>1. CASE AuthorPushes
  BY <1>1 DEF AuthorPushes, Next
<1>2. ASSUME NEW r \in Committers, CommitLocally(r) \/ Start(r) \/ RunStep(r) \/ Fails(r)
      PROVE  [Next]_vars
  <2>1. CASE Update(r)
    <3>1. CASE Lands(r)
      BY <2>1, <3>1, UpdateIs, LandingPublishes DEF Next
    <3>2. CASE ~Lands(r)
      BY <2>1, <3>2, UpdateIs
    <3> QED BY <3>1, <3>2
  <2>2. CASE CommitLocally(r) \/ Start(r) \/ Fails(r)
    BY <2>2 DEF CommitLocally, Start, Fails, vars
  <2>3. CASE CheckSuperseded(r) \/ Snapshot(r) \/ FetchRelease(r) \/ Build(r) \/ Connect(r)
    BY <2>3 DEF CheckSuperseded, Snapshot, FetchRelease, Build, Connect
  <2> QED BY <1>2, <2>1, <2>2, <2>3 DEF RunStep
<1>3. CASE UNCHANGED pvars
  BY <1>3 DEF pvars
<1> QED BY <1>1, <1>2, <1>3 DEF PNext

(* A run that goes on has the source branch it publishes upon in its         *)
(* checkout (run.sh:298), and keeps it while it builds and pushes.           *)
THEOREM TypeCorrect == PSpec => []TypeOK
<1>1. PInv => TypeOK
  BY DEF PInv
<1> QED BY PInvariance, <1>1, PTL

(* However runs, checkouts and authors interleave, and whatever fails, the   *)
(* two branches move as if a publication were one step from the source at    *)
(* that moment (run.sh:239, the atomic push with two leases).                *)
THEOREM PublisherImplements == PSpec => ImplementsReleases
<1>1. PInit => Init
  BY DEF PInit
<1> QED BY PInvariance, StepSimulation, <1>1, PTL DEF PSpec, ImplementsReleases, Spec

(* So a version that some run has published names one content for ever       *)
(* (versions.py:117).                                                        *)
THEOREM PublishedVersionsName == PSpec => []VersionNamesContent
BY PublisherImplements, VersionsNameContents, PTL DEF ImplementsReleases
==============================================================================
