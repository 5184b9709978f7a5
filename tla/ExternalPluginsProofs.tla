------------------------- MODULE ExternalPluginsProofs -------------------------
(***************************************************************************)
(* Theorems about ExternalPlugins, for any repositories, plugins, hubs and  *)
(* bounds: what is resolved, verified and released has its types, the       *)
(* records of a verification fit the release they are bound to, a version   *)
(* that is released is never below an earlier one, nor equal to it when     *)
(* something changed, and a Claude host that takes every release has what   *)
(* the last one publishes.  The first part is about SemVer: Compare is a    *)
(* total order on versions, up to build metadata, so what "highest" means   *)
(* holds for prereleases of any shape.                                      *)
(***************************************************************************)
EXTENDS ExternalPlugins, SequenceTheorems, WellFoundedInduction, TLAPS

(* A nonempty set of positions has a first one. *)
LEMMA FirstIs ==
  ASSUME NEW S \in SUBSET Nat, S # {}
  PROVE  First(S) \in S /\ \A j \in S : First(S) <= j
<1>1. \E i \in S : \A j \in S : ~(<<j, i>> \in OpToRel(<, Nat))
  BY NatLessThanWellFounded, WFMin
<1>2. \A i, j \in Nat : i < j => <<i, j>> \in OpToRel(<, Nat)
  BY Zenon DEF OpToRel
<1>3. \E i \in S : \A j \in S : ~(j < i)
  BY <1>1, <1>2, Zenon
<1>4. \E i \in S : \A j \in S : i <= j
  BY <1>3
<1> QED BY <1>4 DEF First
-----------------------------------------------------------------------------
(* Identifiers. *)

(* The order of numbers. *)
LEMMA SignIs ==
  \A x, y \in Nat : /\ Sign(x, y) \in {-1, 0, 1} /\ Sign(y, x) = -Sign(x, y)
                    /\ Sign(x, y) = 0 <=> x = y
                    /\ Sign(x, y) = -1 <=> x < y
BY DEF Sign

(* They are ordered, and only equal ones are alike. *)
LEMMA IdentifierOrder ==
  ASSUME NEW x \in Identifier, NEW y \in Identifier
  PROVE  /\ CompareIdentifier(x, y) \in {-1, 0, 1}
         /\ CompareIdentifier(y, x) = -CompareIdentifier(x, y)
         /\ CompareIdentifier(x, y) = 0 <=> x = y
<1>1. /\ x.numeric \in BOOLEAN /\ y.numeric \in BOOLEAN /\ x.rank \in Nat /\ y.rank \in Nat
      /\ (x.numeric = y.numeric /\ x.rank = y.rank) <=> x = y
  BY DEF Identifier
<1>2. CASE x.numeric = y.numeric
  BY <1>1, <1>2 DEF CompareIdentifier, Sign
<1>3. CASE x.numeric # y.numeric
  <2>1. (x.numeric /\ ~y.numeric) \/ (~x.numeric /\ y.numeric)
    BY <1>1, <1>3
  <2> QED BY <1>1, <1>3, <2>1 DEF CompareIdentifier
<1> QED BY <1>2, <1>3

(* Lower than one that is lower is lower. *)
LEMMA IdentifierTransitive ==
  ASSUME NEW x \in Identifier, NEW y \in Identifier, NEW z \in Identifier,
         CompareIdentifier(x, y) = -1, CompareIdentifier(y, z) = -1
  PROVE  CompareIdentifier(x, z) = -1
<1>1. /\ {x.numeric, y.numeric, z.numeric} \subseteq BOOLEAN
      /\ x.rank \in Nat /\ y.rank \in Nat /\ z.rank \in Nat
  BY DEF Identifier
<1>2. CASE x.numeric = y.numeric /\ y.numeric = z.numeric
  BY <1>1, <1>2 DEF CompareIdentifier, Sign
<1>3. CASE x.numeric = y.numeric /\ y.numeric # z.numeric
  BY <1>1, <1>3 DEF CompareIdentifier, Sign
<1>4. CASE x.numeric # y.numeric
  BY <1>1, <1>4 DEF CompareIdentifier, Sign
<1> QED BY <1>2, <1>3, <1>4

-----------------------------------------------------------------------------
(* Prereleases. *)

Prerelease == Seq(Identifier)

(* The first k - 1 identifiers are the same. *)
Same(a, b, k) == \A i \in 1 .. k - 1 : i \in DOMAIN a \cap DOMAIN b /\ a[i] = b[i]

(* How one precedes the other. *)
Before(a, b) ==
  \/ b = <<>> /\ a # <<>>
  \/ a # <<>> /\ b # <<>> /\ Len(a) < Len(b) /\ Same(a, b, Len(a) + 1)
  \/ \E k \in DOMAIN a \cap DOMAIN b :
       Same(a, b, k) /\ CompareIdentifier(a[k], b[k]) = -1

(* Differences are the same from both sides. *)
LEMMA DifferencesAre ==
  ASSUME NEW a \in Prerelease, NEW b \in Prerelease
  PROVE  /\ Differences(a, b) = {i \in DOMAIN a \cap DOMAIN b : a[i] # b[i]}
         /\ Differences(b, a) = Differences(a, b)
         /\ Differences(a, b) \subseteq Nat
<1>1. \A i \in DOMAIN a : a[i] \in Identifier /\ i \in Nat
  BY DEF Prerelease
<1>2. \A i \in DOMAIN b : b[i] \in Identifier
  BY DEF Prerelease
<1> QED BY <1>1, <1>2, IdentifierOrder DEF Differences

(* The three outcomes. *)
LEMMA PrereleaseOutcomes ==
  ASSUME NEW a \in Prerelease, NEW b \in Prerelease
  PROVE  /\ ComparePrerelease(a, b) \in {-1, 0, 1}
         /\ ComparePrerelease(b, a) = -ComparePrerelease(a, b)
         /\ ComparePrerelease(a, b) = 0 => a = b
         /\ ComparePrerelease(a, b) = -1 => Before(a, b)
<1> DEFINE D == Differences(a, b)
<1>1. /\ Len(a) \in Nat /\ Len(b) \in Nat /\ DOMAIN a = 1 .. Len(a) /\ DOMAIN b = 1 .. Len(b)
      /\ (a = <<>> <=> Len(a) = 0) /\ (b = <<>> <=> Len(b) = 0)
  BY DEF Prerelease
<1>2. CASE a = <<>> \/ b = <<>>
  <2>1. /\ ComparePrerelease(a, b) = Sign(Len(b), Len(a))
        /\ ComparePrerelease(b, a) = Sign(Len(a), Len(b))
    BY <1>2 DEF ComparePrerelease
  <2>2. Len(b) < Len(a) => Before(a, b)
    BY <1>1, <1>2 DEF Before
  <2>3. Len(b) = Len(a) => a = b
    BY <1>1, <1>2
  <2>4. /\ Sign(Len(b), Len(a)) \in {-1, 0, 1}
        /\ Sign(Len(a), Len(b)) = -Sign(Len(b), Len(a))
        /\ Sign(Len(b), Len(a)) = 0 => a = b
        /\ Sign(Len(b), Len(a)) = -1 => Before(a, b)
    BY <1>1, <2>2, <2>3, SignIs
  <2> QED BY <2>1, <2>4
<1>3. CASE a # <<>> /\ b # <<>> /\ D = {}
  <2>1. \A i \in DOMAIN a \cap DOMAIN b : a[i] = b[i]
    BY <1>3, DifferencesAre
  <2>2. /\ ComparePrerelease(a, b) = Sign(Len(a), Len(b))
        /\ ComparePrerelease(b, a) = Sign(Len(b), Len(a))
    BY <1>3, DifferencesAre DEF ComparePrerelease
  <2>3. Len(a) = Len(b) => a = b
    BY <1>1, <2>1 DEF Prerelease
  <2>4. Len(a) < Len(b) => Before(a, b)
    BY <1>1, <1>3, <2>1 DEF Same, Before
  <2>5. /\ Sign(Len(a), Len(b)) \in {-1, 0, 1}
        /\ Sign(Len(b), Len(a)) = -Sign(Len(a), Len(b))
        /\ Sign(Len(a), Len(b)) = 0 => a = b
        /\ Sign(Len(a), Len(b)) = -1 => Before(a, b)
    BY <1>1, <2>3, <2>4, SignIs
  <2> QED BY <2>2, <2>5
<1>4. CASE a # <<>> /\ b # <<>> /\ D # {}
  <2> DEFINE k == First(D)
  <2>1. k \in D /\ (\A j \in D : k <= j) /\ k \in Nat
    BY <1>4, DifferencesAre, FirstIs
  <2> HIDE DEF k
  <2>2. k \in DOMAIN a \cap DOMAIN b /\ a[k] # b[k]
    BY <2>1, DifferencesAre
  <2>3. a[k] \in Identifier /\ b[k] \in Identifier
    BY <2>2 DEF Prerelease
  <2>4. /\ ComparePrerelease(a, b) = CompareIdentifier(a[k], b[k])
        /\ ComparePrerelease(b, a) = CompareIdentifier(b[k], a[k])
    BY <1>4, DifferencesAre DEF ComparePrerelease, k
  <2>5. Same(a, b, k)
    <3> SUFFICES ASSUME NEW i \in 1 .. k - 1
                 PROVE  i \in DOMAIN a \cap DOMAIN b /\ a[i] = b[i]
      BY DEF Same
    <3>1. i \in DOMAIN a \cap DOMAIN b
      BY <1>1, <2>1, <2>2
    <3>2. i \notin D
      BY <2>1
    <3> QED BY <3>1, <3>2, DifferencesAre
  <2> QED BY <2>2, <2>3, <2>4, <2>5, IdentifierOrder DEF Before
<1> QED BY <1>2, <1>3, <1>4

(* Preceding is what Compare says. *)
LEMMA BeforeIs ==
  ASSUME NEW a \in Prerelease, NEW b \in Prerelease, Before(a, b)
  PROVE  ComparePrerelease(a, b) = -1
<1>1. /\ Len(a) \in Nat /\ Len(b) \in Nat /\ DOMAIN a = 1 .. Len(a) /\ DOMAIN b = 1 .. Len(b)
      /\ (a = <<>> <=> Len(a) = 0) /\ (b = <<>> <=> Len(b) = 0)
  BY DEF Prerelease
<1>2. CASE b = <<>> /\ a # <<>>
  <2>1. ComparePrerelease(a, b) = Sign(Len(b), Len(a)) /\ Len(b) < Len(a)
    BY <1>1, <1>2 DEF ComparePrerelease
  <2> QED BY <1>1, <2>1, SignIs
<1>3. CASE a # <<>> /\ b # <<>> /\ Len(a) < Len(b) /\ Same(a, b, Len(a) + 1)
  <2>1. \A i \in DOMAIN a : a[i] = b[i]
    BY <1>1, <1>3 DEF Same
  <2>2. Differences(a, b) = {}
    BY <2>1, DifferencesAre
  <2> QED BY <1>1, <1>3, <2>2, SignIs DEF ComparePrerelease
<1>4. ASSUME NEW k \in DOMAIN a \cap DOMAIN b, Same(a, b, k),
             CompareIdentifier(a[k], b[k]) = -1
      PROVE  ComparePrerelease(a, b) = -1
  <2>1. a[k] \in Identifier /\ b[k] \in Identifier /\ k \in Nat
    BY DEF Prerelease
  <2>2. k \in Differences(a, b)
    BY <1>4 DEF Differences
  <2>3. \A j \in Differences(a, b) : k <= j
    <3> SUFFICES ASSUME NEW j \in Differences(a, b), j < k PROVE FALSE
      BY <2>1, DifferencesAre
    <3>1. j \in 1 .. k - 1 /\ a[j] # b[j]
      BY <1>1, <2>1, DifferencesAre
    <3> QED BY <1>4, <3>1 DEF Same
  <2>4. First(Differences(a, b)) = k
    <3> DEFINE D == Differences(a, b)
    <3>1. D \in SUBSET Nat /\ D # {} /\ k \in D /\ (\A j \in D : k <= j)
      BY <2>2, <2>3, DifferencesAre
    <3> HIDE DEF D
    <3>2. First(D) \in D /\ First(D) <= k /\ k <= First(D) /\ First(D) \in Nat /\ k \in Nat
      BY <3>1, FirstIs
    <3>3. First(D) = k
      BY <3>1, <3>2
    <3> QED BY <3>3 DEF D
  <2>5. a # <<>> /\ b # <<>>
    BY <1>1
  <2> QED BY <1>4, <2>2, <2>4, <2>5 DEF ComparePrerelease
<1> QED BY <1>2, <1>3, <1>4 DEF Before

(* A prerelease that precedes one that precedes precedes. *)
LEMMA BeforeTransitive ==
  ASSUME NEW a \in Prerelease, NEW b \in Prerelease, NEW c \in Prerelease,
         Before(a, b), Before(b, c)
  PROVE  Before(a, c)
<1>1. /\ Len(a) \in Nat /\ Len(b) \in Nat /\ Len(c) \in Nat
      /\ DOMAIN a = 1 .. Len(a) /\ DOMAIN b = 1 .. Len(b) /\ DOMAIN c = 1 .. Len(c)
      /\ (a = <<>> <=> Len(a) = 0) /\ (b = <<>> <=> Len(b) = 0) /\ (c = <<>> <=> Len(c) = 0)
  BY DEF Prerelease
<1>2. a # <<>> /\ b # <<>>
  BY <1>1 DEF Before
<1>3. CASE c = <<>>
  BY <1>2, <1>3 DEF Before
<1>4. ASSUME NEW k \in Nat, NEW l \in Nat, Same(a, b, k), Same(b, c, l),
             NEW m \in Nat, m <= k, m <= l
      PROVE  Same(a, c, m)
  BY <1>4 DEF Same
<1>5. CASE /\ Len(a) < Len(b) /\ Same(a, b, Len(a) + 1)
           /\ c # <<>> /\ Len(b) < Len(c) /\ Same(b, c, Len(b) + 1)
  <2>1. Same(a, c, Len(a) + 1)
    BY <1>1, <1>4, <1>5
  <2> QED BY <1>1, <1>2, <1>5, <2>1 DEF Before
<1>6. ASSUME Len(a) < Len(b), Same(a, b, Len(a) + 1),
             NEW l \in DOMAIN b \cap DOMAIN c, Same(b, c, l),
             CompareIdentifier(b[l], c[l]) = -1
      PROVE  Before(a, c)
  <2>1. CASE l <= Len(a)
    <3>1. Same(a, c, l)
      BY <1>1, <1>4, <1>6, <2>1
    <3>2. l \in DOMAIN a \cap DOMAIN c /\ a[l] = b[l]
      BY <1>1, <1>6, <2>1 DEF Same
    <3> QED BY <1>6, <3>1, <3>2 DEF Before
  <2>2. CASE l > Len(a)
    <3>1. Same(a, c, Len(a) + 1) /\ Len(a) < Len(c) /\ c # <<>>
      BY <1>1, <1>4, <1>6, <2>2
    <3> QED BY <1>2, <3>1 DEF Before
  <2> QED BY <1>1, <2>1, <2>2
<1>7. ASSUME NEW k \in DOMAIN a \cap DOMAIN b, Same(a, b, k),
             CompareIdentifier(a[k], b[k]) = -1,
             Len(b) < Len(c), Same(b, c, Len(b) + 1)
      PROVE  Before(a, c)
  <2>1. Same(a, c, k)
    BY <1>1, <1>4, <1>7
  <2>2. k \in DOMAIN a \cap DOMAIN c /\ b[k] = c[k]
    BY <1>1, <1>7 DEF Same
  <2> QED BY <1>7, <2>1, <2>2 DEF Before
<1>8. ASSUME NEW k \in DOMAIN a \cap DOMAIN b, Same(a, b, k),
             CompareIdentifier(a[k], b[k]) = -1,
             NEW l \in DOMAIN b \cap DOMAIN c, Same(b, c, l),
             CompareIdentifier(b[l], c[l]) = -1
      PROVE  Before(a, c)
  <2>1. CASE k < l
    <3>1. Same(a, c, k)
      BY <1>1, <1>4, <1>8, <2>1
    <3>2. k \in DOMAIN a \cap DOMAIN c /\ b[k] = c[k]
      BY <1>1, <1>8, <2>1 DEF Same
    <3> QED BY <1>8, <3>1, <3>2 DEF Before
  <2>2. CASE l < k
    <3>1. Same(a, c, l)
      BY <1>1, <1>4, <1>8, <2>2
    <3>2. l \in DOMAIN a \cap DOMAIN c /\ a[l] = b[l]
      BY <1>1, <1>8, <2>2 DEF Same
    <3> QED BY <1>8, <3>1, <3>2 DEF Before
  <2>3. CASE k = l
    <3>1. Same(a, c, k)
      BY <1>1, <1>4, <1>8, <2>3
    <3>2. a[k] \in Identifier /\ b[k] \in Identifier /\ c[k] \in Identifier
      BY <1>8, <2>3 DEF Prerelease
    <3>3. CompareIdentifier(a[k], c[k]) = -1
      BY <1>8, <2>3, <3>2, IdentifierTransitive
    <3> QED BY <1>8, <2>3, <3>1, <3>3 DEF Before
  <2> QED BY <1>1, <2>1, <2>2, <2>3
<1> QED BY <1>2, <1>3, <1>5, <1>6, <1>7, <1>8 DEF Before

-----------------------------------------------------------------------------
(* Versions. *)

LowerCore(a, b) ==
  \/ a.major < b.major
  \/ a.major = b.major /\ a.minor < b.minor
  \/ a.major = b.major /\ a.minor = b.minor /\ a.patch < b.patch

SameCore(a, b) == a.major = b.major /\ a.minor = b.minor /\ a.patch = b.patch

(* What Compare says of two versions. *)
LEMMA CompareIs ==
  ASSUME NEW a \in Version, NEW b \in Version
  PROVE  /\ Compare(a, b) \in {-1, 0, 1} /\ Compare(b, a) = -Compare(a, b)
         /\ Compare(a, b) = -1 <=> LowerCore(a, b) \/ (SameCore(a, b) /\ Before(a.pre, b.pre))
         /\ Compare(a, b) = 0 <=> SameCore(a, b) /\ a.pre = b.pre
<1>1. /\ a.major \in Nat /\ a.minor \in Nat /\ a.patch \in Nat
      /\ b.major \in Nat /\ b.minor \in Nat /\ b.patch \in Nat
      /\ a.pre \in Prerelease /\ b.pre \in Prerelease
  BY DEF Version, Prerelease
<1>2. /\ CompareCore(a, b) \in {-1, 0, 1} /\ CompareCore(b, a) = -CompareCore(a, b)
      /\ CompareCore(a, b) = -1 <=> LowerCore(a, b)
      /\ CompareCore(a, b) = 0 <=> SameCore(a, b)
  BY <1>1 DEF CompareCore, Sign, LowerCore, SameCore
<1>3. /\ ComparePrerelease(a.pre, b.pre) \in {-1, 0, 1}
      /\ ComparePrerelease(b.pre, a.pre) = -ComparePrerelease(a.pre, b.pre)
      /\ ComparePrerelease(a.pre, b.pre) = -1 <=> Before(a.pre, b.pre)
      /\ ComparePrerelease(a.pre, b.pre) = 0 => a.pre = b.pre
  BY <1>1, PrereleaseOutcomes, BeforeIs
<1>4. a.pre = b.pre => ComparePrerelease(a.pre, b.pre) = 0
  <2>1. a.pre = b.pre => ComparePrerelease(a.pre, b.pre) = ComparePrerelease(b.pre, a.pre)
    OBVIOUS
  <2> QED BY <1>3, <2>1
<1>5. LowerCore(a, b) => ~SameCore(a, b)
  BY <1>1 DEF LowerCore, SameCore
<1> QED BY <1>2, <1>3, <1>4, <1>5 DEF Compare

(* Of two versions one is higher unless they differ in build metadata only: *)
(* which side asks makes no difference (versions.py:681).                   *)
THEOREM CompareAntisymmetric ==
  ASSUME NEW a \in Version, NEW b \in Version
  PROVE  /\ Compare(a, b) \in {-1, 0, 1} /\ Compare(b, a) = -Compare(a, b)
         /\ Compare(a, b) = 0 <=> b = [a EXCEPT !.build = b.build]
<1>1. b = [a EXCEPT !.build = b.build] <=> SameCore(a, b) /\ a.pre = b.pre
  BY DEF Version, SameCore
<1> QED BY <1>1, CompareIs

(* A version lower than one that is lower than a third is lower than that:  *)
(* numeric, textual, shorter and absent prereleases included                *)
(* (versions.py:698).                                                       *)
THEOREM CompareTransitive ==
  ASSUME NEW a \in Version, NEW b \in Version, NEW c \in Version,
         Compare(a, b) = -1, Compare(b, c) = -1
  PROVE  Compare(a, c) = -1
<1>1. /\ a.major \in Nat /\ a.minor \in Nat /\ a.patch \in Nat
      /\ b.major \in Nat /\ b.minor \in Nat /\ b.patch \in Nat
      /\ c.major \in Nat /\ c.minor \in Nat /\ c.patch \in Nat
      /\ a.pre \in Prerelease /\ b.pre \in Prerelease /\ c.pre \in Prerelease
  BY DEF Version, Prerelease
<1>2. /\ LowerCore(a, b) \/ (SameCore(a, b) /\ Before(a.pre, b.pre))
      /\ LowerCore(b, c) \/ (SameCore(b, c) /\ Before(b.pre, c.pre))
  BY CompareIs
<1>3. CASE LowerCore(a, b) \/ LowerCore(b, c)
  <2>1. LowerCore(a, c)
    BY <1>1, <1>2, <1>3 DEF LowerCore, SameCore
  <2> QED BY <2>1, CompareIs
<1>4. CASE /\ SameCore(a, b) /\ Before(a.pre, b.pre)
           /\ SameCore(b, c) /\ Before(b.pre, c.pre)
  <2>1. SameCore(a, c) /\ Before(a.pre, c.pre)
    BY <1>1, <1>4, BeforeTransitive DEF SameCore
  <2> QED BY <2>1, CompareIs
<1> QED BY <1>2, <1>3, <1>4

(* The next patch of a version, also of a prerelease, is higher than the    *)
(* version and than everything of it (versions.py:668).                     *)
THEOREM BumpedIsHigher ==
  ASSUME NEW v \in Version
  PROVE  BumpPatch(v) \in Version /\ Compare(v, BumpPatch(v)) = -1
<1>1. <<>> \in Seq(Identifier)
  OBVIOUS
<1>2. BumpPatch(v) \in Version /\ LowerCore(v, BumpPatch(v))
  BY <1>1 DEF Version, BumpPatch, LowerCore
<1> QED BY <1>2, CompareIs

(* The version that is published is one of the two and not below either:    *)
(* a configured version is a floor, and none is lowered (versions.py:664).  *)
THEOREM MaxIsHighest ==
  ASSUME NEW a \in Version, NEW b \in Version
  PROVE  LET m == MaxVersion(a, b)
         IN m \in {a, b} /\ Compare(m, a) \in {0, 1} /\ Compare(m, b) \in {0, 1}
<1>1. Compare(a, a) = 0 /\ Compare(b, b) = 0
  BY CompareIs DEF SameCore
<1> QED BY <1>1, CompareIs DEF MaxVersion

-----------------------------------------------------------------------------

(* The commits of a repository are sequences, and so are the releases.      *)
TypeInv ==
  /\ upstream \in [Urls -> Seq(DOMAIN Files)]
  /\ \A url \in Urls : /\ Len(upstream[url]) \in 1 .. MaxCommits[url]
                       /\ \A i \in 1 .. Len(upstream[url]) : upstream[url][i] \in Commits[url]
  /\ closed \subseteq Private /\ hub \in Hubs /\ edits \in 0 .. MaxEdits
  /\ releases \in Seq(Release)
  /\ run # None => /\ run.hub \in Hubs /\ run.base \in 0 .. Len(releases)
                   /\ run.lock \in [Floating(run.hub) -> Shas]
                   /\ run.records \subseteq Record

(* Releases are in the order of their versions.                             *)
OrderInv ==
  \A i, j \in 1 .. Len(releases) :
    i <= j => Compare(releases[i].version, releases[j].version) \in {-1, 0}

Inv == TypeInv /\ RecordsFit /\ OrderInv

-----------------------------------------------------------------------------
(* The two definitions of precedence are one.                               *)
LEMMA PrecedesIs ==
  ASSUME NEW a \in Version, NEW b \in Version
  PROVE  Precedes(a, b) <=> Compare(a, b) = -1
<1>1. /\ a.major \in Nat /\ a.minor \in Nat /\ a.patch \in Nat /\ a.pre \in Seq(Identifier)
      /\ b.major \in Nat /\ b.minor \in Nat /\ b.patch \in Nat /\ b.pre \in Seq(Identifier)
  BY DEF Version
<1> DEFINE core(v) == <<v.major, v.minor, v.patch>>
           coreLower == \E i \in 1 .. 3 : /\ core(a)[i] < core(b)[i]
                                          /\ \A j \in 1 .. i - 1 : core(a)[j] = core(b)[j]
           preLower == /\ a.pre # <<>>
                       /\ \/ b.pre = <<>>
                          \/ \E i \in 1 .. Len(b.pre) :
                               /\ \A j \in 1 .. i - 1 : j <= Len(a.pre) /\ a.pre[j] = b.pre[j]
                               /\ \/ i = Len(a.pre) + 1
                                  \/ i <= Len(a.pre) /\ Lower(a.pre[i], b.pre[i])
<1>2. core(a) = core(b) <=> SameCore(a, b)
  BY DEF SameCore
<1>3. coreLower <=> LowerCore(a, b)
  <2>1. /\ core(a)[1] = a.major /\ core(a)[2] = a.minor /\ core(a)[3] = a.patch
        /\ core(b)[1] = b.major /\ core(b)[2] = b.minor /\ core(b)[3] = b.patch
    OBVIOUS
  <2> HIDE DEF core
  <2>2. coreLower <=> \/ core(a)[1] < core(b)[1]
                      \/ core(a)[2] < core(b)[2] /\ core(a)[1] = core(b)[1]
                      \/ core(a)[3] < core(b)[3] /\ core(a)[1] = core(b)[1] /\ core(a)[2] = core(b)[2]
    <3>1. /\ 1 .. 3 = {1, 2, 3} /\ 1 .. 1 - 1 = {} /\ 1 .. 2 - 1 = {1} /\ 1 .. 3 - 1 = {1, 2}
      OBVIOUS
    <3> QED BY <3>1
  <2> QED BY <1>1, <2>1, <2>2 DEF LowerCore
<1>4. preLower <=> Before(a.pre, b.pre)
  <2>1. \A x, y \in Identifier : Lower(x, y) <=> CompareIdentifier(x, y) = -1
    BY DEF Lower, CompareIdentifier, Sign, Identifier
  <2> DEFINE p == a.pre
             q == b.pre
             at(i) == /\ \A j \in 1 .. i - 1 : j <= Len(p) /\ p[j] = q[j]
                      /\ i = Len(p) + 1 \/ (i <= Len(p) /\ Lower(p[i], q[i]))
  <2>2. preLower <=> p # <<>> /\ (q = <<>> \/ \E i \in 1 .. Len(q) : at(i))
    OBVIOUS
  <2>3. /\ Len(p) \in Nat /\ DOMAIN p = 1 .. Len(p) /\ (p = <<>> <=> Len(p) = 0)
        /\ Len(q) \in Nat /\ DOMAIN q = 1 .. Len(q) /\ (q = <<>> <=> Len(q) = 0)
        /\ \A i \in 1 .. Len(p) : p[i] \in Identifier
        /\ \A i \in 1 .. Len(q) : q[i] \in Identifier
    BY <1>1
  <2> HIDE DEF p, q
  <2>4. ASSUME NEW i \in 1 .. Len(q), at(i), p # <<>>
        PROVE  Before(p, q)
    <3>1. CASE i = Len(p) + 1
      <4>1. Len(p) < Len(q) /\ Same(p, q, Len(p) + 1)
        BY <2>3, <2>4, <3>1 DEF Same
      <4> QED BY <2>3, <2>4, <4>1 DEF Before
    <3>2. CASE i <= Len(p) /\ Lower(p[i], q[i])
      <4>1. i \in DOMAIN p \cap DOMAIN q /\ Same(p, q, i) /\ CompareIdentifier(p[i], q[i]) = -1
        BY <2>1, <2>3, <2>4, <3>2 DEF Same
      <4> QED BY <4>1 DEF Before
    <3> QED BY <2>4, <3>1, <3>2
  <2>5. ASSUME Len(p) < Len(q), Same(p, q, Len(p) + 1)
        PROVE  Len(p) + 1 \in 1 .. Len(q) /\ at(Len(p) + 1)
    BY <2>3, <2>5 DEF Same
  <2>6. ASSUME NEW k \in DOMAIN p \cap DOMAIN q, Same(p, q, k),
               CompareIdentifier(p[k], q[k]) = -1
        PROVE  k \in 1 .. Len(q) /\ at(k) /\ p # <<>>
    BY <2>1, <2>3, <2>6 DEF Same
  <2> HIDE DEF at
  <2>7. preLower <=> Before(p, q)
    BY <2>2, <2>4, <2>5, <2>6 DEF Before
  <2> QED BY <2>7 DEF p, q
<1>5. Precedes(a, b) <=> coreLower \/ (core(a) = core(b) /\ preLower)
  BY DEF Precedes
<1> QED BY <1>2, <1>3, <1>4, <1>5, CompareIs

(* What is not above something not above c is not above c.                  *)
LEMMA CompareMixed ==
  ASSUME NEW a \in Version, NEW b \in Version, NEW c \in Version,
         Compare(a, b) \in {-1, 0}, Compare(b, c) \in {-1, 0}
  PROVE  /\ Compare(a, c) \in {-1, 0}
         /\ Compare(b, c) = -1 => Compare(a, c) = -1
<1>1. CASE Compare(a, b) = -1 /\ Compare(b, c) = -1
  BY <1>1, CompareTransitive
<1>2. CASE Compare(a, b) = 0
  <2>1. SameCore(a, b) /\ a.pre = b.pre
    BY <1>2, CompareIs
  <2>2. /\ LowerCore(a, c) <=> LowerCore(b, c)
        /\ SameCore(a, c) <=> SameCore(b, c)
    BY <2>1 DEF SameCore, LowerCore
  <2> QED BY <2>1, <2>2, CompareIs
<1>3. CASE Compare(b, c) = 0
  <2>1. SameCore(b, c) /\ b.pre = c.pre
    BY <1>3, CompareIs
  <2>2. /\ LowerCore(a, c) <=> LowerCore(a, b)
        /\ SameCore(a, c) <=> SameCore(a, b)
    BY <2>1 DEF SameCore, LowerCore
  <2> QED BY <1>3, <2>1, <2>2, CompareIs
<1> QED BY <1>1, <1>2, <1>3

(* The version of a release is not below that of the one before it, and     *)
(* above it when something else is released.                                *)
LEMMA ResolvedVersionIs ==
  ASSUME NEW h, h.version \in Version, NEW basis, NEW previous,
         previous # None => previous.version \in Version
  PROVE  LET v == ResolveVersion(h, basis, previous)
         IN /\ v \in Version
            /\ previous # None =>
                 /\ Compare(previous.version, v) \in {-1, 0}
                 /\ previous.basis # basis => Compare(previous.version, v) = -1
<1>1. CASE previous = None
  BY <1>1 DEF ResolveVersion
<1>2. CASE previous # None /\ previous.basis = basis
  <2> DEFINE m == MaxVersion(h.version, previous.version)
  <2>1. m \in {h.version, previous.version} /\ Compare(m, previous.version) \in {0, 1}
    BY <1>2, MaxIsHighest
  <2>2. m \in Version /\ Compare(previous.version, m) \in {-1, 0}
    <3>1. m \in Version
      BY <1>2, <2>1
    <3> HIDE DEF m
    <3> QED BY <1>2, <2>1, <3>1, CompareAntisymmetric
  <2> QED BY <1>2, <2>2 DEF ResolveVersion
<1>3. CASE previous # None /\ previous.basis # basis
  <2> DEFINE next == BumpPatch(previous.version)
             m == MaxVersion(h.version, next)
  <2>1. next \in Version /\ Compare(previous.version, next) = -1
    BY <1>3, BumpedIsHigher
  <2> HIDE DEF next
  <2>2. m \in {h.version, next} /\ Compare(m, next) \in {0, 1}
    BY <2>1, MaxIsHighest
  <2>3. m \in Version
    BY <2>1, <2>2
  <2>4. Compare(next, m) \in {-1, 0}
    <3> HIDE DEF m
    <3> QED BY <2>1, <2>2, <2>3, CompareAntisymmetric
  <2>5. Compare(previous.version, m) = -1
    <3> HIDE DEF m
    <3>1. CASE Compare(next, m) = -1
      BY <1>3, <2>1, <2>3, <3>1, CompareTransitive
    <3>2. CASE Compare(next, m) = 0
      <4>1. SameCore(next, m) /\ next.pre = m.pre
        BY <2>1, <2>3, <3>2, CompareIs
      <4>2. /\ LowerCore(previous.version, m) <=> LowerCore(previous.version, next)
            /\ SameCore(previous.version, m) <=> SameCore(previous.version, next)
        BY <4>1 DEF SameCore, LowerCore
      <4> QED BY <1>3, <2>1, <2>3, <4>1, <4>2, CompareIs
    <3> QED BY <2>4, <3>1, <3>2
  <2> QED BY <1>3, <2>3, <2>5 DEF ResolveVersion, next
<1> QED BY <1>1, <1>2, <1>3

-----------------------------------------------------------------------------
(* A path with a start cut off and put back.                                *)
LEMMA CutAndBack ==
  ASSUME NEW p \in Path, NEW path \in Path, Len(p) > Len(path),
         SubSeq(p, 1, Len(path)) = path
  PROVE  path \o SubSeq(p, Len(path) + 1, Len(p)) = p
<1> DEFINE n == Len(path)
           tail == SubSeq(p, n + 1, Len(p))
<1>1. n \in Nat /\ Len(p) \in Nat /\ n < Len(p)
  BY DEF Path
<1>2. tail \in Path /\ Len(tail) = Len(p) - n /\ \A i \in 1 .. Len(p) - n : tail[i] = p[n + i]
  BY <1>1 DEF Path
<1>3. \A i \in 1 .. n : path[i] = p[i]
  <2>1. SubSeq(p, 1, n) \in Path /\ \A i \in 1 .. n : SubSeq(p, 1, n)[i] = p[i]
    BY <1>1 DEF Path
  <2> QED BY <2>1
<1> HIDE DEF tail
<1>4. /\ path \o tail \in Path /\ Len(path \o tail) = n + Len(tail)
      /\ \A i \in 1 .. n + Len(tail) :
           (path \o tail)[i] = IF i <= n THEN path[i] ELSE tail[i - n]
  BY <1>1, <1>2 DEF Path
<1>5. Len(path \o tail) = Len(p) /\ \A i \in 1 .. Len(p) : (path \o tail)[i] = p[i]
  <2>1. ASSUME NEW i \in 1 .. Len(p) PROVE (path \o tail)[i] = p[i]
    <3>1. CASE i <= n
      BY <1>1, <1>2, <1>3, <1>4, <3>1
    <3>2. CASE ~(i <= n)
      <4>1. i - n \in 1 .. Len(p) - n /\ n + (i - n) = i /\ i \in 1 .. n + Len(tail)
        BY <1>1, <1>2, <3>2
      <4> QED BY <1>1, <1>2, <1>4, <3>2, <4>1
    <3> QED BY <3>1, <3>2
  <2> QED BY <1>1, <1>2, <1>4, <2>1
<1> QED BY <1>4, <1>5, SeqEqual DEF Path, tail

(* What a plugin that loads says its version is.                            *)
LEMMA LoadedVersion ==
  ASSUME NEW id, NEW t, NEW tree, NEW path, <<id, t, tree, path>> \in Loads
  PROVE  Below[tree][path][ManifestPath[t]].contents.version \in Version \cup {None}
<1> DEFINE folder == Below[tree][path]
           at == ManifestPath[t]
<1>1. /\ tree \in DOMAIN Files /\ path \in Directories
      /\ at \in DOMAIN folder /\ folder[at].contents.version # Malformed
  BY DEF Loads
<1>2. PICK p \in DOMAIN Files[tree] :
        /\ Len(p) > Len(path) /\ SubSeq(p, 1, Len(path)) = path
        /\ at = SubSeq(p, Len(path) + 1, Len(p))
  BY <1>1 DEF Below
<1>3. folder[at] = Files[tree][path \o at]
  BY <1>1 DEF Below
<1>4. p \in Path /\ path \in Path /\ Files[tree][p] \in [mode: STRING, contents: Contents]
  BY <1>1, ExternalConstants
<1>5. path \o at = p
  BY <1>2, <1>4, CutAndBack
<1>6. folder[at].contents \in Contents
  BY <1>3, <1>4, <1>5
<1> QED BY <1>1, <1>6 DEF Contents

(* The plugins of a hub are upstream's or its own.                          *)
LEMMA HubIs ==
  ASSUME NEW h \in Hubs
  PROVE  /\ DOMAIN h.plugins \subseteq Ids /\ h.targets \subseteq ExternalHarness
         /\ h.version \in Version /\ h.content \in Nat
         /\ \A id \in DOMAIN h.plugins :
              \/ /\ h.plugins[id].kind = "external" /\ h.plugins[id].url \in Urls
                 /\ h.plugins[id].ref \in Shas \cup {Latest} /\ h.plugins[id].targets \in Targets
              \/ h.plugins[id].kind = "authored" /\ h.plugins[id] \in Written
<1>1. IsHub(h)
  BY ExternalConstants
<1>2. \A id \in DOMAIN h.plugins : h.plugins[id] \in Requested \cup Written
  BY <1>1 DEF IsHub, PartialFn
<1> QED BY <1>1, <1>2 DEF IsHub, PartialFn, Requested, Written

(* A hub whose latest sources are locked has commits for all of them.       *)
LEMMA ResolvedIs ==
  ASSUME NEW h \in Hubs, NEW lock \in [Floating(h) -> Shas]
  PROVE  Resolved(h, lock) \in Plugins /\ BasisOf(h, Resolved(h, lock)) \in Basis
<1>1. ASSUME NEW id \in DOMAIN h.plugins
      PROVE  Resolved(h, lock)[id] \in Pinned \cup Written
  <2>1. CASE h.plugins[id].kind = "external"
    <3>1. /\ h.plugins[id].url \in Urls /\ h.plugins[id].targets \in Targets
          /\ h.plugins[id].ref \in Shas \cup {Latest}
      BY <2>1, HubIs DEF Written
    <3>2. h.plugins[id].ref = Latest => lock[id] \in Shas
      BY <2>1 DEF Floating, External
    <3> QED BY <2>1, <3>1, <3>2 DEF Resolved, Pinned
  <2>2. CASE h.plugins[id].kind = "authored" /\ h.plugins[id] \in Written
    BY <2>2 DEF Resolved
  <2> QED BY <2>1, <2>2, HubIs
<1>2. DOMAIN h.plugins \in SUBSET Ids /\ Resolved(h, lock) \in [DOMAIN h.plugins -> Pinned \cup Written]
  BY <1>1, HubIs DEF Resolved
<1>3. Resolved(h, lock) \in Plugins
  BY <1>2 DEF Plugins
<1> QED BY <1>3, HubIs DEF BasisOf, Basis

(* A commit of a repository.                                                *)
LEMMA CommitsAre ==
  ASSUME TypeInv, NEW url \in Urls
  PROVE  LatestCommit(url) \in Shas /\ 1 .. Len(upstream[url]) \subseteq Shas
<1>1. Len(upstream[url]) \in 1 .. MaxCommits[url] /\ MaxCommits[url] \in Nat
  BY ExternalConstants DEF TypeInv
<1>2. 1 .. Len(upstream[url]) \subseteq 1 .. MaxCommits[url]
  BY <1>1
<1> QED BY <1>1, <1>2 DEF LatestCommit, Shas

LEMMA HeadLockIs ==
  ASSUME TypeInv, NEW h \in Hubs
  PROVE  HeadLock(h) \in [Floating(h) -> Shas]
<1>1. ASSUME NEW id \in Floating(h) PROVE LatestCommit(h.plugins[id].url) \in Shas
  <2>1. h.plugins[id].url \in Urls
    BY HubIs DEF Floating, External, Written
  <2> QED BY <2>1, CommitsAre
<1> QED BY <1>1 DEF HeadLock

(* What was published, if anything was.                                     *)
LEMMA PublishedIs ==
  ASSUME TypeInv
  PROVE  Published # None => Published \in Release /\ Published = releases[Len(releases)]
                             /\ Len(releases) \in 1 .. Len(releases)
BY DEF TypeInv, Published

(* The published revision of an upstream plugin.                            *)
LEMMA PublishedPlugin ==
  ASSUME NEW previous \in Release, NEW id \in External(previous.basis.plugins)
  PROVE  /\ id \in Ids /\ previous.basis.plugins[id] \in Pinned
<1>1. previous.basis.plugins \in Plugins
  BY DEF Release, Basis
<1>2. PICK T \in SUBSET Ids : previous.basis.plugins \in [T -> Pinned \cup Written]
  BY <1>1 DEF Plugins
<1> QED BY <1>2 DEF External, Written

-----------------------------------------------------------------------------
(* A publication that verifies.                                             *)

(* It waits only for latest sources, whose published revision is sound, in  *)
(* the same repository and at the same paths.                               *)
LEMMA RetainedIs ==
  ASSUME NEW h \in Hubs, NEW previous, NEW id \in External(Resolved(h, HeadLock(h))),
         PluginVerifies(h, id, Resolved(h, HeadLock(h))[id], previous),
         Retains(h, id, Resolved(h, HeadLock(h))[id], previous)
  PROVE  LET plugin == Resolved(h, HeadLock(h))[id]
             old == previous.basis.plugins[id]
         IN /\ id \in Floating(h) /\ previous # None /\ id \in External(previous.basis.plugins)
            /\ old.url = plugin.url /\ old.targets = plugin.targets
            /\ \A t \in Selected(plugin, h.targets) : Sound(id, old, t)
<1> DEFINE plugin == Resolved(h, HeadLock(h))[id]
           old == previous.basis.plugins[id]
<1>1. id \in DOMAIN h.plugins /\ plugin.kind = "external"
  BY DEF External, Resolved
<1>2. h.plugins[id].kind = "external"
  BY <1>1, HubIs DEF Resolved, Written
<1> HIDE DEF plugin
<1>3. Collides(h, id, plugin, previous) /\ ~Unchanged(id, plugin, previous)
  BY DEF Retains, plugin
<1>4. /\ CanRetain(h, id, plugin, previous)
      /\ \A t \in Selected(old, h.targets) : Sound(id, old, t)
  BY <1>3 DEF PluginVerifies, plugin
<1>5. /\ h.plugins[id].ref = Latest /\ ClaudeHad(id, previous)
      /\ old.url = plugin.url /\ old.targets = plugin.targets
  BY <1>4 DEF CanRetain
<1>6. id \in Floating(h) /\ previous # None /\ id \in External(previous.basis.plugins)
  BY <1>1, <1>2, <1>5 DEF Floating, External, ClaudeHad
<1>7. Selected(old, h.targets) = Selected(plugin, h.targets)
  BY <1>5 DEF Selected
<1> QED BY <1>4, <1>5, <1>6, <1>7 DEF plugin

(* So the commit that is kept is one of the repository, and the revision    *)
(* verified for every selected target.                                      *)
LEMMA KeptIs ==
  ASSUME TypeInv, NEW h \in Hubs, NEW previous, previous # None => previous \in Release,
         NEW id \in External(Resolved(h, HeadLock(h))),
         PluginVerifies(h, id, Resolved(h, HeadLock(h))[id], previous)
  PROVE  LET plugin == Resolved(h, HeadLock(h))[id]
             sha == Kept(h, id, plugin, previous)
         IN /\ sha \in Shas
            /\ id \notin Floating(h) => sha = plugin.sha
            /\ \A t \in Selected(plugin, h.targets) :
                 Manifest([plugin EXCEPT !.sha = sha], t).version \in Version \cup {None}
<1> DEFINE plugin == Resolved(h, HeadLock(h))[id]
           old == previous.basis.plugins[id]
           sha == Kept(h, id, plugin, previous)
           kept == [plugin EXCEPT !.sha = sha]
<1>1. plugin \in Pinned
  <2>1. Resolved(h, HeadLock(h)) \in Plugins
    BY HeadLockIs, ResolvedIs
  <2>2. PICK T \in SUBSET Ids : Resolved(h, HeadLock(h)) \in [T -> Pinned \cup Written]
    BY <2>1 DEF Plugins
  <2>3. id \in T /\ plugin.kind = "external"
    BY <2>2 DEF External
  <2> QED BY <2>2, <2>3 DEF Written
<1> HIDE DEF plugin
<1>2. ASSUME NEW revision \in Pinned, NEW t, revision.url = plugin.url, revision.sha = sha,
             revision.targets = plugin.targets, Sound(id, revision, t)
      PROVE  Manifest(kept, t).version \in Version \cup {None}
  <2>1. <<id, t, upstream[revision.url][revision.sha], revision.targets[t]>> \in Loads
    BY <1>2 DEF Sound
  <2>2. Manifest(revision, t).version \in Version \cup {None}
    BY <2>1, LoadedVersion DEF Manifest, Folder
  <2>3. kept.url = revision.url /\ kept.sha = revision.sha /\ kept.targets = revision.targets
    BY <1>1, <1>2 DEF Pinned
  <2> QED BY <2>2, <2>3 DEF Manifest
<1>3. CASE Retains(h, id, plugin, previous)
  <2>1. /\ id \in Floating(h) /\ previous # None /\ id \in External(previous.basis.plugins)
        /\ old.url = plugin.url /\ old.targets = plugin.targets
        /\ \A t \in Selected(plugin, h.targets) : Sound(id, old, t)
    BY <1>3, RetainedIs DEF plugin
  <2>2. old \in Pinned /\ sha = old.sha
    BY <1>3, <2>1, PublishedPlugin DEF Kept
  <2>3. sha \in Shas
    BY <2>2 DEF Pinned
  <2> HIDE DEF old, sha, kept
  <2>4. \A t \in Selected(plugin, h.targets) : Manifest(kept, t).version \in Version \cup {None}
    BY <1>2, <2>1, <2>2
  <2> QED BY <2>1, <2>3, <2>4 DEF kept, sha, plugin
<1>4. CASE ~Retains(h, id, plugin, previous)
  <2>1. sha = plugin.sha /\ sha \in Shas
    BY <1>1, <1>4 DEF Kept, Pinned
  <2>2. \A t \in Selected(plugin, h.targets) : Sound(id, plugin, t)
    BY DEF PluginVerifies, plugin
  <2> HIDE DEF sha, kept
  <2>3. \A t \in Selected(plugin, h.targets) : Manifest(kept, t).version \in Version \cup {None}
    BY <1>1, <1>2, <2>1, <2>2
  <2> QED BY <2>1, <2>3 DEF kept, sha, plugin
<1> QED BY <1>3, <1>4

(* A revision with another commit.                                          *)
LEMMA Repinned ==
  ASSUME NEW url, NEW targets, NEW old, NEW sha
  PROVE  [[kind |-> "external", url |-> url, targets |-> targets, sha |-> old] EXCEPT !.sha = sha]
           = [kind |-> "external", url |-> url, targets |-> targets, sha |-> sha]
OBVIOUS

(* What a lock makes of a plugin of the hub.                                *)
LEMMA ResolvedPlugin ==
  ASSUME NEW h \in Hubs, NEW lock, NEW id \in DOMAIN h.plugins
  PROVE  LET plugin == Resolved(h, lock)[id]
         IN /\ plugin.kind = h.plugins[id].kind
            /\ h.plugins[id].kind = "authored" => plugin = h.plugins[id]
            /\ h.plugins[id].kind = "external" =>
                 /\ h.plugins[id].ref = Latest => plugin.sha = lock[id]
                 /\ h.plugins[id].ref # Latest => plugin.sha = h.plugins[id].ref
                 /\ plugin = [kind |-> "external", url |-> h.plugins[id].url,
                              targets |-> h.plugins[id].targets, sha |-> plugin.sha]
<1> DEFINE p == h.plugins[id]
           sha == IF p.ref = Latest THEN lock[id] ELSE p.ref
           plugin == Resolved(h, lock)[id]
<1>1. plugin = IF p.kind = "authored" THEN p
               ELSE [kind |-> "external", url |-> p.url, targets |-> p.targets, sha |-> sha]
  BY DEF Resolved
<1>2. p.kind \in {"external", "authored"}
  BY HubIs
<1>3. /\ p.ref = Latest => sha = lock[id]
      /\ p.ref # Latest => sha = p.ref
  OBVIOUS
<1> HIDE DEF plugin, p, sha
<1>4. CASE p.kind = "authored"
  BY <1>1, <1>4 DEF p, plugin
<1>5. CASE p.kind = "external"
  <2>1. plugin = [kind |-> "external", url |-> p.url, targets |-> p.targets, sha |-> sha]
    BY <1>1, <1>5
  <2>2. plugin.sha = sha /\ plugin.kind = "external"
    BY <2>1
  <2> QED BY <1>3, <1>5, <2>1, <2>2 DEF p, plugin
<1> QED BY <1>2, <1>4, <1>5

(* A pin is of the plugin's kind, whatever the lock says.                   *)
LEMMA ResolvedKind ==
  ASSUME NEW h \in Hubs, NEW lock, NEW id \in DOMAIN h.plugins
  PROVE  Resolved(h, lock)[id].kind = h.plugins[id].kind
<1> DEFINE p == h.plugins[id]
           sha == IF p.ref = Latest THEN lock[id] ELSE p.ref
<1>1. Resolved(h, lock)[id] =
        IF p.kind = "authored" THEN p
        ELSE [kind |-> "external", url |-> p.url, targets |-> p.targets, sha |-> sha]
  BY DEF Resolved
<1>2. p.kind \in {"external", "authored"}
  BY HubIs
<1> HIDE DEF p, sha
<1> QED
  BY <1>1, <1>2 DEF p

(* The lock that is saved names what was verified.                          *)
LEMMA SavedLockIs ==
  ASSUME TypeInv, NEW h \in Hubs, NEW previous, previous # None => previous \in Release,
         Verifies(h, previous)
  PROVE  /\ SavedLock(h, previous) \in [Floating(h) -> Shas]
         /\ VerifiedPlugins(h, previous) = Resolved(h, SavedLock(h, previous))
         /\ \A id \in External(VerifiedPlugins(h, previous)) :
              \A t \in Selected(VerifiedPlugins(h, previous)[id], h.targets) :
                Manifest(VerifiedPlugins(h, previous)[id], t).version \in Version \cup {None}
<1> DEFINE plugins == Resolved(h, HeadLock(h))
           lock == SavedLock(h, previous)
           verified == VerifiedPlugins(h, previous)
           kept(id) == Kept(h, id, plugins[id], previous)
<1>1. ASSUME NEW id \in External(plugins)
      PROVE  /\ kept(id) \in Shas
             /\ id \notin Floating(h) => kept(id) = plugins[id].sha
             /\ \A t \in Selected(plugins[id], h.targets) :
                  Manifest([plugins[id] EXCEPT !.sha = kept(id)], t).version
                    \in Version \cup {None}
  BY KeptIs DEF Verifies
<1>2. /\ DOMAIN plugins = DOMAIN h.plugins
      /\ \A id \in DOMAIN h.plugins : /\ plugins[id].kind = h.plugins[id].kind
                                      /\ h.plugins[id].kind \in {"external", "authored"}
  <2>1. DOMAIN plugins = DOMAIN h.plugins
    BY DEF Resolved
  <2>2. ASSUME NEW id \in DOMAIN h.plugins PROVE plugins[id].kind = h.plugins[id].kind
    BY Zenon, ResolvedKind
  <2>3. ASSUME NEW id \in DOMAIN h.plugins PROVE h.plugins[id].kind \in {"external", "authored"}
    BY HubIs
  <2> QED BY <2>1, <2>2, <2>3
<1>3. /\ External(plugins) = External(h.plugins) /\ Floating(h) \subseteq External(plugins)
      /\ \A id \in DOMAIN h.plugins : id \in External(plugins) <=> h.plugins[id].kind = "external"
  <2> HIDE DEF plugins
  <2> QED BY <1>2 DEF External, Floating
<1>4. lock \in [Floating(h) -> Shas] /\ \A id \in Floating(h) : lock[id] = kept(id)
  BY <1>1, <1>3 DEF SavedLock
<1>5. /\ DOMAIN verified = DOMAIN h.plugins
      /\ \A id \in DOMAIN h.plugins :
           verified[id] = IF plugins[id].kind = "authored" THEN plugins[id]
                          ELSE [plugins[id] EXCEPT !.sha = kept(id)]
  BY <1>2 DEF VerifiedPlugins
<1> HIDE DEF plugins, kept
<1>6. ASSUME NEW id \in External(plugins)
      PROVE  /\ verified[id] = [plugins[id] EXCEPT !.sha = kept(id)]
             /\ verified[id] = [kind |-> "external", url |-> h.plugins[id].url,
                                targets |-> h.plugins[id].targets, sha |-> kept(id)]
             /\ plugins[id].targets = h.plugins[id].targets
             /\ verified[id] = Resolved(h, lock)[id]
  <2>1. id \in DOMAIN h.plugins /\ h.plugins[id].kind = "external" /\ plugins[id].kind = "external"
    BY <1>2, <1>3 DEF External
  <2>2. /\ plugins[id] = [kind |-> "external", url |-> h.plugins[id].url,
                          targets |-> h.plugins[id].targets, sha |-> plugins[id].sha]
        /\ h.plugins[id].ref # Latest => plugins[id].sha = h.plugins[id].ref
    BY <2>1, ResolvedPlugin DEF plugins
  <2>3. verified[id] = [plugins[id] EXCEPT !.sha = kept(id)]
    <3>1. plugins[id].kind # "authored"
      BY <2>1
    <3> QED BY <1>5, <2>1, <3>1, Zenon
  <2>4. [plugins[id] EXCEPT !.sha = kept(id)]
          = [kind |-> "external", url |-> h.plugins[id].url,
             targets |-> h.plugins[id].targets, sha |-> kept(id)]
    <3>1. PICK old : plugins[id] = [kind |-> "external", url |-> h.plugins[id].url,
                                    targets |-> h.plugins[id].targets, sha |-> old]
      BY <2>2, Zenon
    <3>2. [plugins[id] EXCEPT !.sha = kept(id)]
            = [[kind |-> "external", url |-> h.plugins[id].url,
                targets |-> h.plugins[id].targets, sha |-> old] EXCEPT !.sha = kept(id)]
      BY <3>1, Zenon
    <3> QED BY <3>2, Repinned, Zenon
  <2>5. /\ h.plugins[id].ref = Latest => kept(id) = lock[id]
        /\ h.plugins[id].ref # Latest => kept(id) = h.plugins[id].ref
    <3>1. id \in Floating(h) <=> h.plugins[id].ref = Latest
      BY <2>1 DEF Floating, External
    <3> QED BY <1>1, <1>4, <2>2, <3>1
  <2>6. /\ Resolved(h, lock)[id] = [kind |-> "external", url |-> h.plugins[id].url,
                                    targets |-> h.plugins[id].targets,
                                    sha |-> Resolved(h, lock)[id].sha]
        /\ h.plugins[id].ref = Latest => Resolved(h, lock)[id].sha = lock[id]
        /\ h.plugins[id].ref # Latest => Resolved(h, lock)[id].sha = h.plugins[id].ref
    BY <2>1, ResolvedPlugin
  <2>7. Resolved(h, lock)[id].sha = kept(id)
    BY <2>5, <2>6
  <2>8. plugins[id].targets = h.plugins[id].targets
    <3> DEFINE was == plugins[id]
    <3>1. was = [kind |-> "external", url |-> h.plugins[id].url,
                 targets |-> h.plugins[id].targets, sha |-> was.sha]
      BY <2>2
    <3> HIDE DEF was
    <3>2. was.targets = h.plugins[id].targets
      BY <3>1
    <3> QED BY <3>2 DEF was
  <2> QED BY <2>3, <2>4, <2>6, <2>7, <2>8, Zenon
<1>7. verified = Resolved(h, lock)
  <2>1. ASSUME NEW id \in DOMAIN h.plugins PROVE verified[id] = Resolved(h, lock)[id]
    <3>1. CASE h.plugins[id].kind = "external"
      BY <1>3, <1>6, <3>1
    <3>2. CASE h.plugins[id].kind = "authored"
      <4>1. plugins[id].kind = "authored"
        BY <1>2, <3>2
      <4>2. verified[id] = plugins[id]
        BY <1>5, <4>1, Zenon
      <4>3. plugins[id] = h.plugins[id] /\ Resolved(h, lock)[id] = h.plugins[id]
        BY <3>2, ResolvedPlugin DEF plugins
      <4> QED BY <4>2, <4>3
    <3> QED BY <1>2, <3>1, <3>2
  <2> QED BY <1>5, <2>1 DEF VerifiedPlugins, Resolved, plugins
<1>8. ASSUME NEW id \in External(verified), NEW t \in Selected(verified[id], h.targets)
      PROVE  Manifest(verified[id], t).version \in Version \cup {None}
  <2>1. id \in External(plugins)
    <3>1. id \in DOMAIN h.plugins /\ verified[id].kind = "external"
      BY <1>5, <1>8, Zenon DEF External
    <3>2. verified[id].kind = h.plugins[id].kind
      <4>1. Resolved(h, lock)[id].kind = h.plugins[id].kind
        BY <3>1, ResolvedPlugin
      <4> QED BY <1>7, <4>1, Zenon
    <3> QED BY <1>3, <3>1, <3>2
  <2>2. verified[id].targets = plugins[id].targets
    <3>1. verified[id].targets = h.plugins[id].targets
      <4> DEFINE now == verified[id]
      <4>1. now = [kind |-> "external", url |-> h.plugins[id].url,
                   targets |-> h.plugins[id].targets, sha |-> kept(id)]
        BY <1>6, <2>1, Zenon
      <4> HIDE DEF now
      <4>2. now.targets = h.plugins[id].targets
        BY <4>1
      <4> QED BY <4>2 DEF now
    <3> QED BY <1>6, <2>1, <3>1, Zenon
  <2>3. t \in Selected(plugins[id], h.targets)
    BY <1>8, <2>2 DEF Selected
  <2> QED BY <1>1, <1>6, <2>1, <2>3, Zenon
<1> QED BY <1>4, <1>7, <1>8

(* One record per plugin and selected target fits what is built of them.    *)
LEMMA RecordsCover ==
  ASSUME NEW h, NEW plugins
  PROVE  Covers(RecordsOf(h, plugins), BasisOf(h, plugins))
<1> DEFINE E == External(plugins)
           S(id) == Selected(plugins[id], h.targets)
           record(id, t) == [id |-> id, target |-> t, url |-> plugins[id].url,
                             sha |-> plugins[id].sha, path |-> plugins[id].targets[t],
                             version |-> Manifest(plugins[id], t).version]
           expected(id, t) == [id |-> id, target |-> t, url |-> plugins[id].url,
                               sha |-> plugins[id].sha, path |-> plugins[id].targets[t]]
           identity(r) == [id |-> r.id, target |-> r.target, url |-> r.url,
                           sha |-> r.sha, path |-> r.path]
           records == RecordsOf(h, plugins)
           all == UNION {{expected(id, t) : t \in S(id)} : id \in E}
<1>1. records = UNION {{record(id, t) : t \in S(id)} : id \in E}
  BY DEF RecordsOf
<1>2. Covers(records, BasisOf(h, plugins))
        <=> /\ {identity(r) : r \in records} = all
            /\ \A r, s \in records : identity(r) = identity(s) => r = s
  <2>1. BasisOf(h, plugins).plugins = plugins /\ BasisOf(h, plugins).targets = h.targets
    BY DEF BasisOf
  <2> QED BY <2>1 DEF Covers
<1>3. \A id, t : identity(record(id, t)) = expected(id, t)
  OBVIOUS
<1>4. ASSUME NEW i, NEW j, NEW t, NEW u, expected(i, t) = expected(j, u)
      PROVE  i = j /\ t = u
  <2>1. /\ expected(i, t).id = i /\ expected(j, u).id = j
        /\ expected(i, t).target = t /\ expected(j, u).target = u
    OBVIOUS
  <2> HIDE DEF expected
  <2> QED BY <1>4, <2>1
<1> HIDE DEF record, expected, identity, E, S
<1>5. \A r : r \in records <=> \E id \in E : \E t \in S(id) : r = record(id, t)
  <2> HIDE DEF records
  <2> QED BY <1>1
<1>6. \A e : e \in all <=> \E id \in E : \E t \in S(id) : e = expected(id, t)
  OBVIOUS
<1> HIDE DEF records, all
<1>7. {identity(r) : r \in records} = all
  <2>1. ASSUME NEW r \in records PROVE identity(r) \in all
    <3>1. PICK id \in E : \E t \in S(id) : r = record(id, t)
      BY <1>5
    <3>2. PICK t \in S(id) : r = record(id, t)
      BY <3>1
    <3>3. identity(r) = expected(id, t)
      BY <1>3, <3>2
    <3> QED BY <1>6, <3>3
  <2>2. ASSUME NEW e \in all PROVE \E r \in records : e = identity(r)
    <3>1. PICK id \in E : \E t \in S(id) : e = expected(id, t)
      BY <1>6
    <3>2. PICK t \in S(id) : e = expected(id, t)
      BY <3>1
    <3>3. record(id, t) \in records /\ e = identity(record(id, t))
      BY <1>3, <1>5, <3>2
    <3> QED BY <3>3
  <2> QED BY <2>1, <2>2
<1>8. ASSUME NEW r \in records, NEW s \in records, identity(r) = identity(s)
      PROVE  r = s
  <2>1. PICK i \in E : \E t \in S(i) : r = record(i, t)
    BY <1>5, Zenon
  <2>2. PICK t \in S(i) : r = record(i, t)
    BY <2>1, Zenon
  <2>3. PICK j \in E : \E u \in S(j) : s = record(j, u)
    BY <1>5, Zenon
  <2>4. PICK u \in S(j) : s = record(j, u)
    BY <2>3, Zenon
  <2>5. expected(i, t) = expected(j, u)
    BY <1>3, <1>8, <2>2, <2>4, Zenon
  <2>6. i = j /\ t = u
    BY <1>4, <2>5
  <2> QED BY <2>2, <2>4, <2>6, Zenon
<1> QED BY <1>2, <1>7, <1>8 DEF records

(* The records of a verification.                                           *)
LEMMA RecordsAre ==
  ASSUME TypeInv, NEW h \in Hubs, NEW previous, previous # None => previous \in Release,
         Verifies(h, previous)
  PROVE  RecordsOf(h, VerifiedPlugins(h, previous)) \subseteq Record
<1> DEFINE plugins == VerifiedPlugins(h, previous)
<1>1. plugins \in Plugins
  BY SavedLockIs, ResolvedIs
<1>2. \A id \in External(plugins) : \A t \in Selected(plugins[id], h.targets) :
        Manifest(plugins[id], t).version \in Version \cup {None}
  BY SavedLockIs
<1> HIDE DEF plugins
<1>3. PICK T \in SUBSET Ids : plugins \in [T -> Pinned \cup Written]
  BY <1>1 DEF Plugins
<1>4. \A id \in External(plugins) : id \in Ids /\ plugins[id] \in Pinned
  BY <1>3 DEF External, Written
<1>5. ASSUME NEW id \in External(plugins), NEW t \in Selected(plugins[id], h.targets)
      PROVE  [id |-> id, target |-> t, url |-> plugins[id].url, sha |-> plugins[id].sha,
              path |-> plugins[id].targets[t], version |-> Manifest(plugins[id], t).version]
                \in Record
  <2>1. /\ plugins[id].url \in Urls /\ plugins[id].sha \in Shas
        /\ plugins[id].targets \in Targets
    BY <1>4 DEF Pinned
  <2>2. t \in ExternalHarness /\ t \in DOMAIN plugins[id].targets
    BY HubIs DEF Selected
  <2>3. plugins[id].targets[t] \in Directories
    BY <2>1, <2>2 DEF Targets
  <2> QED BY <1>2, <1>4, <2>1, <2>2, <2>3 DEF Record
<1>6. RecordsOf(h, plugins) \subseteq Record
  BY <1>5 DEF RecordsOf
<1> QED BY <1>6 DEF plugins

-----------------------------------------------------------------------------
LEMMA InitInv == Init => Inv
<1> SUFFICES ASSUME Init PROVE Inv
  OBVIOUS
<1>1. PICK first \in [Urls -> UNION {Commits[url] : url \in Urls}] :
        /\ \A url \in Urls : first[url] \in Commits[url]
        /\ upstream = [url \in Urls |-> <<first[url]>>]
  BY DEF Init
<1>2. \A url \in Urls : MaxCommits[url] \in Nat \ {0} /\ first[url] \in DOMAIN Files
  BY <1>1, ExternalConstants
<1>3. /\ upstream \in [Urls -> Seq(DOMAIN Files)]
      /\ \A url \in Urls : /\ Len(upstream[url]) \in 1 .. MaxCommits[url]
                           /\ \A i \in 1 .. Len(upstream[url]) : upstream[url][i] \in Commits[url]
  BY <1>1, <1>2
<1>4. hub \in Hubs /\ closed = {} /\ edits = 0 /\ run = None /\ MaxEdits \in Nat
  BY ExternalConstants DEF Init
<1>5. releases \in Seq(Release) /\ Len(releases) \in {0, 1}
  <2>1. CASE releases = <<>>
    BY <2>1
  <2>2. CASE releases # <<>>
    <3> DEFINE basis == BasisOf(hub, Resolved(hub, HeadLock(hub)))
    <3>1. releases = <<[version |-> hub.version, records |-> None, basis |-> basis]>>
      BY <2>2 DEF Init
    <3>2. HeadLock(hub) \in [Floating(hub) -> Shas]
      <4>1. ASSUME NEW id \in Floating(hub) PROVE LatestCommit(hub.plugins[id].url) \in Shas
        <5>1. hub.plugins[id].url \in Urls
          BY <1>4, HubIs DEF Floating, External, Written
        <5>2. Len(upstream[hub.plugins[id].url]) \in 1 .. MaxCommits[hub.plugins[id].url]
          BY <1>3, <5>1
        <5> QED BY <5>1, <5>2 DEF LatestCommit, Shas
      <4> QED BY <4>1 DEF HeadLock
    <3>3. basis \in Basis /\ hub.version \in Version
      BY <1>4, <3>2, ResolvedIs, HubIs
    <3> HIDE DEF basis
    <3>4. [version |-> hub.version, records |-> None, basis |-> basis] \in Release
      BY <3>3 DEF Release
    <3> QED BY <3>1, <3>4
  <2> QED BY <2>1, <2>2
<1>6. OrderInv
  <2> SUFFICES ASSUME NEW i \in 1 .. Len(releases), NEW j \in 1 .. Len(releases)
               PROVE  Compare(releases[i].version, releases[j].version) \in {-1, 0}
    BY DEF OrderInv
  <2>1. Len(releases) = 1
    <3>1. CASE Len(releases) = 0
      <4>1. i \in 1 .. 0
        BY <3>1
      <4> QED BY <4>1
    <3> QED BY <1>5, <3>1
  <2>2. i = 1 /\ j = 1
    <3>1. i \in 1 .. 1 /\ j \in 1 .. 1
      BY <2>1
    <3> QED BY <3>1
  <2>3. releases[i] \in Release
    BY <1>5, <2>1, <2>2, ElementOfSeq
  <2>4. releases[i].version \in Version
    BY <2>3 DEF Release
  <2> QED BY <2>2, <2>4, CompareIs DEF SameCore
<1> QED BY <1>3, <1>4, <1>5, <1>6 DEF Inv, TypeInv, RecordsFit

(* A run begins.                                                            *)
LEMMA ResolveInv ==
  ASSUME Inv, Resolve
  PROVE  Inv'
<1> USE DEF Inv
<1> DEFINE plugins == VerifiedPlugins(hub, Published)
           lock == SavedLock(hub, Published)
<1>1. /\ hub \in Hubs /\ Verifies(hub, Published) /\ UNCHANGED <<upstream, closed, hub, edits, releases>>
      /\ run' = [hub |-> hub, base |-> Len(releases), lock |-> lock,
                 records |-> RecordsOf(hub, plugins)]
  BY DEF Resolve, TypeInv
<1>2. Published # None => Published \in Release
  BY PublishedIs
<1>3. lock \in [Floating(hub) -> Shas] /\ plugins = Resolved(hub, lock)
  BY <1>1, <1>2, SavedLockIs
<1>4. RecordsOf(hub, plugins) \subseteq Record
  BY <1>1, <1>2, RecordsAre
<1>5. Covers(RecordsOf(hub, plugins), BasisOf(hub, Resolved(hub, lock)))
  BY <1>3, RecordsCover
<1> HIDE DEF plugins, lock
<1>6. /\ run'.hub = hub /\ run'.base = Len(releases) /\ run'.lock = lock
      /\ run'.records = RecordsOf(hub, plugins) /\ Len(releases) \in Nat
  BY <1>1 DEF TypeInv
<1>7. TypeInv'
  <2>1. Floating(hub)' = Floating(hub) /\ Shas' = Shas
    BY <1>1 DEF Floating, External, Shas
  <2>2. Floating(run'.hub) = Floating(hub)
    BY <1>6
  <2> QED BY <1>1, <1>3, <1>4, <1>6, <2>1, <2>2 DEF TypeInv
<1>8. RecordsFit'
  <2>1. Covers(run'.records, BasisOf(run'.hub, Resolved(run'.hub, run'.lock)))
    BY <1>5, <1>6
  <2> QED BY <2>1 DEF RecordsFit, Covers, BasisOf, Resolved, External, Selected
<1>9. OrderInv'
  BY <1>1 DEF OrderInv
<1> QED BY <1>7, <1>8, <1>9

(* What is published on top of the releases is a release, whose version is  *)
(* not below theirs, and above when it differs from the last one.           *)
LEMMA BuiltIs ==
  ASSUME Inv, run # None
  PROVE  /\ Built \in Release
         /\ \A i \in 1 .. Len(releases) :
              /\ Compare(releases[i].version, Built.version) \in {-1, 0}
              /\ Built.basis # releases[Len(releases)].basis =>
                   Compare(releases[i].version, Built.version) = -1
<1> USE DEF Inv
<1> DEFINE basis == BasisOf(run.hub, Resolved(run.hub, run.lock))
           version == ResolveVersion(run.hub, basis, Published)
<1>1. run.hub \in Hubs /\ run.lock \in [Floating(run.hub) -> Shas] /\ run.records \subseteq Record
  BY DEF TypeInv
<1>2. basis \in Basis /\ run.hub.version \in Version
  BY <1>1, ResolvedIs, HubIs
<1>3. Published # None => Published \in Release /\ Published = releases[Len(releases)]
  BY PublishedIs
<1>4. Published # None => Published.version \in Version
  BY <1>3 DEF Release
<1> HIDE DEF basis
<1>5. /\ version \in Version
      /\ Published # None => /\ Compare(Published.version, version) \in {-1, 0}
                             /\ Published.basis # basis => Compare(Published.version, version) = -1
  BY <1>2, <1>4, ResolvedVersionIs
<1> HIDE DEF version
<1>6. Built = [version |-> version, basis |-> basis, records |-> run.records]
  BY DEF Built, basis, version
<1>7. Built \in Release /\ Built.version = version /\ Built.basis = basis
  BY <1>1, <1>2, <1>5, <1>6 DEF Release
<1>8. ASSUME NEW i \in 1 .. Len(releases)
      PROVE  /\ Compare(releases[i].version, version) \in {-1, 0}
             /\ basis # releases[Len(releases)].basis => Compare(releases[i].version, version) = -1
  <2>1. /\ Len(releases) \in 1 .. Len(releases) /\ i <= Len(releases)
        /\ releases[i] \in Release /\ releases[Len(releases)] \in Release
        /\ Published = releases[Len(releases)]
    BY DEF TypeInv, Published
  <2>2. releases[i].version \in Version /\ releases[Len(releases)].version \in Version
    BY <2>1 DEF Release
  <2>3. Compare(releases[i].version, releases[Len(releases)].version) \in {-1, 0}
    BY <2>1 DEF OrderInv
  <2>4. Published # None
    BY <2>1, ExternalConstants
  <2> QED BY <1>5, <2>1, <2>2, <2>3, <2>4, CompareMixed
<1> QED BY <1>7, <1>8

-----------------------------------------------------------------------------
(* Whether records fit a release depends on nothing that changes.           *)
LEMMA FitStays ==
  ASSUME RecordsFit, run' = run \/ run' = None
  PROVE  RecordsFit'
<1>1. CASE run' = None
  BY <1>1 DEF RecordsFit
<1>2. CASE run' = run /\ run # None
  <2>1. Covers(run.records, BasisOf(run.hub, Resolved(run.hub, run.lock)))
    BY <1>2 DEF RecordsFit
  <2>2. Covers(run'.records, BasisOf(run'.hub, Resolved(run'.hub, run'.lock)))
    BY <1>2, <2>1
  <2> QED BY <2>2 DEF RecordsFit, Covers, BasisOf, Resolved, External, Selected
<1> QED BY <1>1, <1>2

(* A run ends with the release it built, or without one.                    *)
LEMMA PublishInv ==
  ASSUME Inv, Publish
  PROVE  Inv'
<1> USE DEF Inv
<1>1. /\ run # None /\ run' = None
      /\ UNCHANGED <<upstream, closed, hub, edits>>
      /\ releases' = releases \/ releases' = Append(releases, Built)
  BY DEF Publish
<1>2. Built \in Release
  BY <1>1, BuiltIs
<1>3. releases \in Seq(Release)
  BY DEF TypeInv
<1>4. releases' \in Seq(Release)
  BY <1>1, <1>2, <1>3
<1>5. TypeInv'
  BY <1>1, <1>4 DEF TypeInv
<1>6. RecordsFit'
  BY <1>1, FitStays
<1>7. OrderInv'
  <2>1. CASE releases' = releases
    BY <2>1 DEF OrderInv
  <2>2. CASE releases' = Append(releases, Built)
    <3> DEFINE n == Len(releases)
    <3>1. /\ n \in Nat /\ Len(releases') = n + 1 /\ releases'[n + 1] = Built
          /\ \A k \in 1 .. n : releases'[k] = releases[k]
      BY <1>2, <1>3, <2>2, AppendProperties
    <3> SUFFICES ASSUME NEW i \in 1 .. n + 1, NEW j \in 1 .. n + 1, i <= j
                 PROVE  Compare(releases'[i].version, releases'[j].version) \in {-1, 0}
      BY <3>1 DEF OrderInv
    <3>2. CASE j \in 1 .. n
      <4>1. i \in 1 .. n
        BY <3>1, <3>2
      <4> QED BY <3>1, <3>2, <4>1 DEF OrderInv
    <3>3. CASE j = n + 1 /\ i \in 1 .. n
      BY <1>1, <3>1, <3>3, BuiltIs
    <3>4. CASE i = n + 1 /\ j = n + 1
      <4>1. Built.version \in Version
        BY <1>2 DEF Release
      <4> QED BY <3>1, <3>4, <4>1, CompareIs DEF SameCore
    <3> QED BY <3>1, <3>2, <3>3, <3>4
  <2> QED BY <1>1, <2>1, <2>2
<1> QED BY <1>5, <1>6, <1>7

(* Upstream commits, lost access and edits of the hub touch no release.     *)
LEMMA UpstreamCommitInv ==
  ASSUME Inv, NEW url \in Urls, UpstreamCommit(url)
  PROVE  Inv'
<1> USE DEF Inv
<1>1. PICK c \in Commits[url] : upstream' = [upstream EXCEPT ![url] = Append(upstream[url], c)]
  BY DEF UpstreamCommit
<1>2. UNCHANGED <<closed, hub, edits, releases, run>> /\ Len(upstream[url]) < MaxCommits[url]
  BY DEF UpstreamCommit
<1>3. c \in DOMAIN Files /\ upstream[url] \in Seq(DOMAIN Files)
      /\ MaxCommits[url] \in Nat /\ upstream \in [Urls -> Seq(DOMAIN Files)]
  BY <1>1, ExternalConstants DEF TypeInv
<1> DEFINE s == Append(upstream[url], c)
           n == Len(upstream[url])
<1>4. /\ s \in Seq(DOMAIN Files) /\ Len(s) = n + 1 /\ s[n + 1] = c /\ n \in Nat
      /\ \A k \in 1 .. n : s[k] = upstream[url][k]
  BY <1>3, AppendProperties
<1>5. \A k \in 1 .. Len(s) : s[k] \in Commits[url]
  <2> SUFFICES ASSUME NEW k \in 1 .. Len(s) PROVE s[k] \in Commits[url]
    OBVIOUS
  <2> HIDE DEF s
  <2>1. CASE k = n + 1
    BY <1>1, <1>4, <2>1
  <2>2. CASE k \in 1 .. n
    BY <1>4, <2>2 DEF TypeInv
  <2> QED BY <1>4, <2>1, <2>2
<1>6. Len(s) \in 1 .. MaxCommits[url]
  BY <1>2, <1>3, <1>4
<1> HIDE DEF s
<1>7. /\ upstream' \in [Urls -> Seq(DOMAIN Files)]
      /\ upstream'[url] = s /\ \A u \in Urls : u # url => upstream'[u] = upstream[u]
  BY <1>1, <1>3, <1>4 DEF s
<1>8. ASSUME NEW u \in Urls
      PROVE  /\ Len(upstream'[u]) \in 1 .. MaxCommits[u]
             /\ \A i \in 1 .. Len(upstream'[u]) : upstream'[u][i] \in Commits[u]
  <2>1. CASE u = url
    BY <1>5, <1>6, <1>7, <2>1
  <2>2. CASE u # url
    BY <1>7, <2>2 DEF TypeInv
  <2> QED BY <2>1, <2>2
<1>9. TypeInv'
  <2>1. run # None => Floating(run.hub)' = Floating(run.hub)
    BY <1>2 DEF Floating, External
  <2> QED BY <1>2, <1>7, <1>8, <2>1 DEF TypeInv, Shas
<1>10. RecordsFit'
  BY <1>2, FitStays
<1>11. OrderInv'
  BY <1>2 DEF OrderInv
<1> QED BY <1>9, <1>10, <1>11

LEMMA OtherInv ==
  ASSUME Inv, Abort \/ EditHub \/ (\E url \in Urls : ChangeAccess(url)) \/ UNCHANGED vars
  PROVE  Inv'
<1> USE DEF Inv
<1>1. /\ UNCHANGED <<upstream, releases>> /\ (run' = run \/ run' = None)
      /\ hub' \in Hubs /\ edits' \in 0 .. MaxEdits /\ closed' \subseteq Private
  BY ExternalConstants DEF Abort, EditHub, ChangeAccess, vars, TypeInv
<1>2. TypeInv'
  BY <1>1 DEF TypeInv, Floating, External, Shas
<1>3. RecordsFit'
  BY <1>1, FitStays
<1>4. OrderInv'
  BY <1>1 DEF OrderInv
<1> QED BY <1>2, <1>3, <1>4

LEMMA NextInv ==
  ASSUME Inv, [Next]_vars
  PROVE  Inv'
BY ResolveInv, PublishInv, UpstreamCommitInv, OtherInv DEF Next

LEMMA Invariance == Spec => []Inv
<1>1. Init => Inv
  BY InitInv
<1>2. Inv /\ [Next]_vars => Inv'
  BY NextInv
<1> QED BY <1>1, <1>2, PTL DEF Spec

-----------------------------------------------------------------------------
(* Whatever a commit, a lock, a record and a release hold has its type: a   *)
(* publication never builds with a commit that is no commit, nor a release  *)
(* without a version (external_plugins.py, release/versions.py).            *)
THEOREM TypeCorrect == Spec => []TypeOK
<1>1. ASSUME Inv PROVE TypeOK
  <2>1. /\ DOMAIN upstream = Urls
        /\ \A url \in Urls : /\ Len(upstream[url]) \in Shas
                             /\ \A i \in DOMAIN upstream[url] : upstream[url][i] \in Commits[url]
    BY <1>1 DEF Inv, TypeInv, Shas
  <2>2. run # None => PartialFn(run.lock, Ids, Shas)
    <3> SUFFICES ASSUME run # None PROVE PartialFn(run.lock, Ids, Shas)
      OBVIOUS
    <3>1. run.hub \in Hubs /\ run.lock \in [Floating(run.hub) -> Shas]
      BY <1>1 DEF Inv, TypeInv
    <3>2. Floating(run.hub) \subseteq Ids
      BY <3>1, HubIs DEF Floating, External
    <3> QED BY <3>1, <3>2 DEF PartialFn
  <2> QED BY <1>1, <2>1, <2>2 DEF Inv, TypeInv, TypeOK
<1>2. Inv => TypeOK
  BY <1>1
<1> QED BY <1>2, Invariance, PTL

(* The records of a verification fit the release that is built with its     *)
(* lock, for any hub and any release before it: retained commits are in     *)
(* both (_validate_records, external_plugins.py).                           *)
THEOREM RecordsAlwaysFit == Spec => []RecordsFit
<1>1. Inv => RecordsFit
  BY DEF Inv
<1> QED BY <1>1, Invariance, PTL

(* No release has a version below an earlier one, and one that changes what *)
(* is published is above all of them (resolve_release_version).             *)
THEOREM VersionsAlwaysRise == Spec => VersionsRise
<1> DEFINE Rises ==
      \A i \in DOMAIN releases :
        LET new == releases'[Len(releases')]
        IN /\ ~Precedes(new.version, releases[i].version)
           /\ new.basis # releases[Len(releases)].basis
                => Precedes(releases[i].version, new.version)
<1>1. ASSUME Inv, Next PROVE [Rises]_releases
  <2> SUFFICES ASSUME releases' # releases PROVE Rises
    OBVIOUS
  <2>1. Publish
    BY <1>1 DEF Next, Resolve, Abort, EditHub, UpstreamCommit, ChangeAccess
  <2>2. run # None /\ releases' = Append(releases, Built)
    BY <2>1 DEF Publish
  <2>3. Built \in Release /\ releases \in Seq(Release)
    BY <1>1, <2>2, BuiltIs DEF Inv, TypeInv
  <2>4. releases'[Len(releases')] = Built /\ DOMAIN releases = 1 .. Len(releases)
    BY <2>2, <2>3, AppendProperties
  <2>5. ASSUME NEW i \in 1 .. Len(releases)
        PROVE  /\ ~Precedes(Built.version, releases[i].version)
               /\ Built.basis # releases[Len(releases)].basis
                    => Precedes(releases[i].version, Built.version)
    <3>1. /\ Compare(releases[i].version, Built.version) \in {-1, 0}
          /\ Built.basis # releases[Len(releases)].basis =>
               Compare(releases[i].version, Built.version) = -1
      BY <1>1, <2>2, BuiltIs
    <3>2. releases[i].version \in Version /\ Built.version \in Version
      <4>1. releases[i] \in Release
        BY <2>3
      <4> QED BY <2>3, <4>1 DEF Release
    <3>3. Compare(Built.version, releases[i].version) # -1
      BY <3>1, <3>2, CompareAntisymmetric
    <3> QED BY <3>1, <3>2, <3>3, PrecedesIs
  <2> HIDE DEF Built
  <2> QED BY <2>4, <2>5
<1>2. Inv /\ [Next]_vars => [Rises]_releases
  BY <1>1 DEF vars
<1>3. VersionsRise <=> [][Rises]_releases
  BY DEF VersionsRise
<1> QED BY <1>2, <1>3, Invariance, PTL DEF Spec

-----------------------------------------------------------------------------
(* What a Claude host has of a release it took after the one before it.     *)

(* The plugins of a release verified when it was built: their commits are    *)
(* there, and each is a plugin for every target it is published for.        *)
Loaded(release) ==
  \A id \in External(release.basis.plugins) :
    LET p == release.basis.plugins[id]
    IN \A t \in Selected(p, release.basis.targets) :
         /\ p.sha \in DOMAIN upstream[p.url]
         /\ <<id, t, upstream[p.url][p.sha], p.targets[t]>> \in Loads

(* What is recorded of them is what their manifests say.                    *)
Recorded(release) ==
  \A id \in Ids :
    ClaudeHad(id, release) =>
      PreviousClaudeVersion(id, release) = Manifest(release.basis.plugins[id], "claude").version

(* Claude tells the plugins of a release apart from those of the one before *)
(* it where their contents differ.                                          *)
Succeeds(new, old) ==
  \A id \in OnClaude(new) \cap OnClaude(old) :
    Offered(new, id).key = Offered(old, id).key =>
      Offered(new, id).content = Offered(old, id).content

(* A commit stays in its repository.                                        *)
Grows ==
  \A u \in Urls :
    \A sha \in DOMAIN upstream[u] :
      sha \in DOMAIN upstream'[u] /\ upstream'[u][sha] = upstream[u][sha]

(* A version is not the source of an entry.                                 *)
LEMMA KeysApart ==
  ASSUME NEW v \in Version, NEW url, NEW sha, NEW path
  PROVE  v # [url |-> url, sha |-> sha, path |-> path]
<1>1. DOMAIN v = {"major", "minor", "patch", "pre", "build"}
  BY DEF Version
<1>2. DOMAIN [url |-> url, sha |-> sha, path |-> path] = {"url", "sha", "path"}
  OBVIOUS
<1>3. "major" \notin {"url", "sha", "path"}
  OBVIOUS
<1> QED BY <1>1, <1>2, <1>3

LEMMA ReleasePlugin ==
  ASSUME NEW release \in Release, NEW id \in DOMAIN release.basis.plugins
  PROVE  /\ id \in Ids /\ release.basis.plugins[id].kind \in {"external", "authored"}
         /\ release.basis.plugins[id].kind = "external" =>
              release.basis.plugins[id] \in Pinned /\ id \in External(release.basis.plugins)
         /\ release.basis.plugins[id].kind = "authored" =>
              release.basis.plugins[id] \in Written /\ id \in Authored(release.basis.plugins)
<1>1. release.basis.plugins \in Plugins
  BY DEF Release, Basis
<1>2. PICK T \in SUBSET Ids : release.basis.plugins \in [T -> Pinned \cup Written]
  BY <1>1 DEF Plugins
<1>3. id \in Ids /\ release.basis.plugins[id] \in Pinned \cup Written
  BY <1>2
<1> QED BY <1>3 DEF Pinned, Written, External, Authored

(* What a release offers to Claude.                                         *)
LEMMA OfferedIs ==
  ASSUME NEW release \in Release, NEW id \in OnClaude(release)
  PROVE  LET p == release.basis.plugins[id]
             version == Manifest(p, "claude").version
         IN /\ id \in Ids /\ id \in DOMAIN release.basis.plugins
            /\ "claude" \in release.basis.targets
            /\ p.kind \in {"external", "authored"}
            /\ p.kind = "authored" =>
                 /\ id \in Authored(release.basis.plugins)
                 /\ Offered(release, id).key = release.version /\ Offered(release, id).content = p
            /\ p.kind = "external" =>
                 /\ id \in External(release.basis.plugins) /\ p \in Pinned
                 /\ "claude" \in DOMAIN p.targets
                 /\ "claude" \in Selected(p, release.basis.targets)
                 /\ version # None => Offered(release, id).key = version
                 /\ version = None => Offered(release, id).key =
                      [url |-> p.url, sha |-> p.sha, path |-> p.targets["claude"]]
                 /\ Offered(release, id).content = Folder(p.url, p.sha, p.targets["claude"])
<1> DEFINE p == release.basis.plugins[id]
           version == Manifest(p, "claude").version
<1>1. /\ "claude" \in release.basis.targets /\ id \in DOMAIN release.basis.plugins
      /\ id \in Authored(release.basis.plugins) \/ "claude" \in DOMAIN p.targets
  BY DEF OnClaude
<1>2. /\ id \in Ids /\ p.kind \in {"external", "authored"}
      /\ p.kind = "external" => p \in Pinned /\ id \in External(release.basis.plugins)
      /\ p.kind = "authored" => p \in Written /\ id \in Authored(release.basis.plugins)
  BY <1>1, ReleasePlugin
<1>3. CASE p.kind = "authored"
  BY <1>1, <1>2, <1>3 DEF Offered
<1>4. CASE p.kind = "external"
  <2>1. "claude" \in DOMAIN p.targets
    BY <1>1, <1>4 DEF Authored, External
  <2>2. "claude" \in Selected(p, release.basis.targets)
    BY <1>1, <2>1 DEF Selected
  <2>3. /\ Offered(release, id).content = Folder(p.url, p.sha, p.targets["claude"])
        /\ version # None => Offered(release, id).key = version
        /\ version = None => Offered(release, id).key =
             [url |-> p.url, sha |-> p.sha, path |-> p.targets["claude"]]
    BY <1>4 DEF Offered
  <2> QED BY <1>1, <1>2, <1>4, <2>1, <2>2, <2>3
<1> QED BY <1>2, <1>3, <1>4

(* The manifest of what is published has a version or none.                 *)
LEMMA LoadedManifest ==
  ASSUME NEW release \in Release, Loaded(release), NEW id \in OnClaude(release),
         release.basis.plugins[id].kind = "external"
  PROVE  Manifest(release.basis.plugins[id], "claude").version \in Version \cup {None}
<1> DEFINE p == release.basis.plugins[id]
<1>1. id \in External(release.basis.plugins) /\ "claude" \in Selected(p, release.basis.targets)
  BY OfferedIs
<1>2. <<id, "claude", upstream[p.url][p.sha], p.targets["claude"]>> \in Loads
  BY <1>1 DEF Loaded
<1> QED BY <1>2, LoadedVersion DEF Manifest, Folder

(* What stays true of a release while upstream goes on.                     *)
LEMMA LoadedStays ==
  ASSUME Grows, NEW release \in Release, Loaded(release)
  PROVE  /\ Loaded(release)'
         /\ \A id \in OnClaude(release) : Offered(release, id)' = Offered(release, id)
         /\ Recorded(release) => Recorded(release)'
<1> DEFINE plugins == release.basis.plugins
           targets == release.basis.targets
<1>1. ASSUME NEW id \in External(plugins), NEW t \in Selected(plugins[id], targets)
      PROVE  /\ plugins[id].sha \in DOMAIN upstream'[plugins[id].url]
             /\ upstream'[plugins[id].url][plugins[id].sha]
                  = upstream[plugins[id].url][plugins[id].sha]
             /\ <<id, t, upstream[plugins[id].url][plugins[id].sha], plugins[id].targets[t]>>
                  \in Loads
             /\ plugins[id].targets[t] \in Directories
  <2>1. plugins[id] \in Pinned
    BY PublishedPlugin
  <2>2. plugins[id].url \in Urls
    BY <2>1 DEF Pinned
  <2>3. /\ plugins[id].sha \in DOMAIN upstream[plugins[id].url]
        /\ <<id, t, upstream[plugins[id].url][plugins[id].sha], plugins[id].targets[t]>> \in Loads
    BY <1>1 DEF Loaded
  <2>4. plugins[id].targets \in Targets
    BY <2>1 DEF Pinned
  <2>5. plugins[id].targets[t] \in Directories
    BY <2>4 DEF Targets, Selected
  <2> QED BY <2>2, <2>3, <2>5 DEF Grows
<1>2. Loaded(release)'
  <2>1. Loads' = Loads
    OBVIOUS
  <2>2. ASSUME NEW id \in External(plugins), NEW t \in Selected(plugins[id], targets)
        PROVE  /\ plugins[id].sha \in DOMAIN upstream'[plugins[id].url]
               /\ <<id, t, upstream'[plugins[id].url][plugins[id].sha], plugins[id].targets[t]>>
                    \in Loads
    BY <1>1
  <2> HIDE DEF plugins, targets
  <2>3. \A id \in External(plugins) : \A t \in Selected(plugins[id], targets) :
          /\ plugins[id].sha \in DOMAIN upstream'[plugins[id].url]
          /\ <<id, t, upstream'[plugins[id].url][plugins[id].sha], plugins[id].targets[t]>>
               \in Loads
    BY <2>2
  <2> USE DEF plugins, targets
  <2> QED BY <2>3, Zenon DEF Loaded
<1>3. ASSUME NEW id \in External(plugins), "claude" \in Selected(plugins[id], targets)
      PROVE  /\ Manifest(plugins[id], "claude")' = Manifest(plugins[id], "claude")
             /\ Folder(plugins[id].url, plugins[id].sha, plugins[id].targets["claude"])'
                  = Folder(plugins[id].url, plugins[id].sha, plugins[id].targets["claude"])
  <2>1. Folder(plugins[id].url, plugins[id].sha, plugins[id].targets["claude"])'
          = Folder(plugins[id].url, plugins[id].sha, plugins[id].targets["claude"])
    BY <1>1, <1>3 DEF Folder
  <2> QED BY <2>1 DEF Manifest
<1>4. ASSUME NEW id \in OnClaude(release)
      PROVE  Offered(release, id)' = Offered(release, id)
  <2>1. CASE plugins[id].kind = "authored"
    BY <2>1 DEF Offered
  <2>2. CASE plugins[id].kind # "authored"
    <3>1. id \in External(plugins) /\ "claude" \in Selected(plugins[id], targets)
      BY <2>2, OfferedIs
    <3> QED BY <1>3, <2>2, <3>1 DEF Offered
  <2> QED BY <2>1, <2>2
<1>5. ASSUME Recorded(release), NEW id \in Ids, ClaudeHad(id, release)
      PROVE  PreviousClaudeVersion(id, release)'
               = Manifest(release.basis.plugins[id], "claude").version'
  <2>1. id \in External(plugins) /\ "claude" \in Selected(plugins[id], targets)
    BY <1>5 DEF ClaudeHad
  <2>2. PreviousClaudeVersion(id, release) = Manifest(plugins[id], "claude").version
    BY <1>5 DEF Recorded
  <2>3. PreviousClaudeVersion(id, release)' = PreviousClaudeVersion(id, release)
    BY <1>3, <2>1 DEF PreviousClaudeVersion
  <2> QED BY <1>3, <2>1, <2>2, <2>3
<1>6. Recorded(release) => Recorded(release)'
  BY <1>5 DEF Recorded, ClaudeHad, External, Selected
<1> QED BY <1>2, <1>4, <1>6

(* What a verification makes of a plugin of the hub: one of upstream keeps  *)
(* its repository and paths, and is sound at the commit that is kept.       *)
LEMMA VerifiedIs ==
  ASSUME TypeInv, NEW h \in Hubs, NEW previous, previous # None => previous \in Release,
         Verifies(h, previous), NEW id \in DOMAIN h.plugins
  PROVE  LET head == Resolved(h, HeadLock(h))[id]
             kept == VerifiedPlugins(h, previous)[id]
         IN /\ id \in DOMAIN Resolved(h, HeadLock(h)) /\ id \in DOMAIN VerifiedPlugins(h, previous)
            /\ head.kind \in {"external", "authored"} /\ kept.kind = head.kind
            /\ head.kind = "authored" => kept = head
            /\ head.kind = "external" =>
                 /\ head \in Pinned /\ kept \in Pinned
                 /\ kept.url = head.url /\ kept.targets = head.targets
                 /\ kept.sha = Kept(h, id, head, previous)
                 /\ PluginVerifies(h, id, head, previous)
                 /\ \A t \in Selected(kept, h.targets) : Sound(id, kept, t)
<1> DEFINE plugins == Resolved(h, HeadLock(h))
           head == plugins[id]
           kept == VerifiedPlugins(h, previous)[id]
           sha == Kept(h, id, head, previous)
<1>1. id \in DOMAIN plugins /\ DOMAIN VerifiedPlugins(h, previous) = DOMAIN plugins
  BY DEF Resolved, VerifiedPlugins
<1>2. head.kind \in {"external", "authored"}
  <2>1. head.kind = h.plugins[id].kind
    BY Zenon, ResolvedKind
  <2> QED BY <2>1, HubIs
<1>3. kept = IF head.kind = "authored" THEN head ELSE [head EXCEPT !.sha = sha]
  BY <1>1 DEF VerifiedPlugins
<1>4. CASE head.kind = "authored"
  <2>1. kept = head
    BY <1>3, <1>4
  <2>2. kept.kind = head.kind /\ head.kind # "external"
    BY <1>4, <2>1
  <2> QED BY <1>1, <1>2, <1>4, <2>1, <2>2
<1>5. CASE head.kind = "external"
  <2>1. id \in External(plugins)
    BY <1>1, <1>5 DEF External
  <2>2. PluginVerifies(h, id, head, previous)
    BY <2>1 DEF Verifies
  <2>3. head \in Pinned
    <3>1. plugins \in Plugins
      BY HeadLockIs, ResolvedIs
    <3> HIDE DEF plugins
    <3>2. PICK T \in SUBSET Ids : plugins \in [T -> Pinned \cup Written]
      BY <3>1 DEF Plugins
    <3> QED BY <1>1, <1>5, <3>2 DEF Written
  <2>4. sha \in Shas
    BY <2>1, <2>2, KeptIs
  <2>5. /\ kept \in Pinned /\ kept.kind = "external" /\ kept.url = head.url
        /\ kept.targets = head.targets /\ kept.sha = sha
    <3>1. kept = [head EXCEPT !.sha = sha]
      BY <1>3, <1>5
    <3> HIDE DEF kept, head, sha
    <3> QED BY <2>3, <2>4, <3>1 DEF Pinned
  <2>6. ASSUME NEW t \in Selected(kept, h.targets) PROVE Sound(id, kept, t)
    <3>1. t \in Selected(head, h.targets)
      BY <2>5 DEF Selected
    <3>2. ASSUME NEW revision, Sound(id, revision, t), revision.url = kept.url,
                 revision.sha = kept.sha, revision.targets = kept.targets
          PROVE  Sound(id, kept, t)
      BY <3>2 DEF Sound, Fetchable
    <3>3. CASE Retains(h, id, head, previous)
      <4>1. /\ previous.basis.plugins[id].url = head.url
            /\ previous.basis.plugins[id].targets = head.targets
            /\ Sound(id, previous.basis.plugins[id], t)
        BY <2>1, <2>2, <3>1, <3>3, RetainedIs
      <4>2. sha = previous.basis.plugins[id].sha
        BY <3>3 DEF Kept
      <4> HIDE DEF kept, head, sha
      <4> QED BY <2>5, <3>2, <4>1, <4>2
    <3>4. CASE ~Retains(h, id, head, previous)
      <4>1. Sound(id, head, t)
        BY <2>2, <3>1 DEF PluginVerifies
      <4>2. sha = head.sha
        BY <3>4 DEF Kept
      <4> HIDE DEF kept, head, sha
      <4> QED BY <2>5, <3>2, <4>1, <4>2
    <3> QED BY <3>3, <3>4
  <2>7. kept.kind = head.kind /\ head.kind # "authored"
    BY <1>5, <2>5
  <2> HIDE DEF kept, head, sha, plugins
  <2> QED BY <1>1, <1>2, <2>2, <2>3, <2>5, <2>6, <2>7 DEF kept, head, sha, plugins
<1> QED BY <1>2, <1>4, <1>5

(* A verification refuses or defers what Claude would take for the version  *)
(* it has: of each plugin in both releases it has another key, or the same  *)
(* contents.                                                                *)
LEMMA VerifiedSucceeds ==
  ASSUME TypeInv, NEW h \in Hubs, NEW previous \in Release, Loaded(previous), Recorded(previous),
         Verifies(h, previous), NEW new \in Release,
         new.basis = BasisOf(h, VerifiedPlugins(h, previous)),
         new.version = ResolveVersion(h, new.basis, previous)
  PROVE  Succeeds(new, previous)
<1> SUFFICES ASSUME NEW id \in OnClaude(new) \cap OnClaude(previous),
                    Offered(new, id).key = Offered(previous, id).key
             PROVE  Offered(new, id).content = Offered(previous, id).content
  BY DEF Succeeds
<1> DEFINE plugins == Resolved(h, HeadLock(h))
           head == plugins[id]
           kept == new.basis.plugins[id]
           old == previous.basis.plugins[id]
           is == Manifest(kept, "claude").version
           was == Manifest(old, "claude").version
<1>1. /\ previous # None /\ previous.version \in Version /\ new.version \in Version
      /\ new.basis.plugins = VerifiedPlugins(h, previous) /\ new.basis.targets = h.targets
  BY ExternalConstants DEF Release, BasisOf
<1>2. id \in Ids /\ id \in DOMAIN h.plugins /\ id \in DOMAIN plugins
  <2>1. DOMAIN plugins = DOMAIN h.plugins
    BY DEF Resolved
  <2>2. DOMAIN VerifiedPlugins(h, previous) = DOMAIN plugins
    BY Zenon DEF VerifiedPlugins
  <2>3. id \in Ids /\ id \in DOMAIN new.basis.plugins
    BY OfferedIs
  <2> HIDE DEF plugins
  <2> QED BY <1>1, <2>1, <2>2, <2>3
<1>3. /\ kept.kind \in {"external", "authored"} /\ kept.kind = head.kind
      /\ kept.kind = "authored" => kept = head
      /\ kept.kind = "external" =>
           /\ head \in Pinned /\ kept \in Pinned
           /\ kept.url = head.url /\ kept.targets = head.targets
           /\ kept.sha = Kept(h, id, head, previous)
           /\ PluginVerifies(h, id, head, previous)
           /\ \A t \in Selected(kept, h.targets) : Sound(id, kept, t)
  <2> HIDE DEF plugins
  <2> QED BY <1>1, <1>2, VerifiedIs DEF plugins
<1>4. /\ "claude" \in h.targets /\ "claude" \in previous.basis.targets
      /\ kept.kind = "authored" =>
           Offered(new, id).key = new.version /\ Offered(new, id).content = kept
      /\ kept.kind = "external" =>
           /\ "claude" \in Selected(kept, h.targets) /\ "claude" \in DOMAIN kept.targets
           /\ is # None => Offered(new, id).key = is
           /\ is = None => Offered(new, id).key =
                [url |-> kept.url, sha |-> kept.sha, path |-> kept.targets["claude"]]
           /\ Offered(new, id).content = Folder(kept.url, kept.sha, kept.targets["claude"])
  BY <1>1, OfferedIs
<1>5. /\ old.kind \in {"external", "authored"}
      /\ old.kind = "authored" =>
           /\ id \in Authored(previous.basis.plugins)
           /\ Offered(previous, id).key = previous.version
           /\ Offered(previous, id).content = old
      /\ old.kind = "external" =>
           /\ id \in External(previous.basis.plugins) /\ old \in Pinned
           /\ "claude" \in Selected(old, previous.basis.targets)
           /\ was # None => Offered(previous, id).key = was
           /\ was = None => Offered(previous, id).key =
                [url |-> old.url, sha |-> old.sha, path |-> old.targets["claude"]]
           /\ Offered(previous, id).content = Folder(old.url, old.sha, old.targets["claude"])
  BY OfferedIs
<1>6. kept.kind = "external" => is \in Version \cup {None}
  <2> SUFFICES ASSUME kept.kind = "external" PROVE is \in Version \cup {None}
    OBVIOUS
  <2>1. Sound(id, kept, "claude")
    BY <1>3, <1>4
  <2>2. <<id, "claude", upstream[kept.url][kept.sha], kept.targets["claude"]>> \in Loads
    BY <2>1 DEF Sound
  <2> DEFINE tree == upstream[kept.url][kept.sha]
             path == kept.targets["claude"]
  <2>3. is = Below[tree][path][ManifestPath["claude"]].contents.version
    BY Zenon DEF Manifest, Folder
  <2> HIDE DEF kept, tree, path, is
  <2>4. <<id, "claude", tree, path>> \in Loads
    BY <2>2 DEF tree, path
  <2> QED BY <2>3, <2>4, LoadedVersion
<1>7. old.kind = "external" =>
        /\ was \in Version \cup {None} /\ ClaudeHad(id, previous)
        /\ PreviousClaudeVersion(id, previous) = was
  <2> SUFFICES ASSUME old.kind = "external"
               PROVE  /\ was \in Version \cup {None} /\ ClaudeHad(id, previous)
                      /\ PreviousClaudeVersion(id, previous) = was
    OBVIOUS
  <2>1. was \in Version \cup {None}
    BY LoadedManifest
  <2>2. ClaudeHad(id, previous)
    BY <1>1, <1>5 DEF ClaudeHad
  <2> QED BY <1>2, <2>1, <2>2 DEF Recorded
<1> HIDE DEF plugins, head, kept, old, is, was
<1>8. CASE kept.kind = "authored" /\ old.kind = "authored"
  <2>1. kept # old => new.basis # previous.basis
    BY DEF kept, old
  <2>2. new.version = previous.version
    BY <1>4, <1>5, <1>8
  <2>3. new.basis # previous.basis => Compare(previous.version, new.version) = -1
    BY <1>1, HubIs, ResolvedVersionIs
  <2>4. Compare(previous.version, previous.version) = 0
    BY <1>1, CompareIs DEF SameCore
  <2> QED BY <1>4, <1>5, <1>8, <2>1, <2>2, <2>3, <2>4
<1>9. CASE kept.kind = "authored" /\ old.kind = "external"
  <2>1. id \in Replacements(h, plugins, previous)
    <3>1. id \in Authored(plugins)
      BY <1>2, <1>3, <1>9 DEF Authored, External, head
    <3> QED BY <1>4, <1>7, <1>9, <3>1 DEF Replacements
  <2>2. ResolveVersion(h, BasisOf(h, plugins), previous) # was
    <3>1. ReplacementVerifies(h, id, plugins, previous)
      BY <2>1 DEF Verifies, plugins
    <3> QED BY <1>7, <1>9, <3>1 DEF ReplacementVerifies
  <2>3. previous.basis # new.basis /\ previous.basis # BasisOf(h, plugins)
    <3>1. kept # old /\ head # old
      BY <1>3, <1>9
    <3> QED BY <3>1 DEF kept, head, old, BasisOf
  <2>4. ResolveVersion(h, BasisOf(h, plugins), previous) = new.version
    BY <1>1, <2>3 DEF ResolveVersion
  <2>5. new.version # [url |-> old.url, sha |-> old.sha, path |-> old.targets["claude"]]
    BY <1>1, KeysApart
  <2> QED BY <1>4, <1>5, <1>9, <2>2, <2>4, <2>5
<1>10. CASE kept.kind = "external" /\ old.kind = "authored"
  <2>1. ~ClaudeHad(id, previous)
    BY <1>5, <1>10 DEF ClaudeHad, Authored, External, old
  <2>2. WasAuthored(id, previous)
    BY <1>1, <1>4, <1>5, <1>10 DEF WasAuthored
  <2>3. ~Collides(h, id, head, previous)
    <3>1. Collides(h, id, head, previous) => CanRetain(h, id, head, previous)
      BY <1>3, <1>10, <2>1 DEF PluginVerifies, Unchanged, SamePlace
    <3> QED BY <2>1, <3>1 DEF CanRetain
  <2>4. kept = head
    BY <1>3, <1>10, <2>3 DEF Kept, Retains, Pinned
  <2>5. is = None \/ is # previous.version
    BY <1>4, <1>10, <2>1, <2>2, <2>3, <2>4 DEF Collides, SourceChanged, is
  <2>6. previous.version # [url |-> kept.url, sha |-> kept.sha, path |-> kept.targets["claude"]]
    BY <1>1, KeysApart
  <2> QED BY <1>4, <1>5, <1>10, <2>5, <2>6
<1>11. CASE kept.kind = "external" /\ old.kind = "external"
  <2>1. kept.url = old.url /\ kept.sha = old.sha /\ kept.targets["claude"] = old.targets["claude"]
          => Offered(new, id).content = Offered(previous, id).content
    BY <1>4, <1>5, <1>11
  <2>2. CASE Retains(h, id, head, previous)
    <3>1. CanRetain(h, id, head, previous)
      BY <1>3, <1>11, <2>2 DEF PluginVerifies, Retains
    <3>2. old.url = kept.url /\ old.targets = kept.targets
      BY <1>3, <1>11, <3>1 DEF CanRetain, old
    <3>3. kept.sha = old.sha
      BY <1>3, <1>11, <2>2 DEF Kept, old
    <3> QED BY <2>1, <3>2, <3>3
  <2>3. CASE ~Retains(h, id, head, previous)
    <3>1. kept = head
      BY <1>3, <1>11, <2>3 DEF Kept, Pinned
    <3>2. CASE Unchanged(id, head, previous)
      BY <1>4, <1>5, <1>11, <3>1, <3>2 DEF Unchanged, old
    <3>3. CASE ~Collides(h, id, head, previous) /\ is # None
      <4>1. CASE SourceChanged(id, head, previous)
        <5>1. is # was
          BY <1>4, <1>7, <1>11, <3>1, <3>3, <4>1 DEF Collides, is
        <5>2. is # [url |-> old.url, sha |-> old.sha, path |-> old.targets["claude"]]
          BY <1>6, <1>11, <3>3, KeysApart
        <5> QED BY <1>4, <1>5, <1>11, <3>3, <5>1, <5>2
      <4>2. CASE ~SourceChanged(id, head, previous)
        BY <1>7, <1>11, <2>1, <3>1, <4>2 DEF SourceChanged, old
      <4> QED BY <4>1, <4>2
    <3>4. CASE is = None
      <4>1. CASE was = None
        <5>1. [url |-> kept.url, sha |-> kept.sha, path |-> kept.targets["claude"]]
                = [url |-> old.url, sha |-> old.sha, path |-> old.targets["claude"]]
          BY <1>4, <1>5, <1>11, <3>4, <4>1
        <5>2. /\ kept.url = old.url /\ kept.sha = old.sha
              /\ kept.targets["claude"] = old.targets["claude"]
          BY <5>1
        <5> QED BY <2>1, <5>2
      <4>2. CASE was # None
        <5>1. was # [url |-> kept.url, sha |-> kept.sha, path |-> kept.targets["claude"]]
          BY <1>7, <1>11, <4>2, KeysApart
        <5> QED BY <1>4, <1>5, <1>11, <3>4, <4>2, <5>1
      <4> QED BY <4>1, <4>2
    <3> QED BY <2>3, <3>2, <3>3, <3>4 DEF Retains
  <2> QED BY <2>2, <2>3
<1> QED BY <1>3, <1>5, <1>8, <1>9, <1>10, <1>11

(* What is built from a verification is loaded, and its records are what    *)
(* the manifests say.                                                       *)
LEMMA VerifiedLoads ==
  ASSUME TypeInv, NEW h \in Hubs, NEW previous, previous # None => previous \in Release,
         Verifies(h, previous), NEW new \in Release,
         new.basis = BasisOf(h, VerifiedPlugins(h, previous))
  PROVE  /\ Loaded(new)
         /\ new.records = RecordsOf(h, VerifiedPlugins(h, previous)) => Recorded(new)
<1> DEFINE plugins == VerifiedPlugins(h, previous)
           record(id, t) == [id |-> id, target |-> t, url |-> plugins[id].url,
                             sha |-> plugins[id].sha, path |-> plugins[id].targets[t],
                             version |-> Manifest(plugins[id], t).version]
<1>1. new.basis.plugins = plugins /\ new.basis.targets = h.targets
  BY DEF BasisOf
<1>2. ASSUME NEW id \in External(plugins), NEW t \in Selected(plugins[id], h.targets)
      PROVE  Sound(id, plugins[id], t)
  <2>1. plugins[id].kind = "external" /\ id \in DOMAIN plugins
    BY <1>2 DEF External
  <2>2. id \in DOMAIN h.plugins
    <3>1. DOMAIN plugins = DOMAIN Resolved(h, HeadLock(h))
      BY Zenon DEF VerifiedPlugins
    <3> QED BY <2>1, <3>1 DEF Resolved
  <2> QED BY <2>1, <2>2, VerifiedIs
<1>3. RecordsOf(h, plugins)
        = UNION {{record(id, t) : t \in Selected(plugins[id], h.targets)} : id \in External(plugins)}
  BY DEF RecordsOf
<1> HIDE DEF plugins
<1>4. Loaded(new)
  BY <1>1, <1>2 DEF Loaded, Sound, Fetchable
<1>5. ASSUME new.records = RecordsOf(h, plugins), new.records # None,
             NEW id \in External(plugins), "claude" \in Selected(plugins[id], h.targets)
      PROVE  PreviousClaudeVersion(id, new) = Manifest(plugins[id], "claude").version
  <2> DEFINE R == new.records
             chosen == CHOOSE r \in R : r.id = id /\ r.target = "claude"
  <2>1. record(id, "claude") \in R
    BY <1>3, <1>5
  <2>2. record(id, "claude").id = id /\ record(id, "claude").target = "claude"
    OBVIOUS
  <2>3. chosen \in R /\ chosen.id = id /\ chosen.target = "claude"
    BY <2>1, <2>2
  <2> HIDE DEF chosen
  <2>4. PICK j \in External(plugins) :
          \E t \in Selected(plugins[j], h.targets) : chosen = record(j, t)
    BY <1>3, <1>5, <2>3
  <2>5. PICK t \in Selected(plugins[j], h.targets) : chosen = record(j, t)
    BY <2>4, Zenon
  <2>6. j = id /\ t = "claude"
    BY <2>3, <2>5
  <2>7. chosen.version = Manifest(plugins[id], "claude").version
    BY <2>5, <2>6
  <2> QED BY <1>5, <2>7 DEF PreviousClaudeVersion, chosen
<1>6. ASSUME new.records = RecordsOf(h, plugins), NEW id \in Ids, ClaudeHad(id, new)
      PROVE  PreviousClaudeVersion(id, new) = Manifest(new.basis.plugins[id], "claude").version
  <2>1. id \in External(plugins) /\ "claude" \in Selected(plugins[id], h.targets)
    BY <1>1, <1>6 DEF ClaudeHad
  <2>2. CASE new.records # None
    BY <1>1, <1>5, <1>6, <2>1, <2>2
  <2>3. CASE new.records = None
    BY <2>3 DEF PreviousClaudeVersion
  <2> QED BY <2>2, <2>3
<1>7. new.records = RecordsOf(h, plugins) => Recorded(new)
  BY <1>6 DEF Recorded
<1> QED BY <1>4, <1>7 DEF plugins

(* What was published before there were records: nothing waits then.        *)
LEMMA FirstIsHead ==
  ASSUME TypeInv, NEW h \in Hubs, Verifies(h, None)
  PROVE  VerifiedPlugins(h, None) = Resolved(h, HeadLock(h))
<1> DEFINE plugins == Resolved(h, HeadLock(h))
<1>1. ASSUME NEW id \in Floating(h) PROVE SavedLock(h, None)[id] = HeadLock(h)[id]
  <2>1. ~Retains(h, id, plugins[id], None)
    BY DEF Retains, Collides, SourceChanged, WasAuthored, ClaudeHad
  <2>2. SavedLock(h, None)[id] = plugins[id].sha
    BY <2>1 DEF SavedLock, Kept
  <2>3. id \in DOMAIN h.plugins /\ h.plugins[id].kind = "external" /\ h.plugins[id].ref = Latest
    BY DEF Floating, External
  <2>4. plugins[id].sha = HeadLock(h)[id]
    BY <2>3, ResolvedPlugin
  <2> QED BY <2>2, <2>4
<1>2. SavedLock(h, None) = HeadLock(h)
  BY <1>1 DEF SavedLock, HeadLock
<1> QED BY <1>2, SavedLockIs

(* What Claude tells apart it goes on telling apart.                        *)
LEMMA SucceedsStays ==
  ASSUME Grows, NEW new \in Release, NEW old \in Release, Loaded(new), Loaded(old),
         Succeeds(new, old)
  PROVE  Succeeds(new, old)'
<1>1. \A id \in OnClaude(new) : Offered(new, id)' = Offered(new, id)
  BY LoadedStays
<1>2. \A id \in OnClaude(old) : Offered(old, id)' = Offered(old, id)
  BY LoadedStays
<1>3. OnClaude(new)' = OnClaude(new) /\ OnClaude(old)' = OnClaude(old)
  BY DEF OnClaude, Authored, External
<1> SUFFICES ASSUME NEW id \in OnClaude(new) \cap OnClaude(old),
                    Offered(new, id).key' = Offered(old, id).key'
             PROVE  Offered(new, id).content' = Offered(old, id).content'
  BY <1>3 DEF Succeeds
<1> QED BY <1>1, <1>2 DEF Succeeds

(* Releases that were published, and the one that a run will publish.       *)
ReleasesInv ==
  /\ \A release \in Release :
       (\E i \in 1 .. Len(releases) : release = releases[i]) =>
         Loaded(release) /\ Recorded(release)
  /\ \A new, old \in Release :
       (\E i \in 1 .. Len(releases) - 1 : old = releases[i] /\ new = releases[i + 1]) =>
         Succeeds(new, old)

RunInv ==
  run # None =>
    \A built \in Release : built = Built =>
      /\ Loaded(built) /\ Recorded(built)
      /\ \A last \in Release : Published # None /\ last = Published => Succeeds(built, last)

HostsInv == ReleasesInv /\ RunInv

(* While no release is published they stay as they are.                     *)
LEMMA ReleasesStay ==
  ASSUME Grows, ReleasesInv, releases' = releases, releases \in Seq(Release)
  PROVE  ReleasesInv'
<1>1. ASSUME NEW release \in Release, NEW i \in 1 .. Len(releases), release = releases[i]
      PROVE  Loaded(release)' /\ Recorded(release)'
  <2>1. Loaded(release) /\ Recorded(release)
    BY <1>1 DEF ReleasesInv
  <2> QED BY <2>1, LoadedStays
<1>2. ASSUME NEW new \in Release, NEW old \in Release, NEW i \in 1 .. Len(releases) - 1,
             old = releases[i], new = releases[i + 1]
      PROVE  Succeeds(new, old)'
  <2>1. i \in 1 .. Len(releases) /\ i + 1 \in 1 .. Len(releases)
    OBVIOUS
  <2>2. Loaded(new) /\ Loaded(old) /\ Succeeds(new, old)
    BY <1>2, <2>1 DEF ReleasesInv
  <2> QED BY <2>2, SucceedsStays
<1> QED BY <1>1, <1>2 DEF ReleasesInv

LEMMA RunStays ==
  ASSUME Grows, Inv, ReleasesInv, RunInv, releases' = releases, run' = run \/ run' = None
  PROVE  RunInv'
<1> SUFFICES ASSUME run' # None, run' = run, NEW built \in Release, built = Built'
             PROVE  /\ Loaded(built)' /\ Recorded(built)'
                    /\ \A last \in Release : Published' # None /\ last = Published' =>
                         Succeeds(built, last)'
  BY DEF RunInv
<1>1. Published' = Published
  BY DEF Published
<1>2. built = Built
  BY <1>1 DEF Built, BasisOf, Resolved, ResolveVersion
<1>3. Loaded(built) /\ Recorded(built)
  BY <1>2 DEF RunInv
<1>4. ASSUME NEW last \in Release, Published # None, last = Published
      PROVE  Succeeds(built, last)'
  <2>1. Succeeds(built, last)
    BY <1>2, <1>4 DEF RunInv
  <2>2. Len(releases) \in 1 .. Len(releases) /\ last = releases[Len(releases)]
    BY <1>4, PublishedIs DEF Inv
  <2>3. Loaded(last)
    BY <2>2 DEF ReleasesInv
  <2> QED BY <1>3, <2>1, <2>3, SucceedsStays
<1> QED BY <1>1, <1>3, <1>4, LoadedStays

LEMMA HostsInit == Init => HostsInv
<1> SUFFICES ASSUME Init PROVE HostsInv
  OBVIOUS
<1>1. Inv /\ TypeInv
  BY InitInv DEF Inv
<1>2. RunInv
  BY DEF Init, RunInv
<1>3. Len(releases) \in {0, 1} /\ hub \in Hubs
  BY DEF Init
<1>4. ASSUME NEW release \in Release, NEW i \in 1 .. Len(releases), release = releases[i]
      PROVE  Loaded(release) /\ Recorded(release)
  <2> DEFINE basis == BasisOf(hub, Resolved(hub, HeadLock(hub)))
  <2>1. Len(releases) # 0
    OBVIOUS
  <2>2. /\ Verifies(hub, None)
        /\ releases = <<[version |-> hub.version, records |-> None, basis |-> basis]>>
    BY <2>1 DEF Init
  <2> HIDE DEF basis
  <2>3. release.basis = basis /\ release.records = None
    BY <1>4, <2>2
  <2>4. basis = BasisOf(hub, VerifiedPlugins(hub, None))
    BY <1>1, <1>3, <2>2, FirstIsHead DEF basis
  <2>5. Loaded(release)
    BY <1>1, <1>3, <2>2, <2>3, <2>4, VerifiedLoads
  <2>6. Recorded(release)
    BY <2>3 DEF Recorded, PreviousClaudeVersion
  <2> QED BY <2>5, <2>6
<1>5. 1 .. Len(releases) - 1 = {}
  <2>1. CASE Len(releases) = 0
    BY <2>1
  <2>2. CASE Len(releases) = 1
    BY <2>2
  <2> QED BY <1>3, <2>1, <2>2
<1>6. ReleasesInv
  BY <1>4, <1>5 DEF ReleasesInv
<1> QED BY <1>2, <1>6 DEF HostsInv

LEMMA ResolveHosts ==
  ASSUME Inv, HostsInv, Resolve
  PROVE  HostsInv'
<1> DEFINE plugins == VerifiedPlugins(hub, Published)
           lock == SavedLock(hub, Published)
           basis == BasisOf(hub, plugins)
<1>1. /\ hub \in Hubs /\ Verifies(hub, Published) /\ UNCHANGED <<upstream, closed, hub, edits, releases>>
      /\ run' = [hub |-> hub, base |-> Len(releases), lock |-> lock,
                 records |-> RecordsOf(hub, plugins)]
  BY DEF Resolve, Inv, TypeInv
<1>2. TypeInv /\ (Published # None => Published \in Release) /\ Published' = Published
  BY <1>1, PublishedIs DEF Inv, Published
<1>3. plugins = Resolved(hub, lock)
  BY <1>1, <1>2, SavedLockIs
<1>4. Grows
  BY <1>1 DEF Grows
<1>5. ReleasesInv'
  BY <1>1, <1>4, ReleasesStay DEF HostsInv, Inv, TypeInv
<1> HIDE DEF plugins, lock
<1>6. run'.hub = hub /\ run'.lock = lock /\ run'.records = RecordsOf(hub, plugins)
  BY <1>1
<1>7. Built' = [version |-> ResolveVersion(hub, basis, Published),
                basis |-> basis, records |-> RecordsOf(hub, plugins)]
  <2>1. Built' = [version |-> ResolveVersion(run'.hub, BasisOf(run'.hub, Resolved(run'.hub, run'.lock)),
                                             Published'),
                  basis |-> BasisOf(run'.hub, Resolved(run'.hub, run'.lock)),
                  records |-> run'.records]
    BY DEF Built, BasisOf, Resolved, ResolveVersion
  <2> QED BY <1>2, <1>3, <1>6, <2>1
<1>8. ASSUME NEW built \in Release, built = Built'
      PROVE  /\ Loaded(built) /\ Recorded(built)
             /\ \A last \in Release : Published # None /\ last = Published => Succeeds(built, last)
  <2>1. built.basis = basis /\ built.records = RecordsOf(hub, plugins)
        /\ built.version = ResolveVersion(hub, basis, Published)
    BY <1>7, <1>8
  <2>2. Loaded(built) /\ Recorded(built)
    BY <1>1, <1>2, <2>1, VerifiedLoads DEF plugins
  <2>3. ASSUME NEW last \in Release, Published # None, last = Published
        PROVE  Succeeds(built, last)
    <3>1. Loaded(last) /\ Recorded(last)
      BY <1>2, <2>3, PublishedIs DEF HostsInv, ReleasesInv
    <3> QED BY <1>1, <1>2, <2>1, <2>3, <3>1, VerifiedSucceeds DEF plugins
  <2> QED BY <2>2, <2>3
<1>9. ASSUME NEW built \in Release, built = Built'
      PROVE  /\ Loaded(built)' /\ Recorded(built)'
             /\ \A last \in Release : Published' # None /\ last = Published' =>
                  Succeeds(built, last)'
  <2>1. Loaded(built)' /\ Recorded(built)'
    BY <1>4, <1>8, <1>9, LoadedStays
  <2>2. ASSUME NEW last \in Release, Published # None, last = Published
        PROVE  Succeeds(built, last)'
    <3>1. Loaded(last)
      BY <1>2, <2>2, PublishedIs DEF HostsInv, ReleasesInv
    <3> QED BY <1>4, <1>8, <1>9, <2>2, <3>1, SucceedsStays
  <2> QED BY <1>2, <2>1, <2>2
<1> HIDE DEF basis
<1>10. RunInv'
  BY <1>9 DEF RunInv
<1> QED BY <1>5, <1>10 DEF HostsInv

LEMMA PublishHosts ==
  ASSUME Inv, HostsInv, Publish
  PROVE  HostsInv'
<1> DEFINE n == Len(releases)
<1>1. /\ run # None /\ run' = None /\ upstream' = upstream
      /\ releases' = releases \/ releases' = Append(releases, Built)
  BY DEF Publish
<1>2. Built \in Release /\ releases \in Seq(Release) /\ n \in Nat
  BY <1>1, BuiltIs DEF Inv, TypeInv
<1>3. Grows
  BY <1>1 DEF Grows
<1>4. RunInv'
  BY <1>1 DEF RunInv
<1>5. CASE releases' = releases
  BY <1>2, <1>3, <1>4, <1>5, ReleasesStay DEF HostsInv
<1>6. CASE releases' = Append(releases, Built)
  <2>1. /\ Len(releases') = n + 1 /\ releases'[n + 1] = Built
        /\ \A k \in 1 .. n : releases'[k] = releases[k]
    BY <1>2, <1>6, AppendProperties
  <2>2. ASSUME NEW release \in Release, NEW i \in 1 .. n + 1, release = releases'[i]
        PROVE  Loaded(release) /\ Recorded(release)
    <3>1. CASE i = n + 1
      <4>1. release = Built
        BY <2>1, <2>2, <3>1
      <4> HIDE DEF Built
      <4> QED BY <1>1, <4>1 DEF HostsInv, RunInv
    <3>2. CASE i \in 1 .. n
      BY <2>1, <2>2, <3>2 DEF HostsInv, ReleasesInv
    <3> QED BY <1>2, <3>1, <3>2
  <2>3. ASSUME NEW new \in Release, NEW old \in Release, NEW i \in 1 .. n,
               old = releases'[i], new = releases'[i + 1]
        PROVE  Succeeds(new, old)
    <3>1. old = releases[i]
      BY <2>1, <2>3
    <3>2. CASE i = n
      <4>1. new = Built
        BY <2>1, <2>3, <3>2
      <4>2. Published # None /\ old = Published
        BY <1>2, <3>1, <3>2, ExternalConstants DEF Published
      <4> QED BY <1>1, <4>1, <4>2 DEF HostsInv, RunInv
    <3>3. CASE i \in 1 .. n - 1
      <4>1. i + 1 \in 1 .. n /\ new = releases[i + 1]
        BY <1>2, <2>1, <2>3, <3>3
      <4> QED BY <3>1, <3>3, <4>1 DEF HostsInv, ReleasesInv
    <3> QED BY <1>2, <3>2, <3>3
  <2>4. ASSUME NEW release \in Release, NEW i \in 1 .. n + 1, release = releases'[i]
        PROVE  Loaded(release)' /\ Recorded(release)'
    BY <1>3, <2>2, <2>4, LoadedStays
  <2>5. ASSUME NEW new \in Release, NEW old \in Release, NEW i \in 1 .. n,
               old = releases'[i], new = releases'[i + 1]
        PROVE  Succeeds(new, old)'
    <3>1. i \in 1 .. n + 1 /\ i + 1 \in 1 .. n + 1
      BY <1>2
    <3>2. Loaded(new) /\ Loaded(old) /\ Succeeds(new, old)
      BY <2>2, <2>3, <2>5, <3>1
    <3> QED BY <1>3, <3>2, SucceedsStays
  <2>6. 1 .. Len(releases') - 1 = 1 .. n /\ 1 .. Len(releases') = 1 .. n + 1
    BY <1>2, <2>1
  <2>7. ReleasesInv'
    BY <2>4, <2>5, <2>6 DEF ReleasesInv
  <2> QED BY <1>4, <2>7 DEF HostsInv
<1> QED BY <1>1, <1>5, <1>6

LEMMA UpstreamGrows ==
  ASSUME TypeInv, NEW url \in Urls, UpstreamCommit(url)
  PROVE  Grows
<1>1. PICK c \in Commits[url] : upstream' = [upstream EXCEPT ![url] = Append(upstream[url], c)]
  BY DEF UpstreamCommit
<1> DEFINE s == upstream[url]
<1>2. s \in Seq(DOMAIN Files) /\ c \in DOMAIN Files /\ upstream \in [Urls -> Seq(DOMAIN Files)]
  BY ExternalConstants DEF TypeInv
<1>3. /\ upstream'[url] = Append(s, c)
      /\ \A u \in Urls : u # url => upstream'[u] = upstream[u]
  BY <1>1, <1>2
<1> HIDE DEF s
<1>4. \A k \in DOMAIN s : k \in DOMAIN Append(s, c) /\ Append(s, c)[k] = s[k]
  BY <1>2
<1> QED BY <1>3, <1>4 DEF Grows, s

LEMMA NextHosts ==
  ASSUME Inv, HostsInv, [Next]_vars
  PROVE  HostsInv'
<1>1. CASE Resolve
  BY <1>1, ResolveHosts
<1>2. CASE Publish
  BY <1>2, PublishHosts
<1>3. ASSUME Grows, releases' = releases, run' = run \/ run' = None
      PROVE  HostsInv'
  BY <1>3, ReleasesStay, RunStays DEF HostsInv, Inv, TypeInv
<1>4. ASSUME NEW url \in Urls, UpstreamCommit(url) PROVE HostsInv'
  <2>1. Grows
    BY <1>4, UpstreamGrows DEF Inv
  <2>2. releases' = releases /\ run' = run
    BY <1>4 DEF UpstreamCommit
  <2> QED BY <1>3, <2>1, <2>2
<1>5. CASE Abort \/ EditHub \/ (\E url \in Urls : ChangeAccess(url)) \/ UNCHANGED vars
  <2>1. upstream' = upstream /\ releases' = releases /\ (run' = run \/ run' = None)
    BY <1>5 DEF Abort, EditHub, ChangeAccess, vars
  <2>2. Grows
    BY <2>1 DEF Grows
  <2> QED BY <1>3, <2>1, <2>2
<1> QED BY <1>1, <1>2, <1>4, <1>5 DEF Next

LEMMA HostsInvariance == Spec => [](Inv /\ HostsInv)
<1>1. Init => Inv /\ HostsInv
  BY InitInv, HostsInit
<1>2. Inv /\ HostsInv /\ [Next]_vars => Inv' /\ HostsInv'
  BY NextInv, NextHosts
<1> QED BY <1>1, <1>2, PTL DEF Spec

-----------------------------------------------------------------------------
(* What a host has that took every release is what each offers.             *)
Followed ==
  [n \in 0 .. Len(releases) |->
     IF n = 0 THEN <<>>
     ELSE [id \in OnClaude(releases[n]) |-> Offered(releases[n], id)]]

(* One step of Installed.                                                   *)
Updated(before, release) ==
  [id \in OnClaude(release) |->
     LET offer == Offered(release, id)
     IN IF id \in DOMAIN before /\ before[id].key = offer.key THEN before[id] ELSE offer]

Steps(f) ==
  f = [n \in 0 .. Len(releases) |->
         IF n = 0 THEN <<>> ELSE Updated(f[n - 1], releases[n])]

(* An offer is its key and its contents.                                    *)
LEMMA OfferIs ==
  ASSUME NEW release, NEW id
  PROVE  Offered(release, id) = [key |-> Offered(release, id).key,
                                 content |-> Offered(release, id).content]
<1>1. CASE release.basis.plugins[id].kind = "authored"
  BY <1>1 DEF Offered
<1>2. CASE release.basis.plugins[id].kind # "authored"
  BY <1>2 DEF Offered
<1> QED BY <1>1, <1>2

LEMMA FollowedSteps ==
  ASSUME HostsInv, releases \in Seq(Release)
  PROVE  Steps(Followed)
<1>1. ASSUME NEW n \in 1 .. Len(releases)
      PROVE  Updated(Followed[n - 1], releases[n])
               = [id \in OnClaude(releases[n]) |-> Offered(releases[n], id)]
  <2> DEFINE before == Followed[n - 1]
             new == releases[n]
             old == releases[n - 1]
  <2>1. ASSUME NEW id \in OnClaude(new), id \in DOMAIN before,
               before[id].key = Offered(new, id).key
        PROVE  before[id] = Offered(new, id)
    <3>1. n - 1 \in 0 .. Len(releases)
      OBVIOUS
    <3>2. n # 1
      <4>1. n = 1 => before = <<>>
        BY <3>1 DEF Followed
      <4> QED BY <2>1, <4>1
    <3>3. before = [i \in OnClaude(old) |-> Offered(old, i)]
      BY <3>1, <3>2 DEF Followed
    <3> HIDE DEF before
    <3>4. id \in OnClaude(old) /\ before[id] = Offered(old, id)
      BY <2>1, <3>3
    <3>5. n - 1 \in 1 .. Len(releases) - 1 /\ n = (n - 1) + 1 /\ new \in Release /\ old \in Release
      BY <3>2
    <3>6. Succeeds(new, old)
      BY <3>5 DEF HostsInv, ReleasesInv
    <3> HIDE DEF new, old
    <3>7. Offered(new, id).content = Offered(old, id).content
      BY <2>1, <3>4, <3>6 DEF Succeeds
    <3> QED BY <2>1, <3>4, <3>7, OfferIs
  <2> HIDE DEF before, new
  <2>2. Updated(before, new) = [id \in OnClaude(new) |-> Offered(new, id)]
    BY <2>1 DEF Updated
  <2> QED BY <2>2 DEF before, new
<1>2. ASSUME NEW n \in 0 .. Len(releases)
      PROVE  Followed[n] = IF n = 0 THEN <<>> ELSE Updated(Followed[n - 1], releases[n])
  <2>1. CASE n = 0
    BY <2>1 DEF Followed
  <2>2. CASE n # 0
    <3>1. n \in 1 .. Len(releases)
      BY <2>2
    <3> QED BY <1>1, <2>2, <3>1 DEF Followed
  <2> QED BY <2>1, <2>2
<1>3. DOMAIN Followed = 0 .. Len(releases)
  BY DEF Followed
<1>4. Followed = [n \in 0 .. Len(releases) |-> Followed[n]]
  BY Zenon, <1>3 DEF Followed
<1> QED BY <1>2, <1>4, Zenon DEF Steps

(* There is only one such function.                                         *)
LEMMA StepsDecide ==
  ASSUME NEW f, NEW g, Steps(f), Steps(g), releases \in Seq(Release)
  PROVE  \A n \in 0 .. Len(releases) : f[n] = g[n]
<1> DEFINE N == Len(releases)
           D == {n \in 0 .. N : f[n] # g[n]}
           m == First(D)
<1> SUFFICES ASSUME D # {} PROVE FALSE
  OBVIOUS
<1>1. \A n \in 0 .. N :
        /\ f[n] = IF n = 0 THEN <<>> ELSE Updated(f[n - 1], releases[n])
        /\ g[n] = IF n = 0 THEN <<>> ELSE Updated(g[n - 1], releases[n])
  <2>1. \A n \in 0 .. N : f[n] = IF n = 0 THEN <<>> ELSE Updated(f[n - 1], releases[n])
    BY Zenon DEF Steps
  <2>2. \A n \in 0 .. N : g[n] = IF n = 0 THEN <<>> ELSE Updated(g[n - 1], releases[n])
    BY Zenon DEF Steps
  <2> QED BY <2>1, <2>2
<1>2. N \in Nat /\ D \in SUBSET Nat
  OBVIOUS
<1>3. m \in D /\ \A j \in D : m <= j
  BY <1>2, FirstIs
<1> HIDE DEF m
<1>4. m \in 0 .. N /\ f[m] # g[m]
  BY <1>3
<1>5. m # 0
  BY <1>1, <1>4
<1>6. m - 1 \in 0 .. N /\ ~(m <= m - 1)
  BY <1>2, <1>4, <1>5
<1>7. f[m - 1] = g[m - 1]
  BY <1>3, <1>6
<1>8. f[m] = Updated(f[m - 1], releases[m]) /\ g[m] = Updated(g[m - 1], releases[m])
  BY <1>1, <1>4, <1>5
<1> QED BY <1>4, <1>7, <1>8

LEMMA InstalledIs ==
  ASSUME HostsInv, releases \in Seq(Release)
  PROVE  \A n \in 0 .. Len(releases) : Installed[n] = Followed[n]
<1>1. Installed = CHOOSE f : Steps(f)
  BY Zenon DEF Installed, Steps, Updated
<1>2. Steps(Installed)
  BY <1>1, FollowedSteps, Zenon
<1> QED BY <1>2, FollowedSteps, StepsDecide

(* A Claude host that takes every release runs the contents of the last one *)
(* for each plugin it offers, whatever upstream and the hub changed in      *)
(* between and whatever was kept back: verification refuses or defers what  *)
(* the host would take for the version it has (_verify_external_plugins).   *)
THEOREM HostsStayCurrent == Spec => []HostsCurrent
<1>1. ASSUME Inv, HostsInv PROVE HostsCurrent
  <2> DEFINE n == Len(releases)
  <2>1. releases \in Seq(Release) /\ n \in 0 .. Len(releases)
    BY <1>1 DEF Inv, TypeInv
  <2>2. Installed[n] = Followed[n]
    BY <1>1, <2>1, InstalledIs
  <2>3. CASE n = 0
    <3>1. Installed[n] = <<>>
      BY <2>1, <2>2, <2>3 DEF Followed
    <3> QED BY <3>1 DEF HostsCurrent
  <2>4. CASE n # 0
    <3>1. Published = releases[n]
      BY <2>4 DEF Published
    <3>2. Installed[n] = [id \in OnClaude(releases[n]) |-> Offered(releases[n], id)]
      BY <2>1, <2>2, <2>4 DEF Followed
    <3> QED BY <3>1, <3>2 DEF HostsCurrent
  <2> QED BY <2>3, <2>4
<1>2. Inv /\ HostsInv => HostsCurrent
  BY <1>1
<1> QED BY <1>2, HostsInvariance, PTL
=============================================================================
