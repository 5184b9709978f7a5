------------------------------- MODULE SemVer -------------------------------
(***************************************************************************)
(* The order on hub versions and the two functions the publisher computes  *)
(* new versions with (release/versions.py). A version is a parsed string:  *)
(* its numbers, its prerelease identifiers (none: <<>>, the pattern admits *)
(* no empty list) and its build metadata, which the order ignores. The     *)
(* rank of a textual identifier is its place in character order.           *)
(***************************************************************************)
EXTENDS Integers, Sequences

Identifier == [numeric: BOOLEAN, rank: Nat]

Version == [major: Nat, minor: Nat, patch: Nat, pre: Seq(Identifier), build: Nat]

Sign(a, b) == IF a = b THEN 0 ELSE IF a > b THEN 1 ELSE -1

\* A numeric identifier precedes every textual one.
CompareIdentifier(a, b) ==
    IF a.numeric = b.numeric THEN Sign(a.rank, b.rank)
    ELSE IF a.numeric THEN -1 ELSE 1

\* The places where both lists have an identifier and they differ.
Differences(a, b) ==
    {i \in DOMAIN a \cap DOMAIN b : CompareIdentifier(a[i], b[i]) # 0}

First(S) == CHOOSE i \in S : \A j \in S : i <= j

\* Wrong on purpose: no prerelease is lowest.
ComparePrereleaseLowest(a, b) == Sign(Len(a), Len(b))

\* The first difference decides, then the length; no prerelease is highest.
ComparePrerelease(a, b) ==
    IF a = <<>> \/ b = <<>> THEN Sign(Len(b), Len(a))
    ELSE IF Differences(a, b) = {} THEN Sign(Len(a), Len(b))
    ELSE LET i == First(Differences(a, b)) IN CompareIdentifier(a[i], b[i])

CompareCore(a, b) ==
    IF a.major # b.major THEN Sign(a.major, b.major)
    ELSE IF a.minor # b.minor THEN Sign(a.minor, b.minor)
    ELSE Sign(a.patch, b.patch)

Compare(a, b) ==
    IF CompareCore(a, b) # 0 THEN CompareCore(a, b)
                             ELSE ComparePrerelease(a.pre, b.pre)

MaxVersion(a, b) == IF Compare(a, b) >= 0 THEN a ELSE b

BumpPatch(v) ==
    [major |-> v.major, minor |-> v.minor, patch |-> v.patch + 1, pre |-> <<>>, build |-> 0]
=============================================================================
