------------------------------ MODULE Releases ------------------------------
(***************************************************************************)
(* The history of an Instruction Hub's two branches: what a commit of each *)
(* holds, which version the next release gets, and what publication        *)
(* promises: it happens in one step, from the source at that moment.       *)
(*                                                                         *)
(* A branch is the sequence of its commits, so two revisions are equal     *)
(* when their whole histories are; a commit names its committer because no *)
(* two of them ever make the same commit.  The generated output depends on *)
(* the authored content and the version, marketplace pointers on the       *)
(* content.  Versions are ordered as SemVer orders them, and + 1 advances  *)
(* the patch.                                                              *)
(***************************************************************************)
EXTENDS Integers, Sequences, SequencesExt

CONSTANTS
  Contents,     \* authored content of a hub, but for its version
  Requested,    \* versions an author may write in hub.yaml
  Committers,   \* publication runs and their checkouts
  None          \* an author's commit elsewhere; no marketplace pointer yet

ASSUME ReleasesConstants ==
  /\ Requested \subseteq Nat /\ Requested # {} /\ Contents # {}
  /\ None \notin Contents /\ None \notin Committers

VARIABLES
  source,       \* the source branch
  release       \* the release branch; empty if there is none

vars == <<source, release>>

SourceCommit == [content : Contents, version : Nat,
                 pointer : Contents \cup {None}, by : Committers \cup {None}]
ReleaseCommit == [content : Contents, version : Nat]

Max2(a, b) == IF a >= b THEN a ELSE b

(* Wrong on purpose: changed output keeps the version. *)
ResolveVersionUnbumped(tip, previous) ==
  IF previous = <<>> THEN tip.version
  ELSE Max2(tip.version, Last(previous).version)

(* resolve_release_version: the configured version is a floor, and changed *)
(* output advances the version of the previous release.                    *)
ResolveVersion(tip, previous) ==
  IF previous = <<>> THEN tip.version
  ELSE IF Last(previous).content = tip.content
       THEN Max2(tip.version, Last(previous).version)
       ELSE Max2(tip.version, Last(previous).version + 1)

(* Wrong on purpose: hub.yaml keeps its version. *)
RecordedPointers(tip, version, by) ==
  [content |-> tip.content, version |-> tip.version, pointer |-> tip.content,
   by |-> by]

(* hub.yaml with the resolved version, and the pointers for this content. *)
Recorded(tip, version, by) ==
  [content |-> tip.content, version |-> version, pointer |-> tip.content,
   by |-> by]

Built(tip, version) == [content |-> tip.content, version |-> version]

(* The branches say the same: there is nothing to publish. *)
Settled ==
  /\ release # <<>>
  /\ LET tip == Last(source)
     IN /\ tip.pointer = tip.content
        /\ Last(release) = Built(tip, tip.version)

Init ==
  /\ source \in {<<[content |-> c, version |-> v, pointer |-> None, by |-> None]>> :
                   c \in Contents, v \in Requested}
  /\ release = <<>>

(* An author's commit: any content and version, or other files only. *)
Authored(history, c, v, by) ==
  Append(history, [content |-> c, version |-> v,
                   pointer |-> Last(history).pointer, by |-> by])

Edit ==
  /\ \E c \in Contents, v \in Requested \cup {Last(source).version} :
       source' = Authored(source, c, v, None)
  /\ UNCHANGED release

(* A release of the tip of head, which is the source branch or has commits  *)
(* of its own on top of it.  Both branches move, in one step.               *)
Release(head) ==
  LET tip == Last(head)
      version == ResolveVersion(tip, release)
  IN /\ source # source'
     /\ \/ source' = head /\ tip = Recorded(tip, version, tip.by)
        \/ \E by \in Committers :
             source' = Append(head, Recorded(tip, version, by))
     /\ release' = Append(release, Built(tip, version))

(* Commits that a run brings along, if any, come before the one it records. *)
Publish ==
  /\ IsPrefix(source, source') /\ source' \in Seq(SourceCommit)
  /\ \/ ~Settled /\ Release(source)
     \/ \E n \in Len(source) + 1 .. Len(source') :
          Release(SubSeq(source', 1, n))

Next == Edit \/ Publish

Spec == Init /\ [][Next]_vars

(* "Changed output advances the patch version, while unchanged output keeps *)
(* it.  Publication never lowers the version": so a version names one       *)
(* content for ever.                                                        *)
VersionNamesContent ==
  \A i, j \in 1 .. Len(release) :
    i < j =>
      /\ release[i].version <= release[j].version
      /\ release[i].version = release[j].version =>
           release[i].content = release[j].content
=============================================================================
