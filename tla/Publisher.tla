------------------------------ MODULE Publisher ------------------------------
(***************************************************************************)
(* Publication (scripts/run.sh, mode publish, and the GitLab template):    *)
(* runs that build a release from a checkout of the source branch and push *)
(* one commit to each branch, while authors and other runs push too.       *)
(***************************************************************************)
EXTENDS Releases

CONSTANTS
  Starts,        \* how runs start: "snapshot", or "template" by the GitLab job
  MaxEdits,      \* bound: commits by authors
  MaxFaults      \* bound: cancelled runs, failed connections, rejections

ASSUME PublisherConstants ==
  Starts \subseteq {"snapshot", "template"} /\ {MaxEdits, MaxFaults} \subseteq Nat

VARIABLES
  pc,
  head,          \* head[r]: HEAD of the checkout, commits of its own included
  sourceBase, releaseBase,       \* the revisions a run started from
  sourceCommit, releaseCommit,   \* the revisions it wants the branches to have
  sent,          \* refs it asks the server to move
  \* what the bounds count
  edits, faults

locals == <<sourceBase, releaseBase, sourceCommit, releaseCommit, sent>>
counts == <<edits, faults>>
pvars == <<vars, pc, head, locals, counts>>

(* Types; a run builds on a base that its checkout contains. *)
TypeOK ==
  /\ source \in Seq(SourceCommit) /\ source # <<>>
  /\ release \in Seq(ReleaseCommit)
  /\ edits \in 0 .. MaxEdits
  /\ pc \in [Committers -> {"idle", "template", "snapshot", "fetch", "build",
                       "connect", "update"}]
  /\ {head, sourceBase, sourceCommit} \subseteq [Committers -> Seq(SourceCommit)]
  /\ {releaseBase, releaseCommit} \subseteq [Committers -> Seq(ReleaseCommit)]
  /\ sent \in [Committers -> SUBSET {"source", "release"}]
  /\ faults \in 0 .. MaxFaults
  /\ \A r \in Committers : head[r] # <<>> /\ IsPrefix(sourceBase[r], head[r])

PInit ==
  /\ Init
  /\ pc = [r \in Committers |-> "idle"]
  /\ head = [r \in Committers |-> source]
  /\ sourceBase = [r \in Committers |-> <<>>]
  /\ releaseBase = [r \in Committers |-> <<>>]
  /\ sourceCommit = [r \in Committers |-> <<>>]
  /\ releaseCommit = [r \in Committers |-> <<>>]
  /\ sent = [r \in Committers |-> {}]
  /\ edits = 0
  /\ faults = 0

Goto(r, step) == pc' = [pc EXCEPT ![r] = step]

(* The run ends, with or without success. *)
Exit(r) ==
  /\ Goto(r, "idle")
  /\ sourceBase' = [sourceBase EXCEPT ![r] = <<>>]
  /\ releaseBase' = [releaseBase EXCEPT ![r] = <<>>]
  /\ sourceCommit' = [sourceCommit EXCEPT ![r] = <<>>]
  /\ releaseCommit' = [releaseCommit EXCEPT ![r] = <<>>]
  /\ sent' = [sent EXCEPT ![r] = {}]

-----------------------------------------------------------------------------
(* An author pushes to the source branch. *)
AuthorPushes ==
  /\ edits < MaxEdits
  /\ edits' = edits + 1
  /\ Edit
  /\ UNCHANGED <<pc, head, locals, faults>>

(* A commit is made in the checkout that a run will publish from. *)
CommitLocally(r) ==
  /\ pc[r] = "idle"
  /\ edits < MaxEdits
  /\ edits' = edits + 1
  /\ \E c \in Contents, v \in Requested \cup {Last(head[r]).version} :
       head' = [head EXCEPT ![r] = Authored(@, c, v, r)]
  /\ UNCHANGED <<source, release, pc, locals, faults>>

(* A run starts, in a new checkout or again in the one it has. *)
Start(r) ==
  /\ pc[r] = "idle"
  /\ \E start \in {head[r], source} : head' = [head EXCEPT ![r] = start]
  /\ \E step \in Starts : Goto(r, step)
  /\ UNCHANGED <<vars, locals, counts>>

(* The template's job: give up if hub source changed while it was queued,   *)
(* otherwise fast-forward over commits that do not touch it.                *)
CheckSuperseded(r) ==
  /\ pc[r] = "template"
  /\ LET mine == Last(head[r])
         theirs == Last(source)
     IN IF /\ mine.content = theirs.content /\ mine.version = theirs.version
           /\ IsPrefix(head[r], source) \/ IsPrefix(source, head[r])
        THEN /\ head' = [head EXCEPT ![r] =
                           IF IsPrefix(@, source) THEN source ELSE @]
             /\ Goto(r, "snapshot")
             /\ UNCHANGED locals
        ELSE Exit(r) /\ UNCHANGED head
  /\ UNCHANGED <<vars, counts>>

(* snapshot_publish_source: fetch the source branch, and stop unless the   *)
(* checkout contains it.                                                   *)
Snapshot(r) ==
  /\ pc[r] = "snapshot"
  /\ IF IsPrefix(source, head[r])
     THEN /\ sourceBase' = [sourceBase EXCEPT ![r] = source]
          /\ Goto(r, "fetch")
          /\ UNCHANGED <<releaseBase, sourceCommit, releaseCommit, sent>>
     ELSE Exit(r)
  /\ UNCHANGED <<vars, head, counts>>

(* copy_previous_release_branch *)
FetchRelease(r) ==
  /\ pc[r] = "fetch"
  /\ releaseBase' = [releaseBase EXCEPT ![r] = release]
  /\ Goto(r, "build")
  /\ UNCHANGED <<vars, head, sourceBase, sourceCommit, releaseCommit, sent,
                 counts>>

(* prepare_release_commit: commit the generated output if it changed. *)
NewRelease(base, built) ==
  IF base # <<>> /\ Last(base) = built THEN base ELSE Append(base, built)

(* prepare_source_commit: record version and pointers; a release always     *)
(* gets a source commit, an empty one if nothing changed.                   *)
NewSource(tree, recorded, released) ==
  LET changed == Last(tree) # [recorded EXCEPT !.by = Last(tree).by]
  IN IF released \/ changed THEN Append(tree, recorded) ELSE tree

(* Wrong on purpose: no release commit for a change of the source only. *)
NewRecordUnrecorded(base, built, recording) == NewRelease(base, built)

(* And a source commit always gets a release commit. *)
NewRecord(base, built, recording) ==
  IF recording /\ NewRelease(base, built) = base
  THEN Append(base, built) ELSE NewRelease(base, built)

Build(r) ==
  /\ pc[r] = "build"
  /\ LET tip == Last(head[r])
         base == releaseBase[r]
         version == ResolveVersion(tip, base)
         built == Built(tip, version)
         newSource == NewSource(head[r], Recorded(tip, version, r),
                                NewRelease(base, built) # base)
     IN /\ sourceCommit' = [sourceCommit EXCEPT ![r] = newSource]
        /\ releaseCommit' = [releaseCommit EXCEPT ![r] =
                               NewRecord(base, built, newSource # sourceBase[r])]
  /\ Goto(r, "connect")
  /\ UNCHANGED <<vars, head, sourceBase, releaseBase, sent, counts>>

-----------------------------------------------------------------------------
(* The Git push (external): --atomic with a lease on either branch *)

(* The server advertises its refs.  A ref that already has the wanted      *)
(* revision is left out, lease and all; another one must be where the run  *)
(* started from.                                                           *)
Connect(r) ==
  /\ pc[r] = "connect"
  /\ LET moved == {ref \in {"source", "release"} :
                     \/ ref = "source" /\ source # sourceCommit[r]
                     \/ ref = "release" /\ release # releaseCommit[r]}
     IN IF /\ moved # {}
           /\ "source" \in moved => source = sourceBase[r]
           /\ "release" \in moved => release = releaseBase[r]
        THEN /\ sent' = [sent EXCEPT ![r] = moved]
             /\ Goto(r, "update")
             /\ UNCHANGED <<head, sourceBase, releaseBase, sourceCommit,
                            releaseCommit>>
        ELSE /\ Exit(r)
             /\ head' = [head EXCEPT ![r] =
                           IF moved = {} THEN sourceCommit[r] ELSE @]
  /\ UNCHANGED <<vars, counts>>

(* The server moves all refs sent, or none if one of them has moved since. *)
(* The run then fast-forwards its checkout, unless the answer is lost.     *)
Update(r) ==
  /\ pc[r] = "update"
  /\ LET lands == /\ "source" \in sent[r] => source = sourceBase[r]
                  /\ "release" \in sent[r] => release = releaseBase[r]
     IN /\ source' = IF lands /\ "source" \in sent[r]
                     THEN sourceCommit[r] ELSE source
        /\ release' = IF lands /\ "release" \in sent[r]
                      THEN releaseCommit[r] ELSE release
        /\ \/ /\ head' = [head EXCEPT ![r] =
                            IF lands THEN sourceCommit[r] ELSE @]
              /\ UNCHANGED faults
           \/ /\ lands
              /\ faults < MaxFaults
              /\ faults' = faults + 1
              /\ UNCHANGED head
  /\ Exit(r)
  /\ UNCHANGED edits

(* The run is cancelled, cannot connect, or is refused by a branch rule. *)
Fails(r) ==
  /\ pc[r] # "idle"
  /\ faults < MaxFaults
  /\ faults' = faults + 1
  /\ Exit(r)
  /\ UNCHANGED <<vars, head, edits>>

-----------------------------------------------------------------------------
RunStep(r) ==
  \/ CheckSuperseded(r) \/ Snapshot(r) \/ FetchRelease(r) \/ Build(r)
  \/ Connect(r) \/ Update(r)

PNext ==
  \/ AuthorPushes
  \/ \E r \in Committers : CommitLocally(r) \/ Start(r) \/ RunStep(r) \/ Fails(r)

PSpec == PInit /\ [][PNext]_pvars

(* A run that started goes on, and publication is run again from a new      *)
(* checkout of the source branch.                                           *)
PFairSpec ==
  /\ PSpec
  /\ \A r \in Committers :
       /\ WF_pvars(RunStep(r))
       /\ SF_pvars(Start(r) /\ head'[r] = source)

-----------------------------------------------------------------------------
(* Properties *)

(* "One atomic Git transaction with explicit leases on both branch           *)
(* revisions": however runs and authors interleave, a publication is one     *)
(* step that builds the source as it is then upon the release as it is then, *)
(* overwrites no one's commit, moves both branches or none, and moves        *)
(* neither when everything is recorded already.                              *)
ImplementsReleases == Spec

(* Authors who stop pushing get what they wrote last released, although      *)
(* runs lose races, are cancelled and lose connections.                      *)
EventuallyPublished == <>[]Settled
=============================================================================
