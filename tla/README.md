# A TLA+ model of pig-toolchain

pig-toolchain compiles a company's *Instruction Hub* (agent instructions kept in
Git) into plugins for Claude, Codex, Cursor and others, publishes them on a
release branch, and ships a small native runtime with them. On every developer
machine the hooks of the plugin start that runtime, which enrolls the host with
a Promptless worker and uploads session transcripts to it.

The modules here model both halves. On the host: the enrollment, the upload of
transcripts, and the queue, traversal and journal of Cursor's sessions. Where
hubs are made: the compiler, scan, release manifests and versions, external
plugins, publication, and distribution over MCP. Paths below are relative to the
repository; `runtime/` stands for `host-runtime/internal/runtime/` and `hub/` for
`src/promptless_instruction_hub/`.

## Inventory

| Component | State | Operations | What is hard | What makes it correct |
|---|---|---|---|---|
| Trace upload (`runtime/traces.go`, `storage.go`) | ledger file per destination (acknowledged offset and digest of each source), ledger lock | collect: three rounds of lock, load, hash, read, POST, record, write | detached collectors run concurrently, die, time out; responses are lost, requests arrive late; transcripts are rewound and replaced under the ledger | the ledger claims only what the worker accepted, goes back only for cause, reports "complete" only when it is, and catches up |
| Enrollment (`runtime/enrollment.go`, `ensure.go`, `status.go`) | state file: credentials and pending sessions per cache key; leader lock | ensure, enroll, collect, reset: read cache, poll, lead, open browser, store, forget | every process polls; one-time approvals; revocation while others enroll; crash after the one-time answer | one browser at a time, none while a session can be polled, no return to a rejected credential, recovery |
| Cursor queue (`runtime/cursor_notify.go`) | directory of pending notices, collector lock | enqueue, three passes over at most 16 files, remove | equal notices queued again while they are collected; the limit is checked without a lock; sessions that are never saved | no notice disappears without an answer, the limit is about kept, nobody waits for ever |
| Cursor traversal (`runtime/cursor_capture.go`, `cursor_database.go`) | `scan-state.json`: traversals and retries per owner, where the discovery came to | a page of each of at most 32 sessions in a run, with their subagents | Cursor writes its database meanwhile, lists messages before it saves them; runs die and fail | "complete" means exported, the terminal event comes last, discovered sessions get their turn |
| Cursor journal (`runtime/cursor_capture.go`) | append-only file of revisions per session | open and cut the partial line, append, sync | death within a line; pages read again; one message from two sources | what was uploaded stays, revisions say something new, a message is one event |
| Hub compiler (`hub/assets.py`, `models.py`, `validate/`, `render/`, `compiler.py`) | generated directories of the worktree | init, build, check, verify | placements by id, file name or frontmatter name; deaths within a build | distinct invocations, everything selected is delivered, output is what the sources say |
| Scan (`hub/scan/hub.py`) | the imported assets | discover, replace skills file by file, both MCP configurations, update of `pig` | deaths and refusals half way, repeated scans of a changed repository | after a scan that ended, what it imported is whole |
| Release manifest and versions (`hub/release/`) | `hub.release.json` | hash, record, read back, resolve the next version | edits that return to earlier content, configured versions, hand-edited manifests, two sets of checks | a version names one output; a release that validates can be read; publications build on whole releases |
| External plugins (`hub/external_plugins.py`, `external_lock.py`, `release/external.py`) | lock of resolved commits, verification records | resolve latest, verify, retain, publish | upstream changes under one version, access is lost, sources are re-pinned between releases | an installed plugin is never behind its release under an equal version; updates resume |
| Publisher (`scripts/run.sh`, `templates/gitlab`) | source branch, release branch, a checkout per run | snapshot, fetch, resolve version, build, record, atomic push | authors and other runs push meanwhile; queued pipelines; Git drops leases of up-to-date refs; lost answer of a push | a release is one step from the source and release of that moment; a version names one content; the last source is published |
| MCP distribution (`hub/mcp_distribution/`) | `dist/mcp`, a server's catalog, a client's cursors | compile, replace, load, verify, list, read, load a skill | builds rewrite what a server reads; servers are replaced between two requests; limits are checked twice, in two places | what is served, listed or gathered is of one release; what compiles loads |
| Cloud capture (`runtime/cloud.go`, `cli.go`) | producer secret, lease identity, status per execution | detach, lease, drain, report | overlapping hooks of one execution | one identity per execution; status of the last drain |
| Notices (`runtime/notices.go`) | flags in the state file | defer, claim, record | several processes at once | shown once |
| Hook bundles, installed runtime (`runtime/hook_bundle.go`, `hook_install.go`) | content-addressed directories, launchers | stage, validate, rename, link | racing installs, crashes, deleted plugin caches | only complete bundles run |
| Native runtime cache (`hub/native_runtime.py`) | cache directory per source hash | download, validate, rename | racing builds | only validated bundles are used |
| Portable hook adapter (`hub/hook_runtime.py`), cloud bundle, CLI, output | none between runs | normalise an event, run a script; copy a bundle; print | many host envelopes | status of a shell result |

Components interact through files: `ensure` and `collect` share the state file
of enrollment, each destination has one ledger, Cursor's journals are sources of
`uploadPaths`, as are the files of a cloud execution; scan writes the assets the
compiler loads, the compiler's output is what a publisher commits, what an MCP
server loads, and carries the runtime that later runs on hosts. The only messages
are HTTP requests and Git pushes and fetches. `PROJECT.json` lists the hazards of
each part at their lines.

## Modules

| Module | Stands for |
|---|---|
| `TraceDelivery` | what trace upload promises for append-only transcripts: written, stored by the worker and acknowledged are prefixes of one another and only grow |
| `TraceUpload` | the collectors, the ledger, its lock and the worker |
| `TraceUploadHistory` | the same with the contents of the transcripts at the start of each collection, to say what "complete" promises |
| `TraceUploadProofs` | proofs about `TraceUpload`, its refinement of `TraceDelivery`, and `TraceUploadHistory` |
| `Enrollment`, `EnrollmentProofs` | processes of one host that obtain, use and drop a credential |
| `CursorNotify`, `CursorNotifyProofs` | the queue of Cursor's notices and the processes that drain it |
| `CursorExport` | the traversal of Cursor's sessions, run by run |
| `CursorJournal` | the journal of one session |
| `CursorCaptureProofs` | proofs about `CursorJournal` and `CursorExport` |
| `Places` | the n-th of a set of numbers, for both |
| `SemVer` | the order on versions, `_bump_patch` and `_max_version` (proofs in `ExternalPluginsProofs`) |
| `HubSource` | the authored tree: assets, their support on each host, validity |
| `HubRender` | what each host gets, marketplaces, the MCP bundle |
| `HubRelease` | the release manifest: recorded, read back, the next version |
| `HubBuild`, `HubBuildProofs` | authors, scan, build and publication in one worktree |
| `ExternalPlugins`, `ExternalPluginsProofs` | upstream repositories, the hub's pins and the releases |
| `Releases` | the two branches, the version rule, and publication as one step |
| `Publisher`, `PublisherProofs` | runs of `scripts/run.sh` in mode publish and the GitLab job before it; implements `Releases` (proofs of both in `PublisherProofs`) |
| `McpDistribution`, `McpDistributionProofs` | builds, servers and a client of `dist/mcp` |
| `MC...` | instances for TLC |

`HubSource` ⊂ `HubRender` ⊂ `HubRelease` ⊂ `HubBuild` extend one another, with
`SemVer` below `HubRelease` and `ExternalPlugins`. Versions of `Releases` are
naturals in the order that `ExternalPluginsProofs` proves `Compare` to be.

Operators marked "Wrong on purpose" are plausible bugs of the definition that
follows them; nothing uses them. They document what each property would catch.

### TraceUpload

A transcript is the sequence of its newline-terminated records: the code never
sends what is behind the last newline. An offset is a number of records and a
digest is the sequence itself, so a ledger entry *is* the acknowledged prefix.
The two ways in which `nextSourceEvent` starts over (`rewound`,
`identity_changed`) are one condition, `~IsPrefix(known, file[s])`.

Each collector walks through `pc`: `wait` (top of the loop in `uploadPaths`),
`select` (the loop over paths, with the ledger loaded under the lock), `read`
(a path is open and hashed), `await` (posted). `phase` is which of `collect`'s
three calls runs: one batch for the hook's own transcripts, the rest of those,
then the others that the scan found. Reading and posting are one step because
only the deadline check is between them; hashing and reading are two, so that a
transcript can change in between. A replaced file is read as it was opened, one
that is rewritten in place as it is, up to the size first seen. `LoseLedger`
stands for a deleted, corrupt or unsupported ledger file.

The worker is external. What it does is taken from the checks `traces.go` makes
on its answers and from the worker that `tests/managed_bootstrap/helpers.py`
runs: one transaction per request, ranges below its watermark are answered as
accepted, a range at the watermark is committed, anything else is a conflict
that carries the watermark and a proof range. It may refuse a held range with
other content or accept it; it may begin the proof at the requested start or at
its last range. Abandoned requests stay in `orphans` and may arrive at any
later time, or never.

Left out: ledger entries without a digest; the drift records, which `write`
does not persist; record parsing; Cursor's export, whose completeness is one
more reason for "partial". A scan returns any set of transcripts: all others
for a session start (`--include-active` and Cursor too), else those older than
twelve hours.

Seen while modelling, and outside what the documentation promises: after a
rewind, or after the loss of a ledger with two or more committed ranges, the
worker's conflict is one that `reconcileConflict` refuses. The refusal is an
error, so this and all later collections end there and the sources behind it are
not reached. `ConflictsReconcile`, checked and proved, says that it does not happen
while transcripts are only appended to.

### Enrollment

One cache key. A browser approval, the session it creates and the credential
that session yields are the same number, so "newer" is visible. Each
transaction of `editState` and each unlocked read is one step (writes replace
the file by rename). `pc` follows `obtainCredential` and `enrollCredential`:
`cached`, `enroll` (pending session, not locked), `lock` (the leader lock is
tried once), `follow` (somebody else leads), `recheck` and `reopen` (the leader
looks again), `open`, `browser`, `poll`, `store`, `drop`, then `policy` and
`forget` of `ensure` and `collect`. An expired session counts as expired for
the host and the worker at the same moment.

Left out: `storeIdentity`, the creation of the host id, notices, state files
that do not parse, and `ensure` after the policy answer.

### Cursor: queue, traversal, journal

`CursorNotify`: the queue is the sequence of its files by modification time, which
is all that `List` looks at; equal notices share a file, and writing or touching
one moves it to the end. A process writes its notice (or finds the queue full),
tries the collector's lock once, makes sure its own file is there, and drains the
queue in three passes of at most `Batch` files, its own first; the last pass
removes what was collected completely. A notice that found no room is looked at
once more afterwards. Whether a collection is complete is `CursorExport`'s and
`TraceUpload`'s affair: here it is or is not, and never for a session that Cursor
does not save (an invalid notice behaves the same).

`CursorExport`: a page of Cursor's database is the number of the write that made
it, or `Missing` for a message that is listed but not saved. Transcripts, by which
sessions are discovered, appear at any time (`Discover`). A run takes over what
`scan-state.json` has for its subject (an owner) and for the discovered sessions,
visits tasks in the code's order, one page each, appends to journals, schedules
subagents, and saves what is left (lists that the code filters or sorts are written
with `Select` and `Sorted`: the n-th of a set of places or of names); it may fail at any task, run out of its five
seconds, or die with or without saving. The lock serialises runs.

`CursorJournal`: lines of one session's journal, from the transcript as long as the
database cannot be read and from the database then. `Open` is everything before
the first append: all lines are read, the rest of a broken line is cut. `Stop` is a
death or a failed write, before, within or behind a line; the journal's size limit
ends a writer the same way. `Upload` sends whole lines, as `uploadPaths` does.

Left out: how rows and blobs decode, oversized records, the 64-children limit, the
"interrupted" quality, a revision without text, unsynced lines lost with the
machine, and messages that Cursor edits after it listed them (`CursorJournal` takes
listed messages for final; results of tools do change).
### The hub: HubSource, HubRender, HubRelease, HubBuild

An asset is an entry below `assets/` with what validation and rendering tell apart
of its text: revision, frontmatter name, host syntax, servers and secrets of an
MCP configuration, declarations of a hook. `Valid` is all of `validate_hub` and of
the models' own checks; `Output` is the generated tree of each host, where an asset
that is rendered later overwrites an equal path, as in the code. A hash is
represented by what it is computed from, so two hashes are equal when their inputs
are: collisions are left out.

`HubBuild` puts people and commands into one worktree. Authors add, remove and
configure; `ChangeRepo` changes the repository that is scanned; `HandEdit` changes
`hub.release.json` as a bad merge would; `Upgrade` installs another toolchain. A
build is `StartBuild`, then for each of `GENERATED_PATHS` `RemovePath` and `CopyPath`,
with `dist` copied host by host (`CopyPart`). A scan removes and copies each skill
file by file, imports the root MCP configuration and then Cursor's, and updates
`pig` last; it can be refused half way. `Crash` may end either between any two
steps. `Publish` is one step here (its races are `Publisher`'s), and one command or
author at a time uses the worktree.

Left out: YAML that does not parse, formatting, owners, display names, warnings,
and the report of context files. A sidecar (`<name>.asset.yaml`) is part of the
asset it is about, and one that is left without it makes the hub invalid.

### ExternalPlugins

A repository is the sequence of its commits and a commit is a tree: paths (sequences
of names) with modes and contents. Editors of the hub pin or follow repositories,
choose a directory per host or replace the plugin by one of their own; repositories
get commits and close and open again. A publication is `Resolve` (floating
sources to the latest commits or, where they cannot be fetched, the saved lock;
verification of every selected tree; retained updates) followed by `Publish` from the
same source, or `Abort`. `Installed` stands for the plugin cache of a host, which
keys on id and version and is external.

### Releases and Publisher

A branch is the sequence of its commits, so comparing revisions is comparing
histories. A commit names its committer, since no two commits of different
runs are the same object. `content` is everything that changes the generated
output but the version; `pointer` is the marketplace pointers, which depend on
the content only (`prepare_marketplace_pointer` drops the version). Versions are
naturals in SemVer order and `+ 1` bumps the patch.

`git push --atomic` is two steps. `Connect` is the client reading the server's
refs: a ref that is where it should be is left out *together with its lease*,
any other must be where the run started. `Update` is the server's transaction
over the refs that were sent. Between them other pushes land. The answer of
`Update` may be lost.

`Starts` says how runs begin: `"snapshot"` from any checkout, as a command would, and
`"template"` as the GitLab job does, which skips a pipeline whose source was
superseded.

`Releases` is the abstract specification: `Publish` moves both branches in one
step, the new release is built from the source tip under the version rule, and
nothing is published when both branches already say the same (`Settled`). A run
may bring along commits that were made in its checkout.

Left out: what is in the generated tree (that is `HubBuild` and `ExternalPlugins`),
credentials, worktrees, and two runs that would create the same commit object
within one second.

### McpDistribution

`disk` is `dist/mcp`, path by path; `Torn` is a file that is partly written. A build
removes every file and copies the new ones in any order, and may die anywhere. A
server reads the manifest, then each file it names and compares its hash (which
is the content), then serves. A client pages through a listing or a search with the
server's cursors, or loads a skill, by `load_skill` or by reading its entry, and
gathers its files one request at a time; between requests the server may stop and
another, with another bundle or selection, may take its address. `Compiles` and
`CatalogLoads` are the two sets of checks, each translated from its own file.
The bearer token is a condition of starting; HTTP, MIME types and descriptions are
left out.

## Runs

| Run | Instance | Shows |
|---|---|---|
| `trace_rewind` | 1 source, 2 collectors, 2 record contents of which one travels alone, 3 records, 1 truncation, 1 ledger loss, 1 fault, 1 late request | `TypeOK`, `AckedByWorker`, `ForwardOnly` |
| `trace_append` | 2 sources of 2 records, 2 collectors, 1 fault, 1 late request, no truncation or loss | `ImplementsDelivery`, `CompleteMeansAcked` |
| `trace_live` | 1 source of 3 records, ranges up to 3, 2 collectors, 2 faults, 2 late requests | `ConflictsReconcile`, `EverythingAcked` |
| `enrollment` | 2 processes, all commands, 6 approvals, any two of an expiry, a revocation, a reset and a fault | `OneBrowser`, `NeverTheRejected`, `NoApprovalWhilePending`, `EventuallyEnrolled` |
| `enrollment_one_approval` | 2 processes running ensure, no failure of any kind | `OneApproval` is **violated** |
| `publisher` | 2 runs, from any checkout or through the GitLab job, 2 contents, 2 edits, 1 fault | `VersionNamesContent`, `ImplementsReleases`, `EventuallyPublished` |
| `external_publish` | 1 plugin, 2 repositories, 5 trees, 3 + 1 commits, 7 hubs of which 1 edit picks another | `HostsCurrent`, `RecordsFit`, `VersionsRise`, `UpdatesResume` |
| `hub_build` | 6 drafts of assets, 2 configurations, 4 states of the scanned repository, 4 operations | `BuiltIsCurrent`, `InvocationsDistinct`, `Delivered`, `ScannedWhole`, `VersionNamesOutput`, `ReleasesRead`, `OnWholeReleases` |
| `mcp_service` | 6 hubs, 2 selections of plugins, 4 listings, 1 build, server and client at a time, any number of them | `ServedWhole`, `BundlesLoad`, `ListingsWhole`, `SkillsWhole` |
| `cursor_queue` | 2 processes, 4 notices of which 2 never settle and 1 recurs, room for 2 files, passes of 2, 1 fault | `TypeOK`, `NoticesAnswered`, `QueueBounded`, `EventuallyCollected` |
| `cursor_export` | 4 sessions, up to 2 pages each, up to 2 of them discovered at any time, 4 databases and 1 write by Cursor to any, runs of 3 sessions of which 1 discovered is added, 1 failure | `CompleteMeansExported`, `TerminalLast`, `ShortComplete`, `EventuallyExported` |
| `cursor_journal` | 3 events, 2 texts of messages, 1 result of a tool and 1 change of it, 1 death | `SentStays`, `RevisionsSay`, `CountedOnce` |

Why the bounds are enough. Two processes are all that the locks and leases can
tell apart: one that is in the middle of something and one that overtakes it.
Two record contents make a changed prefix visible, and a prefix of one or two
records with a third behind it gives every relation of a range to a watermark
(before, at the start, inside, at the end, beyond). Two late requests next to a
live one give the longest chain of watermarks a range can meet. In `enrollment` six
approvals are more than any behaviour with two mishaps uses, so the bound itself
never stops a process; pairs of mishaps are what TLC covers, every combination is
covered for the safety properties by their proofs. Two edits let content return to
an earlier value; in `publisher` the configured version stays at the first one, and
configured versions above the released one are covered by the proofs and, with
prereleases, by `external_publish`. There, three commits let an upstream change
without a version, change it, and break, before or after the hub is re-pinned
to a second repository with a plugin that has none. Six hubs of `mcp_service` are two
releases with the same paths and other contents, one that serves nothing, and
three that the compiler must refuse or the catalog would. Four operations of
`hub_build` reach edit, build, edit back, build; scan, crash, scan, build; and
publish, hand edit or upgrade, publish. A queue of two files with passes of two has
the notices that never settle fill all of a pass. Four sessions
and runs of three are a subject, subagents, sessions that are discovered, some both,
and one more than a run takes. Two discovered sessions of which a run adds one make
the discovery rotate. Both ways in which it can fail for good are reached: two
subagents that are never saved fill every run and starve a fourth session, and
the subagent of one discovered session makes the discovery pass over the other. The
premises of `EventuallyExported` exclude them: without `Yields`, or without
"none has subagents" in `InTurn`, the run finds a violation.

Elsewhere the bounds stop only authors, agents and failures, never the program.
Deadlock is checked in every run but `hub_build`, where `MaxOps` ends every
behaviour and a worktree that nobody touches may stay as it is. Symmetry is used
only where no liveness is checked. Type invariants of `Enrollment`, `Publisher` and
`ExternalPlugins` are proved instead of run; `CursorJournal`'s, `HubBuild`'s and
`McpDistribution`'s are parts of their inductive invariants.

`enrollment_one_approval` is a disagreement between code and documentation.
README.md:1045 promises that "overlapping host starts or plugin upgrades drive at
most one browser approval". Two starts find the same pending session and poll
it, which needs no leader lock. The worker hands its credential out once: one
start is told "approved", the other "consumed", and the latter deletes the
pending session (`enrollment.go:246`) before the former has stored the credential
(`enrollment.go:242`). A start in between finds nothing, leads, and opens a second
approval. Everything recovers (`EventuallyEnrolled`), but the user is asked
twice.

## Fairness

- `TraceUpload!FairSpec`: a running collector keeps running, the worker answers
  requests that wait, and sessions keep starting (strong fairness of a
  collection that covers all sources, because a session start does and any other
  hook need not). Nothing makes agents write; faults are finitely many.
- `Enrollment!Fairness`: a running process keeps running, `ensure` is started again
  and again (each session start does), and the user answers every approval in
  the end. Processes exit in between, hence the strong fairness of `Start`.
  `MCFairSpec` is the same under TLC's bound on mishaps; no fair action is one.
- `Publisher!PFairSpec`: a run proceeds, and publication is started again from the
  latest source, as `run.sh` tells the user to (`scripts/run.sh:299`). A GitLab run
  that loses the race to a commit outside the hub has no pipeline behind it and
  needs that rerun.
- `ExternalPlugins!Spec`: publications are started (pushes and the schedule do), one
  that cannot go on ends, and one that keeps being possible succeeds in the end;
  strong fairness, because upstream commits may come between its two halves.
- `CursorNotify!FairSpec`: a process proceeds to its end, or dies, which is bounded;
  hooks of a recurring notice keep firing. Processes overlap, hence strong fairness.
- `CursorExport!EFairSpec`: a run exports and finishes unless one of finitely many
  faults ends it, and the hooks of each subject keep firing.

## What is proved

Every theorem holds for all values of the constants, under the assumptions its
module names; TLC evaluates these in the runs.

| Module | Theorems | Assumptions |
|---|---|---|
| `TraceUploadProofs` | `TypeCorrect` (`TypeOK`), `LedgerAcked` (`AckedByWorker`), `LedgerGoesForward` (`ForwardOnly`) | `TraceConstants` |
| | `UploadDelivers` (`ImplementsDelivery`), `NoConflictFails` (`ConflictsReconcile`), `CompleteLeavesNothing` (`CompleteMeansAcked`) | `TraceConstants`; premise `AppendOnly`: no truncation, no loss of the ledger |
| `EnrollmentProofs` | `TypeCorrect`, `ApprovalsApart` (`OneBrowser`), `RejectedStaysOut` (`NeverTheRejected`), `NoneOpenedWhilePending` (`NoApprovalWhilePending`) | `EnrollmentConstants` |
| `CursorNotifyProofs` | `TypeCorrect` (`TypeOK`), `NoNoticeForgotten` (`NoticesAnswered`), `QueueStaysBounded` (`QueueBounded`) | `NotifyConstants` |
| `CursorCaptureProofs` | `UploadedStays` (`SentStays`), `RevisionsAlwaysSay` (`RevisionsSay`), `MessagesCountOnce` (`CountedOnce`) | `JournalConstants` |
| | `TerminalComesLast` (`TerminalLast`), `CompleteIsExported` (`CompleteMeansExported`) | `ExportConstants` |
| `PublisherProofs` | `VersionsNameContents` (`VersionNamesContent` of `Releases`), `TypeCorrect`, `PublisherImplements` (`ImplementsReleases`), `PublishedVersionsName` (`VersionNamesContent`) | `ReleasesConstants`, `PublisherConstants` |
| `HubBuildProofs` | `ScansAreWhole` (`ScannedWhole`) | `SourceConstants`, `BuildConstants` |
| | `BuildsAreCurrent` (`BuiltIsCurrent`), `MenusHaveNoTwins` (`InvocationsDistinct`), `AssetsAreDelivered` (`Delivered`), `ValidReleasesRead` (`ReleasesRead`), `OneOutputPerVersion` (`VersionNamesOutput`), `ReleasesBuildOnReleases` (`OnWholeReleases`) | the same; premise `NoValueApart`: the value for "no file" is no record |
| `ExternalPluginsProofs` | `CompareAntisymmetric`, `CompareTransitive`, `BumpedIsHigher`, `MaxIsHighest` | none |
| | `TypeCorrect`, `RecordsAlwaysFit` (`RecordsFit`), `VersionsAlwaysRise` (`VersionsRise`), `HostsStayCurrent` (`HostsCurrent`) | `ExternalConstants` |
| `McpDistributionProofs` | `OneReleaseServed` (`ServedWhole`), `ListingsComplete` (`ListingsWhole`), `SkillsOfOneRelease` (`SkillsWhole`), `EveryBundleLoads` (`BundlesLoad`) | `McpConstants`, `TornIsNoManifest`, `NoneIsNoCursor` |

The assumptions say that bounds are naturals, that values for "nothing" or "partly
written" are not among those they are told apart from, and that the inputs (hubs,
trees, files, Cursor's database) have the shape the parsers give them.

**TraceUpload.** `AckedByWorker` is not inductive: what a collector persists comes from
its memory, not from the ledger. The invariant `Inv` adds `LockInv` (only the lock
holder has a ledger in memory, and it is the ledger on disk), `EventInv` (the base
of an event was acknowledged), `StoredInv` (what the worker stores it accepted) and
`AnswerInv` (an "accepted" answer is for the range that was sent; a conflict proves
records the worker stores). The step of each action is a lemma or a step of one
(`EnvironmentInv`, `WorkerInv`, `RunningInv`, `LeavingInv`), and `PersistAcked` is the
heart: whatever prefix of an event is persisted, every record of it was accepted.
`ForwardOnly` rests on `ResetInv` (an event begins with what the ledger has of its
source, or starts that source over) and on `PersistForward`.

**Delivery.** While transcripts are only appended to, everything that travels (a
snapshot, a request, a late request, what the worker stores, what the ledger counts)
is a piece of the transcript at a known place, and stays one as the transcript grows
(`PiecesInv`). So no collector finds a reason to start over, and the worker appends
only the next records; `StepDelivers` is the refinement of `TraceDelivery`. Conflicts
need to know how far anybody is ahead. `PendingInv`: what the worker has beyond the
ledger is one range that starts where the ledger ends. `LateInv`: a late request
starts no later. `ReachInv`: a request takes all it may of a transcript that has only
grown, so it ends no earlier than any of these. Hence a refused request always has
its first records stored (`RefusedIs`), and `CurrentInv` says that the answer is
still true when it is handled: `reconcileConflict` then accepts it. For "complete"
(`HistoryInv`), a transcript is done with when the ledger has what it held at the
start, or it was noted as unreadable: a collector that is in the last of its three
calls is done with the hook's own transcripts, and in each call with those that it
examined without finding an event (`Cover`). Neither is lost to another collector,
because the ledger only grows.

**Enrollment.** `LeaderInv` ties the steps of an approval to the leader lock, `OpenInv`
keeps what the leader saw when it looked again. For the rejected credential, `NewInv`
says that an approval's number is new to the worker until the browser calls back, so
a consumed session stays consumed; `StoreInv` that a credential on its way to the
cache is with one process only and with nobody else; `HeldInv` that what is held came
from a consumed session. `RejectedInv` follows: nobody can put it back.

**Cursor queue.** `ProcInv` says what a process may rely on: who is past the lock
holds it, and the files it is to collect are in the queue, each once, because only
the holder takes files away. `NoticesAnswered` is an invariant about processes
(`AnswerInv`): a notice that is neither queued nor reported is that of a process
that would report it. The limit is checked without the lock, so `QueueBounded` is not
inductive; `BoundInv` counts with the files those that a process has decided to
write, each of which found room.

**Cursor journal.** `LinesInv` is about the lines alone: one native identity has one
event identity, an event is named after the first thing that was read of it, and
once it comes from the database it stays so. `SourceInv` ties lines, and observations that
are not lines yet, to the transcript and the database. `AdoptInv` is why a message is
one event: as long as events of a text wait for the database, the journal
names no event of that text after the database, and a writer that reads the database has
just the events that wait (`WriterInv`). `CountedOnce` then counts by an
injection from the events of a text into its messages (`EventsCounted`).

**Cursor traversal.** Both properties compare journals with databases of earlier moments
(`base`, when the traversal began, and `top`, when the run did), and neither is inductive: what a
run completes rests on what earlier runs read, under databases that have changed since.
Three facts carry it through every read, failure, death and write of Cursor. Databases
only grow (`Grown`), and what a journal has was read from one (`Read`), so a page that is
appended is never older than one before (`Longer`) nor than `base` or `top` (`PageSince`).
`Follows`: behind the place a traversal came to in a session, every page was read since
the traversal began, but for those at or behind the earliest it will read again; `PageFollows` shows it
of each of `ReadPage`'s outcomes, and that the page which completes a session has all
pages behind it. `RunInv`: a completed session is `Done` and each of its subagents is
completed or open, with a task that waits or was put back (`Reached`); a task leaves one way only,
by completing (`ReachedStays`). `StoredInv` is the same of what is handed to the next
run, for as long as Cursor's revision stays; that is why a run which finds another revision
must not take the completed sessions over. A run without open tasks has thus completed a
set that contains its subject and is closed under subagents, and `Reach` is the least such set
(`ReachIsCompleted`). The rest is `SelectIs`: lists that are filtered lose none of what
is selected.

**SemVer.** `Compare` is first the core, then a case on the prereleases. `Before` names
the three ways in which one prerelease precedes another (a first difference, a
continued list, none at all); its transitivity is that of nine combinations.

**Releases and Publisher.** `PublisherProofs` first carries `VersionNamesContent` itself
along the release branch (`NamesStays`), then shows that each
push which succeeds is one `Publish`. The danger is the ref that is left out of the
push together with its lease. `HeadInv` and `SnapshotInv` say that since a run took
its snapshot none of its own commits reached the source branch, so the branch cannot
already be what the run wants; `BaseInv` that the release branch stays where the
source branch does; `PlanInv` and `SentInv` what is pushed. So every push moves
both branches from where the run found them (`WantsBoth`, `BothSent`), and
`StepSimulation` is the refinement. `PublishedVersionsName` is the theorem about
`Releases` carried over.

**HubBuild.** `BuildInv` follows a build through its paths: those behind `job.next` are
new, the one it works on is empty or part of the new one. `ReleaseInv` ties the
release branch, the version in the sources and the history to each other:
what is on the branch is a release that was published or one that was edited by hand,
and the reader refuses the second. `ScanInv` follows a scan through its skills and the two
configurations: those behind it are in the hub as they were found, the one it
works on has none or some of its files. `ValidInv`: what is built, or current, is of
a valid hub. The menus and the delivery are then about one valid hub
(`DistIs`): validation makes every asset the only claimant of its place and of
its name in a menu (`ClaimIs`, `PathIs`), so nothing rendered after it overwrites it
(`OneWriter`, `PluginDelivers`) and two entries of one name are one path
(`PluginMenuDistinct`). `ReleaseReads` goes through what the reader checks, field by
field, for the manifest that a valid hub yields.

**ExternalPlugins.** `TypeInv` needs the arithmetic of resolution (a retained commit is one
of the repository's), `RecordsFit` that the records of a verification are exactly one
per selected plugin and host, and `OrderInv` that releases are in the order of their
versions; `CompareMixed` brings in the order on versions. `HostsCurrent` is about all
releases at once. Three facts carry it: the commits of a release stay in their
repositories and load (`Loaded`), the version recorded for a plugin is that of its manifest
(`Recorded`), and of each plugin in two consecutive releases Claude sees another key
or the same contents (`Succeeds`). `VerifiedSucceeds` proves the third from what
verification demands, by who had the plugin before and who has it now: twice
the hub (the version rises with the basis), the hub after upstream
(`ReplacementVerifies`), upstream after the hub, and twice upstream, where the commit is
kept, is unchanged, or has another version or source. `RunInv` carries all three from
the verification to the push, while upstream goes on (`LoadedStays`,
`SucceedsStays`). `Installed` is then the function that gives a host what each release
offers: that one takes every step of `Installed` (`FollowedSteps`), and only one function
does (`StepsDecide`).

**McpDistribution.** `DiskInv`: a manifest on disk that is whole is that of a compiled hub,
whatever lies beside it. Then what a server read is what the manifest says, because
it compares hashes (`HeldBy`), and what a client gathered is of the release it began
with (`GatheredBy`). A listing goes by positions: the client has the first items of
the catalog it began with, as many as its cursor says, or all (`PagedBy`), and
`PageExtends` says that the next page goes on from there, although servers come and go in
between. `EveryBundleLoads` is about no state but all inputs: from the
compiler's checks (paths of an asset that differ when case is folded, limits
of files and bytes, lengths of tool names) follow the catalog's; `FilesApart` gets
from sums over assets to the disjointness of their files by cardinality.

## What is only model-checked

All liveness (`EverythingAcked`, `EventuallyEnrolled`, `EventuallyPublished`,
`UpdatesResume`, `EventuallyCollected`, `ShortComplete`, `EventuallyExported`), which is
out of the prover's reach. And `OneApproval`, which is violated.

## Not modelled

- Cloud capture (`cloud.go`): overlapping hooks of one execution share a lease
  identity and a status file; the last writer of the status wins. What it uploads,
  and how, is `uploadPaths`, hence `TraceUpload`. Detaching and draining are time
  limits around it.
- Notices: two flags in a file whose transactions `Enrollment` models.
- Hook bundles, the installed runtime and the native runtime cache: each publishes a
  validated directory under its content hash by one rename; what could go wrong is
  in the semantics of the file system (rename of a directory, links, deleted
  executables that still run), of which the source has only one call each.
- The portable hook adapter, host configuration, output, the command line and the
  cloud bundle: one-shot transformations without state of their own. Which hooks
  are declared, valid and rendered is in `HubSource` and `HubRender`.
- How Cursor's database, YAML and JSON decode.

## Seen while modelling

Behaviour that the runs leave out or bound, and that contradicts no line of the
documentation strictly enough for a run that expects a violation, but that a reader
of the code should know:

- A native Cursor rule and a Cursor skill of one id both become `rules/<id>.mdc`, and
  the skill overwrites the rule (`hub/validate/hub.py:154-164`,
  `hub/render/assets.py:98-106`). Assets of different kinds projected to one host
  collide in the same way in `projected/`. `Delivered` is therefore about skills,
  commands and agents in their own directories.
- An equal Cursor notice that is queued while the leader collects it in its third pass
  is removed with the file (`cursor_notify.go:54-58, 105-106`). `NoticesAnswered`
  therefore counts a collection that began before the notice as an answer.
- A session of two or more pages with more subagents than a run takes never
  becomes complete: it is scheduled first, read again, and the list of what is
  completed is forgotten when only retries are left (`cursor_capture.go:362-366,
  488-494`). `ShortComplete` is limited to sessions of one page. Several long members
  complete together only when their page counts line up, and a notice needs its
  "complete" in exactly the third pass.
- Not every discovered session is exported in the end. The tasks of a subject come before
  those of the discovery (`cursor_capture.go:363-386, 397`): a subject with more than thirty
  subagents that are never saved (or long ones that never complete together) fills all
  of its runs with its own, and the discovery starves. `EventuallyExported` therefore asks that the traversals of all subjects
  complete or are smaller than a run (`Yields`).
- A run adds the first 16 of the discovered sessions behind `after`, in a circle
  (`cursor_capture.go:353-358, 382`), and `after` becomes the session visited last, which
  may be one that is visited again because it is not complete, or a subagent
  (`cursor_capture.go:461-463`). With more than 16 discovered sessions the same 16 may be
  added by every run and others never again, for example when the last subagent of the
  sixteenth always sorts just before the first. `EventuallyExported`
  therefore asks that there are no more discovered sessions than a run adds, or that
  all of them are saved and none has subagents (`InTurn`).
- Pages before the earliest message that is never saved are not read again
  (`cursor_database.go:489-495`).
- Queues in which files that never settle fill whole passes at multiples of the batch
  keep other files from the third pass.
- `reason: ""` beside a supported mode passes `hub/models.py:67` and is refused by
  `hub/release/versions.py:474`, so such a hub validates and cannot be published.
- A scan after the root MCP configuration changed its suffix leaves both
  `repo-mcp.json` and `repo-mcp.yaml`; one after Cursor's configuration became part
  of the root's leaves the old `cursor-mcp`; one deletes the `asset.yaml` of an
  imported skill; one that is refused at an MCP configuration has replaced the
  skills; one that dies may leave a skill without its files that validates.
- `projected` hooks register manifest paths that do not exist.

What the models assume beyond the code: one command or author at a time uses a
worktree; a hash is what it is computed from; file replacement by rename is atomic
and survives a crash.
