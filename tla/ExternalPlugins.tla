---------------------------- MODULE ExternalPlugins ----------------------------
(***************************************************************************)
(* Upstream plugins of a hub and the releases that pin them: resolution of *)
(* latest sources, verification against the published release, the version *)
(* of the next release and the verification records stored with it.        *)
(* Upstream repositories, editors of the hub and one run of the publisher  *)
(* interleave; Publisher models runs that race with each other.            *)
(***************************************************************************)
EXTENDS SemVer

CONSTANTS
  Ids,           \* plugin ids
  Urls,          \* upstream repositories
  Commits,       \* Commits[url]: the trees commits of a repository may have
  Files,         \* Files[tree]
  Private,       \* repositories that access to may be lost
  Directories,   \* where plugins are in a repository
  Hubs,          \* the hubs an editor may write
  Texts,         \* what a plugin written in the hub may contain
  Latest, None, Malformed,
  MaxCommits,    \* bound: commits of each repository
  MaxEdits       \* bound: edits of the hub

(* A path is a sequence of names, a commit maps its files to their mode and *)
(* contents: Files[tree] for the tree it has. Contents that are no plugin   *)
(* manifest have no name.                                                   *)
Path == Seq(STRING)

Contents == [name: Ids \cup {None}, version: Version \cup {None, Malformed},
             components: SUBSET [field: STRING, path: Path], rest: Nat]

(* MANIFEST_PATHS *)
ManifestPath ==
  [claude |-> <<".claude-plugin">>, codex |-> <<".codex-plugin">>,
   cursor |-> <<".cursor-plugin">>]

ExternalHarness == DOMAIN ManifestPath

Shas == UNION {1 .. MaxCommits[url] : url \in Urls}

Targets == UNION {[T -> Directories] : T \in (SUBSET ExternalHarness) \ {{}}}

(* An upstream plugin of the catalog, one with its commit resolved, and a   *)
(* plugin written in the hub.                                               *)
Requested == [kind: {"external"}, url: Urls, ref: Shas \cup {Latest}, targets: Targets]

Pinned == [kind: {"external"}, url: Urls, sha: Shas, targets: Targets]

Written == [kind: {"authored"}, content: Texts]

PartialFn(f, S, T) == DOMAIN f \subseteq S /\ f \in [DOMAIN f -> T]

IsHub(h) ==
  /\ PartialFn(h.plugins, Ids, Requested \cup Written)
  /\ h.targets \subseteq ExternalHarness /\ h.version \in Version /\ h.content \in Nat

Record == [id: Ids, target: ExternalHarness, url: Urls, sha: Shas,
           path: Directories, version: Version \cup {None}]

(* A release: its version, what it contains (version_basis), and its        *)
(* verification records, which releases before hub.external.json have not.  *)
Plugins == UNION {[T -> Pinned \cup Written] : T \in SUBSET Ids}

Basis == [plugins: Plugins, targets: SUBSET ExternalHarness, content: Nat]

Release == [version: Version, basis: Basis, records: {None} \cup SUBSET Record]

ASSUME ExternalConstants ==
  /\ Directories \subseteq Path /\ None \notin Release
  /\ \A h \in Hubs : IsHub(h)
  /\ \A url \in Urls : Commits[url] \subseteq DOMAIN Files
  /\ \A c \in DOMAIN Files : \A p \in DOMAIN Files[c] :
       p \in Path /\ Files[c][p] \in [mode: STRING, contents: Contents]
  /\ MaxCommits \in [Urls -> Nat \ {0}] /\ MaxEdits \in Nat /\ Private \subseteq Urls

VARIABLES
  upstream,      \* upstream[url]: the commits of the default branch
  closed,        \* repositories that cannot be fetched at the moment
  hub,           \* the source branch
  edits,
  releases,      \* the release branch, every release it ever had
  run            \* a publication under way, or None

vars == <<upstream, closed, hub, edits, releases, run>>

-----------------------------------------------------------------------------
(* Git revisions: fetched once, then read without a checkout.               *)

Fetchable(url, sha) == url \notin closed /\ sha \in DOMAIN upstream[url]

LatestCommit(url) == Len(upstream[url])

(* The files below a path, their modes and contents, as tree_id has them.   *)
Below ==
  [tree \in DOMAIN Files |-> [path \in Directories |->
     LET inside == {p \in DOMAIN Files[tree] :
                      Len(p) > Len(path) /\ SubSeq(p, 1, Len(path)) = path}
         relative == {SubSeq(p, Len(path) + 1, Len(p)) : p \in inside}
     IN [p \in relative |-> Files[tree][path \o p]]]]

Folder(url, sha, path) == Below[upstream[url][sha]][path]

Regular == {"100644", "100755"}

(* _validate_component_paths: a component is inside the plugin and there;   *)
(* configurations are files.                                                *)
ComponentsPresent(folder, components) ==
  LET file(p) == p \in DOMAIN folder /\ folder[p].mode \in Regular
      directory(p) == p = <<>> \/ \E q \in DOMAIN folder :
                        Len(q) > Len(p) /\ SubSeq(q, 1, Len(p)) = p
  IN \A c \in components :
       /\ \A i \in DOMAIN c.path : c.path[i] # ".."
       /\ IF c.field \in {"hooks", "mcpServers", "lspServers"}
          THEN file(c.path)
          ELSE c.path \in DOMAIN folder \/ directory(c.path)

Manifest(plugin, target) ==
  Folder(plugin.url, plugin.sha, plugin.targets[target])[ManifestPath[target]].contents

(* The directories manifest() accepts as a plugin for a target: id, target, *)
(* tree and path.                                                           *)
Loads ==
  {l \in Ids \X ExternalHarness \X (DOMAIN Files) \X Directories :
     LET folder == Below[l[3]][l[4]]
         at == ManifestPath[l[2]]
     IN /\ \A p \in DOMAIN folder : folder[p].mode \in Regular
        /\ at \in DOMAIN folder
        /\ folder[at].contents.name = l[1]
        /\ folder[at].contents.version # Malformed
        /\ ComponentsPresent(folder, folder[at].contents.components)}

(* The revision can be fetched and manifest() raises no error.              *)
Sound(id, plugin, target) ==
  /\ Fetchable(plugin.url, plugin.sha)
  /\ <<id, target, upstream[plugin.url][plugin.sha], plugin.targets[target]>> \in Loads

-----------------------------------------------------------------------------
(* The lock: one commit per latest source.                                  *)

External(plugins) == {id \in DOMAIN plugins : plugins[id].kind = "external"}

Authored(plugins) == DOMAIN plugins \ External(plugins)

Floating(h) == {id \in External(h.plugins) : h.plugins[id].ref = Latest}

(* apply_external_resolutions *)
Resolved(h, lock) ==
  [id \in DOMAIN h.plugins |->
     LET p == h.plugins[id]
     IN IF p.kind = "authored" THEN p
        ELSE [kind |-> "external", url |-> p.url, targets |-> p.targets,
              sha |-> IF p.ref = Latest THEN lock[id] ELSE p.ref]]

HeadLock(h) == [id \in Floating(h) |-> LatestCommit(h.plugins[id].url)]

(* build_release_version_basis of the resolved hub                          *)
BasisOf(h, plugins) ==
  [plugins |-> plugins, targets |-> h.targets, content |-> h.content]

(* What is published: the last release, if there is one.                    *)
Published == IF releases = <<>> THEN None ELSE releases[Len(releases)]

(* resolve_release_version *)
ResolveVersion(h, basis, previous) ==
  IF previous = None THEN h.version
  ELSE IF previous.basis = basis THEN MaxVersion(h.version, previous.version)
  ELSE MaxVersion(h.version, BumpPatch(previous.version))

-----------------------------------------------------------------------------
(* Verification against the published release. Claude keeps a plugin it has *)
(* installed while the version stays the same.                              *)

Selected(plugin, targets) == DOMAIN plugin.targets \cap targets

(* read_external_versions and previous_claude_version: recorded, or read    *)
(* from the published revision again.                                       *)
PreviousClaudeVersion(id, previous) ==
  IF previous.records # None
  THEN (CHOOSE r \in previous.records : r.id = id /\ r.target = "claude").version
  ELSE Manifest(previous.basis.plugins[id], "claude").version

PreviousReadable(id, previous) ==
  previous.records # None \/ Sound(id, previous.basis.plugins[id], "claude")

ClaudeHad(id, previous) ==
  /\ previous # None
  /\ id \in External(previous.basis.plugins)
  /\ "claude" \in Selected(previous.basis.plugins[id], previous.basis.targets)

(* authored_replacements *)
Replacements(h, plugins, previous) ==
  {id \in Authored(plugins) : ClaudeHad(id, previous) /\ "claude" \in h.targets}

(* Claude has the plugin from another source or path.                       *)
SourceChanged(id, plugin, previous) ==
  /\ ClaudeHad(id, previous)
  /\ LET old == previous.basis.plugins[id]
     IN \/ <<old.url, old.sha>> # <<plugin.url, plugin.sha>>
        \/ old.targets["claude"] # plugin.targets["claude"]

(* Was authored in the hub, and carried its version.                        *)
WasAuthored(id, previous) ==
  /\ previous # None
  /\ id \in Authored(previous.basis.plugins)
  /\ "claude" \in previous.basis.targets

(* Claude would not notice the change.                                      *)
Collides(h, id, plugin, previous) ==
  /\ "claude" \in Selected(plugin, h.targets)
  /\ LET version == Manifest(plugin, "claude").version
     IN /\ version # None
        /\ IF SourceChanged(id, plugin, previous)
           THEN version = PreviousClaudeVersion(id, previous)
           ELSE WasAuthored(id, previous) /\ version = previous.version

(* Same repository and path, so the directories are compared.               *)
SamePlace(id, plugin, previous) ==
  /\ ClaudeHad(id, previous)
  /\ LET old == previous.basis.plugins[id]
     IN old.url = plugin.url /\ old.targets["claude"] = plugin.targets["claude"]

(* Wrong on purpose: a commit on another path counts as unchanged.          *)
UnchangedRepository(id, plugin, previous) ==
  /\ ClaudeHad(id, previous)
  /\ previous.basis.plugins[id].url = plugin.url

(* Wrong on purpose: contents that are restored are not recognized.         *)
UnchangedCommit(id, plugin, previous) ==
  SamePlace(id, plugin, previous) /\ previous.basis.plugins[id].sha = plugin.sha

(* tree_id of both is the same.                                             *)
Unchanged(id, plugin, previous) ==
  /\ SamePlace(id, plugin, previous)
  /\ LET old == previous.basis.plugins[id]
     IN Folder(old.url, old.sha, old.targets["claude"])
          = Folder(plugin.url, plugin.sha, plugin.targets["claude"])

CanRetain(h, id, plugin, previous) ==
  /\ h.plugins[id].ref = Latest
  /\ ClaudeHad(id, previous)
  /\ LET old == previous.basis.plugins[id]
     IN /\ old.url = plugin.url
        /\ old.targets = plugin.targets
        /\ Selected(plugin, h.targets) = Selected(old, previous.basis.targets)

(* The update waits: the published commit is kept for every target.         *)
Retains(h, id, plugin, previous) ==
  Collides(h, id, plugin, previous) /\ ~Unchanged(id, plugin, previous)

(* What _verify_external_plugins demands of one upstream plugin.            *)
PluginVerifies(h, id, plugin, previous) ==
  /\ \A t \in Selected(plugin, h.targets) : Sound(id, plugin, t)
  /\ "claude" \in Selected(plugin, h.targets) /\ SourceChanged(id, plugin, previous)
       => PreviousReadable(id, previous)
  /\ Collides(h, id, plugin, previous) =>
       LET old == previous.basis.plugins[id]
       IN /\ SamePlace(id, plugin, previous) => Fetchable(old.url, old.sha)
          /\ ~Unchanged(id, plugin, previous) =>
               /\ CanRetain(h, id, plugin, previous)
               /\ \A t \in Selected(old, h.targets) : Sound(id, old, t)

(* Hub plugins that replace upstream ones need another version.             *)
ReplacementVerifies(h, id, plugins, previous) ==
  /\ PreviousReadable(id, previous)
  /\ ResolveVersion(h, BasisOf(h, plugins), previous) # PreviousClaudeVersion(id, previous)

Verifies(h, previous) ==
  LET plugins == Resolved(h, HeadLock(h))
  IN /\ \A id \in Floating(h) : Fetchable(plugins[id].url, plugins[id].sha)
     /\ \A id \in Replacements(h, plugins, previous) :
          ReplacementVerifies(h, id, plugins, previous)
     /\ \A id \in External(plugins) : PluginVerifies(h, id, plugins[id], previous)

(* The commit that is published: the head, or the last one while it waits.  *)
Kept(h, id, plugin, previous) ==
  IF Retains(h, id, plugin, previous) THEN previous.basis.plugins[id].sha ELSE plugin.sha

VerifiedPlugins(h, previous) ==
  LET plugins == Resolved(h, HeadLock(h))
  IN [id \in DOMAIN plugins |->
        IF plugins[id].kind = "authored" THEN plugins[id]
        ELSE [plugins[id] EXCEPT !.sha = Kept(h, id, plugins[id], previous)]]

(* Wrong on purpose: the lock keeps the deferred commit.                    *)
SavedLockHeads(h, previous) == HeadLock(h)

(* The lock that is saved for latest sources.                               *)
SavedLock(h, previous) ==
  [id \in Floating(h) |-> Kept(h, id, Resolved(h, HeadLock(h))[id], previous)]

(* verified_external_plugins: one record per plugin and selected target.    *)
RecordsOf(h, plugins) ==
  UNION {{[id |-> id, target |-> t, url |-> plugins[id].url,
           sha |-> plugins[id].sha, path |-> plugins[id].targets[t],
           version |-> Manifest(plugins[id], t).version] :
            t \in Selected(plugins[id], h.targets)} : id \in External(plugins)}

(* _validate_records: exactly one record per published external target.     *)
Covers(records, basis) ==
  LET expected ==
        UNION {{[id |-> id, target |-> t, url |-> basis.plugins[id].url,
                 sha |-> basis.plugins[id].sha, path |-> basis.plugins[id].targets[t]] :
                  t \in Selected(basis.plugins[id], basis.targets)} :
               id \in External(basis.plugins)}
      identity(r) == [id |-> r.id, target |-> r.target, url |-> r.url,
                      sha |-> r.sha, path |-> r.path]
  IN /\ {identity(r) : r \in records} = expected
     /\ \A r, s \in records : identity(r) = identity(s) => r = s

-----------------------------------------------------------------------------
(* Nothing is published yet, or one release by a toolchain from before      *)
(* hub.external.json.                                                       *)
Init ==
  /\ \E first \in [Urls -> UNION {Commits[url] : url \in Urls}] :
       /\ \A url \in Urls : first[url] \in Commits[url]
       /\ upstream = [url \in Urls |-> <<first[url]>>]
  /\ closed = {}
  /\ hub \in Hubs
  /\ edits = 0
  /\ \/ releases = <<>>
     \/ /\ Verifies(hub, None)
        /\ releases = <<[version |-> hub.version, records |-> None,
                         basis |-> BasisOf(hub, Resolved(hub, HeadLock(hub)))]>>
  /\ run = None

(* resolve-external in a run: every latest source and the published release *)
(* are read, then the lock and the records are written.                     *)
Resolve ==
  /\ run = None
  /\ Verifies(hub, Published)
  /\ run' = [hub |-> hub, base |-> Len(releases), lock |-> SavedLock(hub, Published),
             records |-> RecordsOf(hub, VerifiedPlugins(hub, Published))]
  /\ UNCHANGED <<upstream, closed, hub, edits, releases>>

(* What publish-version, build and record-external-verification make of it. *)
Built ==
  LET basis == BasisOf(run.hub, Resolved(run.hub, run.lock))
  IN [version |-> ResolveVersion(run.hub, basis, Published),
      basis |-> basis, records |-> run.records]

(* The push succeeds if neither branch moved meanwhile; a release that      *)
(* changes nothing is not committed.                                        *)
Publish ==
  /\ run # None
  /\ run.base = Len(releases)
  /\ run.hub = hub
  /\ Covers(run.records, Built.basis)
  /\ releases' = IF Published = Built THEN releases ELSE Append(releases, Built)
  /\ run' = None
  /\ UNCHANGED <<upstream, closed, hub, edits>>

(* The run is cancelled.                                                    *)
Abort ==
  /\ run # None
  /\ run' = None
  /\ UNCHANGED <<upstream, closed, hub, edits, releases>>

UpstreamCommit(url) ==
  /\ Len(upstream[url]) < MaxCommits[url]
  /\ \E c \in Commits[url] : upstream' = [upstream EXCEPT ![url] = Append(@, c)]
  /\ UNCHANGED <<closed, hub, edits, releases, run>>

(* Access to a repository is lost, or given back.                           *)
ChangeAccess(url) ==
  /\ url \in Private
  /\ closed' = IF url \in closed THEN closed \ {url} ELSE closed \cup {url}
  /\ UNCHANGED <<upstream, hub, edits, releases, run>>

EditHub ==
  /\ edits < MaxEdits
  /\ edits' = edits + 1
  /\ hub' \in Hubs \ {hub}
  /\ UNCHANGED <<upstream, closed, releases, run>>

Next ==
  \/ Resolve \/ Publish \/ Abort \/ EditHub
  \/ \E url \in Urls : UpstreamCommit(url) \/ ChangeAccess(url)

(* Publication is started again and again, every run ends, and not every    *)
(* one is cancelled.                                                        *)
Spec == Init /\ [][Next]_vars
          /\ WF_vars(Resolve) /\ WF_vars(Abort) /\ SF_vars(Publish)

-----------------------------------------------------------------------------
(* Types; what is published was verified when it was published.             *)
TypeOK ==
  /\ DOMAIN upstream = Urls
  /\ \A url \in Urls : /\ Len(upstream[url]) \in Shas
                       /\ \A i \in DOMAIN upstream[url] : upstream[url][i] \in Commits[url]
  /\ closed \subseteq Private
  /\ hub \in Hubs
  /\ edits \in 0 .. MaxEdits
  /\ releases \in Seq(Release)
  /\ run # None => /\ run.hub \in Hubs
                   /\ run.base \in 0 .. Len(releases)
                   /\ PartialFn(run.lock, Ids, Shas)
                   /\ run.records \subseteq Record

(* The plugins a release offers to Claude, their contents, and what Claude  *)
(* tells updates of one apart by: the version of the hub or of upstream, or *)
(* the source of the entry where upstream has no version.                   *)
OnClaude(release) ==
  LET plugins == release.basis.plugins
  IN IF "claude" \in release.basis.targets
     THEN {id \in DOMAIN plugins : \/ id \in Authored(plugins)
                                   \/ "claude" \in DOMAIN plugins[id].targets}
     ELSE {}

Offered(release, id) ==
  LET p == release.basis.plugins[id]
  IN IF p.kind = "authored" THEN [key |-> release.version, content |-> p]
     ELSE LET version == Manifest(p, "claude").version
          IN [key |-> IF version # None THEN version
                      ELSE [url |-> p.url, sha |-> p.sha, path |-> p.targets["claude"]],
              content |-> Folder(p.url, p.sha, p.targets["claude"])]

(* The plugins of a host that took each of the first n releases.            *)
Installed[n \in 0 .. Len(releases)] ==
  IF n = 0 THEN <<>>
  ELSE LET before == Installed[n - 1]
       IN [id \in OnClaude(releases[n]) |->
             LET offer == Offered(releases[n], id)
             IN IF id \in DOMAIN before /\ before[id].key = offer.key
                THEN before[id] ELSE offer]

(* A Claude host that takes every release runs what the last one publishes: *)
(* _verify_external_plugins refuses, or defers, whatever it would not see.  *)
HostsCurrent ==
  \A id \in DOMAIN Installed[Len(releases)] :
    Installed[Len(releases)][id].content = Offered(Published, id).content

(* A run that verified is not refused when its records are bound to the     *)
(* release: the lock it builds with, retained commits included, is the one  *)
(* its records describe (_validate_records never raises in a publication).  *)
RecordsFit ==
  run # None => Covers(run.records, BasisOf(run.hub, Resolved(run.hub, run.lock)))

(* Precedence as semver.org has it: the first field that differs decides;   *)
(* a prerelease comes before its release and before every longer list that  *)
(* continues it; numeric identifiers come before textual ones.              *)
Lower(p, q) ==
  \/ p.numeric /\ ~q.numeric
  \/ p.numeric = q.numeric /\ p.rank < q.rank

Precedes(a, b) ==
  LET core(v) == <<v.major, v.minor, v.patch>>
  IN \/ \E i \in 1 .. 3 : /\ core(a)[i] < core(b)[i]
                          /\ \A j \in 1 .. i - 1 : core(a)[j] = core(b)[j]
     \/ /\ core(a) = core(b) /\ a.pre # <<>>
        /\ \/ b.pre = <<>>
           \/ \E i \in 1 .. Len(b.pre) :
                /\ \A j \in 1 .. i - 1 : j <= Len(a.pre) /\ a.pre[j] = b.pre[j]
                /\ \/ i = Len(a.pre) + 1
                   \/ i <= Len(a.pre) /\ Lower(a.pre[i], b.pre[i])

(* A version names one content: a release that changes what is published    *)
(* has a higher version than every earlier one, and none has a lower one    *)
(* (resolve_release_version, through prereleases and configured versions).  *)
VersionsRise ==
  [][\A i \in DOMAIN releases :
       LET new == releases'[Len(releases')]
       IN /\ ~Precedes(new.version, releases[i].version)
          /\ new.basis # releases[Len(releases)].basis
               => Precedes(releases[i].version, new.version)]_releases

(* The published commit of a latest source, from where it is now.           *)
Pin(id) == Published.basis.plugins[id]

PublishedHere(id) ==
  /\ id \in Floating(hub)
  /\ Published # None /\ id \in External(Published.basis.plugins)
  /\ Pin(id).url = hub.plugins[id].url

(* The head of a latest source may be published: publication verifies, and  *)
(* the head has another version than the published commit, or its contents. *)
MayFollow(id) ==
  /\ id \in Floating(hub)
  /\ Verifies(hub, Published)
  /\ PublishedHere(id) /\ "claude" \in DOMAIN Pin(id).targets =>
       LET path == Pin(id).targets["claude"]
           folder(sha) == Folder(hub.plugins[id].url, sha, path)
           version(sha) == folder(sha)[ManifestPath["claude"]].contents.version
           old == Pin(id).sha
           new == LatestCommit(hub.plugins[id].url)
       IN \/ folder(new) = folder(old)
          \/ /\ {<<id, "claude", upstream[hub.plugins[id].url][sha], path>> :
                    sha \in {old, new}} \subseteq Loads
             /\ version(new) # version(old)

(* Updates resume: once upstream has another version or the contents that   *)
(* are published, and nothing else keeps the hub from being published, the  *)
(* head is published and stays so (README: deferred automatic updates).     *)
UpdatesResume ==
  \A id \in Ids :
    <>[]MayFollow(id) =>
      <>[](PublishedHere(id) /\ Pin(id).sha = LatestCommit(hub.plugins[id].url))
=============================================================================
