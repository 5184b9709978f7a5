---------------------------- MODULE HubBuildProofs ----------------------------
(***************************************************************************)
(* Theorems about HubBuild, for any assets, hubs, repositories, bounds and *)
(* rendering: a build that ended left what a check expects, every asset in *)
(* its place and under a name of its own; a scan that ended left what it   *)
(* found; a publication never builds on a release put together by hand, a  *)
(* version names one output for ever, and what is released can be read.    *)
(*                                                                         *)
(* BuildInv follows a build through the paths it replaces: those behind it *)
(* are the new ones, the one it works on is empty or a part of the new     *)
(* one; ScanInv follows a scan likewise. ReleaseInv ties the release       *)
(* branch, the version in the sources and the history of releases to each  *)
(* other. ValidInv brings what validation refuses into the tree.           *)
(***************************************************************************)
EXTENDS HubBuild, SequenceTheorems, TLAPS

Paths == {GeneratedPaths[i] : i \in DOMAIN GeneratedPaths}

(* What a hub's files need to be for the proof: one with a version. *)
HubInv ==
  /\ hub = [x \in DOMAIN hub |-> hub[x]]
  /\ "version" \in DOMAIN hub /\ hub.version \in Version

(* The build has made the paths before this one. *)
JobInv ==
  /\ job = [output |-> Generated(hub, tool, hub.version), next |-> job.next,
            removed |-> job.removed, part |-> job.part]
  /\ job.next \in DOMAIN GeneratedPaths
  /\ \A i \in DOMAIN GeneratedPaths :
       i < job.next => tree[GeneratedPaths[i]] = job.output[GeneratedPaths[i]]
  /\ job.removed => \/ tree[Path] = NoValue
                    \/ /\ Path = "dist"
                       /\ DOMAIN tree[Path].plugins \subseteq DOMAIN job.output[Path].plugins

BuildInv ==
  /\ HubInv
  /\ DOMAIN tree = Paths /\ tree = [path \in DOMAIN tree |-> tree[path]]
  /\ current \in BOOLEAN /\ (job # None \/ scan # None => ~current)
  /\ job = None \/ scan = None
  /\ job # None => JobInv
  /\ BuiltIsCurrent

-----------------------------------------------------------------------------
(* The paths are distinct, and there are six. *)
LEMMA PathsAre ==
  /\ DOMAIN GeneratedPaths = 1 .. 6
  /\ \A i, j \in 1 .. 6 : GeneratedPaths[i] = GeneratedPaths[j] => i = j
  /\ Paths = {"dist", "codex", "claude", "cursor", "release", "stable"}
  /\ GeneratedPaths[1] = "dist"
<1>1. DOMAIN GeneratedPaths = 1 .. 6
  BY DEF GeneratedPaths
<1>2. \A i \in 1 .. 6 : i = 1 \/ i = 2 \/ i = 3 \/ i = 4 \/ i = 5 \/ i = 6
  OBVIOUS
<1>3. \A i, j \in 1 .. 6 : GeneratedPaths[i] = GeneratedPaths[j] => i = j
  BY <1>2 DEF GeneratedPaths
<1>4. Paths = {"dist", "codex", "claude", "cursor", "release", "stable"}
  BY <1>1, <1>2 DEF Paths, GeneratedPaths
<1> QED BY <1>1, <1>3, <1>4 DEF GeneratedPaths

(* A compilation writes every path, and dist for each host. *)
LEMMA GeneratedShape ==
  ASSUME NEW h, NEW t, NEW v
  PROVE  /\ Generated(h, t, v) = [path \in Paths |-> Generated(h, t, v)[path]]
         /\ Generated(h, t, v)["dist"]
              = [plugins |-> Output(h, t, v).dist, mcp |-> Output(h, t, v).mcp]
         /\ Output(h, t, v).dist = [x \in DOMAIN Output(h, t, v).dist |-> Output(h, t, v).dist[x]]
<1>1. Generated(h, t, v) = [path \in Paths |-> Generated(h, t, v)[path]]
  BY DEF Generated, Paths
<1>2. Generated(h, t, v)["dist"] = [plugins |-> Output(h, t, v).dist, mcp |-> Output(h, t, v).mcp]
  BY PathsAre DEF Generated, Paths
<1>3. Output(h, t, v).dist = [x \in DOMAIN Output(h, t, v).dist |-> Output(h, t, v).dist[x]]
  BY DEF Output
<1> QED BY <1>1, <1>2, <1>3

(* Copying over a part of what is copied gives what is copied. *)
LEMMA CopiedWhole ==
  ASSUME NEW plugins, NEW mcp, plugins = [x \in DOMAIN plugins |-> plugins[x]],
         NEW old, DOMAIN old.plugins \subseteq DOMAIN plugins
  PROVE  Copied("dist", old, [plugins |-> plugins, mcp |-> mcp])
           = [plugins |-> plugins, mcp |-> mcp]
<1>1. DOMAIN old.plugins \cup DOMAIN plugins = DOMAIN plugins
  OBVIOUS
<1>2. [t \in DOMAIN old.plugins \cup DOMAIN plugins |->
         IF t \in DOMAIN plugins THEN plugins[t] ELSE old.plugins[t]] = plugins
  BY <1>1
<1> QED BY <1>2 DEF Copied

(* Nothing is built at first. *)
LEMMA InitBuild ==
  ASSUME Init
  PROVE  BuildInv
<1>1. HubInv
  BY BuildConstants DEF Init, HubInv
<1>2. DOMAIN tree = Paths /\ tree = [path \in DOMAIN tree |-> tree[path]]
  BY DEF Init, Paths
<1> QED BY <1>1, <1>2 DEF Init, BuildInv, BuiltIsCurrent

(* Authors change the hub, or not, and nothing is current then. *)
LEMMA EditBuild ==
  ASSUME BuildInv, Idle, HubInv', current' \in {FALSE, current}, UNCHANGED tree, job' = None,
         scan = None \/ scan' = None, scan' # None => ~current',
         current' => UNCHANGED <<hub, tool>>
  PROVE  BuildInv'
<1>1. BuiltIsCurrent'
  BY DEF BuildInv, BuiltIsCurrent, IsCurrent
<1>2. current' \in BOOLEAN
  BY DEF BuildInv
<1> QED BY <1>1, <1>2 DEF BuildInv

LEMMA AuthorsBuild ==
  ASSUME BuildInv,
         \/ \E d \in Drafts : AddDraft(d)
         \/ \E e \in hub.entries : RemoveEntry(e)
         \/ \E c \in Configs : Configure(c)
         \/ \E r \in Repos : ChangeRepo(r)
         \/ Upgrade \/ HandEdit \/ StartScan
  PROVE  BuildInv'
<1>1. Idle /\ UNCHANGED tree /\ job' = None
  BY DEF AddDraft, RemoveEntry, Configure, ChangeRepo, Upgrade, HandEdit, StartScan, Count,
         Idle
<1>2. current' \in {FALSE, current} /\ (scan' # None => ~current')
  BY <1>1 DEF AddDraft, RemoveEntry, Configure, ChangeRepo, Upgrade, HandEdit, StartScan,
              Edited, Idle
<1>3. current' => UNCHANGED <<hub, tool>>
  BY DEF AddDraft, RemoveEntry, Configure, ChangeRepo, Upgrade, HandEdit, StartScan, Edited
<1>4. HubInv'
  <2>1. ASSUME NEW d \in Drafts, AddDraft(d) PROVE HubInv'
    BY <2>1 DEF BuildInv, HubInv, AddDraft
  <2>2. ASSUME NEW e \in hub.entries, RemoveEntry(e) PROVE HubInv'
    BY <2>2 DEF BuildInv, HubInv, RemoveEntry
  <2>3. ASSUME NEW c \in Configs, Configure(c) PROVE HubInv'
    BY <2>3 DEF BuildInv, HubInv, Configure
  <2>4. ASSUME UNCHANGED hub PROVE HubInv'
    BY <2>4 DEF BuildInv, HubInv
  <2> QED BY <2>1, <2>2, <2>3, <2>4 DEF ChangeRepo, Upgrade, HandEdit, StartScan
<1>5. scan = None
  BY <1>1 DEF Idle
<1> QED BY <1>1, <1>2, <1>3, <1>4, <1>5, EditBuild

(* A scan changes the hub step by step, and no build runs. *)
LEMMA ScanBuild ==
  ASSUME BuildInv,
         RemoveSkill \/ CopySkillFile \/ ImportRoot \/ ImportCursor \/ UpdatePlugin
  PROVE  BuildInv'
<1>1. scan # None /\ UNCHANGED <<tree, tool, job, current>>
  BY DEF RemoveSkill, CopySkillFile, ImportRoot, ImportCursor, ImportConfig, UpdatePlugin
<1>2. job' = None /\ ~current'
  BY <1>1 DEF BuildInv
<1>3. HubInv'
  <2>1. CASE RemoveSkill
    BY <2>1 DEF BuildInv, HubInv, RemoveSkill
  <2>2. CASE CopySkillFile
    BY <2>2 DEF BuildInv, HubInv, CopySkillFile
  <2>3. ASSUME NEW step, NEW config, NEW name, NEW support, NEW wanted,
               ImportConfig(step, config, name, support, wanted)
        PROVE  HubInv'
    BY <2>3 DEF BuildInv, HubInv, ImportConfig
  <2>4. CASE UpdatePlugin
    BY <2>4 DEF BuildInv, HubInv, UpdatePlugin
  <2> QED BY <2>1, <2>2, <2>3, <2>4 DEF ImportRoot, ImportCursor
<1> QED BY <1>1, <1>2, <1>3 DEF BuildInv, BuiltIsCurrent

(* A process dies between two steps. *)
LEMMA CrashBuild ==
  ASSUME BuildInv, Crash
  PROVE  BuildInv'
BY DEF BuildInv, HubInv, Crash, BuiltIsCurrent, IsCurrent

(* A build starts with what it compiled. *)
LEMMA StartBuildBuild ==
  ASSUME BuildInv, StartBuild
  PROVE  BuildInv'
<1>1. JobInv'
  BY PathsAre DEF StartBuild, JobInv
<1> QED BY <1>1 DEF BuildInv, HubInv, StartBuild, Count, Idle, BuiltIsCurrent

(* It removes what is at the next path. *)
LEMMA RemovePathBuild ==
  ASSUME BuildInv, RemovePath
  PROVE  BuildInv'
<1>1. /\ job # None /\ JobInv /\ ~current
      /\ job' = [job EXCEPT !.removed = TRUE]
      /\ tree' = [tree EXCEPT ![GeneratedPaths[job.next]] = NoValue]
  BY DEF BuildInv, RemovePath, Emptied, Path
<1>2. Path \in Paths /\ DOMAIN tree = Paths
  BY <1>1 DEF JobInv, Path, Paths, BuildInv
<1>3. /\ job'.output = job.output /\ job'.next = job.next /\ job'.removed /\ job'.part = job.part
      /\ job' = [output |-> job'.output, next |-> job'.next, removed |-> job'.removed,
                 part |-> job'.part]
  BY <1>1 DEF JobInv
<1>4. \A i \in DOMAIN GeneratedPaths :
        i < job'.next => tree'[GeneratedPaths[i]] = job'.output[GeneratedPaths[i]]
  BY <1>1, <1>2, <1>3, PathsAre DEF JobInv, Paths
<1>5. tree'[GeneratedPaths[job.next]] = NoValue
  BY <1>1, <1>2 DEF Path
<1>6. JobInv'
  <2>1. job'.output = Generated(hub, tool, hub.version)' /\ job'.next \in DOMAIN GeneratedPaths
    BY <1>1, <1>3 DEF JobInv, RemovePath
  <2>2. tree'[Path'] = NoValue
    BY <1>3, <1>5 DEF Path
  <2> QED BY <1>3, <1>4, <2>1, <2>2 DEF JobInv
<1>7. DOMAIN tree' = Paths /\ tree' = [path \in DOMAIN tree' |-> tree'[path]]
  BY <1>1, <1>2
<1> QED BY <1>1, <1>6, <1>7 DEF BuildInv, HubInv, RemovePath, BuiltIsCurrent

(* It writes the plugins of one host, the rest of dist comes later. *)
LEMMA CopyPartBuild ==
  ASSUME BuildInv, NEW t \in Harness, CopyPart(t)
  PROVE  BuildInv'
<1> DEFINE part == [plugins |-> [x \in {t} |-> job.output[Path].plugins[t]], mcp |-> NoValue]
<1>1. /\ job # None /\ JobInv /\ ~current /\ job.removed /\ ~job.part /\ Path = "dist"
      /\ t \in DOMAIN job.output[Path].plugins
      /\ job' = [job EXCEPT !.part = TRUE]
      /\ tree' = [tree EXCEPT !["dist"] = Copied("dist", @, part)]
  BY DEF BuildInv, CopyPart
<1>2. "dist" \in Paths /\ DOMAIN tree = Paths /\ job.next = 1 /\ DOMAIN GeneratedPaths = 1 .. 6
  BY <1>1, PathsAre DEF BuildInv, JobInv, Path
<1>3. /\ job'.output = job.output /\ job'.next = job.next /\ job'.removed = job.removed /\ job'.part
      /\ job' = [output |-> job'.output, next |-> job'.next, removed |-> job'.removed,
                 part |-> job'.part]
  BY <1>1 DEF JobInv
<1>4. DOMAIN tree'["dist"].plugins \subseteq DOMAIN job.output["dist"].plugins
  <2>1. tree'["dist"] = Copied("dist", tree["dist"], part)
    BY <1>1, <1>2
  <2>2. CASE tree["dist"] = NoValue
    <3>1. Copied("dist", tree["dist"], part) = part
      BY <2>2 DEF Copied
    <3> QED BY <1>1, <2>1, <3>1
  <2>3. CASE /\ tree["dist"] # NoValue
             /\ DOMAIN tree["dist"].plugins \subseteq DOMAIN job.output["dist"].plugins
    <3>1. DOMAIN Copied("dist", tree["dist"], part).plugins
            = DOMAIN tree["dist"].plugins \cup {t}
      BY <2>3 DEF Copied
    <3> QED BY <1>1, <2>1, <2>3, <3>1
  <2> QED BY <1>1, <2>2, <2>3 DEF JobInv
<1>5. JobInv'
  <2>1. job'.output = Generated(hub, tool, hub.version)' /\ job'.next \in DOMAIN GeneratedPaths
    BY <1>1, <1>3 DEF JobInv, CopyPart
  <2>2. Path' = "dist"
    BY <1>1, <1>3 DEF Path
  <2>3. \A i \in DOMAIN GeneratedPaths : ~(i < job'.next)
    BY <1>2, <1>3
  <2> QED BY <1>3, <1>4, <2>1, <2>2, <2>3 DEF JobInv
<1>6. DOMAIN tree' = Paths /\ tree' = [path \in DOMAIN tree' |-> tree'[path]]
  BY <1>1, <1>2
<1> QED BY <1>1, <1>5, <1>6 DEF BuildInv, HubInv, CopyPart, BuiltIsCurrent

(* It writes a path as a whole, the last one last. *)
LEMMA CopyPathBuild ==
  ASSUME BuildInv, CopyPath
  PROVE  BuildInv'
<1> DEFINE new == job.output
<1>1. /\ job # None /\ JobInv /\ ~current /\ job.removed /\ (Path = "dist" => job.part)
      /\ tree' = [tree EXCEPT ![Path] = Copied(Path, @, new[Path])]
      /\ UNCHANGED <<hub, tool, scan>> /\ scan = None
      /\ job' = IF job.next = Len(GeneratedPaths) THEN None
                ELSE [job EXCEPT !.next = @ + 1, !.removed = FALSE]
      /\ current' = (job.next = Len(GeneratedPaths))
  BY DEF BuildInv, CopyPath
<1>2. Path \in Paths /\ DOMAIN tree = Paths /\ Path = GeneratedPaths[job.next]
  BY <1>1 DEF BuildInv, JobInv, Path, Paths
<1>3. Copied(Path, tree[Path], new[Path]) = new[Path]
  <2>1. CASE Path # "dist" \/ tree[Path] = NoValue
    BY <2>1 DEF Copied
  <2>2. CASE Path = "dist" /\ DOMAIN tree[Path].plugins \subseteq DOMAIN new[Path].plugins
    <3> DEFINE plugins == Output(hub, tool, hub.version).dist
               mcp == Output(hub, tool, hub.version).mcp
    <3>1. new["dist"] = Generated(hub, tool, hub.version)["dist"]
      BY <1>1 DEF JobInv
    <3> HIDE DEF new
    <3>2. /\ new["dist"] = [plugins |-> plugins, mcp |-> mcp]
          /\ plugins = [x \in DOMAIN plugins |-> plugins[x]]
      BY <3>1, GeneratedShape
    <3> HIDE DEF plugins, mcp
    <3>3. DOMAIN tree["dist"].plugins \subseteq DOMAIN plugins
      BY <2>2, <3>2
    <3>4. Copied("dist", tree["dist"], [plugins |-> plugins, mcp |-> mcp])
            = [plugins |-> plugins, mcp |-> mcp]
      BY <3>2, <3>3, CopiedWhole
    <3> QED BY <2>2, <3>2, <3>4
  <2> QED BY <1>1, <2>1, <2>2 DEF JobInv
<1>4. /\ DOMAIN tree' = Paths /\ tree' = [path \in DOMAIN tree' |-> tree'[path]]
      /\ tree'[Path] = new[Path] /\ \A path \in Paths \ {Path} : tree'[path] = tree[path]
  BY <1>1, <1>2, <1>3 DEF BuildInv
<1>5. \A i \in 1 .. 6 : i <= job.next => tree'[GeneratedPaths[i]] = new[GeneratedPaths[i]]
  <2> SUFFICES ASSUME NEW i \in 1 .. 6, i <= job.next
               PROVE  tree'[GeneratedPaths[i]] = new[GeneratedPaths[i]]
    OBVIOUS
  <2>1. CASE i = job.next
    BY <1>2, <1>4, <2>1
  <2>2. CASE i # job.next
    <3>1. job.next \in 1 .. 6 /\ i < job.next
      BY <1>1, <2>2, PathsAre DEF JobInv
    <3>2. GeneratedPaths[i] \in Paths \ {Path}
      BY <1>2, <2>2, <3>1, PathsAre DEF Paths
    <3>3. tree[GeneratedPaths[i]] = new[GeneratedPaths[i]]
      BY <1>1, <3>1, PathsAre DEF JobInv
    <3> QED BY <1>4, <3>2, <3>3
  <2> QED BY <2>1, <2>2
<1>6. CASE job.next = Len(GeneratedPaths)
  <2>1. job.next = 6 /\ job' = None
    BY <1>1, <1>6 DEF GeneratedPaths
  <2>2. \A path \in Paths : tree'[path] = new[path]
    BY <1>5, <2>1, PathsAre DEF Paths
  <2>3. new = Generated(hub, tool, hub.version)
    BY <1>1 DEF JobInv
  <2> HIDE DEF new
  <2>4. new = [path \in Paths |-> new[path]]
    <3> DEFINE g == Generated(hub, tool, hub.version)
    <3>1. g = [path \in Paths |-> g[path]]
      BY DEF Generated, Paths
    <3> HIDE DEF g
    <3>2. new = g
      BY <2>3 DEF g
    <3> QED BY <3>1, <3>2
  <2>5. tree' = new
    BY <1>4, <2>2, <2>4
  <2>6. BuiltIsCurrent'
    BY <1>1, <2>3, <2>5 DEF BuiltIsCurrent, IsCurrent
  <2> QED BY <1>1, <1>4, <2>1, <2>6 DEF BuildInv, HubInv
<1>7. CASE job.next # Len(GeneratedPaths)
  <2>1. job.next \in 1 .. 5 /\ job' = [job EXCEPT !.next = @ + 1, !.removed = FALSE]
    BY <1>1, <1>7, PathsAre DEF JobInv, GeneratedPaths
  <2>2. /\ job'.output = job.output /\ job'.next = job.next + 1 /\ job'.removed = FALSE
        /\ job' = [output |-> job'.output, next |-> job'.next, removed |-> job'.removed,
                   part |-> job'.part]
    BY <1>1, <2>1 DEF JobInv
  <2>3. job'.output = Generated(hub, tool, hub.version)' /\ job'.next \in DOMAIN GeneratedPaths
    BY <1>1, <2>1, <2>2, PathsAre DEF JobInv
  <2>4. \A i \in DOMAIN GeneratedPaths :
          i < job'.next => tree'[GeneratedPaths[i]] = job'.output[GeneratedPaths[i]]
    BY <1>5, <2>1, <2>2, PathsAre
  <2>5. JobInv'
    BY <2>2, <2>3, <2>4 DEF JobInv
  <2>6. ~current'
    BY <1>1, <1>7
  <2> QED BY <1>1, <1>4, <2>5, <2>6 DEF BuildInv, HubInv, BuiltIsCurrent
<1> QED BY <1>6, <1>7

-----------------------------------------------------------------------------
(* What one publication writes.                                             *)

(* A release has the hashes of its output, also in its basis. *)
LEMMA ReleaseIs ==
  ASSUME NEW h, NEW t, NEW v
  PROVE  LET m == Release(h, t, v)
         IN /\ m = [content |-> m.content, hash |-> m.content]
            /\ DOMAIN m.content = {"schema", "version", "stable", "targets", "hashes", "runtimes",
                                   "mcp", "assets", "basis"}
            /\ m.content.version = v
            /\ m.content.hashes = Output(h, t, v).dist
            /\ m.content.basis = VersionBasis(h, t, v)
            /\ VersionBasis(h, t, v).hashes = Output(h, t, v).dist
BY DEF Release, VersionBasis

(* A version is as high as itself, and lower than its next patch. *)
LEMMA NextPatch ==
  ASSUME NEW v \in Version
  PROVE  /\ MaxVersion(v, v) = v
         /\ MaxVersion(v, BumpPatch(v)) = BumpPatch(v)
         /\ BumpPatch(v) \in Version /\ BumpPatch(v).patch > v.patch
<1>1. BumpPatch(v) \in Version /\ BumpPatch(v).patch = v.patch + 1
      /\ BumpPatch(v).major = v.major /\ BumpPatch(v).minor = v.minor
  <2>1. <<>> \in Seq(Identifier)
    OBVIOUS
  <2> QED BY <2>1 DEF Version, BumpPatch
<1>2. Compare(v, BumpPatch(v)) = -1
  BY <1>1 DEF Compare, CompareCore, Sign, Version
<1>3. BumpPatch(v).patch > v.patch
  <2>1. v.patch \in Nat
    BY DEF Version
  <2> QED BY <1>1, <2>1
<1> QED BY <1>1, <1>2, <1>3 DEF MaxVersion

(* The same sources keep the version and the output, others get the next    *)
(* patch: given that hub.yaml has the version of the release.               *)
LEMMA Resolved ==
  ASSUME NEW h, NEW t, NEW m, m.content.version \in Version, h.version = m.content.version,
         m.content.basis.hashes = m.content.hashes,
         NEW v, v = ResolveVersion(h, t, m), m # NoValue
  PROVE  /\ v \in Version
         /\ \/ v = m.content.version /\ Output(h, t, v).dist = m.content.hashes
            \/ v.patch > m.content.version.patch
<1> DEFINE c == m.content
<1>1. CASE VersionBasis(h, t, c.version) = c.basis
  <2>1. v = c.version
    BY <1>1, NextPatch DEF ResolveVersion
  <2> QED BY <1>1, <2>1, ReleaseIs
<1>2. CASE VersionBasis(h, t, c.version) # c.basis
  <2>1. v = BumpPatch(c.version)
    BY <1>2, NextPatch DEF ResolveVersion
  <2>2. /\ BumpPatch(c.version) \in Version
        /\ BumpPatch(c.version).patch > c.version.patch
    BY NextPatch
  <2> QED BY <2>1, <2>2
<1> QED BY <1>1, <1>2

-----------------------------------------------------------------------------
(* The history of releases.                                                 *)

(* A value that is no release and no MCP bundle. *)
NoValueApart ==
  /\ \A c, x : NoValue # [content |-> c, hash |-> x]
  /\ \A v, t, a : NoValue # [version |-> v, tool |-> t, assets |-> a]

IsRelease(m) ==
  /\ m = [content |-> m.content, hash |-> m.content]
  /\ {"version", "basis"} \subseteq DOMAIN m.content
  /\ m.content.version \in Version /\ m.content.basis.hashes = m.content.hashes

(* Its hash is of a lower version. *)
IsEdited(m) ==
  /\ m = [content |-> m.content, hash |-> m.hash]
  /\ {"version", "basis"} \subseteq DOMAIN m.content
  /\ m.content.version \in Version /\ m.hash.version \in Version
  /\ m.hash.version.patch < m.content.version.patch

VersionOf(i) == published[i].content.version

(* Later releases have higher patches, or are the same.                     *)
Rising ==
  \A i, j \in 1 .. Len(published) :
    i <= j => /\ VersionOf(i).patch <= VersionOf(j).patch
              /\ VersionOf(i).patch = VersionOf(j).patch =>
                   /\ VersionOf(i) = VersionOf(j)
                   /\ published[i].content.hashes = published[j].content.hashes

ReleaseInv ==
  /\ NoValueApart /\ HubInv
  /\ \E S : published \in Seq(S)
  /\ \A i \in 1 .. Len(published) : IsRelease(published[i])
  /\ published = <<>> => release = NoValue
  /\ published # <<>> =>
       /\ hub.version = VersionOf(Len(published))
       /\ release = published[Len(published)] \/ IsEdited(release)
  /\ Rising

(* Nothing was released at first. *)
LEMMA InitRelease ==
  ASSUME Init, NoValueApart
  PROVE  ReleaseInv
<1>1. HubInv
  BY InitBuild DEF BuildInv
<1>2. published \in Seq({}) /\ Len(published) = 0 /\ published = <<>>
  BY DEF Init
<1> QED BY <1>1, <1>2 DEF Init, ReleaseInv, Rising

(* Only a publication changes the version in the sources. *)
LEMMA VersionKept ==
  ASSUME HubInv, Next, ~Publish
  PROVE  HubInv' /\ hub'.version = hub.version /\ UNCHANGED published
<1> USE DEF HubInv
<1>1. ASSUME NEW d \in Drafts, AddDraft(d)
      PROVE  HubInv' /\ hub'.version = hub.version /\ UNCHANGED published
  BY <1>1 DEF AddDraft
<1>2. ASSUME NEW e \in hub.entries, RemoveEntry(e)
      PROVE  HubInv' /\ hub'.version = hub.version /\ UNCHANGED published
  BY <1>2 DEF RemoveEntry
<1>3. ASSUME NEW c \in Configs, Configure(c)
      PROVE  HubInv' /\ hub'.version = hub.version /\ UNCHANGED published
  BY <1>3 DEF Configure
<1>4. ASSUME UNCHANGED hub
      PROVE  HubInv' /\ hub'.version = hub.version
  BY <1>4
<1>5. ASSUME \/ \E r \in Repos : ChangeRepo(r)
             \/ Upgrade \/ HandEdit \/ Crash \/ StartBuild \/ RemovePath
             \/ \E t \in Harness : CopyPart(t)
             \/ CopyPath \/ StartScan
      PROVE  UNCHANGED <<hub, published>>
  BY <1>5 DEF ChangeRepo, Upgrade, HandEdit, Crash, StartBuild, RemovePath, CopyPart, CopyPath,
              StartScan
<1>6. CASE RemoveSkill
  BY <1>6 DEF RemoveSkill
<1>7. CASE CopySkillFile
  BY <1>7 DEF CopySkillFile
<1>8. ASSUME NEW step, NEW config, NEW name, NEW support, NEW wanted,
             ImportConfig(step, config, name, support, wanted)
      PROVE  HubInv' /\ hub'.version = hub.version /\ UNCHANGED published
  BY <1>8 DEF ImportConfig
<1>9. CASE UpdatePlugin
  BY <1>9 DEF UpdatePlugin
<1> QED BY <1>1, <1>2, <1>3, <1>4, <1>5, <1>6, <1>7, <1>8, <1>9
        DEF Next, ImportRoot, ImportCursor

(* A hand that edits the release leaves its hash behind. *)
LEMMA EditedStays ==
  ASSUME ReleaseInv, HandEdit
  PROVE  IsEdited(release')
<1>1. release # NoValue /\ published # <<>>
  BY DEF HandEdit, ReleaseInv
<1>2. Len(published) \in 1 .. Len(published)
  <2>1. PICK S : published \in Seq(S)
    BY DEF ReleaseInv
  <2> QED BY <1>1, <2>1
<1>3. /\ release = [content |-> release.content, hash |-> release.hash]
      /\ {"version", "basis"} \subseteq DOMAIN release.content
      /\ release.content.version \in Version /\ release.hash.version \in Version
      /\ release.hash.version.patch <= release.content.version.patch
  <2>1. CASE IsEdited(release)
    BY <2>1 DEF IsEdited, Version
  <2>2. CASE release = published[Len(published)]
    <3>1. IsRelease(release)
      BY <1>2, <2>2 DEF ReleaseInv
    <3> QED BY <3>1 DEF IsRelease, Version
  <2> QED BY <1>1, <2>1, <2>2 DEF ReleaseInv
<1> DEFINE v == release.content.version
<1>4. /\ release' = [content |-> release'.content, hash |-> release'.hash]
      /\ release'.hash = release.hash
      /\ DOMAIN release'.content = DOMAIN release.content
      /\ release'.content.version = BumpPatch(v)
  BY <1>3 DEF HandEdit
<1>5. BumpPatch(v) \in Version /\ BumpPatch(v).patch > v.patch
  BY <1>3, NextPatch
<1>6. release.hash.version.patch < BumpPatch(v).patch
  BY <1>3, <1>5 DEF Version
<1> QED BY <1>3, <1>4, <1>5, <1>6 DEF IsEdited

(* Every step but a publication leaves the history alone. *)
LEMMA OtherRelease ==
  ASSUME ReleaseInv, Next, ~Publish
  PROVE  ReleaseInv'
<1>1. HubInv' /\ hub'.version = hub.version /\ UNCHANGED published
  BY VersionKept DEF ReleaseInv
<1>2. release' = release \/ (HandEdit /\ release # NoValue)
  BY DEF Next, AddDraft, RemoveEntry, Configure, ChangeRepo, Upgrade, HandEdit, Crash,
         StartBuild, RemovePath, CopyPart, CopyPath, StartScan, RemoveSkill, CopySkillFile,
         ImportRoot, ImportCursor, ImportConfig, UpdatePlugin
<1>3. CASE release' = release
  BY <1>1, <1>3 DEF ReleaseInv, Rising, VersionOf
<1>4. CASE HandEdit /\ release # NoValue
  <2>1. IsEdited(release') /\ published # <<>>
    BY <1>4, EditedStays DEF ReleaseInv
  <2> QED BY <1>1, <2>1 DEF ReleaseInv, Rising, VersionOf
<1> QED BY <1>2, <1>3, <1>4

(* The reader refuses an edited release: its hash tells. *)
LEMMA EditedIsRefused ==
  ASSUME NEW m, IsEdited(m)
  PROVE  ~Reads(m)
BY DEF IsEdited, Reads, Version

(* What a publication finds is the last release, and what it adds rises.    *)
LEMMA PublishRelease ==
  ASSUME ReleaseInv, Publish
  PROVE  /\ ReleaseInv'
         /\ release = NoValue \/ (published # <<>> /\ release = published[Len(published)])
<1> DEFINE version == ResolveVersion(hub, tool, release)
           m == Release(hub, tool, version)
           n == Len(published)
<1>1. /\ release # NoValue => Reads(release)
      /\ release' = m /\ published' = Append(published, m)
      /\ hub' = [hub EXCEPT !.version = version]
  BY DEF Publish
<1>2. PICK S : published \in Seq(S)
  BY DEF ReleaseInv
<1>3. n \in Nat /\ (published # <<>> => n \in 1 .. n) /\ (published = <<>> => n = 0)
  BY <1>2
<1>4. published # <<>> => release = published[n] /\ IsRelease(published[n]) /\ release # NoValue
  <2> SUFFICES ASSUME published # <<>>
               PROVE  release = published[n] /\ IsRelease(published[n]) /\ release # NoValue
    OBVIOUS
  <2>1. IsRelease(published[n])
    BY <1>3 DEF ReleaseInv
  <2>2. release = published[n] \/ IsEdited(release)
    BY Zenon DEF ReleaseInv
  <2>3. release # NoValue
    <3>1. CASE release = published[n]
      BY Zenon, <2>1, <3>1 DEF IsRelease, ReleaseInv, NoValueApart
    <3>2. CASE IsEdited(release)
      BY Zenon, <3>2 DEF IsEdited, ReleaseInv, NoValueApart
    <3> QED
      BY <2>2, <3>1, <3>2
  <2>4. ~IsEdited(release)
    BY Zenon, <1>1, <2>3, EditedIsRefused
  <2> QED
    BY Zenon, <2>1, <2>2, <2>3, <2>4
<1>5. /\ version \in Version
      /\ published # <<>> =>
           \/ version = VersionOf(n) /\ Output(hub, tool, version).dist = published[n].content.hashes
           \/ version.patch > VersionOf(n).patch
  <2>1. CASE published = <<>>
    BY <2>1 DEF ReleaseInv, HubInv, ResolveVersion
  <2>2. CASE published # <<>>
    <3>1. /\ release.content.version \in Version /\ hub.version = release.content.version
          /\ release.content.basis.hashes = release.content.hashes /\ release # NoValue
      BY <1>4, <2>2 DEF ReleaseInv, IsRelease, VersionOf
    <3> QED BY <1>4, <2>2, <3>1, Resolved DEF VersionOf
  <2> QED BY <2>1, <2>2
<1>6. /\ IsRelease(m) /\ m.content.version = version
      /\ m.content.hashes = Output(hub, tool, version).dist
  BY <1>5, ReleaseIs DEF IsRelease
<1>7. HubInv' /\ hub'.version = version
  BY <1>1, <1>5 DEF ReleaseInv, HubInv
<1> HIDE DEF version, m
<1>8. /\ Len(published') = n + 1 /\ published'[n + 1] = m
      /\ \A i \in 1 .. n : published'[i] = published[i]
      /\ published' \in Seq(S \cup {m}) /\ published' # <<>>
  <2>1. published \in Seq(S \cup {m})
    BY <1>2
  <2> QED BY <1>1, <2>1
<1>9. \A i \in 1 .. n + 1 : IsRelease(published'[i])
  BY <1>3, <1>6, <1>8 DEF ReleaseInv
<1>10. Rising'
  <2> SUFFICES ASSUME NEW i \in 1 .. n + 1, NEW j \in 1 .. n + 1, i <= j
               PROVE  /\ VersionOf(i)'.patch <= VersionOf(j)'.patch
                      /\ VersionOf(i)'.patch = VersionOf(j)'.patch =>
                           /\ VersionOf(i)' = VersionOf(j)'
                           /\ published'[i].content.hashes = published'[j].content.hashes
    BY <1>8 DEF Rising, VersionOf
  <2>1. CASE j \in 1 .. n
    BY <1>3, <1>8, <2>1 DEF ReleaseInv, Rising, VersionOf
  <2>2. CASE j = n + 1 /\ i = n + 1
    BY <1>6, <1>5, <1>8, <2>2 DEF VersionOf, Version
  <2>3. CASE j = n + 1 /\ i \in 1 .. n
    <3>1. published # <<>> /\ n \in 1 .. n /\ i <= n
      BY <1>3, <2>3
    <3>2. /\ VersionOf(i).patch <= VersionOf(n).patch
          /\ VersionOf(i).patch = VersionOf(n).patch =>
               /\ VersionOf(i) = VersionOf(n)
               /\ published[i].content.hashes = published[n].content.hashes
      BY <2>3, <3>1 DEF ReleaseInv, Rising
    <3>3. VersionOf(i).patch \in Nat /\ VersionOf(n).patch \in Nat /\ version.patch \in Nat
      BY <1>5, <2>3, <3>1 DEF ReleaseInv, IsRelease, VersionOf, Version
    <3>4. VersionOf(i)' = VersionOf(i) /\ VersionOf(j)' = version
      BY <1>6, <1>8, <2>3 DEF VersionOf
    <3>5. /\ published'[i].content.hashes = published[i].content.hashes
          /\ published'[j].content.hashes = Output(hub, tool, version).dist
      BY <1>6, <1>8, <2>3
    <3> QED BY <1>5, <3>1, <3>2, <3>3, <3>4, <3>5
  <2> QED BY <1>3, <2>1, <2>2, <2>3
<1>11. release' = published'[Len(published')] /\ hub'.version = VersionOf(Len(published))'
  BY <1>1, <1>6, <1>7, <1>8 DEF VersionOf
<1>12. ReleaseInv'
  BY <1>7, <1>8, <1>9, <1>10, <1>11 DEF ReleaseInv
<1> QED BY <1>4, <1>12 DEF ReleaseInv

(* A publication that changes the version makes the generated files stale. *)
LEMMA PublishBuild ==
  ASSUME BuildInv, ReleaseInv, Publish
  PROVE  BuildInv'
<1>1. HubInv'
  BY PublishRelease DEF ReleaseInv
<1>2. /\ job = None /\ scan = None /\ UNCHANGED <<tool, tree, job, scan>>
      /\ hub' = [hub EXCEPT !.version = ResolveVersion(hub, tool, release)]
      /\ current' = (current /\ ResolveVersion(hub, tool, release) = hub.version)
  BY DEF Publish, Count, Idle
<1>3. BuiltIsCurrent'
  <2>1. ASSUME current' PROVE hub' = hub
    <3>1. hub' = [hub EXCEPT !.version = hub.version]
      BY <1>2, <2>1
    <3> QED BY <3>1 DEF BuildInv, HubInv
  <2> QED BY <1>2, <2>1 DEF BuildInv, BuiltIsCurrent, IsCurrent
<1> QED BY <1>1, <1>2, <1>3 DEF BuildInv

Inv == BuildInv /\ ReleaseInv

(* Every step of Next preserves both parts. *)
LEMMA NextInv == Inv /\ [Next]_vars => Inv'
<1> SUFFICES ASSUME Inv, [Next]_vars PROVE Inv'
  OBVIOUS
<1> USE DEF Inv
<1>1. CASE Publish
  BY <1>1, PublishBuild, PublishRelease
<1>2. CASE Next /\ ~Publish
  <2>1. ReleaseInv'
    BY <1>2, OtherRelease
  <2>2. BuildInv'
    BY <1>2, AuthorsBuild, ScanBuild, CrashBuild, StartBuildBuild, RemovePathBuild,
       CopyPartBuild, CopyPathBuild DEF Next
  <2> QED BY <2>1, <2>2
<1>3. CASE UNCHANGED vars
  <2>1. BuildInv'
    BY <1>3 DEF vars, BuildInv, HubInv, JobInv, Path, BuiltIsCurrent, IsCurrent
  <2>2. ReleaseInv'
    BY <1>3 DEF vars, ReleaseInv, HubInv, Rising, VersionOf
  <2> QED BY <2>1, <2>2
<1> QED BY <1>1, <1>2, <1>3

(* Both parts hold throughout. *)
LEMMA Invariance == NoValueApart /\ Spec => []Inv
<1>1. Init /\ NoValueApart => Inv
  BY InitBuild, InitRelease DEF Inv
<1> QED BY <1>1, NextInv, PTL DEF Spec

(* A build that ended, whatever crashed builds had left at the paths it     *)
(* replaces, gives what a check of the same sources expects (fs.py:144).    *)
THEOREM BuildsAreCurrent == NoValueApart /\ Spec => []BuiltIsCurrent
<1>1. Inv => BuiltIsCurrent
  BY DEF Inv, BuildInv
<1> QED BY Invariance, <1>1, PTL

(* Two releases of one version have the same generated files, however the   *)
(* sources, the toolchain and the release branch changed between them       *)
(* (versions.py:117).                                                       *)
THEOREM OneOutputPerVersion == NoValueApart /\ Spec => []VersionNamesOutput
<1>1. Inv => VersionNamesOutput
  <2> SUFFICES ASSUME Inv, NEW i \in DOMAIN published, NEW j \in DOMAIN published,
                      published[i].content.version = published[j].content.version
               PROVE  published[i].content.hashes = published[j].content.hashes
    BY DEF VersionNamesOutput
  <2>1. i \in 1 .. Len(published) /\ j \in 1 .. Len(published)
    BY DEF Inv, ReleaseInv
  <2> QED BY <2>1 DEF Inv, ReleaseInv, Rising, VersionOf
<1> QED BY Invariance, <1>1, PTL

(* A publication builds on a release that an earlier one wrote: one whose   *)
(* version was raised by hand has the hash of another (versions.py:138).    *)
THEOREM ReleasesBuildOnReleases == NoValueApart /\ Spec => OnWholeReleases
<1> DEFINE Whole == release \in {NoValue} \cup {published[i] : i \in DOMAIN published}
<1>1. Inv /\ [Next]_vars => [published' # published => Whole]_vars
  <2> SUFFICES ASSUME Inv, Next, published' # published PROVE Whole
    BY DEF vars
  <2>1. Publish
    BY VersionKept DEF Inv, ReleaseInv
  <2>2. release = NoValue \/ (published # <<>> /\ release = published[Len(published)])
    BY <2>1, PublishRelease DEF Inv
  <2>3. published # <<>> => Len(published) \in DOMAIN published
    <3>1. PICK S : published \in Seq(S)
      BY DEF Inv, ReleaseInv
    <3> QED BY <3>1
  <2> QED BY <2>2, <2>3
<1> QED BY Invariance, <1>1, PTL DEF Spec, OnWholeReleases
-----------------------------------------------------------------------------
(* The authored tree is well formed throughout: the entries of a scan, too, *)
(* take the place of the files that have their names.                       *)

Tree(S) ==
  /\ \A e \in S : IsEntry(e)
  /\ \A e, f \in S : <<e.kind, e.name, e.form>> = <<f.kind, f.name, f.form>> => e = f

LEMMA HubIs ==
  ASSUME NEW h
  PROVE  IsHub(h) <=> /\ h = [entries |-> h.entries, plugins |-> h.plugins,
                              version |-> h.version, config |-> h.config]
                      /\ Tree(h.entries)
                      /\ PartialFn(h.plugins, Plugin, SUBSET Ref) /\ h.config \in Configurations
BY DEF IsHub, Tree

LEMMA EntryIs ==
  ASSUME NEW e, IsEntry(e)
  PROVE  e = [kind |-> e.kind, name |-> e.name, form |-> e.form, files |-> e.files,
              id |-> e.id, support |-> e.support, blank |-> e.blank, text |-> e.text]
BY DEF IsEntry

LEMMA DescribedIs ==
  ASSUME NEW e, IsEntry(e), NEW support
  PROVE  Described(e, support)
           = [kind |-> e.kind, name |-> e.name, form |-> e.form, files |-> e.files,
              id |-> None, support |-> support, blank |-> {}, text |-> e.text]
<1> DEFINE y == Described(e, support)
<1>1. DOMAIN e = {"kind", "name", "form", "files", "id", "support", "blank", "text"}
  BY EntryIs
<1>2. DOMAIN y = DOMAIN e /\ y = [x \in DOMAIN y |-> y[x]]
  BY DEF Described
<1>3. /\ y.kind = e.kind /\ y.name = e.name /\ y.form = e.form /\ y.files = e.files
      /\ y.id = None /\ y.support = support /\ y.blank = {} /\ y.text = e.text
  BY <1>1 DEF Described
<1> HIDE DEF y
<1>4. y = [kind |-> y.kind, name |-> y.name, form |-> y.form, files |-> y.files,
           id |-> y.id, support |-> y.support, blank |-> y.blank, text |-> y.text]
  BY <1>1, <1>2
<1> QED
  BY <1>3, <1>4 DEF y

LEMMA PlaceTree ==
  ASSUME NEW S, Tree(S), NEW e, IsEntry(e)
  PROVE  Tree(Place(e, S)) /\ e \in Place(e, S)
<1>1. \A x \in Place(e, S) : x = e \/ (x \in S /\ <<x.kind, x.name, x.form>> # <<e.kind, e.name, e.form>>)
  BY DEF Place
<1>2. e \in Place(e, S)
  BY DEF Place
<1> QED
  BY <1>1, <1>2 DEF Tree

(* Of a stem's metadata only what does not name the file changes.           *)
LEMMA PlaceMcpTree ==
  ASSUME NEW S, Tree(S), NEW e, IsEntry(e), e.kind = "mcp"
  PROVE  /\ Tree(PlaceMcp(e, S)) /\ e \in PlaceMcp(e, S)
         /\ \A x \in S : <<x.kind, x.name>> # <<"mcp", e.name>> => x \in PlaceMcp(e, S)
<1> DEFINE new(x) == IF x.kind = "mcp" /\ x.name = e.name /\ x.form # "dir"
                     THEN Described(x, e.support) ELSE x
           T == {new(x) : x \in S}
<1>1. ASSUME NEW x \in S
      PROVE  /\ IsEntry(new(x))
             /\ <<new(x).kind, new(x).name, new(x).form>> = <<x.kind, x.name, x.form>>
  <2>1. IsEntry(x)
    BY DEF Tree
  <2>2. CASE new(x) = x
    BY <2>1, <2>2
  <2>3. CASE new(x) = Described(x, e.support)
    <3> DEFINE y == Described(x, e.support)
    <3>1. y = [kind |-> x.kind, name |-> x.name, form |-> x.form, files |-> x.files,
               id |-> None, support |-> e.support, blank |-> {}, text |-> x.text]
      BY <2>1, DescribedIs
    <3>2. e.support = None \/ PartialFn(e.support, Harness, SupportMode)
      BY DEF IsEntry
    <3> HIDE DEF y
    <3>3. IsEntry(y)
      BY <2>1, <3>1, <3>2 DEF IsEntry
    <3>4. <<y.kind, y.name, y.form>> = <<x.kind, x.name, x.form>>
      BY <3>1
    <3> QED
      BY <2>3, <3>3, <3>4 DEF y
  <2> QED
    BY <2>2, <2>3
<1> HIDE DEF new
<1>2. Tree(T)
  BY <1>1 DEF Tree
<1>3. PlaceMcp(e, S) = Place(e, T)
  BY DEF PlaceMcp, new
<1>4. \A x \in S : <<x.kind, x.name>> # <<"mcp", e.name>> => new(x) = x
  BY DEF new
<1>5. \A x \in S : <<x.kind, x.name>> # <<e.kind, e.name>> /\ new(x) = x => x \in Place(e, T)
  BY DEF Place
<1> QED
  BY <1>2, <1>3, <1>4, <1>5, PlaceTree

LEMMA SkillEntryIs ==
  ASSUME NEW s, s.name \in DOMAIN Slug, IsText(s.text),
         NEW files, files \subseteq {"SKILL.md", "support"}
  PROVE  IsEntry(SkillEntry(s, files))
<1>1. Slug[s.name] \in Name
  BY BuildConstants
<1> QED
  BY <1>1 DEF IsEntry, SkillEntry, AssetKind

LEMMA McpEntryIs ==
  ASSUME NEW c, c.form \in {"json", "yaml"}, IsText(c.text),
         NEW name \in {"repo-mcp", "cursor-mcp"}, NEW support \in {None, CursorOnly}
  PROVE  IsEntry(McpEntry(c, name, support)) /\ McpEntry(c, name, support).kind = "mcp"
<1>1. name \in Name
  BY SourceConstants
<1>2. support = None \/ PartialFn(support, Harness, SupportMode)
  BY DEF PartialFn, CursorOnly, SupportMode
<1> DEFINE e == McpEntry(c, name, support)
<1>3. e = [kind |-> "mcp", name |-> name, form |-> c.form, files |-> {}, id |-> None,
           support |-> support, blank |-> {}, text |-> c.text]
  BY DEF McpEntry
<1> HIDE DEF e
<1>4. IsEntry(e) /\ e.kind = "mcp"
  BY <1>1, <1>2, <1>3 DEF IsEntry, AssetKind
<1> QED
  BY <1>4 DEF e

(* A skill whose directory was removed is what was copied since.            *)
LEMMA CopySkillIs ==
  ASSUME NEW S, NEW s, NEW copied, NEW files,
         SkillThere(S, Slug[s.name]) = {SkillEntry(s, f) : f \in {copied} \ {{}}}
  PROVE  CopySkill(S, s, files) = Place(SkillEntry(s, copied \cup files), S)
<1> DEFINE there == SkillThere(S, Slug[s.name])
<1>1. CASE copied = {}
  <2>1. there = {}
    BY <1>1
  <2>2. copied \cup files = files
    BY <1>1
  <2> QED
    BY <2>1, <2>2 DEF CopySkill
<1>2. CASE copied # {}
  <2>1. there = {SkillEntry(s, copied)}
    BY <1>2
  <2>2. (CHOOSE e \in there : TRUE) = SkillEntry(s, copied)
    BY <2>1
  <2>3. [SkillEntry(s, copied) EXCEPT !.files = @ \cup files, !.text = s.text]
          = SkillEntry(s, copied \cup files)
    <3> DEFINE e == SkillEntry(s, copied)
               y == [e EXCEPT !.files = @ \cup files, !.text = s.text]
    <3>1. /\ DOMAIN e = {"kind", "name", "form", "files", "id", "support", "blank", "text"}
          /\ e.kind = "skill" /\ e.name = Slug[s.name] /\ e.form = "dir" /\ e.files = copied
          /\ e.id = None /\ e.support = None /\ e.blank = {} /\ e.text = s.text
      BY DEF SkillEntry
    <3> HIDE DEF e
    <3>2. /\ DOMAIN y = DOMAIN e /\ y = [x \in DOMAIN y |-> y[x]]
          /\ y.kind = e.kind /\ y.name = e.name /\ y.form = e.form /\ y.files = e.files \cup files
          /\ y.id = e.id /\ y.support = e.support /\ y.blank = e.blank /\ y.text = s.text
      BY <3>1
    <3> HIDE DEF y
    <3>3. y = [kind |-> y.kind, name |-> y.name, form |-> y.form, files |-> y.files,
               id |-> y.id, support |-> y.support, blank |-> y.blank, text |-> y.text]
      BY <3>1, <3>2
    <3>4. y = SkillEntry(s, copied \cup files)
      BY <3>1, <3>2, <3>3 DEF SkillEntry
    <3> QED
      BY <3>4 DEF y, e
  <2> HIDE DEF there
  <2>4. CopySkill(S, s, files)
          = Place([CHOOSE e \in there : TRUE EXCEPT !.files = @ \cup files, !.text = s.text], S)
    BY <2>1 DEF CopySkill, there
  <2> QED
    BY <2>2, <2>3, <2>4
<1> QED
  BY <1>1, <1>2

LEMMA PlacedSkill ==
  ASSUME NEW S, NEW s, NEW files
  PROVE  LET e == SkillEntry(s, files)
         IN /\ SkillThere(Place(e, S), Slug[s.name]) = {e}
            /\ \A x \in S : <<x.kind, x.name>> # <<"skill", Slug[s.name]>> => x \in Place(e, S)
BY DEF SkillThere, Place, SkillEntry

-----------------------------------------------------------------------------
(* A scan: the skills before the one it is at are as they are in the        *)
(* repository, that one is gone or as far as it was copied, and so are the  *)
(* configurations.                                                          *)

SkillsDone ==
  \A i \in DOMAIN repo.skills :
    LET s == repo.skills[i]
    IN /\ i < scan.next => SkillEntry(s, s.files) \in hub.entries
       /\ i = scan.next /\ scan.removed =>
            SkillThere(hub.entries, Slug[s.name]) = {SkillEntry(s, f) : f \in {scan.copied} \ {{}}}

ServersDone ==
  /\ scan.next > Len(repo.skills) + 1 /\ repo.root # None =>
       McpEntry(repo.root, "repo-mcp", None) \in hub.entries
  /\ scan.next > Len(repo.skills) + 2 /\ ImportsCursor(repo) =>
       McpEntry(repo.cursor, "cursor-mcp", CursorOnly) \in hub.entries

ScanInv ==
  scan # None =>
    /\ scan = [next |-> scan.next, removed |-> scan.removed, copied |-> scan.copied]
    /\ scan.next \in 1 .. Len(repo.skills) + 3 /\ scan.removed \in BOOLEAN
    /\ scan.removed => scan.next <= Len(repo.skills)
    /\ scan.copied \in {{}, {"SKILL.md"}} /\ (~scan.removed => scan.copied = {})
    /\ imported = None /\ Importable(repo)
    /\ SkillsDone /\ ServersDone

SourceInv == IsHub(hub) /\ repo \in Repos /\ ScanInv /\ ScannedWhole

LEMMA InitSource ==
  ASSUME Init
  PROVE  SourceInv
<1> DEFINE config == [targets |-> Harness, stable |-> {"pig"}, trace |-> FALSE, mcp |-> FALSE]
<1>1. hub = [entries |-> {}, plugins |-> [p \in {"pig"} |-> {}], version |-> FirstVersion,
             config |-> config]
  BY DEF Init
<1>2. config \in Configurations
  BY SourceConstants DEF Configurations, Harness
<1>3. PartialFn([p \in {"pig"} |-> {}], Plugin, SUBSET Ref)
  BY SourceConstants DEF PartialFn
<1> HIDE DEF config
<1>4. IsHub(hub)
  BY <1>1, <1>2, <1>3 DEF IsHub
<1> QED
  BY <1>4 DEF Init, SourceInv, ScanInv, ScannedWhole

LEMMA RepoIs ==
  ASSUME repo \in Repos
  PROVE  /\ Len(repo.skills) \in Nat /\ DOMAIN repo.skills = 1 .. Len(repo.skills)
         /\ \A i \in DOMAIN repo.skills :
              /\ repo.skills[i].name \in DOMAIN Slug /\ IsText(repo.skills[i].text)
              /\ repo.skills[i].files \subseteq {"SKILL.md", "support"}
         /\ \A c \in {repo.root, repo.cursor} \ {None} : c.form \in {"json", "yaml"} /\ IsText(c.text)
BY BuildConstants DEF IsRepo

(* Authors edit the hub, and what was scanned is not untouched any more.    *)
LEMMA EditSource ==
  ASSUME SourceInv, scan = None, scan' = None, repo' \in Repos, IsHub(hub'),
         imported' = None \/ (imported' = imported /\ hub'.entries = hub.entries
                               /\ hub'.plugins = hub.plugins)
  PROVE  SourceInv'
<1>1. ScanInv'
  BY DEF ScanInv
<1>2. ScannedWhole'
  BY DEF SourceInv, ScannedWhole
<1> QED
  BY <1>1, <1>2 DEF SourceInv

LEMMA HubExcept ==
  ASSUME NEW h, IsHub(h), NEW entries, Tree(entries),
         NEW plugins, PartialFn(plugins, Plugin, SUBSET Ref), NEW config \in Configurations,
         NEW g, g = [entries |-> entries, plugins |-> plugins, version |-> g.version,
                     config |-> config]
  PROVE  IsHub(g)
<1>1. g.entries = entries /\ g.plugins = plugins /\ g.config = config
  OBVIOUS
<1> QED
  BY <1>1, HubIs

LEMMA AuthorsSource ==
  ASSUME SourceInv,
         \/ \E d \in Drafts : AddDraft(d)
         \/ \E e \in hub.entries : RemoveEntry(e)
         \/ \E c \in Configs : Configure(c)
         \/ \E r \in Repos : ChangeRepo(r)
         \/ Upgrade \/ HandEdit \/ StartBuild
  PROVE  SourceInv'
<1>1. scan = None /\ scan' = None
  BY DEF AddDraft, RemoveEntry, Configure, ChangeRepo, Upgrade, HandEdit, StartBuild, Count, Idle
<1>2. IsHub(hub) /\ repo \in Repos
  BY DEF SourceInv
<1>3. /\ hub = [entries |-> hub.entries, plugins |-> hub.plugins, version |-> hub.version,
                config |-> hub.config]
      /\ Tree(hub.entries) /\ PartialFn(hub.plugins, Plugin, SUBSET Ref)
      /\ hub.config \in Configurations
  BY <1>2, HubIs
<1>4. ASSUME NEW d \in Drafts, AddDraft(d)
      PROVE  SourceInv'
  <2> DEFINE entries == Place(d.entry, hub.entries)
             plugins == [p \in DOMAIN hub.plugins \cup {d.plugin} |->
                           (IF p \in DOMAIN hub.plugins THEN hub.plugins[p] ELSE {})
                             \cup {<<d.entry.kind, Id(d.entry)>> : x \in {p} \cap {d.plugin}}]
             stable == hub.config.stable \cup {d.plugin}
             config == [hub.config EXCEPT !.stable = stable]
  <2>1. hub' = [hub EXCEPT !.entries = entries, !.plugins = plugins, !.config.stable = stable]
    BY <1>4 DEF AddDraft
  <2>2. hub' = [entries |-> entries, plugins |-> plugins, version |-> hub.version,
                config |-> config]
    BY <1>3, <2>1
  <2>3. IsEntry(d.entry) /\ d.plugin \in Plugin
    BY BuildConstants
  <2>4. Tree(entries)
    BY <1>3, <2>3, PlaceTree
  <2>5. <<d.entry.kind, Id(d.entry)>> \in Ref
    BY <2>3 DEF IsEntry, Id, Ref
  <2>6. PartialFn(plugins, Plugin, SUBSET Ref)
    BY <1>3, <2>3, <2>5 DEF PartialFn
  <2>7. config \in Configurations
    BY <1>3, <2>3 DEF Configurations
  <2> HIDE DEF entries, plugins, config
  <2>8. IsHub(hub')
    BY <1>2, <2>2, <2>4, <2>6, <2>7, HubExcept
  <2> QED
    BY <1>1, <1>2, <1>4, <2>8, EditSource DEF AddDraft, Edited
<1>5. ASSUME NEW e \in hub.entries, RemoveEntry(e)
      PROVE  SourceInv'
  <2> DEFINE entries == hub.entries \ {e}
             plugins == [p \in DOMAIN hub.plugins |-> hub.plugins[p] \ {<<e.kind, Id(e)>>}]
  <2>1. hub' = [hub EXCEPT !.entries = entries, !.plugins = plugins]
    BY <1>5 DEF RemoveEntry
  <2>2. hub' = [entries |-> entries, plugins |-> plugins, version |-> hub.version,
                config |-> hub.config]
    BY <1>3, <2>1
  <2>3. Tree(entries)
    BY <1>3 DEF Tree
  <2>4. PartialFn(plugins, Plugin, SUBSET Ref)
    BY <1>3 DEF PartialFn
  <2> HIDE DEF entries, plugins
  <2>5. IsHub(hub')
    BY <1>2, <1>3, <2>2, <2>3, <2>4, HubExcept
  <2> QED
    BY <1>1, <1>2, <1>5, <2>5, EditSource DEF RemoveEntry, Edited
<1>6. ASSUME NEW c \in Configs, Configure(c)
      PROVE  SourceInv'
  <2> DEFINE config == [c EXCEPT !.stable = hub.config.stable]
  <2>1. hub' = [hub EXCEPT !.config = config]
    BY <1>6 DEF Configure
  <2>2. hub' = [entries |-> hub.entries, plugins |-> hub.plugins, version |-> hub.version,
                config |-> config]
    BY <1>3, <2>1
  <2>3. config \in Configurations
    BY <1>3, BuildConstants DEF Configurations
  <2> HIDE DEF config
  <2>4. IsHub(hub')
    BY <1>2, <1>3, <2>2, <2>3, HubExcept
  <2> QED
    BY <1>1, <1>2, <1>6, <2>4, EditSource DEF Configure, Edited
<1>7. ASSUME \/ \E r \in Repos : ChangeRepo(r)
             \/ Upgrade \/ HandEdit \/ StartBuild
      PROVE  SourceInv'
  <2>1. hub' = hub /\ imported' = imported /\ repo' \in Repos
    BY <1>2, <1>7 DEF ChangeRepo, Upgrade, HandEdit, StartBuild
  <2> QED
    BY <1>1, <1>2, <2>1, EditSource
<1> QED
  BY <1>4, <1>5, <1>6, <1>7

(* A publication writes the version only; a build, generated files.         *)
LEMMA OthersSource ==
  ASSUME SourceInv, Publish \/ RemovePath \/ (\E t \in Harness : CopyPart(t)) \/ CopyPath \/ Crash
  PROVE  SourceInv'
<1>1. CASE Publish
  <2>1. scan = None /\ scan' = None /\ UNCHANGED <<repo, imported>>
    BY <1>1 DEF Publish, Count, Idle
  <2>2. PICK version : hub' = [hub EXCEPT !.version = version]
    BY <1>1 DEF Publish
  <2>3. /\ hub = [entries |-> hub.entries, plugins |-> hub.plugins, version |-> hub.version,
                  config |-> hub.config]
        /\ Tree(hub.entries) /\ PartialFn(hub.plugins, Plugin, SUBSET Ref)
        /\ hub.config \in Configurations
    BY HubIs DEF SourceInv
  <2>4. hub' = [entries |-> hub.entries, plugins |-> hub.plugins, version |-> version,
                config |-> hub.config]
    BY <2>2, <2>3
  <2>5. IsHub(hub')
    BY <2>3, <2>4, HubIs
  <2> QED
    BY <2>1, <2>4, <2>5, EditSource DEF SourceInv
<1>2. CASE RemovePath \/ (\E t \in Harness : CopyPart(t)) \/ CopyPath
  <2>1. UNCHANGED <<hub, repo, scan, imported>>
    BY <1>2 DEF RemovePath, CopyPart, CopyPath
  <2>2. SkillsDone' = SkillsDone /\ ServersDone' = ServersDone
    BY <2>1 DEF SkillsDone, ServersDone
  <2>3. ScanInv' = ScanInv
    BY <2>1, <2>2 DEF ScanInv
  <2> QED
    BY <2>1, <2>3 DEF SourceInv, ScannedWhole
<1>3. CASE Crash
  BY <1>3 DEF Crash, SourceInv, ScanInv, ScannedWhole
<1> QED
  BY <1>1, <1>2, <1>3

(* A scan starts with nothing done, of what may be imported.                *)
LEMMA StartScanSource ==
  ASSUME SourceInv, StartScan
  PROVE  SourceInv'
<1>1. /\ scan' = [next |-> 1, removed |-> FALSE, copied |-> {}] /\ imported' = None
      /\ Importable(repo) /\ UNCHANGED <<hub, repo>> /\ repo \in Repos
  BY DEF StartScan, Edited, SourceInv
<1>2. Len(repo.skills) \in Nat /\ DOMAIN repo.skills = 1 .. Len(repo.skills)
  BY <1>1, RepoIs
<1>3. scan'.next = 1 /\ scan'.removed = FALSE /\ scan'.copied = {}
  BY <1>1
<1>4. SkillsDone' /\ ServersDone'
  BY <1>1, <1>2, <1>3 DEF SkillsDone, ServersDone
<1>5. ScanInv'
  BY <1>1, <1>2, <1>3, <1>4 DEF ScanInv
<1> QED
  BY <1>1, <1>5 DEF SourceInv, ScannedWhole

(* The entries change as a step of the scan says.                           *)
LEMMA ScanEntries ==
  ASSUME SourceInv, scan # None, NEW entries, Tree(entries),
         hub' = [hub EXCEPT !.entries = entries], UNCHANGED <<repo, imported>>,
         ScanInv'
  PROVE  SourceInv'
<1>1. IsHub(hub) /\ imported = None
  BY DEF SourceInv, ScanInv
<1>2. hub' = [entries |-> entries, plugins |-> hub.plugins, version |-> hub.version,
              config |-> hub.config]
  BY <1>1, HubIs
<1>3. IsHub(hub')
  BY <1>1, <1>2, HubIs
<1> QED
  BY <1>1, <1>3 DEF SourceInv, ScannedWhole

(* What a scan knows between its steps.                                     *)
LEMMA ScanIs ==
  ASSUME SourceInv, scan # None
  PROVE  /\ IsHub(hub) /\ Tree(hub.entries) /\ repo \in Repos /\ Importable(repo)
         /\ Len(repo.skills) \in Nat /\ DOMAIN repo.skills = 1 .. Len(repo.skills)
         /\ scan = [next |-> scan.next, removed |-> scan.removed, copied |-> scan.copied]
         /\ scan.next \in 1 .. Len(repo.skills) + 3 /\ scan.removed \in BOOLEAN
         /\ scan.copied \in {{}, {"SKILL.md"}} /\ (~scan.removed => scan.copied = {})
         /\ imported = None /\ SkillsDone /\ ServersDone
<1>1. IsHub(hub) /\ repo \in Repos /\ ScanInv
  BY DEF SourceInv
<1> QED
  BY <1>1, HubIs, RepoIs DEF ScanInv

LEMMA RemoveSkillSource ==
  ASSUME SourceInv, RemoveSkill
  PROVE  SourceInv'
<1> DEFINE n == scan.next
           id == Slug[repo.skills[n].name]
           entries == Cleared(hub.entries, id)
<1>1. /\ scan # None /\ ~scan.removed /\ n <= Len(repo.skills)
      /\ hub' = [hub EXCEPT !.entries = entries] /\ scan' = [scan EXCEPT !.removed = TRUE]
      /\ UNCHANGED <<repo, imported>>
  BY DEF RemoveSkill
<1>2. scan' = [next |-> n, removed |-> TRUE, copied |-> {}]
  BY <1>1, ScanIs
<1>3. Tree(entries)
  BY <1>1, ScanIs DEF Tree, Cleared
<1>4. hub'.entries = entries
  <2>1. "entries" \in DOMAIN hub
    BY <1>1, ScanIs, HubIs
  <2> QED
    BY <1>1, <2>1
<1>5. SkillsDone'
  <2> SUFFICES ASSUME NEW i \in DOMAIN repo.skills
               PROVE  LET s == repo.skills[i]
                      IN /\ i < n => SkillEntry(s, s.files) \in entries
                         /\ i = n => SkillThere(entries, Slug[s.name]) = {}
    BY <1>1, <1>2, <1>4 DEF SkillsDone
  <2>1. CASE i < n
    <3>1. SkillEntry(repo.skills[i], repo.skills[i].files) \in hub.entries
      BY <1>1, <2>1, ScanIs DEF SkillsDone
    <3>2. n \in DOMAIN repo.skills /\ i # n
      BY <1>1, <2>1, ScanIs
    <3>3. Slug[repo.skills[i].name] # id
      BY <1>1, <3>2, ScanIs DEF Importable
    <3> QED
      BY <2>1, <3>1, <3>3 DEF Cleared, SkillEntry
  <2>2. CASE i = n
    <3>1. SkillThere(Cleared(hub.entries, id), id) = {}
      BY DEF Cleared, SkillThere
    <3>2. Slug[repo.skills[i].name] = id
      BY <2>2
    <3>3. ~(i < n)
      <4>1. n \in Int
        BY <1>1, ScanIs
      <4> QED
        BY <2>2, <4>1
    <3> HIDE DEF id
    <3> QED
      BY <3>1, <3>2, <3>3
  <2>3. CASE ~(i < n) /\ i # n
    BY <2>3
  <2> QED
    BY <2>1, <2>2, <2>3
<1>6. ServersDone'
  BY <1>1, <1>2, <1>4, ScanIs DEF ServersDone, Cleared, McpEntry
<1>7. ScanInv'
  BY <1>1, <1>2, <1>5, <1>6, ScanIs DEF ScanInv
<1> QED
  BY <1>1, <1>3, <1>7, ScanEntries

LEMMA CopySkillSource ==
  ASSUME SourceInv, CopySkillFile
  PROVE  SourceInv'
<1> DEFINE n == scan.next
           s == repo.skills[n]
           files == IF scan.copied = {} THEN {"SKILL.md"} ELSE s.files
           e == SkillEntry(s, files)
           entries == Place(e, hub.entries)
<1>1. /\ scan # None /\ scan.removed /\ UNCHANGED <<repo, imported>>
      /\ hub' = [hub EXCEPT !.entries = CopySkill(hub.entries, s, files)]
      /\ scan' = IF files = s.files THEN [next |-> n + 1, removed |-> FALSE, copied |-> {}]
                 ELSE [scan EXCEPT !.copied = files]
  BY DEF CopySkillFile
<1>2. n \in DOMAIN repo.skills /\ n \in Nat
  BY <1>1, ScanIs DEF SourceInv, ScanInv
<1>3. /\ s.name \in DOMAIN Slug /\ IsText(s.text) /\ s.files \subseteq {"SKILL.md", "support"}
      /\ "SKILL.md" \in s.files
  BY <1>1, <1>2, ScanIs, RepoIs DEF Importable
<1>4. scan.copied \cup files = files /\ files \subseteq {"SKILL.md", "support"} /\ files # {}
  BY <1>1, <1>3, ScanIs
<1>5. CopySkill(hub.entries, s, files) = entries
  <2>1. SkillThere(hub.entries, Slug[s.name]) = {SkillEntry(s, f) : f \in {scan.copied} \ {{}}}
    BY <1>1, <1>2, ScanIs DEF SkillsDone
  <2> HIDE DEF s, files
  <2>2. CopySkill(hub.entries, s, files) = Place(SkillEntry(s, scan.copied \cup files), hub.entries)
    BY <2>1, CopySkillIs
  <2> QED
    BY <1>4, <2>2
<1>6. Tree(entries) /\ e \in entries
  BY <1>1, <1>3, <1>4, ScanIs, SkillEntryIs, PlaceTree
<1>7. hub'.entries = entries
  <2>1. "entries" \in DOMAIN hub
    BY <1>1, ScanIs, HubIs
  <2> QED
    BY <1>1, <1>5, <2>1
<1>8. /\ SkillThere(entries, Slug[s.name]) = {e}
      /\ \A x \in hub.entries : <<x.kind, x.name>> # <<"skill", Slug[s.name]>> => x \in entries
  <2> HIDE DEF s, files
  <2> QED
    BY PlacedSkill
<1>9. \A i \in DOMAIN repo.skills :
        i < n => SkillEntry(repo.skills[i], repo.skills[i].files) \in entries
  <2> SUFFICES ASSUME NEW i \in DOMAIN repo.skills, i < n
               PROVE  SkillEntry(repo.skills[i], repo.skills[i].files) \in entries
    OBVIOUS
  <2>1. SkillEntry(repo.skills[i], repo.skills[i].files) \in hub.entries
    BY <1>1, ScanIs DEF SkillsDone
  <2>2. Slug[repo.skills[i].name] # Slug[s.name]
    BY <1>1, <1>2, ScanIs DEF Importable
  <2> QED
    BY <1>8, <2>1, <2>2 DEF SkillEntry
<1>10. \A x \in hub.entries : x.kind = "mcp" => x \in entries
  BY <1>8
<1>11. ASSUME scan'.next > Len(repo.skills) + 1
       PROVE  n > Len(repo.skills)
  <2>1. scan'.next \in {n, n + 1}
    BY <1>1, ScanIs
  <2> QED
    BY <1>1, <1>2, <1>11, <2>1, ScanIs
<1>12. ServersDone'
  <2>1. ~(scan'.next > Len(repo.skills) + 1)
    BY <1>1, <1>2, <1>11, ScanIs
  <2>2. scan'.next \in Nat
    BY <1>1, <1>2, ScanIs
  <2> QED
    BY <1>1, <2>1, <2>2, ScanIs DEF ServersDone
<1>13. ScanInv' /\ SkillsDone'
  <2>1. CASE files = s.files
    <3>1. scan' = [next |-> n + 1, removed |-> FALSE, copied |-> {}]
      BY <1>1, <2>1
    <3>2. SkillsDone'
      <4> SUFFICES ASSUME NEW i \in DOMAIN repo.skills, i < n + 1
                   PROVE  SkillEntry(repo.skills[i], repo.skills[i].files) \in entries
        BY <1>1, <1>7, <3>1 DEF SkillsDone
      <4>1. i < n \/ i = n
        BY <1>1, <1>2, ScanIs
      <4> QED
        BY <1>6, <1>9, <2>1, <4>1
    <3>3. n + 1 \in 1 .. Len(repo.skills) + 3
      BY <1>1, <1>2, ScanIs
    <3>4. scan'.next = n + 1 /\ scan'.removed = FALSE /\ scan'.copied = {}
      BY <3>1
    <3>5. imported' = None /\ repo' = repo /\ Importable(repo)
      BY <1>1, ScanIs
    <3> QED
      BY <1>12, <3>1, <3>2, <3>3, <3>4, <3>5 DEF ScanInv
  <2>2. CASE files # s.files
    <3>1. files = {"SKILL.md"} /\ scan' = [next |-> n, removed |-> TRUE, copied |-> files]
      BY <1>1, <2>2, ScanIs
    <3>2. SkillsDone'
      <4> SUFFICES ASSUME NEW i \in DOMAIN repo.skills
                   PROVE  LET r == repo.skills[i]
                          IN /\ i < n => SkillEntry(r, r.files) \in entries
                             /\ i = n => SkillThere(entries, Slug[r.name])
                                           = {SkillEntry(r, f) : f \in {files} \ {{}}}
        BY <1>1, <1>7, <3>1 DEF SkillsDone
      <4>1. {SkillEntry(s, f) : f \in {files} \ {{}}} = {e}
        BY <1>4
      <4> QED
        BY <1>8, <1>9, <4>1
    <3>3. scan'.next = n /\ scan'.removed = TRUE /\ scan'.copied = {"SKILL.md"}
      BY <3>1
    <3>4. imported' = None /\ repo' = repo /\ Importable(repo)
      BY <1>1, ScanIs
    <3>5. n \in 1 .. Len(repo.skills) + 3 /\ n <= Len(repo.skills)
      BY <1>1, <1>2, ScanIs
    <3> QED
      BY <1>12, <3>1, <3>2, <3>3, <3>4, <3>5 DEF ScanInv
  <2> QED
    BY <2>1, <2>2
<1> QED
  BY <1>1, <1>5, <1>6, <1>13, ScanEntries

(* Configurations replace only their own files, after the skills.           *)
Imported(step, config, name, support, wanted) ==
  \/ /\ step = 1 /\ config = repo.root /\ name = "repo-mcp" /\ support = None
     /\ (wanted <=> repo.root # None)
  \/ /\ step = 2 /\ config = repo.cursor /\ name = "cursor-mcp" /\ support = CursorOnly
     /\ (wanted <=> ImportsCursor(repo))

LEMMA ConfigSource ==
  ASSUME SourceInv, NEW step, NEW config, NEW name, NEW support, NEW wanted \in BOOLEAN,
         Imported(step, config, name, support, wanted),
         ImportConfig(step, config, name, support, wanted),
         ~(config # None /\ config.text.link)
  PROVE  SourceInv'
<1>0. /\ step \in {1, 2} /\ config \in {repo.root, repo.cursor}
      /\ name \in {"repo-mcp", "cursor-mcp"} /\ support \in {None, CursorOnly}
      /\ wanted => config # None
  BY DEF Imported, ImportsCursor
<1> DEFINE n == scan.next
           e == McpEntry(config, name, support)
           entries == IF wanted THEN PlaceMcp(e, hub.entries) ELSE hub.entries
<1>1. /\ scan # None /\ n = Len(repo.skills) + step /\ UNCHANGED <<repo, imported>>
      /\ scan' = [scan EXCEPT !.next = @ + 1]
      /\ hub' = IF ~wanted THEN hub ELSE [hub EXCEPT !.entries = PlaceMcp(e, hub.entries)]
  BY DEF ImportConfig
<1>2. hub' = [hub EXCEPT !.entries = entries] /\ hub'.entries = entries
  <2>1. hub = [entries |-> hub.entries, plugins |-> hub.plugins, version |-> hub.version,
               config |-> hub.config]
    BY <1>1, ScanIs, HubIs
  <2> HIDE DEF e
  <2> QED
    BY <1>1, <2>1
<1>3. wanted => IsEntry(e) /\ e.kind = "mcp" /\ e.name = name
  <2>1. wanted => config.form \in {"json", "yaml"} /\ IsText(config.text)
    BY <1>0, <1>1, ScanIs, RepoIs
  <2>2. e.name = name
    BY DEF McpEntry
  <2>3. wanted => IsEntry(e) /\ e.kind = "mcp"
    BY <1>0, <2>1, McpEntryIs
  <2> HIDE DEF e
  <2> QED
    BY <2>2, <2>3
<1> HIDE DEF e
<1>4. /\ Tree(entries) /\ (wanted => e \in entries)
      /\ \A x \in hub.entries : <<x.kind, x.name>> # <<"mcp", name>> => x \in entries
  <2>1. CASE wanted
    BY <1>1, <1>3, <2>1, ScanIs, PlaceMcpTree
  <2>2. CASE ~wanted
    BY <1>1, <2>2, ScanIs
  <2> QED
    BY <2>1, <2>2
<1>5. ~wanted => entries = hub.entries
  OBVIOUS
<1> HIDE DEF entries
<1>6. /\ step = 1 /\ repo.root # None => McpEntry(repo.root, "repo-mcp", None) \in entries
      /\ step = 2 /\ repo.root # None => McpEntry(repo.root, "repo-mcp", None) \in entries
      /\ step = 2 /\ ImportsCursor(repo) => McpEntry(repo.cursor, "cursor-mcp", CursorOnly) \in entries
  <2>1. ASSUME step = 1, repo.root # None
        PROVE  McpEntry(repo.root, "repo-mcp", None) \in entries
    <3>1. wanted /\ e = McpEntry(repo.root, "repo-mcp", None)
      BY <2>1 DEF Imported, e
    <3> QED
      BY <1>4, <3>1
  <2>2. ASSUME step = 2, ImportsCursor(repo)
        PROVE  McpEntry(repo.cursor, "cursor-mcp", CursorOnly) \in entries
    <3>1. wanted /\ e = McpEntry(repo.cursor, "cursor-mcp", CursorOnly)
      BY <2>2 DEF Imported, e
    <3> QED
      BY <1>4, <3>1
  <2>3. ASSUME step = 2, repo.root # None
        PROVE  McpEntry(repo.root, "repo-mcp", None) \in entries
    <3> DEFINE r == McpEntry(repo.root, "repo-mcp", None)
    <3>1. name = "cursor-mcp"
      BY <2>3 DEF Imported
    <3>2. r.name = "repo-mcp"
      BY DEF McpEntry
    <3>3. n > Len(repo.skills) + 1
      BY <1>1, <2>3, ScanIs
    <3>4. r \in hub.entries
      BY <1>1, <2>3, <3>3, ScanIs DEF ServersDone
    <3> HIDE DEF r
    <3>5. r \in entries
      BY <1>4, <3>1, <3>2, <3>4
    <3> QED
      BY <3>5 DEF r
  <2> QED
    BY <2>1, <2>2, <2>3
<1>7. scan' = [next |-> n + 1, removed |-> FALSE, copied |-> {}]
  <2>1. scan.removed = FALSE
    BY <1>0, <1>1, ScanIs DEF SourceInv, ScanInv
  <2> QED
    BY <1>1, <2>1, ScanIs
<1>8. /\ scan'.next = Len(repo.skills) + step + 1 /\ scan'.removed = FALSE /\ scan'.copied = {}
      /\ Len(repo.skills) \in Nat /\ DOMAIN repo.skills = 1 .. Len(repo.skills)
      /\ step \in {1, 2}
  BY <1>0, <1>1, <1>7, ScanIs
<1>9. SkillsDone'
  <2> SUFFICES ASSUME NEW i \in DOMAIN repo.skills
               PROVE  SkillEntry(repo.skills[i], repo.skills[i].files) \in entries
    BY <1>1, <1>2, <1>8 DEF SkillsDone
  <2>1. i < n
    BY <1>1, <1>8
  <2>2. SkillEntry(repo.skills[i], repo.skills[i].files) \in hub.entries
    BY <1>1, <2>1, ScanIs DEF SkillsDone
  <2> QED
    BY <1>4, <2>2 DEF SkillEntry
<1>10. ServersDone'
  <2>1. CASE step = 1
    BY <1>1, <1>2, <1>6, <1>8, <2>1 DEF ServersDone
  <2>2. CASE step = 2
    BY <1>1, <1>2, <1>6, <1>8, <2>2 DEF ServersDone
  <2> QED
    BY <1>0, <2>1, <2>2
<1>11. ScanInv'
  <2>1. scan'.next \in 1 .. Len(repo.skills) + 3
    BY <1>8
  <2>2. imported' = None /\ repo' = repo /\ Importable(repo)
    BY <1>1, ScanIs
  <2> QED
    BY <1>7, <1>8, <1>9, <1>10, <2>1, <2>2 DEF ScanInv
<1> QED
  BY <1>1, <1>2, <1>4, <1>11, ScanEntries

LEMMA ImportSource ==
  ASSUME SourceInv, ImportRoot \/ ImportCursor
  PROVE  SourceInv'
<1> SUFFICES ASSUME NEW step, NEW config, NEW name, NEW support, NEW wanted \in BOOLEAN,
                    Imported(step, config, name, support, wanted),
                    ImportConfig(step, config, name, support, wanted)
             PROVE  SourceInv'
  <2>1. CASE ImportRoot
    <3>1. Imported(1, repo.root, "repo-mcp", None, repo.root # None)
      BY DEF Imported
    <3>2. (repo.root # None) \in BOOLEAN
      OBVIOUS
    <3> QED
      BY <2>1, <3>1, <3>2 DEF ImportRoot
  <2>2. CASE ImportCursor
    <3>1. Imported(2, repo.cursor, "cursor-mcp", CursorOnly, ImportsCursor(repo))
      BY DEF Imported
    <3>2. ImportsCursor(repo) \in BOOLEAN
      BY DEF ImportsCursor
    <3> QED
      BY <2>2, <3>1, <3>2 DEF ImportCursor
  <2> QED
    BY <2>1, <2>2
<1>1. CASE config # None /\ config.text.link
  <2>1. scan # None /\ scan' = None /\ UNCHANGED <<hub, repo, imported>>
    BY <1>1 DEF ImportConfig
  <2>2. imported = None /\ IsHub(hub) /\ repo \in Repos
    BY <2>1, ScanIs
  <2> QED
    BY <2>1, <2>2 DEF SourceInv, ScanInv, ScannedWhole
<1> QED
  BY <1>1, ConfigSource

(* What the configuration of Cursor defines is there under its own name, or *)
(* it is what the configuration of the root says.                           *)
LEMMA CursorServers ==
  ASSUME SourceInv, scan # None, scan.next = Len(repo.skills) + 3, repo.cursor # None,
         NEW s \in DOMAIN repo.cursor.text.servers
  PROVE  \E e \in hub.entries :
           /\ e.kind = "mcp" /\ <<"mcp", Id(e)>> \in ImportedRefs(repo)
           /\ Support(e)["cursor"] = "native" /\ s \in DOMAIN e.text.servers
           /\ e.text.servers[s] = repo.cursor.text.servers[s]
<1>1. Len(repo.skills) \in Nat /\ ServersDone
  BY ScanIs
<1>2. CASE ImportsCursor(repo)
  <2> DEFINE e == McpEntry(repo.cursor, "cursor-mcp", CursorOnly)
  <2>1. e \in hub.entries
    BY <1>1, <1>2 DEF ServersDone
  <2>2. Id(e) = "cursor-mcp" /\ e.kind = "mcp" /\ e.text = repo.cursor.text
    BY DEF McpEntry, Id
  <2>3. Support(e)["cursor"] = "native"
    BY DEF McpEntry, Support, DefaultSupport, CursorOnly, Harness
  <2>4. <<"mcp", "cursor-mcp">> \in ImportedRefs(repo)
    BY <1>2 DEF ImportedRefs
  <2> HIDE DEF e
  <2> QED
    BY <2>1, <2>2, <2>3, <2>4
<1>3. CASE ~ImportsCursor(repo)
  <2> DEFINE e == McpEntry(repo.root, "repo-mcp", None)
  <2>1. /\ repo.root # None /\ s \in DOMAIN repo.root.text.servers
        /\ repo.root.text.servers[s] = repo.cursor.text.servers[s]
    BY <1>3 DEF ImportsCursor
  <2>2. e \in hub.entries
    BY <1>1, <2>1 DEF ServersDone
  <2>3. Id(e) = "repo-mcp" /\ e.kind = "mcp" /\ e.text = repo.root.text
    BY DEF McpEntry, Id
  <2>4. Support(e)["cursor"] = "native"
    BY DEF McpEntry, Support, DefaultSupport, Harness
  <2>5. <<"mcp", "repo-mcp">> \in ImportedRefs(repo)
    BY <2>1 DEF ImportedRefs
  <2> HIDE DEF e
  <2> QED
    BY <2>1, <2>2, <2>3, <2>4, <2>5
<1> QED
  BY <1>2, <1>3

LEMMA UpdateSource ==
  ASSUME SourceInv, UpdatePlugin
  PROVE  SourceInv'
<1> DEFINE plugins == [p \in DOMAIN hub.plugins \cup {"pig"} |->
                         (IF p \in DOMAIN hub.plugins THEN hub.plugins[p] ELSE {})
                           \cup IF p = "pig" THEN ImportedRefs(repo) ELSE {}]
<1>1. /\ scan # None /\ scan.next = Len(repo.skills) + 3 /\ scan' = None /\ imported' = repo
      /\ repo' = repo /\ hub' = [hub EXCEPT !.plugins = plugins]
  BY DEF UpdatePlugin
<1>2. /\ hub = [entries |-> hub.entries, plugins |-> hub.plugins, version |-> hub.version,
                config |-> hub.config]
      /\ Tree(hub.entries) /\ PartialFn(hub.plugins, Plugin, SUBSET Ref)
      /\ hub.config \in Configurations /\ repo \in Repos
      /\ Len(repo.skills) \in Nat /\ DOMAIN repo.skills = 1 .. Len(repo.skills)
  BY <1>1, ScanIs, HubIs
<1>3. ImportedRefs(repo) \subseteq Ref
  <2>1. \A i \in DOMAIN repo.skills : Slug[repo.skills[i].name] \in Name
    BY <1>2, RepoIs, BuildConstants
  <2>2. "repo-mcp" \in Name /\ "cursor-mcp" \in Name
    BY SourceConstants
  <2> QED
    BY <2>1, <2>2 DEF ImportedRefs, Ref, AssetKind
<1>4. PartialFn(plugins, Plugin, SUBSET Ref)
  <2>1. "pig" \in Plugin
    BY SourceConstants
  <2> QED
    BY <1>2, <1>3, <2>1 DEF PartialFn
<1>5. ImportedRefs(repo) \subseteq plugins["pig"]
  OBVIOUS
<1> HIDE DEF plugins
<1>6. hub' = [entries |-> hub.entries, plugins |-> plugins, version |-> hub.version,
              config |-> hub.config]
  BY <1>1, <1>2
<1>7. IsHub(hub') /\ hub'.entries = hub.entries /\ hub'.plugins = plugins
  BY <1>2, <1>4, <1>6, HubIs
<1>8. \A i \in DOMAIN repo.skills :
        SkillEntry(repo.skills[i], repo.skills[i].files) \in hub.entries
  BY <1>1, <1>2, ScanIs DEF SkillsDone
<1>9. ScannedWhole'
  BY <1>1, <1>5, <1>7, <1>8, CursorServers DEF ScannedWhole
<1> QED
  BY <1>1, <1>2, <1>7, <1>9 DEF SourceInv, ScanInv

LEMMA StepSource ==
  ASSUME SourceInv, [Next]_vars
  PROVE  SourceInv'
<1>1. CASE UNCHANGED vars
  <2>1. UNCHANGED <<hub, repo, scan, imported>>
    BY <1>1 DEF vars
  <2>2. SkillsDone' = SkillsDone /\ ServersDone' = ServersDone
    BY <2>1 DEF SkillsDone, ServersDone
  <2>3. ScanInv' = ScanInv
    BY <2>1, <2>2 DEF ScanInv
  <2> QED
    BY <2>1, <2>3 DEF SourceInv, ScannedWhole
<1>2. CASE Next
  BY <1>2, AuthorsSource, OthersSource, StartScanSource, RemoveSkillSource, CopySkillSource,
     ImportSource, UpdateSource
     DEF Next
<1> QED
  BY <1>1, <1>2

(* The source of a hub is a tree that the program reads, and a scan that    *)
(* ended left everything of the repository in it (scan/hub.py:71), for any  *)
(* repository, whatever crashed scans and authors had left.                 *)
THEOREM ScansAreWhole == Spec => []ScannedWhole
<1>1. Init => SourceInv
  BY InitSource
<1>2. SourceInv /\ [Next]_vars => SourceInv'
  BY StepSource
<1>3. SourceInv => ScannedWhole
  BY DEF SourceInv
<1> QED
  BY <1>1, <1>2, <1>3, PTL DEF Spec
-----------------------------------------------------------------------------
(* What a valid hub's plugins consist of: no two assets write one file that *)
(* is invoked, and it is invoked under the name that validation compared.   *)

IsAsset(a) ==
  /\ a.ref = <<a.kind, a.id>> /\ a.kind \in AssetKind /\ {a.id, a.name} \subseteq Name
  /\ DOMAIN a.support = Harness /\ ModesAllowed(a) /\ ReasonsGiven(a)
  /\ a.kind = "skill" => a.form = "dir"
  /\ a.text.name # None => a.text.frontmatter

LEMMA AssetsAre ==
  ASSUME NEW h, IsHub(h), Valid(h)
  PROVE  /\ \A a \in Assets(h) : IsAsset(a)
         /\ \A a, b \in Assets(h) :
              a.ref = b.ref \/ <<a.kind, a.name, a.form>> = <<b.kind, b.name, b.form>> => a = b
<1>1. ASSUME NEW e \in Files(h)
      PROVE  /\ e \in h.entries /\ IsEntry(e) /\ Recognised(h, e)
             /\ Asset(e).ref = <<e.kind, Id(e)>> /\ Asset(e).kind = e.kind /\ Asset(e).id = Id(e)
             /\ Asset(e).name = e.name /\ Asset(e).form = e.form /\ Asset(e).text = e.text
             /\ Asset(e).support = Support(e)
  BY DEF Files, IsHub, Valid, Loads, Asset
<1>2. ASSUME NEW e \in Files(h)
      PROVE  IsAsset(Asset(e))
  <2> DEFINE a == Asset(e)
  <2>1. a.kind \in AssetKind /\ a.name \in Name /\ (a.text.name # None => a.text.frontmatter)
    BY <1>1 DEF IsEntry, IsText
  <2>2. a.id \in Name
    BY <1>1 DEF IsEntry, Id
  <2>3. DOMAIN Support(e) = Harness
    BY DEF Support, DefaultSupport
  <2>4. ModesAllowed(a) /\ ReasonsGiven(a)
    BY DEF Valid, Assets
  <2>5. a.kind = "skill" => a.form = "dir"
    BY <1>1 DEF Recognised
  <2> HIDE DEF a
  <2>6. a.ref = <<a.kind, a.id>> /\ DOMAIN a.support = Harness
    BY <1>1, <2>3 DEF a
  <2> QED
    BY <2>1, <2>2, <2>4, <2>5, <2>6 DEF IsAsset, a
<1>3. ASSUME NEW e \in Files(h), NEW f \in Files(h),
             \/ Asset(e).ref = Asset(f).ref
             \/ <<Asset(e).kind, Asset(e).name, Asset(e).form>>
                  = <<Asset(f).kind, Asset(f).name, Asset(f).form>>
      PROVE  e = f
  <2>1. CASE Asset(e).ref = Asset(f).ref
    <3>1. e.kind = f.kind /\ Id(e) = Id(f)
      BY <1>1, <2>1
    <3> QED
      BY <3>1 DEF Valid, Loads
  <2>2. CASE <<Asset(e).kind, Asset(e).name, Asset(e).form>>
               = <<Asset(f).kind, Asset(f).name, Asset(f).form>>
    <3>1. <<e.kind, e.name, e.form>> = <<f.kind, f.name, f.form>>
      BY <1>1, <2>2
    <3> QED
      BY <1>1, <3>1 DEF IsHub
  <2> QED
    BY <1>3, <2>1, <2>2
<1> QED
  BY <1>2, <1>3 DEF Assets

(* Which way each kind of asset is delivered.                               *)
LEMMA ModesAre ==
  ASSUME NEW a, IsAsset(a), NEW t \in Harness
  PROVE  /\ a.kind = "skill" => a.support[t] \in {"agent-skill", "native", "projected", "unsupported"}
         /\ a.kind = "rule" => a.support[t] \in {"native", "projected", "unsupported"}
         /\ a.kind = "agent" => a.support[t] \in {"agent-skill", "native", "projected", "unsupported"}
         /\ a.kind = "command" => a.support[t] \in {"native", "verbatim", "projected", "unsupported"}
         /\ a.kind = "hook" => a.support[t] \in {"native", "projected", "unsupported"}
         /\ a.kind = "mcp" => a.support[t] \in {"native", "unsupported"}
BY DEF IsAsset, ModesAllowed, AllowedModes

LEMMA WrittenIs ==
  ASSUME NEW a, IsAsset(a), NEW t \in Harness, NEW path \in Destination(a, t)
  PROVE  /\ Destination(a, t) = {path}
         /\ path[1] \in {"skills", "commands"} =>
              /\ <<path[1], path[2]>> \in Invoked(a, t) /\ path[2] \in Name
              /\ a.support[t] = "agent-skill" => path[2] = a.id
              /\ a.kind = "command" /\ a.support[t] = "native" => path[2] = a.id
              /\ ~AsRule(a, t)
         /\ path[1] = "agents" => a.kind = "agent" /\ path[2] = a.name /\ path[3] = a.form
<1>1. a.kind \in {"skill", "rule", "agent", "command", "hook", "mcp"} /\ a.id \in Name /\ a.name \in Name
  BY DEF IsAsset, AssetKind
<1>2. a.kind # "mcp" /\ a.support[t] # "unsupported"
  BY DEF Destination
<1>3. CASE NativeHook(a, t)
  <2>1. Destination(a, t) = {<<"hooks", IF a.form = "dir" THEN a.id ELSE a.name, a.form>>}
    BY <1>2, <1>3 DEF Destination, NativeHook, AsRule
  <2> QED
    BY <2>1
<1>4. CASE ~NativeHook(a, t) /\ a.kind = "command" /\ a.support[t] = "native"
  <2>1. Destination(a, t) = {IF t = "gemini" THEN <<"commands", a.id, "toml">> ELSE <<"skills", a.id, "dir">>}
    BY <1>2, <1>4 DEF Destination, NativeHook, AsRule
  <2>2. Invoked(a, t) = {<<IF t = "gemini" THEN "commands" ELSE "skills", a.id>>}
    BY <1>4 DEF Invoked
  <2>3. ~AsRule(a, t)
    BY <1>4 DEF AsRule
  <2> QED
    BY <1>1, <1>4, <2>1, <2>2, <2>3
<1>5. CASE a.support[t] = "agent-skill"
  <2>1. Destination(a, t) = {<<"skills", a.id, "dir">>}
    BY <1>2, <1>5 DEF Destination, NativeHook, AsRule
  <2>2. Invoked(a, t) = {<<"skills", a.id>>}
    BY <1>5 DEF Invoked
  <2>3. ~AsRule(a, t)
    BY <1>5 DEF AsRule
  <2> QED
    BY <1>1, <1>5, <2>1, <2>2, <2>3
<1>6. CASE AsRule(a, t)
  <2>1. Destination(a, t) = {<<"rules", a.id, "mdc">>}
    BY <1>2, <1>6 DEF Destination, NativeHook, AsRule
  <2> QED
    BY <2>1
<1>7. CASE /\ ~NativeHook(a, t) /\ ~(a.kind = "command" /\ a.support[t] = "native")
           /\ ~AsRule(a, t) /\ a.support[t] \in {"native", "verbatim"}
  <2>1. Destination(a, t) = {<<Directory(a.kind), a.name, a.form>>}
    BY <1>2, <1>7 DEF Destination
  <2>2. CASE a.kind = "skill"
    <3>1. Invoked(a, t) = {<<"skills", a.name>>} /\ a.support[t] = "native"
      BY <1>7, <2>2, ModesAre DEF Invoked, AsRule
    <3>2. Directory(a.kind) = "skills"
      BY <2>2 DEF Directory
    <3> QED
      BY <1>1, <1>7, <2>1, <2>2, <3>1, <3>2
  <2>3. CASE a.kind = "command"
    <3>1. Invoked(a, t) = {<<"commands", a.name>>} /\ a.support[t] = "verbatim"
      BY <1>7, <2>3 DEF Invoked
    <3>2. Directory(a.kind) = "commands"
      BY <2>3 DEF Directory
    <3> QED
      BY <1>1, <1>7, <2>1, <2>3, <3>1, <3>2
  <2>4. CASE a.kind \in {"rule", "agent", "hook"}
    <3>1. /\ Directory(a.kind) \in {"rules", "agents", "hooks"}
          /\ Directory(a.kind) = "agents" => a.kind = "agent"
      BY <2>4 DEF Directory
    <3> QED
      BY <2>1, <3>1
  <2> QED
    BY <1>1, <1>2, <2>2, <2>3, <2>4
<1>8. CASE /\ ~NativeHook(a, t) /\ ~AsRule(a, t)
           /\ a.support[t] \notin {"native", "verbatim", "agent-skill"}
  <2>1. Destination(a, t) = {<<"projected", a.id, "md">>}
    BY <1>2, <1>8 DEF Destination
  <2> QED
    BY <2>1
<1> QED
  BY <1>2, <1>3, <1>4, <1>5, <1>6, <1>7, <1>8

LEMMA SkillIs ==
  ASSUME NEW a, IsAsset(a), NEW t \in Harness, NEW path \in Destination(a, t),
         path[1] = "skills", a.kind = "skill"
  PROVE  a.support[t] \in {"agent-skill", "native"}
<1>1. a.support[t] \in {"agent-skill", "native", "projected", "unsupported"}
  BY ModesAre
<1>2. CASE a.support[t] = "projected"
  BY <1>2 DEF Destination, NativeHook, AsRule
<1>3. a.support[t] # "unsupported"
  BY DEF Destination
<1> QED
  BY <1>1, <1>2, <1>3

LEMMA PathIs ==
  ASSUME NEW a, NEW t, NEW path \in Destination(a, t)
  PROVE  path = <<path[1], path[2], path[3]>>
<1>1. \E x, y, z : path = <<x, y, z>>
  BY DEF Destination
<1> QED
  BY <1>1

(* A claim that validation has seen.                                        *)
LEMMA ClaimIs ==
  ASSUME NEW assets, \A a \in assets : IsAsset(a), NEW t \in Harness,
         NEW a \in assets, NEW path \in Destination(a, t), path[1] \in {"skills", "commands"}
  PROVE  <<a, <<path[1], path[2]>>>> \in Claims(assets, t)
<1>1. <<path[1], path[2]>> \in Invoked(a, t) /\ path[2] \in Name
  BY WrittenIs
<1> QED
  BY <1>1 DEF Claims

(* Assets, each the only one of its kind, name and form. *)
OneOfEach(assets) ==
  /\ \A a \in assets : IsAsset(a)
  /\ \A a, b \in assets : <<a.kind, a.name, a.form>> = <<b.kind, b.name, b.form>> => a = b

(* Validation leaves a file that is invoked, or an agent's, to one asset.   *)
LEMMA OneWriter ==
  ASSUME NEW assets, OneOfEach(assets), NEW t \in Harness, NEW p,
         InvocationsValid(assets, p, t),
         NEW a \in assets, NEW path \in Destination(a, t),
         path[1] \in {"skills", "commands", "agents"}
  PROVE  /\ Writers(assets, t, path) = {a}
         /\ AssetFiles(assets, t)[path] = Content(a, t)
<1> USE DEF OneOfEach
<1>1. ASSUME NEW b \in assets, path \in Destination(b, t)
      PROVE  b = a
  <2>1. CASE path[1] = "agents"
    <3>1. a.kind = "agent" /\ path[2] = a.name /\ path[3] = a.form
      BY <2>1, WrittenIs
    <3>2. b.kind = "agent" /\ path[2] = b.name /\ path[3] = b.form
      BY <1>1, <2>1, WrittenIs
    <3> QED
      BY <3>1, <3>2
  <2>2. CASE path[1] \in {"skills", "commands"}
    <3> DEFINE c == <<a, <<path[1], path[2]>>>>
               d == <<b, <<path[1], path[2]>>>>
    <3>1. c \in Claims(assets, t) /\ d \in Claims(assets, t)
      BY <1>1, <2>2, ClaimIs
    <3>2. Placed(c) = Placed(d)
      BY DEF Placed
    <3>3. c = d
      BY <3>1, <3>2 DEF InvocationsValid
    <3> QED
      BY <3>3
  <2> QED
    BY <2>1, <2>2
<1>2. Writers(assets, t, path) = {a}
  BY <1>1 DEF Writers
<1>3. Rank[a.kind] <= Rank[a.kind]
  BY DEF IsAsset, AssetKind, Rank
<1>4. LastWriter(assets, t, path) = a
  BY <1>2, <1>3 DEF LastWriter
<1>5. path \in UNION {Destination(x, t) : x \in assets}
  OBVIOUS
<1> QED
  BY <1>2, <1>4, <1>5 DEF AssetFiles

(* Only the managed skills are not from an asset, and none has their place. *)
LEMMA ManagedAre ==
  ASSUME NEW p, NEW t, NEW tool0, NEW path \in DOMAIN ManagedFiles(p, t, tool0)
  PROVE  /\ path = <<"skills", path[2], "dir">> /\ path[2] \in Reserved(p, t)
         /\ path[2] \in DOMAIN ManagedSkill /\ Fold[path[2]] = path[2]
         /\ ManagedFiles(p, t, tool0)[path].name = path[2]
<1>1. path \in {<<"skills", s, "dir">> : s \in {s \in DOMAIN ManagedSkill : p = "pig" /\ t \in ManagedSkill[s]}}
  BY DEF ManagedFiles
<1>2. PICK s \in DOMAIN ManagedSkill : p = "pig" /\ t \in ManagedSkill[s] /\ path = <<"skills", s, "dir">>
  BY <1>1
<1>3. path[2] = s /\ Fold[s] = s
  BY <1>2, SourceConstants
<1>4. ManagedFiles(p, t, tool0)[path].name = path[2]
  BY <1>1 DEF ManagedFiles
<1> QED
  BY <1>2, <1>3, <1>4 DEF Reserved

LEMMA NotManaged ==
  ASSUME NEW assets, \A a \in assets : IsAsset(a), NEW t \in Harness, NEW p, NEW tool0,
         InvocationsValid(assets, p, t), NEW a \in assets, NEW path \in Destination(a, t)
  PROVE  path \notin DOMAIN ManagedFiles(p, t, tool0)
<1> SUFFICES ASSUME path \in DOMAIN ManagedFiles(p, t, tool0)
             PROVE  FALSE
  OBVIOUS
<1> DEFINE c == <<a, <<path[1], path[2]>>>>
<1>1. path[1] = "skills" /\ path[2] \in Reserved(p, t) /\ Fold[path[2]] = path[2]
  BY ManagedAre
<1>2. c \in Claims(assets, t)
  BY <1>1, ClaimIs
<1>3. Placed(c) = <<"skills", path[2]>>
  BY <1>1 DEF Placed
<1> QED
  BY <1>1, <1>2, <1>3 DEF InvocationsValid, ClaimAllowed

(* What menus show of a file that an asset is invoked by.                   *)
LEMMA MenuShows ==
  ASSUME NEW a, IsAsset(a), NEW t \in Harness, NEW path \in Destination(a, t),
         path[1] \in {"skills", "commands"}
  PROVE  (IF RenderedName(a, t) # None THEN RenderedName(a, t) ELSE path[2])
           = InvocationName(a, <<path[1], path[2]>>)
<1>1. /\ a.support[t] = "agent-skill" => path[2] = a.id
      /\ a.kind = "command" /\ a.support[t] = "native" => path[2] = a.id
      /\ a.kind = "skill" => a.support[t] \in {"agent-skill", "native"} /\ ~AsRule(a, t)
  <2>1. a.support[t] = "agent-skill" => path[2] = a.id
    BY WrittenIs
  <2>2. a.kind = "command" /\ a.support[t] = "native" => path[2] = a.id
    BY WrittenIs
  <2>3. a.kind = "skill" => a.support[t] \in {"agent-skill", "native"}
    <3>1. a.kind = "skill" => path[1] = "skills"
      BY WrittenIs DEF Invoked
    <3> QED
      BY <3>1, SkillIs
  <2>4. ~AsRule(a, t)
    BY WrittenIs
  <2> QED
    BY <2>1, <2>2, <2>3, <2>4
<1>2. CASE a.kind = "skill"
  <2>1. RenderedName(a, t) = IF a.text.frontmatter THEN a.text.name
                             ELSE IF t = "codex" /\ a.support[t] = "agent-skill" THEN a.id ELSE None
    BY <1>1, <1>2 DEF RenderedName
  <2>2. ~a.text.frontmatter => a.text.name = None
    BY DEF IsAsset
  <2> QED
    BY <1>1, <1>2, <2>1, <2>2 DEF InvocationName
<1>3. CASE a.kind # "skill"
  <2>1. InvocationName(a, <<path[1], path[2]>>) = path[2]
    BY <1>3 DEF InvocationName
  <2>2. CASE <<a.kind, a.support[t]>> \in {<<"command", "native">>, <<"agent", "agent-skill">>}
    <3>1. RenderedName(a, t) = a.id /\ path[2] = a.id
      BY <1>1, <1>3, <2>2 DEF RenderedName
    <3> QED
      BY <2>1, <3>1
  <2>3. CASE <<a.kind, a.support[t]>> \notin {<<"command", "native">>, <<"agent", "agent-skill">>}
    <3>1. RenderedName(a, t) = None
      BY <1>3, <2>3 DEF RenderedName
    <3> QED
      BY <2>1, <3>1
  <2> QED
    BY <2>2, <2>3
<1> QED
  BY <1>2, <1>3

(* The assets of a plugin that is published to a host, as validated.        *)
LEMMA PluginAssetsAre ==
  ASSUME NEW h, IsHub(h), Valid(h), NEW t \in h.config.targets, NEW p \in h.config.stable
  PROVE  /\ \A a \in PluginAssets(h, p) : IsAsset(a)
         /\ \A a, b \in PluginAssets(h, p) :
              <<a.kind, a.name, a.form>> = <<b.kind, b.name, b.form>> => a = b
         /\ InvocationsValid(PluginAssets(h, p), p, t) /\ t \in Harness
<1>1. PluginAssets(h, p) \subseteq Assets(h)
  BY DEF PluginAssets
<1>2. t \in Harness
  BY DEF IsHub, Configurations
<1>3. InvocationsValid(PluginAssets(h, p), p, t)
  BY DEF Valid
<1>4. \A a, b \in Assets(h) : <<a.kind, a.name, a.form>> = <<b.kind, b.name, b.form>> => a = b
  BY AssetsAre
<1>5. \A a \in Assets(h) : IsAsset(a)
  BY AssetsAre
<1> QED
  BY <1>1, <1>2, <1>3, <1>4, <1>5

LEMMA PluginDelivers ==
  ASSUME NEW h, IsHub(h), Valid(h), NEW t \in h.config.targets, NEW p \in h.config.stable,
         NEW tool0, NEW version, NEW a \in PluginAssets(h, p), NEW path \in Destination(a, t),
         path[1] \in {"skills", "commands", "agents"}
  PROVE  /\ path \in DOMAIN PluginTree(h, p, t, tool0, version).files
         /\ PluginTree(h, p, t, tool0, version).files[path] = Content(a, t)
<1> DEFINE assets == PluginAssets(h, p)
           files == PluginTree(h, p, t, tool0, version).files
<1>1. AssetFiles(assets, t)[path] = Content(a, t)
  <2>1. OneOfEach(assets)
    BY PluginAssetsAre DEF OneOfEach
  <2>2. InvocationsValid(assets, p, t) /\ t \in Harness
    BY PluginAssetsAre
  <2>3. a \in assets
    OBVIOUS
  <2> HIDE DEF assets
  <2> QED
    BY <2>1, <2>2, <2>3, OneWriter
<1>2. path \notin DOMAIN ManagedFiles(p, t, tool0)
  BY PluginAssetsAre, NotManaged
<1>3. path \in DOMAIN AssetFiles(assets, t)
  BY DEF AssetFiles
<1>4. files = [q \in DOMAIN AssetFiles(assets, t) \cup DOMAIN ManagedFiles(p, t, tool0) |->
                 IF q \in DOMAIN ManagedFiles(p, t, tool0)
                 THEN ManagedFiles(p, t, tool0)[q] ELSE AssetFiles(assets, t)[q]]
  BY DEF PluginTree
<1> HIDE DEF files, assets
<1>5. path \in DOMAIN files /\ files[path] = AssetFiles(assets, t)[path]
  BY <1>2, <1>3, <1>4
<1> QED
  BY <1>1, <1>5 DEF files

(* What a menu shows, by the file that is invoked.                          *)
ShownIn(files, path) == Fold[IF files[path].name # None THEN files[path].name ELSE path[2]]

LEMMA PluginMenu ==
  ASSUME NEW h, IsHub(h), Valid(h), NEW t \in h.config.targets, NEW p \in h.config.stable,
         NEW tool0, NEW version,
         NEW path \in DOMAIN PluginTree(h, p, t, tool0, version).files,
         path[1] \in {"skills", "commands"}
  PROVE  LET files == PluginTree(h, p, t, tool0, version).files
         IN \/ /\ path = <<"skills", path[2], "dir">> /\ path[2] \in Reserved(p, t)
               /\ ShownIn(files, path) = path[2]
            \/ \E a \in PluginAssets(h, p) :
                 /\ path \in Destination(a, t)
                 /\ ShownIn(files, path) = Called(<<a, <<path[1], path[2]>>>>)
<1> DEFINE assets == PluginAssets(h, p)
           files == PluginTree(h, p, t, tool0, version).files
<1>1. files = [q \in DOMAIN AssetFiles(assets, t) \cup DOMAIN ManagedFiles(p, t, tool0) |->
                 IF q \in DOMAIN ManagedFiles(p, t, tool0)
                 THEN ManagedFiles(p, t, tool0)[q] ELSE AssetFiles(assets, t)[q]]
  BY DEF PluginTree
<1>2. CASE path \in DOMAIN ManagedFiles(p, t, tool0)
  <2>1. /\ path = <<"skills", path[2], "dir">> /\ path[2] \in Reserved(p, t)
        /\ Fold[path[2]] = path[2] /\ ManagedFiles(p, t, tool0)[path].name = path[2]
    BY <1>2, ManagedAre
  <2> HIDE DEF files
  <2>2. files[path] = ManagedFiles(p, t, tool0)[path]
    BY <1>1, <1>2
  <2>3. ShownIn(files, path) = path[2]
    BY <2>1, <2>2 DEF ShownIn
  <2> QED
    BY <2>1, <2>3 DEF files
<1>3. CASE path \notin DOMAIN ManagedFiles(p, t, tool0)
  <2>1. path \in DOMAIN AssetFiles(assets, t)
    <3> HIDE DEF assets
    <3>1. path \in DOMAIN files
      OBVIOUS
    <3> HIDE DEF files
    <3> QED
      BY <1>1, <1>3, <3>1
  <2>2. PICK a \in assets : path \in Destination(a, t)
    BY <2>1 DEF AssetFiles
  <2>3. files[path] = Content(a, t)
    BY <2>2, PluginDelivers
  <2>4. IsAsset(a) /\ t \in Harness
    BY <2>2, PluginAssetsAre
  <2>5. Content(a, t).name = RenderedName(a, t)
    BY DEF Content
  <2> HIDE DEF files
  <2>6. ShownIn(files, path) = Called(<<a, <<path[1], path[2]>>>>)
    BY <2>2, <2>3, <2>4, <2>5, MenuShows DEF ShownIn, Called
  <2> QED
    BY <2>2, <2>6 DEF files
<1> QED
  BY <1>2, <1>3

LEMMA PluginMenuDistinct ==
  ASSUME NEW h, IsHub(h), Valid(h), NEW t \in h.config.targets, NEW p \in h.config.stable,
         NEW tool0, NEW version,
         NEW q \in DOMAIN PluginTree(h, p, t, tool0, version).files, q[1] \in {"skills", "commands"},
         NEW r \in DOMAIN PluginTree(h, p, t, tool0, version).files, r[1] \in {"skills", "commands"},
         ShownIn(PluginTree(h, p, t, tool0, version).files, q)
           = ShownIn(PluginTree(h, p, t, tool0, version).files, r)
  PROVE  q = r
<1> DEFINE assets == PluginAssets(h, p)
           shown(path) == ShownIn(PluginTree(h, p, t, tool0, version).files, path)
           managed(path) == /\ path = <<"skills", path[2], "dir">> /\ path[2] \in Reserved(p, t)
                            /\ shown(path) = path[2]
           claims(a, path) == /\ path \in Destination(a, t)
                              /\ shown(path) = Called(<<a, <<path[1], path[2]>>>>)
<1>1. /\ \A a \in assets : IsAsset(a)
      /\ InvocationsValid(assets, p, t) /\ t \in Harness
  BY PluginAssetsAre
<1>2. managed(q) \/ \E a \in assets : claims(a, q)
  BY PluginMenu
<1>3. managed(r) \/ \E a \in assets : claims(a, r)
  BY PluginMenu
<1>4. ASSUME NEW a \in assets, NEW path, path[1] \in {"skills", "commands"}, claims(a, path)
      PROVE  <<a, <<path[1], path[2]>>>> \in Claims(assets, t) /\ shown(path) \notin Reserved(p, t)
  <2>1. <<a, <<path[1], path[2]>>>> \in Claims(assets, t)
    BY <1>1, <1>4, ClaimIs
  <2> QED
    BY <1>1, <1>4, <2>1 DEF InvocationsValid, ClaimAllowed
<1>5. shown(q) = shown(r)
  OBVIOUS
<1> HIDE DEF shown, assets
<1>6. CASE managed(q) /\ managed(r)
  BY <1>5, <1>6
<1>7. ASSUME NEW a \in assets, claims(a, q), NEW b \in assets, claims(b, r)
      PROVE  q = r
  <2> DEFINE c == <<a, <<q[1], q[2]>>>>
             d == <<b, <<r[1], r[2]>>>>
  <2>1. c \in Claims(assets, t) /\ d \in Claims(assets, t)
    BY <1>4, <1>7
  <2>2. Called(c) = Called(d)
    BY <1>5, <1>7
  <2>3. c = d
    BY <1>1, <2>1, <2>2 DEF InvocationsValid
  <2>4. a = b /\ r \in Destination(a, t) /\ q \in Destination(a, t)
    BY <1>7, <2>3
  <2>5. Destination(a, t) = {q}
    BY <1>1, <2>4, WrittenIs
  <2> QED
    BY <2>4, <2>5
<1>8. CASE managed(q) /\ \E b \in assets : claims(b, r)
  BY <1>4, <1>5, <1>8
<1>9. CASE managed(r) /\ \E a \in assets : claims(a, q)
  <2>1. shown(q) \notin Reserved(p, t)
    BY <1>4, <1>9
  <2> QED
    BY <1>5, <1>9, <2>1
<1> QED
  BY <1>2, <1>3, <1>6, <1>7, <1>8, <1>9

-----------------------------------------------------------------------------
(* Nothing is built, or current, of a hub that is not valid.                *)

ValidInv == job # None \/ current => Valid(hub)

LEMMA ValidOf ==
  ASSUME NEW g, NEW h, g.entries = h.entries, g.plugins = h.plugins, g.config = h.config, Valid(h)
  PROVE  Valid(g)
<1>1. Assets(g) = Assets(h) /\ Files(g) = Files(h)
  BY DEF Assets, Files
<1>2. \A p : PluginAssets(g, p) = PluginAssets(h, p)
  BY <1>1 DEF PluginAssets
<1>3. Loads(g)
  BY <1>1 DEF Valid, Loads, Recognised
<1>4. Selected(g)
  BY <1>1 DEF Valid, Selected
<1> QED
  BY <1>1, <1>2, <1>3, <1>4 DEF Valid

LEMMA ValidStep ==
  ASSUME BuildInv, IsHub(hub), ValidInv, [Next]_vars
  PROVE  ValidInv'
<1>1. scan # None => ~current /\ job = None
  BY DEF BuildInv
<1>2. CASE Publish
  <2>1. Valid(hub) /\ \E version : hub' = [hub EXCEPT !.version = version]
    BY <1>2 DEF Publish
  <2>2. hub'.entries = hub.entries /\ hub'.plugins = hub.plugins /\ hub'.config = hub.config
    BY <2>1, HubIs
  <2> QED
    BY <2>1, <2>2, ValidOf DEF ValidInv
<1>3. CASE \/ RemoveSkill \/ CopySkillFile \/ ImportRoot \/ ImportCursor \/ UpdatePlugin
  <2>1. scan # None /\ current' = current /\ job' = job
    BY <1>3 DEF RemoveSkill, CopySkillFile, ImportRoot, ImportCursor, ImportConfig, UpdatePlugin
  <2> QED
    BY <1>1, <2>1 DEF ValidInv
<1>4. CASE \/ (\E d \in Drafts : AddDraft(d)) \/ (\E e \in hub.entries : RemoveEntry(e))
           \/ (\E c \in Configs : Configure(c)) \/ StartScan
  <2>1. ~current' /\ job' = None
    BY <1>4 DEF AddDraft, RemoveEntry, Configure, StartScan, Edited, Count, Idle
  <2> QED
    BY <2>1 DEF ValidInv
<1>5. CASE StartBuild
  <2>1. Valid(hub) /\ hub' = hub
    BY <1>5 DEF StartBuild
  <2> QED
    BY <2>1 DEF ValidInv
<1>6. CASE \/ (\E r \in Repos : ChangeRepo(r)) \/ Upgrade \/ HandEdit \/ Crash
           \/ RemovePath \/ (\E t \in Harness : CopyPart(t)) \/ CopyPath
  <2>1. CASE RemovePath \/ (\E t \in Harness : CopyPart(t)) \/ CopyPath
    <3>1. hub' = hub /\ job # None
      BY <2>1 DEF RemovePath, CopyPart, CopyPath
    <3> QED
      BY <3>1 DEF ValidInv
  <2>2. CASE (\E r \in Repos : ChangeRepo(r)) \/ Upgrade \/ HandEdit \/ Crash
    <3>1. hub' = hub /\ job' = None /\ (~current' \/ current' = current)
      BY <2>2 DEF ChangeRepo, Upgrade, HandEdit, Crash, Count, Idle
    <3> QED
      BY <3>1 DEF ValidInv
  <2> QED
    BY <1>6, <2>1, <2>2
<1>7. CASE UNCHANGED vars
  BY <1>7 DEF vars, ValidInv
<1> QED
  BY <1>2, <1>3, <1>4, <1>5, <1>6, <1>7 DEF Next

LEMMA GeneratedDist ==
  ASSUME NEW h, NEW t, NEW v
  PROVE  Generated(h, t, v)["dist"].plugins = Output(h, t, v).dist
<1> DEFINE files == Generated(h, t, v)["dist"]
           out == Output(h, t, v)
<1>1. files = [plugins |-> out.dist, mcp |-> out.mcp]
  BY PathsAre DEF Generated, Paths
<1> HIDE DEF files, out
<1> QED
  BY <1>1 DEF files, out

(* After a build that ended, dist has the plugins of each host.             *)
LEMMA DistIs ==
  ASSUME BuildInv, current, NEW tp \in Plugins
  PROVE  /\ tp[1] \in hub.config.targets /\ tp[2] \in hub.config.stable
         /\ Built(tp) = PluginTree(hub, tp[2], tp[1], tool, hub.version)
<1>1. tree["dist"].plugins = Output(hub, tool, hub.version).dist
  <2>1. tree = Generated(hub, tool, hub.version)
    BY DEF BuildInv, BuiltIsCurrent, IsCurrent
  <2> QED
    BY <2>1, GeneratedDist
<1>2. Output(hub, tool, hub.version).dist
        = [t \in hub.config.targets |->
             [p \in hub.config.stable |-> PluginTree(hub, p, t, tool, hub.version)]]
  BY DEF Output
<1>3. tp[1] \in hub.config.targets /\ tp[2] \in hub.config.stable
  BY <1>1, <1>2 DEF Plugins
<1> QED
  BY <1>1, <1>2, <1>3 DEF Built

TreeInv == Inv /\ SourceInv /\ ValidInv

LEMMA TreeAlways == NoValueApart /\ Spec => []TreeInv
<1>1. Init => SourceInv /\ ValidInv
  BY InitSource DEF Init, ValidInv
<1>2. TreeInv /\ [Next]_vars => SourceInv' /\ ValidInv'
  BY StepSource, ValidStep DEF TreeInv, Inv, SourceInv
<1>3. NoValueApart /\ Spec => []Inv
  BY Invariance
<1> QED
  BY <1>1, <1>2, <1>3, PTL DEF Spec, TreeInv

(* Whatever the authors, scans and conversions, no two skills or commands   *)
(* of a plugin have one name in the menus of a host (validate/hub.py:139).  *)
THEOREM MenusHaveNoTwins == NoValueApart /\ Spec => []InvocationsDistinct
<1>1. TreeInv => InvocationsDistinct
  <2> SUFFICES ASSUME TreeInv, current, NEW tp \in Plugins,
                      NEW q \in DOMAIN Menu(tp), NEW r \in DOMAIN Menu(tp), Menu(tp)[q] = Menu(tp)[r]
               PROVE  q = r
    BY DEF InvocationsDistinct
  <2> DEFINE files == PluginTree(hub, tp[2], tp[1], tool, hub.version).files
  <2>1. /\ tp[1] \in hub.config.targets /\ tp[2] \in hub.config.stable
        /\ Built(tp).files = files
    BY DistIs DEF TreeInv, Inv
  <2>2. IsHub(hub) /\ Valid(hub)
    BY DEF TreeInv, SourceInv, ValidInv
  <2>3. Menu(tp) = [path \in {x \in DOMAIN files : x[1] \in {"skills", "commands"}} |-> ShownIn(files, path)]
    BY <2>1 DEF Menu, ShownIn
  <2> HIDE DEF files
  <2>4. /\ q \in DOMAIN files /\ q[1] \in {"skills", "commands"}
        /\ r \in DOMAIN files /\ r[1] \in {"skills", "commands"}
        /\ ShownIn(files, q) = ShownIn(files, r)
    BY <2>3
  <2> QED
    BY <2>1, <2>2, <2>4, PluginMenuDistinct DEF files
<1> QED
  BY TreeAlways, <1>1, PTL

(* Every skill, command and agent that a host supports is there with its    *)
(* own content: nothing rendered later took its place (render/assets.py:27).*)
THEOREM AssetsAreDelivered == NoValueApart /\ Spec => []Delivered
<1>1. TreeInv => Delivered
  <2> SUFFICES ASSUME TreeInv, current, NEW tp \in Plugins, NEW a \in PluginAssets(hub, tp[2]),
                      NEW path \in Destination(a, tp[1]), path[1] \in {"skills", "commands", "agents"}
               PROVE  path \in DOMAIN Built(tp).files /\ Built(tp).files[path] = Content(a, tp[1])
    BY DEF Delivered
  <2>1. /\ tp[1] \in hub.config.targets /\ tp[2] \in hub.config.stable
        /\ Built(tp) = PluginTree(hub, tp[2], tp[1], tool, hub.version)
    BY DistIs DEF TreeInv, Inv
  <2>2. IsHub(hub) /\ Valid(hub)
    BY DEF TreeInv, SourceInv, ValidInv
  <2> QED
    BY <2>1, <2>2, PluginDelivers
<1> QED
  BY TreeAlways, <1>1, PTL

-----------------------------------------------------------------------------
(* The reader takes the release of a valid hub.                             *)

LEMMA RecordsAre ==
  ASSUME NEW h, IsHub(h), Valid(h), NEW p \in h.config.stable
  PROVE  PluginBasis(h, p).includes = {a.ref : a \in PluginAssets(h, p)}
<1>1. h.plugins[p] \subseteq {a.ref : a \in Assets(h)}
  BY DEF Valid, Selected
<1>2. PluginBasis(h, p).includes = h.plugins[p]
  BY DEF PluginBasis
<1>3. h.plugins[p] \subseteq {a.ref : a \in PluginAssets(h, p)}
  BY <1>1 DEF PluginAssets
<1>4. {a.ref : a \in PluginAssets(h, p)} \subseteq h.plugins[p]
  BY DEF PluginAssets
<1> QED
  BY <1>2, <1>3, <1>4

LEMMA PluginBasisReads ==
  ASSUME NEW h, IsHub(h), Valid(h), NEW p \in h.config.stable,
         \A a \in StableAssets(h) : a.blank = {}
  PROVE  PluginBasisValid(PluginBasis(h, p))
<1> DEFINE b == PluginBasis(h, p)
<1>1. b.assets = {AssetRecord(a) : a \in PluginAssets(h, p)}
  BY DEF PluginBasis
<1>2. \A a \in PluginAssets(h, p) : a \in Assets(h) /\ IsAsset(a) /\ a.blank = {}
  BY AssetsAre DEF PluginAssets, StableAssets
<1>3. \A a \in PluginAssets(h, p) : /\ AssetRecord(a).ref = a.ref /\ AssetRecord(a).support = a.support
                                    /\ AssetRecord(a).blank = a.blank
  BY DEF AssetRecord
<1>4. ASSUME NEW a \in PluginAssets(h, p)
      PROVE  AssetRecordValid(AssetRecord(a))
  <2>1. a.ref[1] \in AssetKind /\ DOMAIN a.support = Harness /\ a.blank = {}
    BY <1>2 DEF IsAsset
  <2>2. \A t \in Harness : a.support[t] \in SupportMode
    <3>1. IsAsset(a) /\ a.kind \in AssetKind
      BY <1>2 DEF IsAsset
    <3> QED
      BY <3>1 DEF IsAsset, ModesAllowed, AllowedModes, AssetKind, SupportMode
  <2> QED
    BY <1>3, <2>1, <2>2 DEF AssetRecordValid
<1>5. b.includes = {r.ref : r \in b.assets}
  <2>1. b.includes = {a.ref : a \in PluginAssets(h, p)}
    BY RecordsAre
  <2> HIDE DEF b
  <2> QED
    BY <1>1, <1>3, <2>1
<1>6. \A x, y \in PluginAssets(h, p) : x.ref = y.ref => x = y
  BY <1>2, AssetsAre
<1> HIDE DEF b
<1>7. \A r, s \in b.assets : r.ref = s.ref => r = s
  BY <1>1, <1>3, <1>6
<1>8. \A r \in b.assets : AssetRecordValid(r)
  BY <1>1, <1>4
<1> QED
  BY <1>5, <1>7, <1>8 DEF PluginBasisValid, b

(* No bundle is the missing one.                                            *)
LEMMA BundleIs ==
  ASSUME NoValueApart, NEW h, IsHub(h), NEW tool0, NEW version
  PROVE  ((IF h.config.mcp THEN 4 ELSE 2) = 4) = (McpBundle(h, tool0, version) # NoValue)
<1>1. h.config.mcp \in BOOLEAN
  BY DEF IsHub, Configurations
<1>2. CASE h.config.mcp
  BY <1>2 DEF McpBundle, NoValueApart
<1>3. CASE ~h.config.mcp
  BY <1>3 DEF McpBundle
<1> QED
  BY <1>1, <1>2, <1>3

LEMMA ReleaseReads ==
  ASSUME NoValueApart, NEW h, IsHub(h), Valid(h), NEW tool0, NEW version,
         \A a \in StableAssets(h) : a.blank = {}
  PROVE  Reads(Release(h, tool0, version))
<1> DEFINE b == VersionBasis(h, tool0, version)
           m == Release(h, tool0, version)
           c == m.content
           out == Output(h, tool0, version).dist
           bundle == McpBundle(h, tool0, version)
           runtimes == Runtimes(h, tool0, version)
           basis(p) == PluginBasis(h, p)
           records == {AssetRecord(a) : a \in StableAssets(h)}
<1>1. /\ b.version = version /\ b.stable = h.config.stable /\ b.targets = h.config.targets
      /\ b.plugins = [p \in h.config.stable |-> basis(p)]
      /\ b.hashes = out /\ b.runtimes = runtimes /\ b.mcp = bundle
  BY DEF VersionBasis
<1>2. /\ c.schema = (IF h.config.mcp THEN 4 ELSE 2) /\ c.version = version
      /\ c.stable = h.config.stable /\ c.targets = h.config.targets /\ c.hashes = out
      /\ c.runtimes = runtimes /\ c.mcp = bundle /\ c.assets = records
      /\ c.basis = b /\ m.hash = m.content
  BY DEF Release
<1>3. DOMAIN out = h.config.targets
  BY DEF Output
<1>4. \A r \in runtimes : r.target \in {"claude", "codex", "cursor"}
  <2>1. h.config.targets \subseteq Harness
    BY DEF IsHub, Configurations
  <2> QED
    BY <2>1 DEF Runtimes, RunsHost, Harness
<1>5. ((IF h.config.mcp THEN 4 ELSE 2) = 4) = (bundle # NoValue)
  BY BundleIs
<1>6. \A p \in h.config.stable : PluginBasisValid(basis(p))
  BY PluginBasisReads
<1>7. h.config.stable # {} /\ h.config.targets # {} /\ h.config.targets \subseteq Harness
  BY DEF Valid, Selected, IsHub, Configurations
<1>8. records = UNION {basis(p).assets : p \in h.config.stable}
  <2>1. \A p \in h.config.stable : basis(p).assets = {AssetRecord(a) : a \in PluginAssets(h, p)}
    BY DEF PluginBasis
  <2>2. StableAssets(h) = UNION {PluginAssets(h, p) : p \in h.config.stable}
    BY DEF StableAssets, PluginAssets
  <2> HIDE DEF basis
  <2> QED
    BY <2>1, <2>2
<1> HIDE DEF b, m, out, bundle, runtimes, basis, records
<1>9. c.basis.plugins = [p \in h.config.stable |-> basis(p)]
  BY <1>1, <1>2
<1>10. BasisValid(c)
  <2>1. (c.schema = 4) = (b.mcp # NoValue) /\ b.mcp = c.mcp
    BY <1>1, <1>2, <1>5
  <2>2. DOMAIN b.plugins = b.stable /\ \A p \in b.stable : PluginBasisValid(b.plugins[p])
    BY <1>1, <1>6
  <2>3. DOMAIN b.hashes = b.targets /\ b.stable # {} /\ b.targets # {} /\ b.targets \subseteq Harness
    BY <1>1, <1>3, <1>7
  <2>4. \A r \in b.runtimes : r.target \in {"claude", "codex", "cursor"}
    BY <1>1, <1>4
  <2>5. <<c.version, c.stable, c.targets, c.hashes, c.runtimes>>
          = <<b.version, b.stable, b.targets, b.hashes, b.runtimes>>
    BY <1>1, <1>2
  <2>6. c.basis = b
    BY <1>2
  <2> HIDE DEF c
  <2> QED
    BY <2>1, <2>2, <2>3, <2>4, <2>5, <2>6 DEF BasisValid
<1>11. c.schema \in {2, 3, 4}
  BY <1>2
<1>12. c.assets = UNION {c.basis.plugins[p].assets : p \in c.stable}
  BY <1>1, <1>2, <1>8, <1>9
<1> QED
  BY <1>2, <1>10, <1>11, <1>12 DEF Reads, m

(* Publishing does not end at reading back what it wrote (run.sh:693), but  *)
(* for a reason that is an empty string: what validates, the reader takes.  *)
THEOREM ValidReleasesRead == NoValueApart /\ Spec => []ReleasesRead
<1>1. NoValueApart /\ TreeInv => ReleasesRead
  BY ReleaseReads DEF TreeInv, SourceInv, ReleasesRead
<1>2. NoValueApart => []NoValueApart
  BY DEF NoValueApart
<1> QED
  BY TreeAlways, <1>1, <1>2, PTL
=============================================================================
