------------------------------- MODULE HubBuild -------------------------------
(***************************************************************************)
(* A hub's worktree and what people and commands do to it: authors edit    *)
(* it, scan imports assets of another repository step by step, build       *)
(* replaces the generated files path by path, publish releases what a      *)
(* build of the sources gives. A process may die between any two steps.    *)
(***************************************************************************)
EXTENDS HubRelease

CONSTANTS
  Drafts,        \* the entries authors may add, and plugins they put them in
  Configs,       \* the configurations they may choose
  Repos,         \* the states of the repository that is scanned
  Slug,          \* Slug[n]: the asset id of a directory name
  FirstVersion,
  MaxOps         \* bound: commands, edits and crashes

\* A directory of skills, and MCP configurations that may be links.
IsRepo(r) ==
  /\ Len(r.skills) \in Nat /\ DOMAIN r.skills = 1 .. Len(r.skills)
  /\ \A i \in DOMAIN r.skills :
       LET s == r.skills[i]
       IN s.name \in DOMAIN Slug /\ s.files \subseteq {"SKILL.md", "support"} /\ IsText(s.text)
  /\ \A c \in {r.root, r.cursor} \ {None} : c.form \in {"json", "yaml"} /\ IsText(c.text)

ASSUME BuildConstants ==
  /\ \A d \in Drafts : IsEntry(d.entry) /\ d.plugin \in Plugin
  /\ Configs \subseteq Configurations
  /\ \A n \in DOMAIN Slug : Slug[n] \in Name
  /\ \A r \in Repos : IsRepo(r)
  /\ FirstVersion \in Version

VARIABLES
  hub,           \* the authored tree
  repo,          \* the scanned repository
  tool,          \* revision of the toolchain
  tree,          \* the generated files, by the paths the compiler owns
  job,           \* a build that replaces them, or None
  scan,          \* a scan under way, or None
  release,       \* hub.release.json on the release branch, or NoValue
  published,     \* every release there was: its version and its files
  current,       \* no change since the last build that ended (history)
  imported,      \* what the last scan imported, if untouched since (history)
  ops

vars == <<hub, repo, tool, tree, job, scan, release, published, current, imported, ops>>

-----------------------------------------------------------------------------
(* Generated files. The MCP bundle is below dist.                           *)

\* GENERATED_PATHS, in order, and the market directories by their host.
GeneratedPaths == <<"dist", "codex", "claude", "cursor", "release", "stable">>

Generated(h, t, version) ==
  LET out == Output(h, t, version)
      m == Release(h, t, version)
  IN [path \in {GeneratedPaths[i] : i \in DOMAIN GeneratedPaths} |->
        CASE path = "dist" -> [plugins |-> out.dist, mcp |-> out.mcp]
          [] path = "release" -> m
          [] path = "stable" -> [hash |-> m.hash, targets |-> m.content.targets]
          [] OTHER -> {out.markets[x] : x \in {path} \cap DOMAIN out.markets}]

\* Wrong on purpose: directories are left to the copy.
EmptiedFiles(path, old) == IF path = "dist" THEN old ELSE NoValue

\* replace_tree removes a file or a directory first.
Emptied(path, old) == NoValue

\* A directory is copied over what its destination has.
Copied(path, old, new) ==
  IF path # "dist" \/ old = NoValue THEN new
  ELSE [plugins |-> [t \in DOMAIN old.plugins \cup DOMAIN new.plugins |->
                       IF t \in DOMAIN new.plugins THEN new.plugins[t] ELSE old.plugins[t]],
        mcp |-> new.mcp]

\* check: every path has what a compilation writes.
IsCurrent == tree = Generated(hub, tool, hub.version)

-----------------------------------------------------------------------------
(* What a repository offers to scan.                                        *)

\* Two directories, of any of the roots, with one id are a collision; links
\* and directories without SKILL.md are refused.
Importable(r) ==
  /\ \A i \in DOMAIN r.skills : ~r.skills[i].text.link /\ "SKILL.md" \in r.skills[i].files
  /\ \A i, j \in DOMAIN r.skills : Slug[r.skills[i].name] = Slug[r.skills[j].name] => i = j

ImportsCursor(r) ==
  /\ r.cursor # None
  /\ ~ /\ r.root # None /\ DOMAIN r.root.text.servers # {}
       /\ \A s \in DOMAIN r.cursor.text.servers :
            /\ s \in DOMAIN r.root.text.servers
            /\ r.root.text.servers[s] = r.cursor.text.servers[s]

CursorOnly == [t \in Harness |-> IF t = "cursor" THEN "native" ELSE "unsupported"]

\* Wrong on purpose: files that are there stay.
ClearedNot(entries, id) == entries

\* What a scan replaces: the directory, with its metadata.
Cleared(entries, id) ==
  {e \in entries : ~(e.kind = "skill" /\ e.name = id /\ e.form = "dir")}

\* An entry takes the place of the file or directory of its name.
Place(e, entries) ==
  {x \in entries : ~(x.kind = e.kind /\ x.name = e.name /\ x.form = e.form)} \cup {e}

SkillEntry(s, files) ==
  [kind |-> "skill", name |-> Slug[s.name], form |-> "dir", files |-> files, id |-> None,
   support |-> None, blank |-> {}, text |-> s.text]

SkillThere(entries, id) ==
  {e \in entries : e.kind = "skill" /\ e.name = id /\ e.form = "dir"}

\* Files of a directory that is there stay, and those copied replace them.
CopySkill(entries, s, files) ==
  LET there == SkillThere(entries, Slug[s.name])
      entry == IF there = {} THEN SkillEntry(s, files)
               ELSE [CHOOSE e \in there : TRUE EXCEPT !.files = @ \cup files, !.text = s.text]
  IN Place(entry, entries)

McpEntry(c, name, support) ==
  [kind |-> "mcp", name |-> name, form |-> c.form, files |-> {}, id |-> None,
   support |-> support, blank |-> {}, text |-> c.text]

\* Files of one stem share the sidecar a scan removes or writes.
Described(x, support) == [x EXCEPT !.id = None, !.support = support, !.blank = {}]

PlaceMcp(e, entries) ==
  Place(e, {IF x.kind = "mcp" /\ x.name = e.name /\ x.form # "dir"
            THEN Described(x, e.support) ELSE x : x \in entries})

ImportedRefs(r) ==
  {<<"skill", Slug[r.skills[i].name]>> : i \in DOMAIN r.skills}
  \cup {<<"mcp", "repo-mcp">> : x \in {r.root} \ {None}}
  \cup {<<"mcp", "cursor-mcp">> : x \in {x \in {r} : ImportsCursor(x)}}

-----------------------------------------------------------------------------
Idle == job = None /\ scan = None

\* init_hub: an empty pig plugin and no generated files.
Init ==
  /\ hub = [entries |-> {}, plugins |-> [p \in {"pig"} |-> {}], version |-> FirstVersion,
            config |-> [targets |-> Harness, stable |-> {"pig"}, trace |-> FALSE, mcp |-> FALSE]]
  /\ repo \in Repos /\ tool = 0
  /\ tree = [path \in {GeneratedPaths[i] : i \in DOMAIN GeneratedPaths} |-> NoValue]
  /\ job = None /\ scan = None /\ release = NoValue /\ published = <<>>
  /\ current = FALSE /\ imported = None /\ ops = 0

Count == Idle /\ ops < MaxOps /\ ops' = ops + 1

Edited == current' = FALSE /\ imported' = None

-----------------------------------------------------------------------------
(* Authors, and what surrounds the hub.                                     *)

AddDraft(d) ==
  /\ Count /\ d.entry \notin hub.entries /\ Edited
  /\ hub' = [hub EXCEPT !.entries = Place(d.entry, @),
                        !.plugins = [p \in DOMAIN @ \cup {d.plugin} |->
                                       (IF p \in DOMAIN @ THEN @[p] ELSE {})
                                         \cup {<<d.entry.kind, Id(d.entry)>> : x \in {p} \cap {d.plugin}}],
                        !.config.stable = @ \cup {d.plugin}]
  /\ UNCHANGED <<repo, tool, tree, job, scan, release, published>>

RemoveEntry(e) ==
  /\ Count /\ Edited
  /\ hub' = [hub EXCEPT !.entries = @ \ {e},
                        !.plugins = [p \in DOMAIN @ |-> @[p] \ {<<e.kind, Id(e)>>}]]
  /\ UNCHANGED <<repo, tool, tree, job, scan, release, published>>

Configure(c) ==
  /\ Count /\ hub' = [hub EXCEPT !.config = [c EXCEPT !.stable = hub.config.stable]]
  /\ hub' # hub /\ Edited
  /\ UNCHANGED <<repo, tool, tree, job, scan, release, published>>

ChangeRepo(r) ==
  /\ Count /\ r # repo /\ repo' = r
  /\ UNCHANGED <<hub, tool, tree, job, scan, release, published, current, imported>>

\* Another revision of the toolchain.
Upgrade ==
  /\ Count /\ tool = 0 /\ tool' = 1 /\ current' = FALSE
  /\ UNCHANGED <<hub, repo, tree, job, scan, release, published, imported>>

\* A release branch resolved by hand: a version written in both its places.
HandEdit ==
  /\ Count /\ release # NoValue
  /\ release' = [release EXCEPT !.content.version = BumpPatch(@),
                                !.content.basis.version = BumpPatch(@)]
  /\ UNCHANGED <<hub, repo, tool, tree, job, scan, published, current, imported>>

\* A crash is of interest while another command may follow.
Crash ==
  /\ ~Idle /\ ops < MaxOps /\ job' = None /\ scan' = None
  /\ UNCHANGED <<hub, repo, tool, tree, release, published, current, imported, ops>>

-----------------------------------------------------------------------------
(* pig build: compiled in a temporary directory, then path by path.         *)

StartBuild ==
  /\ Count /\ Valid(hub) /\ Renders(hub) /\ current' = FALSE
  /\ job' = [output |-> Generated(hub, tool, hub.version), next |-> 1,
             removed |-> FALSE, part |-> FALSE]
  /\ UNCHANGED <<hub, repo, tool, tree, scan, release, published, imported>>

Path == GeneratedPaths[job.next]

RemovePath ==
  /\ job # None /\ ~job.removed
  /\ tree' = [tree EXCEPT ![Path] = Emptied(Path, @)]
  /\ job' = [job EXCEPT !.removed = TRUE]
  /\ UNCHANGED <<hub, repo, tool, scan, release, published, current, imported, ops>>

\* Plugins are copied host by host.
CopyPart(t) ==
  /\ job # None /\ job.removed /\ ~job.part /\ Path = "dist" /\ t \in DOMAIN job.output[Path].plugins
  /\ tree' = [tree EXCEPT ![Path] =
                Copied(Path, @, [plugins |-> [x \in {t} |-> job.output[Path].plugins[t]],
                                 mcp |-> NoValue])]
  /\ job' = [job EXCEPT !.part = TRUE]
  /\ UNCHANGED <<hub, repo, tool, scan, release, published, current, imported, ops>>

CopyPath ==
  /\ job # None /\ job.removed /\ (Path = "dist" => job.part)
  /\ tree' = [tree EXCEPT ![Path] = Copied(Path, @, job.output[Path])]
  /\ job' = IF job.next = Len(GeneratedPaths) THEN None
            ELSE [job EXCEPT !.next = @ + 1, !.removed = FALSE]
  /\ current' = (job.next = Len(GeneratedPaths))
  /\ UNCHANGED <<hub, repo, tool, scan, release, published, imported, ops>>

-----------------------------------------------------------------------------
(* pig scan: every skill is replaced in place, then the MCP configurations, *)
(* then pig includes what was imported.                                     *)

StartScan ==
  /\ Count /\ Importable(repo) /\ Edited
  /\ scan' = [next |-> 1, removed |-> FALSE, copied |-> {}]
  /\ UNCHANGED <<hub, repo, tool, tree, job, release, published>>

RemoveSkill ==
  /\ scan # None /\ ~scan.removed /\ scan.next <= Len(repo.skills)
  /\ hub' = [hub EXCEPT !.entries = Cleared(@, Slug[repo.skills[scan.next].name])]
  /\ scan' = [scan EXCEPT !.removed = TRUE]
  /\ UNCHANGED <<repo, tool, tree, job, release, published, current, imported, ops>>

\* SKILL.md sorts before supporting files.
CopySkillFile ==
  LET s == repo.skills[scan.next]
      files == IF scan.copied = {} THEN {"SKILL.md"} ELSE s.files
  IN /\ scan # None /\ scan.removed
     /\ hub' = [hub EXCEPT !.entries = CopySkill(@, s, files)]
     /\ scan' = IF files = s.files THEN [next |-> scan.next + 1, removed |-> FALSE, copied |-> {}]
                ELSE [scan EXCEPT !.copied = files]
     /\ UNCHANGED <<repo, tool, tree, job, release, published, current, imported, ops>>

\* A link where a configuration is expected ends the scan after the skills.
ImportConfig(step, config, name, support, wanted) ==
  /\ scan # None /\ scan.next = Len(repo.skills) + step
  /\ IF config # None /\ config.text.link
     THEN scan' = None /\ UNCHANGED hub
     ELSE /\ scan' = [scan EXCEPT !.next = @ + 1]
          /\ hub' = IF ~wanted THEN hub
                    ELSE [hub EXCEPT !.entries = PlaceMcp(McpEntry(config, name, support), @)]
  /\ UNCHANGED <<repo, tool, tree, job, release, published, current, imported, ops>>

ImportRoot == ImportConfig(1, repo.root, "repo-mcp", None, repo.root # None)

ImportCursor == ImportConfig(2, repo.cursor, "cursor-mcp", CursorOnly, ImportsCursor(repo))

UpdatePlugin ==
  /\ scan # None /\ scan.next = Len(repo.skills) + 3
  /\ hub' = [hub EXCEPT !.plugins = [p \in DOMAIN @ \cup {"pig"} |->
                          (IF p \in DOMAIN @ THEN @[p] ELSE {})
                            \cup IF p = "pig" THEN ImportedRefs(repo) ELSE {}]]
  /\ scan' = None /\ imported' = repo
  /\ UNCHANGED <<repo, tool, tree, job, release, published, current, ops>>

-----------------------------------------------------------------------------
\* run.sh publish, undisturbed (Publisher has its races): validate, resolve
\* the version against the release branch, build, have the release read back,
\* record the version in the sources.
Publish ==
  /\ Count /\ Valid(hub) /\ Renders(hub)
  /\ release # NoValue => Reads(release)
  /\ LET version == ResolveVersion(hub, tool, release)
         m == Release(hub, tool, version)
     IN /\ Reads(m)
        /\ release' = m /\ published' = Append(published, m)
        /\ hub' = [hub EXCEPT !.version = version]
        /\ current' = (current /\ version = hub.version)
  /\ UNCHANGED <<repo, tool, tree, job, scan, imported>>

Next ==
  \/ \E d \in Drafts : AddDraft(d)
  \/ \E e \in hub.entries : RemoveEntry(e)
  \/ \E c \in Configs : Configure(c)
  \/ \E r \in Repos : ChangeRepo(r)
  \/ Upgrade \/ HandEdit \/ Crash
  \/ StartBuild \/ RemovePath \/ (\E t \in Harness : CopyPart(t)) \/ CopyPath
  \/ StartScan \/ RemoveSkill \/ CopySkillFile \/ ImportRoot \/ ImportCursor \/ UpdatePlugin
  \/ Publish

Spec == Init /\ [][Next]_vars

-----------------------------------------------------------------------------
(* Properties.                                                              *)

\* A build that ended, over whatever crashed builds left, gives what a check
\* of the same sources expects (compiler.py:187, fs.py:144).
BuiltIsCurrent == current => IsCurrent

Plugins == (DOMAIN tree["dist"].plugins) \X hub.config.stable

Built(tp) == tree["dist"].plugins[tp[1]][tp[2]]

\* What a host shows in its menus: skills and commands by the name of their
\* frontmatter, or of their file.
Menu(tp) ==
  LET files == Built(tp).files
  IN [path \in {q \in DOMAIN files : q[1] \in {"skills", "commands"}} |->
        Fold[IF files[path].name # None THEN files[path].name ELSE path[2]]]

\* No two skills or commands of a plugin, authored, imported or managed, have
\* one name in the menus of a host, whatever the case (validate/hub.py:139).
InvocationsDistinct ==
  current => \A tp \in Plugins : \A q, r \in DOMAIN Menu(tp) :
    Menu(tp)[q] = Menu(tp)[r] => q = r

\* Every selected skill, command and agent that a host supports is in its
\* plugin with its own content: nothing rendered later took its place
\* (render/assets.py:27).
Delivered ==
  current => \A tp \in Plugins : \A a \in PluginAssets(hub, tp[2]) :
    \A path \in Destination(a, tp[1]) :
      path[1] \in {"skills", "commands", "agents"} =>
        path \in DOMAIN Built(tp).files /\ Built(tp).files[path] = Content(a, tp[1])

\* A scan that ended leaves every skill of the repository as it is there,
\* whatever earlier scans, crashes or authors had left in its place, and pig
\* includes all that was imported; on Cursor a definition of .cursor/mcp.json
\* is there under its own name or is equal to the root's (scan/hub.py:71).
ScannedWhole ==
  imported # None =>
    /\ \A i \in DOMAIN imported.skills :
         SkillEntry(imported.skills[i], imported.skills[i].files) \in hub.entries
    /\ ImportedRefs(imported) \subseteq hub.plugins["pig"]
    /\ imported.cursor # None =>
         \A s \in DOMAIN imported.cursor.text.servers :
           \E e \in hub.entries :
             /\ e.kind = "mcp" /\ <<"mcp", Id(e)>> \in hub.plugins["pig"]
             /\ Support(e)["cursor"] = "native" /\ s \in DOMAIN e.text.servers
             /\ e.text.servers[s] = imported.cursor.text.servers[s]

\* Two releases of one version generate the same files, whatever the authors,
\* scans and upgrades of the toolchain between them (versions.py:117).
VersionNamesOutput ==
  \A i, j \in DOMAIN published :
    published[i].content.version = published[j].content.version =>
      published[i].content.hashes = published[j].content.hashes

\* What passes validation and renders is a release the reader takes, so that
\* publishing does not end at record-external-verification (run.sh:693),
\* provided no reason is an empty string.
ReleasesRead ==
  /\ Valid(hub) /\ Renders(hub)
  /\ \A a \in StableAssets(hub) : a.blank = {}
  => Reads(Release(hub, tool, hub.version))

\* A publication builds on a release that an earlier one wrote, never on one
\* that was put together by hand (versions.py:138).
OnWholeReleases ==
  [][published' # published =>
       release \in {NoValue} \cup {published[i] : i \in DOMAIN published}]_vars
=============================================================================
