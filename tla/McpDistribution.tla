---------------------------- MODULE McpDistribution ----------------------------
(***************************************************************************)
(* The MCP bundle of a hub and the servers that distribute it. A build     *)
(* compiles the stable assets into a manifest and files and replaces       *)
(* dist/mcp with them, file by file; a server started meanwhile reads the  *)
(* same files; servers come and go between two requests of a client, with  *)
(* other bundles and other plugin selections.                              *)
(***************************************************************************)
EXTENDS SequencesExt

CONSTANTS
  Hubs,           \* the validated hubs that may be built
  Frontmatter,    \* Frontmatter[blob]: [closed, keys, name, depth, nodes], or None
  Rendered,       \* Rendered[blob]: the delegation skill of an agent, or None
  Prompt,         \* Prompt[blob]: the prompt of a command, or None
  Size,           \* Size[blob]
  Fold,           \* Fold[name]: its case-folded form, where that differs
  Length,         \* Length[id]: characters of plugin and asset ids
  Words,          \* Words[asset id]: what search finds it by
  Selections,     \* the plugins servers are restricted to
  Listings,       \* what clients list: <<method>>, or a search for a kind and
                  \* a word, with the page length
  Bindings,       \* [loopback, token] a server is started with
  MaxSkillFiles, MaxSkillBytes, MaxFiles, MaxBytes, MaxToolName,
  MaxDepth, MaxNodes,
  None, Torn      \* nothing; a file that is partly written

Blobs == DOMAIN Size

(* A bundle path: <<"assets", kind, id>> and the relative path below it.    *)
Path == Seq(STRING)

(* An asset of a hub and the stable plugins that include it.                *)
AssetSource(a, plugins) ==
  /\ a.kind \in {"skill", "rule", "agent", "command", "hook", "mcp"}
  /\ a.plugins # {} /\ a.plugins \subseteq plugins
  /\ IsFiniteSet(DOMAIN a.files) /\ DOMAIN a.files \subseteq Path
  /\ a.files \in [DOMAIN a.files -> Blobs]

ASSUME McpConstants ==
  /\ \A h \in Hubs : /\ h.enabled \in BOOLEAN
                     /\ h.kinds \in [DOMAIN h.kinds -> {"authored", "external"}]
                     /\ IsFiniteSet(DOMAIN h.kinds)
                     /\ IsFiniteSet(DOMAIN h.assets)
                     /\ \A i \in DOMAIN h.assets : AssetSource(h.assets[i], DOMAIN h.kinds)
  /\ {MaxSkillFiles, MaxSkillBytes, MaxFiles, MaxBytes, MaxToolName,
       MaxDepth, MaxNodes} \subseteq Nat \ {0}
  /\ \A l \in Listings :
       /\ l.key[1] \in {"skills", "resources", "prompts", "tools", "search"}
       /\ l.limit \in Nat \ {0}
  /\ Size \in [Blobs -> Nat]

VARIABLES
  disk,     \* dist/mcp: path |-> blob, the manifest among them
  build,    \* the build that is replacing it, or None
  server,   \* the server process, or None
  client    \* what a client is doing, or None

vars == <<disk, build, server, client>>

ManifestPath == <<"bundle.json">>

(* Files, with one more.                                                    *)
With(files, path, contents) ==
  [p \in DOMAIN files \cup {path} |-> IF p = path THEN contents ELSE files[p]]

FileSize(files) == FoldFunction(+, 0, [p \in DOMAIN files |-> Size[files[p]]])

Folded(path) ==
  [i \in DOMAIN path |-> IF path[i] \in DOMAIN Fold THEN Fold[path[i]] ELSE path[i]]

Below(root, paths) == {p \in paths : IsStrictPrefix(root, p)}

(* The skill name of a file with frontmatter that is closed, has distinct   *)
(* keys, a name and a description, and no nesting, aliases expanded, beyond *)
(* the bounds (_validate_yaml_nodes).                                       *)
ReadFrontmatter(blob) ==
  LET f == Frontmatter[blob]
  IN IF /\ f # None
        /\ f.closed
        /\ IsInjective(f.keys) /\ {"name", "description"} \subseteq ToSet(f.keys)
        /\ f.depth <= MaxDepth /\ f.nodes <= MaxNodes
     THEN f.name ELSE None

-----------------------------------------------------------------------------
(* Compilation of one asset: its files, and the projection clients load.    *)

SourceRoot(a) == <<"assets", a.kind, a.id>>

(* Every regular file of the asset but its metadata.                        *)
Sources(a) ==
  [p \in {SourceRoot(a) \o n : n \in DOMAIN a.files \ {<<"asset.yaml">>}} |->
     a.files[SubSeq(p, 4, Len(p))]]

Entrypoints(a) ==
  {p \in DOMAIN Sources(a) : Len(p) = 4 /\ Folded(<<p[4]>>) = <<"skill.md">>}

(* The only file of an agent or a command.                                  *)
Main(a) == Sources(a)[CHOOSE p \in DOMAIN Sources(a) : TRUE]

Entrypoint(root) == Append(root, "SKILL.md")

Skill(root, files, name) ==
  [entry |-> Entrypoint(root), name |-> name, files |-> Below(root, DOMAIN files)]

(* Wrong on purpose: the entrypoint keeps the case of its name.             *)
SkillProjectionAuthored(a) ==
  LET files == Sources(a)
      entry == CHOOSE p \in Entrypoints(a) : TRUE
  IN IF Cardinality(Entrypoints(a)) # 1 \/ ReadFrontmatter(files[entry]) = None
     THEN [files |-> files, skill |-> None]
     ELSE [files |-> files,
           skill |-> [entry |-> entry, name |-> ReadFrontmatter(files[entry]), files |-> DOMAIN files]]

(* A skill is its directory; its entrypoint is renamed to SKILL.md.         *)
SkillProjection(a) ==
  LET files == Sources(a)
      entry == CHOOSE p \in Entrypoints(a) : TRUE
      to == Entrypoint(SourceRoot(a))
      moved == [p \in (DOMAIN files \ {entry}) \cup {to} |->
                  IF p = to THEN files[entry] ELSE files[p]]
  IN IF Cardinality(Entrypoints(a)) # 1 \/ ReadFrontmatter(files[entry]) = None
     THEN [files |-> files, skill |-> None]
     ELSE [files |-> moved, skill |-> Skill(SourceRoot(a), moved, ReadFrontmatter(files[entry]))]

(* An agent becomes a delegation skill beside its source.                   *)
AgentProjection(a) ==
  LET root == <<"projections", "agent", a.id>>
      text == Rendered[Main(a)]
      files == With(Sources(a), Entrypoint(root), text)
  IN IF text = None THEN [files |-> Sources(a), skill |-> None]
     ELSE [files |-> files,
           skill |-> IF ReadFrontmatter(text) = None THEN None ELSE Skill(root, files, ReadFrontmatter(text))]

Projection(a) ==
  CASE a.kind = "skill" -> SkillProjection(a)
    [] a.kind = "agent" -> AgentProjection(a)
    [] OTHER -> [files |-> Sources(a), skill |-> None]

SkillFits(files, skill) ==
  /\ Cardinality(skill.files) <= MaxSkillFiles
  /\ FileSize([p \in skill.files |-> files[p]]) <= MaxSkillBytes

(* _compatibility: what a client has to provide.                            *)
Behavior(kind) ==
  CASE kind = "rule" -> "advisory"
    [] kind = "hook" -> "unavailable"
    [] OTHER -> "requires-host"

(* What cannot be projected is distributed as resources only; what was      *)
(* written for the projection stays.                                        *)
CompileAsset(a) ==
  LET made == Projection(a)
      skill == IF made.skill # None /\ SkillFits(made.files, made.skill)
               THEN made.skill ELSE None
      prompt == IF a.kind = "command" THEN Prompt[Main(a)] ELSE None
  IN [kind |-> a.kind, id |-> a.id, plugins |-> a.plugins, files |-> made.files,
      skill |-> skill, prompt |-> prompt,
      behavior |-> IF a.kind \in {"skill", "agent", "command"} /\ {skill, prompt} = {None}
                   THEN "unavailable" ELSE Behavior(a.kind)]

(* The manifest stands for its own hash, bundle_id.                         *)
Manifest(h) ==
  [plugins |-> DOMAIN h.kinds,
   assets |-> {CompileAsset(h.assets[i]) : i \in DOMAIN h.assets}]

AllFiles(m) == UNION {{<<a, p>> : p \in DOMAIN a.files} : a \in m.assets}

FilePaths(m) == UNION {DOMAIN a.files : a \in m.assets}

FileOf(m, p) == (CHOOSE a \in m.assets : p \in DOMAIN a.files).files[p]

FilesFit(m) ==
  /\ Cardinality(AllFiles(m)) <= MaxFiles
  /\ FoldSet(LAMBDA a, n : n + FileSize(a.files), 0, m.assets) <= MaxBytes
  /\ Cardinality({Folded(f[2]) : f \in AllFiles(m)}) = Cardinality(AllFiles(m))

(* Names of the tools that load skills: the plugin and the asset, shortened *)
(* with a digest when it is long; a plugin id that leaves no room is an     *)
(* error.                                                                   *)
HasToolName(plugin, a) ==
  LET available == MaxToolName - (Length[plugin] + Len("__load_skill_"))
  IN Length[a.id] <= available \/ available >= 10

SkillTools(assets) ==
  UNION {{<<plugin, a.kind, a.id>> : plugin \in a.plugins} : a \in {b \in assets : b.skill # None}}

ToolsNamed(assets) ==
  \A a \in assets : a.skill # None => \A plugin \in a.plugins : HasToolName(plugin, a)

ASSUME TornIsNoManifest == \A h \in Hubs : Torn # Manifest(h)

Compiles(h) == h.enabled => FilesFit(Manifest(h)) /\ ToolsNamed(Manifest(h).assets)

(* render_mcp_bundle: a hub that does not distribute over MCP has no files. *)
Output(h) ==
  IF ~h.enabled THEN <<>>
  ELSE LET m == Manifest(h)
       IN With([p \in FilePaths(m) |-> FileOf(m, p)], ManifestPath, m)

(* What builds may leave in dist/mcp.                                       *)
Outputs == {Output(h) : h \in {g \in Hubs : Compiles(g)}}

Bundles == {files[ManifestPath] : files \in Outputs \ {<<>>}}

-----------------------------------------------------------------------------
(* Builds: the old tree is removed, the new one copied, file by file.       *)

StartBuild ==
  /\ build = None
  /\ \E output \in Outputs : build' = [output |-> output, copying |-> FALSE]
  /\ UNCHANGED <<disk, server, client>>

(* Files of a directory come in an order of the file system: the manifest   *)
(* at any time, the others in one order.                                    *)
NextOf(paths) ==
  LET others == paths \ {ManifestPath}
  IN (paths \cap {ManifestPath})
       \cup (IF others = {} THEN {} ELSE {CHOOSE q \in others : TRUE})

RemoveFile ==
  /\ build # None /\ ~build.copying /\ disk # <<>>
  /\ \E p \in NextOf(DOMAIN disk) : disk' = [q \in DOMAIN disk \ {p} |-> disk[q]]
  /\ UNCHANGED <<build, server, client>>

BeginCopy ==
  /\ build # None /\ ~build.copying /\ disk = <<>>
  /\ build' = [build EXCEPT !.copying = TRUE]
  /\ UNCHANGED <<disk, server, client>>

(* A file is there before all of its contents are.                          *)
CopyFile ==
  /\ build # None /\ build.copying
  /\ IF \E p \in DOMAIN disk : disk[p] = Torn
     THEN disk' = [p \in DOMAIN disk |-> build.output[p]]
     ELSE \E p \in NextOf(DOMAIN build.output \ DOMAIN disk) : disk' = With(disk, p, Torn)
  /\ UNCHANGED <<build, server, client>>

EndBuild ==
  /\ build # None /\ build.copying /\ disk = build.output
  /\ build' = None
  /\ UNCHANGED <<disk, server, client>>

(* The build dies; what it wrote stays.                                     *)
Crash ==
  /\ build # None
  /\ build' = None
  /\ UNCHANGED <<disk, server, client>>

-----------------------------------------------------------------------------
(* A server reads the manifest, verifies every file and projection against  *)
(* it, and serves from memory.                                              *)

ManifestLoads(files, plugins) ==
  /\ ManifestPath \in DOMAIN files /\ files[ManifestPath] # Torn
  /\ LET m == files[ManifestPath]
     IN /\ plugins \subseteq m.plugins
        /\ FilesFit(m)
        /\ \A a \in m.assets : a.plugins # {} /\ a.plugins \subseteq m.plugins

(* Wrong on purpose: the size is compared, the digest is not.               *)
VerifiedSize(files, m, p) ==
  p \in DOMAIN files /\ files[p] # Torn /\ Size[files[p]] = Size[FileOf(m, p)]

(* _read_verified: the size and the digest the manifest records.            *)
Verified(files, m, p) == p \in DOMAIN files /\ files[p] = FileOf(m, p)

(* _validate_projection *)
ProjectionLoads(a, contents) ==
  /\ a.skill # None =>
       LET root == SubSeq(a.skill.entry, 1, Len(a.skill.entry) - 1)
       IN /\ a.kind \in {"skill", "agent"}
          /\ a.skill.entry = Entrypoint(root)
          /\ a.skill.entry \in a.skill.files
          /\ a.skill.files = Below(root, DOMAIN a.files)
          /\ SkillFits(contents, a.skill)
          /\ ReadFrontmatter(contents[a.skill.entry]) = a.skill.name
  /\ a.prompt # None => a.kind = "command"

(* The assets of a plugin selection.                                        *)
Selected(m, plugins) ==
  {[a EXCEPT !.plugins = @ \cap plugins] : a \in {b \in m.assets : b.plugins \cap plugins # {}}}

CatalogLoads(m, plugins, contents) ==
  /\ \A a \in m.assets : ProjectionLoads(a, contents)
  /\ ToolsNamed(Selected(m, plugins))

(* create_http_app: only loopback goes without a credential.                *)
Binds(binding) == binding.loopback \/ binding.token

StartServer(plugins, binding) ==
  /\ server = None
  /\ Binds(binding)
  /\ ManifestLoads(disk, plugins)
  /\ server' = [serving |-> FALSE, manifest |-> disk[ManifestPath], plugins |-> plugins,
                contents |-> <<>>]
  /\ UNCHANGED <<disk, build, client>>

Unread == FilePaths(server.manifest) \ DOMAIN server.contents

(* The next file of the manifest; one that is not what the manifest says    *)
(* ends the process.                                                        *)
ReadFile ==
  /\ server # None /\ ~server.serving /\ Unread # {}
  /\ LET p == CHOOSE q \in Unread : TRUE
     IN server' = IF Verified(disk, server.manifest, p)
                  THEN [server EXCEPT !.contents = With(@, p, disk[p])]
                  ELSE None
  /\ UNCHANGED <<disk, build, client>>

Serve ==
  /\ server # None /\ ~server.serving /\ Unread = {}
  /\ server' = IF CatalogLoads(server.manifest, server.plugins, server.contents)
               THEN [server EXCEPT !.serving = TRUE] ELSE None
  /\ UNCHANGED <<disk, build, client>>

StopServer ==
  /\ server # None
  /\ server' = None
  /\ UNCHANGED <<disk, build, client>>

-----------------------------------------------------------------------------
(* Requests. A catalog is a manifest and a selection; addresses of files    *)
(* name the bundle.                                                         *)

Catalog == [manifest |-> server.manifest, plugins |-> server.plugins]

Serving == server # None /\ server.serving

Uri(c, p) == [bundle |-> c.manifest, path |-> p]

Matches(a, kind, word) ==
  /\ kind \in {"any", a.kind}
  /\ word \in {""} \cup a.plugins \cup Words[a.id]

(* What the listing methods page through.                                   *)
Items(c, key) ==
  LET assets == Selected(c.manifest, c.plugins)
      skills == {a \in assets : a.skill # None}
  IN CASE key = <<"skills">> -> {[uri |-> Uri(c, a.skill.entry), name |-> a.skill.name] : a \in skills}
       [] key = <<"resources">> ->
            {Uri(c, p) : p \in (UNION {DOMAIN a.files : a \in assets}) \cup {<<"catalog.json">>}}
       [] key = <<"prompts">> -> {<<a.id, a.prompt>> : a \in {b \in assets : b.prompt # None}}
       [] key = <<"tools">> -> {<<"search_assets">>, <<"read_asset">>} \cup SkillTools(assets)
       [] OTHER -> {a \in assets : Matches(a, key[2], key[3])}

Scope(c, key, limit) == [catalog |-> c, key |-> key, limit |-> limit]

Scopes ==
  {Scope([manifest |-> m, plugins |-> plugins], l.key, l.limit) :
     m \in Bundles, plugins \in Selections, l \in Listings}

ASSUME NoneIsNoCursor == None \notin [scope : Scopes, offset : Nat]

(* Wrong on purpose: a cursor of another release or selection is accepted.  *)
PageAnyScope(c, key, limit, cursor) ==
  LET items == SetToSeq(Items(c, key))
      offset == IF cursor = None THEN 0 ELSE cursor.offset
      end == offset + limit
  IN IF offset >= Len(items) /\ cursor # None THEN None
     ELSE [items |-> SubSeq(items, offset + 1, IF end < Len(items) THEN end ELSE Len(items)),
           next |-> IF end < Len(items) THEN [scope |-> Scope(c, key, limit), offset |-> end]
                    ELSE None]

(* Catalog.page: None is an error.                                          *)
Page(c, key, limit, cursor) ==
  LET items == SetToSeq(Items(c, key))
      offset == IF cursor = None THEN 0 ELSE cursor.offset
      end == offset + limit
  IN IF cursor # None /\ (cursor.scope # Scope(c, key, limit) \/ offset >= Len(items)) THEN None
     ELSE [items |-> SubSeq(items, offset + 1, IF end < Len(items) THEN end ELSE Len(items)),
           next |-> IF end < Len(items) THEN [scope |-> Scope(c, key, limit), offset |-> end]
                    ELSE None]

Refused == [kind |-> "refused"]

(* A client lists skills, resources, prompts or tools, or searches.         *)
List(key, limit) ==
  /\ client = None /\ Serving
  /\ LET page == Page(Catalog, key, limit, None)
     IN client' = [kind |-> "listing", first |-> Scope(Catalog, key, limit),
                   items |-> page.items, cursor |-> page.next]
  /\ UNCHANGED <<disk, build, server>>

NextPage ==
  /\ Serving /\ client # None /\ client.kind = "listing" /\ client.cursor # None
  /\ LET page == Page(Catalog, client.first.key, client.first.limit, client.cursor)
     IN client' = IF page = None THEN Refused
                  ELSE [client EXCEPT !.items = @ \o page.items, !.cursor = page.next]
  /\ UNCHANGED <<disk, build, server>>

ReadResource(uri) ==
  IF uri.bundle = server.manifest
       /\ \E a \in Selected(server.manifest, server.plugins) : uri.path \in DOMAIN a.files
  THEN server.contents[uri.path] ELSE None

(* Wrong on purpose: the release a file is asked of is not compared.        *)
ReadAssetAnyBundle(bundle, kind, id, p) ==
  IF \E a \in Selected(server.manifest, server.plugins) :
          a.kind = kind /\ a.id = id /\ p \in DOMAIN a.files
  THEN server.contents[p] ELSE None

(* read_asset with the bundle id the skill tool returned.                   *)
ReadAsset(bundle, kind, id, p) ==
  IF bundle = server.manifest
       /\ \E a \in Selected(server.manifest, server.plugins) :
            a.kind = kind /\ a.id = id /\ p \in DOMAIN a.files
  THEN server.contents[p] ELSE None

(* A skill loading tool returns the instructions and how to read the other  *)
(* files; skills/get names the same files by their addresses.               *)
LoadSkill(how) ==
  /\ client = None /\ Serving
  /\ \E a \in Selected(server.manifest, server.plugins) :
       /\ a.skill # None
       /\ client' = [kind |-> how, first |-> Catalog, asset |-> <<a.kind, a.id>>,
                     files |-> a.skill.files,
                     got |-> IF how = "tool"
                             THEN [p \in {a.skill.entry} |-> server.contents[p]] ELSE <<>>]
  /\ UNCHANGED <<disk, build, server>>

ReadSkillFile ==
  /\ Serving /\ client # None /\ client.kind \in {"tool", "entry"}
  /\ \E p \in client.files \ DOMAIN client.got :
       LET bundle == client.first.manifest
           data == IF client.kind = "tool"
                   THEN ReadAsset(bundle, client.asset[1], client.asset[2], p)
                   ELSE ReadResource([bundle |-> bundle, path |-> p])
       IN client' = IF data = None THEN Refused ELSE [client EXCEPT !.got = With(@, p, data)]
  /\ UNCHANGED <<disk, build, server>>

(* The client is done, or gives up.                                         *)
Forget ==
  /\ client # None
  /\ client' = None
  /\ UNCHANGED <<disk, build, server>>

Init == disk = <<>> /\ build = None /\ server = None /\ client = None

Next ==
  \/ StartBuild \/ RemoveFile \/ BeginCopy \/ CopyFile \/ EndBuild \/ Crash
  \/ \E plugins \in Selections, binding \in Bindings : StartServer(plugins, binding)
  \/ ReadFile \/ Serve \/ StopServer
  \/ \E l \in Listings : List(l.key, l.limit)
  \/ NextPage
  \/ \E how \in {"tool", "entry"} : LoadSkill(how)
  \/ ReadSkillFile \/ Forget

Spec == Init /\ [][Next]_vars

-----------------------------------------------------------------------------
(* A server that reads dist/mcp while builds replace it, or after one that  *)
(* died, serves exactly the files of one compiled hub, or does not serve    *)
(* ("One immutable release", catalog.py).                                   *)
ServedWhole ==
  Serving => With(server.contents, ManifestPath, server.manifest) \in Outputs

(* What a build leaves loads, with every selection of its plugins: the      *)
(* checks of the compiler imply those of the catalog, whatever files an     *)
(* asset has.                                                               *)
BundlesLoad ==
  disk \in Outputs \ {<<>>} =>
    \A plugins \in SUBSET disk[ManifestPath].plugins :
      ManifestLoads(disk, plugins) /\ CatalogLoads(disk[ManifestPath], plugins, disk)

(* A listing a client pages through while servers change has every item of  *)
(* one catalog, once, or is refused (Catalog.page).                         *)
ListingsWhole ==
  client # None /\ client.kind = "listing" /\ client.cursor = None =>
    /\ ToSet(client.items) = Items(client.first.catalog, client.first.key)
    /\ Len(client.items) = Cardinality(ToSet(client.items))

(* The files a client gathers for a skill are those of the release its      *)
(* instructions are from (load_skill_tool, read_asset, get_skill).          *)
SkillsWhole ==
  client # None /\ client.kind \in {"tool", "entry"} =>
    \A p \in DOMAIN client.got : client.got[p] = FileOf(client.first.manifest, p)

=============================================================================
