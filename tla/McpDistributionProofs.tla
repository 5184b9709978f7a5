------------------------- MODULE McpDistributionProofs -------------------------
(***************************************************************************)
(* Theorems about McpDistribution, for any hubs, files, selections and      *)
(* limits: a server that serves at all serves every file of one compiled    *)
(* hub and nothing else, whatever builds did to dist/mcp while it read; and *)
(* a client gathers the files of one release.                               *)
(***************************************************************************)
EXTENDS McpDistribution, FiniteSetTheorems, FunctionTheorems, SequenceTheorems, TLAPS

(* A manifest on disk that is whole is that of a compiled hub, whatever the *)
(* files beside it are; a build copies nothing but its output.              *)
DiskInv ==
  ManifestPath \in DOMAIN disk =>
    disk[ManifestPath] = Torn \/ disk[ManifestPath] \in Bundles

BuildInv ==
  build # None => /\ build = [output |-> build.output, copying |-> build.copying]
                  /\ build.output \in Outputs
                  /\ build.copying => DOMAIN disk \subseteq DOMAIN build.output

(* A server holds what the manifest it read says of the files it read, and  *)
(* of all of them before it serves.                                         *)
HeldBy(s) ==
  /\ s = [serving |-> s.serving, manifest |-> s.manifest, plugins |-> s.plugins,
          contents |-> s.contents]
  /\ s.serving \in BOOLEAN
  /\ s.manifest \in Bundles /\ s.plugins \in Selections
  /\ DOMAIN s.contents \subseteq FilePaths(s.manifest)
  /\ s.contents = [p \in DOMAIN s.contents |-> FileOf(s.manifest, p)]
  /\ s.serving => /\ DOMAIN s.contents = FilePaths(s.manifest)
                  /\ CatalogLoads(s.manifest, s.plugins, s.contents)

ServerInv == server # None => HeldBy(server)

(* A client pages through a listing, or gathers a skill: it has files of    *)
(* the release it began with.                                               *)
ListedBy(c) ==
  c = [kind |-> "listing", first |-> c.first, items |-> c.items, cursor |-> c.cursor]

GatheredBy(c) ==
  /\ c = [kind |-> c.kind, first |-> c.first, asset |-> c.asset, files |-> c.files,
          got |-> c.got]
  /\ \A p \in DOMAIN c.got : c.got[p] = FileOf(c.first.manifest, p)

ClientInv ==
  client # None => /\ client.kind = "listing" => ListedBy(client)
                   /\ client.kind \in {"tool", "entry"} => GatheredBy(client)

Inv == DiskInv /\ BuildInv /\ ServerInv /\ ClientInv

-----------------------------------------------------------------------------
(* The outputs with files, and their manifests.                             *)
LEMMA OutputIs ==
  ASSUME NEW output \in Outputs, ManifestPath \in DOMAIN output
  PROVE  output[ManifestPath] \in Bundles
<1>1. output # <<>>
  OBVIOUS
<1> QED BY <1>1 DEF Bundles

LEMMA BundleIs ==
  ASSUME NEW m \in Bundles
  PROVE  With([p \in FilePaths(m) |-> FileOf(m, p)], ManifestPath, m) \in Outputs
<1>1. PICK output \in Outputs : output # <<>> /\ m = output[ManifestPath]
  BY DEF Bundles
<1>2. PICK h \in {g \in Hubs : Compiles(g)} : output = Output(h)
  BY <1>1 DEF Outputs
<1>3. output = With([p \in FilePaths(Manifest(h)) |-> FileOf(Manifest(h), p)],
                    ManifestPath, Manifest(h))
  BY <1>1, <1>2 DEF Output
<1>4. m = Manifest(h)
  BY <1>1, <1>3 DEF With
<1> QED BY <1>1, <1>3, <1>4

-----------------------------------------------------------------------------
(* Builds change dist/mcp and nothing that is served.                       *)
LEMMA BuildStep ==
  ASSUME Inv, StartBuild \/ RemoveFile \/ BeginCopy \/ CopyFile \/ EndBuild \/ Crash
  PROVE  Inv'
<1> USE DEF Inv
<1>1. UNCHANGED <<server, client>>
  BY DEF StartBuild, RemoveFile, BeginCopy, CopyFile, EndBuild, Crash
<1>2. ServerInv' /\ ClientInv'
  BY <1>1 DEF ServerInv, ClientInv
<1>3. CASE StartBuild
  <2>1. PICK output \in Outputs : build' = [output |-> output, copying |-> FALSE]
    BY <1>3 DEF StartBuild
  <2> QED BY <1>2, <1>3, <2>1 DEF StartBuild, DiskInv, BuildInv
<1>4. CASE RemoveFile
  <2>1. PICK p : disk' = [q \in DOMAIN disk \ {p} |-> disk[q]]
    BY <1>4 DEF RemoveFile
  <2>2. build # None /\ ~build.copying /\ build' = build
    BY <1>4 DEF RemoveFile
  <2>3. DiskInv'
    BY <2>1 DEF DiskInv
  <2> QED BY <1>2, <2>2, <2>3 DEF BuildInv
<1>5. CASE BeginCopy
  <2>1. /\ build # None /\ disk' = disk /\ disk = <<>>
        /\ build' = [build EXCEPT !.copying = TRUE]
    BY <1>5 DEF BeginCopy
  <2>2. build' = [output |-> build.output, copying |-> TRUE]
    BY <2>1 DEF BuildInv
  <2>3. build.output \in Outputs /\ DOMAIN disk = {}
    BY <2>1 DEF BuildInv
  <2>4. /\ build'.output = build.output /\ build'.copying = TRUE /\ DOMAIN disk' = {}
    BY <2>1, <2>2, <2>3
  <2>5. BuildInv'
    BY <2>2, <2>3, <2>4 DEF BuildInv
  <2>6. DiskInv'
    BY <2>4 DEF DiskInv
  <2> QED BY <1>2, <2>5, <2>6
<1>6. CASE CopyFile
  <2>1. build # None /\ build.copying /\ build' = build
    BY <1>6 DEF CopyFile
  <2>2. DOMAIN disk \subseteq DOMAIN build.output /\ build.output \in Outputs
    BY <2>1 DEF BuildInv
  <2>3. CASE disk' = [p \in DOMAIN disk |-> build.output[p]]
    BY <1>2, <2>1, <2>2, <2>3, OutputIs DEF BuildInv, DiskInv
  <2>4. CASE \E p \in NextOf(DOMAIN build.output \ DOMAIN disk) : disk' = With(disk, p, Torn)
    <3>1. PICK p \in NextOf(DOMAIN build.output \ DOMAIN disk) : disk' = With(disk, p, Torn)
      BY <2>4
    <3>2. p \in DOMAIN build.output
      BY <3>1 DEF NextOf
    <3>3. /\ DOMAIN disk' = DOMAIN disk \cup {p} /\ disk'[p] = Torn
          /\ \A q \in DOMAIN disk : q # p => disk'[q] = disk[q]
      BY <3>1 DEF With
    <3> QED BY <1>2, <2>1, <2>2, <3>2, <3>3 DEF BuildInv, DiskInv
  <2> QED BY <1>6, <2>3, <2>4 DEF CopyFile
<1>7. CASE EndBuild \/ Crash
  BY <1>2, <1>7 DEF EndBuild, Crash, DiskInv, BuildInv
<1> QED BY <1>3, <1>4, <1>5, <1>6, <1>7

(* A server takes the manifest, then one verified file after the other.     *)
LEMMA ServerStep ==
  ASSUME Inv,
         (\E plugins \in Selections, binding \in Bindings : StartServer(plugins, binding))
           \/ ReadFile \/ Serve \/ StopServer
  PROVE  Inv'
<1> USE DEF Inv
<1>1. UNCHANGED <<disk, build, client>>
  BY DEF StartServer, ReadFile, Serve, StopServer
<1>2. DiskInv' /\ BuildInv' /\ ClientInv'
  BY <1>1 DEF DiskInv, BuildInv, ClientInv
<1>3. CASE \E plugins \in Selections, binding \in Bindings : StartServer(plugins, binding)
  <2>1. PICK plugins \in Selections :
          /\ ManifestLoads(disk, plugins)
          /\ server' = [serving |-> FALSE, manifest |-> disk[ManifestPath],
                        plugins |-> plugins, contents |-> <<>>]
    BY <1>3 DEF StartServer
  <2>2. disk[ManifestPath] \in Bundles
    BY <2>1 DEF ManifestLoads, DiskInv
  <2>3. HeldBy(server')
    BY <2>1, <2>2 DEF HeldBy
  <2> QED BY <1>2, <2>3 DEF ServerInv, HeldBy, CatalogLoads, ProjectionLoads
<1>4. CASE ReadFile /\ server' = None
  BY <1>2, <1>4 DEF ServerInv
<1>5. CASE ReadFile /\ server' # None
  <2>1. server # None /\ ~server.serving
    BY <1>5 DEF ReadFile
  <2>2. HeldBy(server)
    BY <2>1 DEF ServerInv
  <2>3. PICK p \in Unread : /\ Verified(disk, server.manifest, p)
                            /\ server' = [server EXCEPT !.contents = With(server.contents, p, disk[p])]
    BY <1>5 DEF ReadFile
  <2> DEFINE contents == With(server.contents, p, disk[p])
  <2>4. /\ p \in FilePaths(server.manifest) /\ disk[p] = FileOf(server.manifest, p)
    BY <2>3 DEF Unread, Verified
  <2>5. server' = [serving |-> FALSE, manifest |-> server.manifest,
                   plugins |-> server.plugins, contents |-> contents]
    BY <2>1, <2>2, <2>3 DEF HeldBy
  <2>6. /\ DOMAIN contents \subseteq FilePaths(server.manifest)
        /\ contents = [q \in DOMAIN contents |-> FileOf(server.manifest, q)]
    BY <2>2, <2>4 DEF With, HeldBy
  <2> HIDE DEF contents
  <2>7. HeldBy(server')
    BY <2>2, <2>5, <2>6 DEF HeldBy
  <2> QED BY <1>2, <2>7 DEF ServerInv, HeldBy
<1>6. CASE Serve /\ server' # None
  <2>1. /\ server # None /\ Unread = {}
        /\ CatalogLoads(server.manifest, server.plugins, server.contents)
        /\ server' = [server EXCEPT !.serving = TRUE]
    BY <1>6 DEF Serve
  <2>2. HeldBy(server)
    BY <2>1 DEF ServerInv
  <2>3. server' = [serving |-> TRUE, manifest |-> server.manifest,
                   plugins |-> server.plugins, contents |-> server.contents]
    BY <2>1, <2>2 DEF HeldBy
  <2>4. DOMAIN server.contents = FilePaths(server.manifest)
    BY <2>1, <2>2 DEF HeldBy, Unread
  <2>5. HeldBy(server')
    BY <2>1, <2>2, <2>3, <2>4 DEF HeldBy
  <2> QED BY <1>2, <2>5 DEF ServerInv, HeldBy
<1>7. CASE StopServer \/ (Serve /\ server' = None)
  BY <1>2, <1>7 DEF StopServer, ServerInv
<1> QED BY <1>3, <1>4, <1>5, <1>6, <1>7

(* A client begins with what one server serves, and continues only with     *)
(* files of the same manifest.                                              *)
LEMMA ClientStep ==
  ASSUME Inv,
         (\E l \in Listings : List(l.key, l.limit)) \/ NextPage
           \/ (\E how \in {"tool", "entry"} : LoadSkill(how)) \/ ReadSkillFile \/ Forget
  PROVE  Inv'
<1> USE DEF Inv
<1>1. UNCHANGED <<disk, build, server>>
  BY DEF List, NextPage, LoadSkill, ReadSkillFile, Forget
<1>2. DiskInv' /\ BuildInv' /\ ServerInv'
  BY <1>1 DEF DiskInv, BuildInv, ServerInv, HeldBy, CatalogLoads, ProjectionLoads
<1>3. CASE \E l \in Listings : List(l.key, l.limit)
  <2>1. PICK first, items, cursor :
          client' = [kind |-> "listing", first |-> first, items |-> items, cursor |-> cursor]
    BY <1>3 DEF List
  <2> QED BY <1>2, <2>1 DEF ClientInv, ListedBy
<1>4. CASE NextPage /\ client' # Refused
  <2>1. client # None /\ client.kind = "listing" /\ ListedBy(client)
    BY <1>4 DEF NextPage, ClientInv
  <2>2. PICK items, next : client' = [client EXCEPT !.items = items, !.cursor = next]
    BY <1>4, Zenon DEF NextPage
  <2>3. client' = [kind |-> "listing", first |-> client.first, items |-> items, cursor |-> next]
    BY <2>1, <2>2 DEF ListedBy
  <2> QED BY <1>2, <2>3 DEF ClientInv, ListedBy
<1>5. CASE \E how \in {"tool", "entry"} : LoadSkill(how)
  <2>1. PICK how \in {"tool", "entry"} : LoadSkill(how)
    BY <1>5
  <2>2. server # None /\ server.serving
    BY <2>1 DEF LoadSkill, Serving
  <2>3. PICK a \in Selected(server.manifest, server.plugins) :
          /\ a.skill # None
          /\ client' = [kind |-> how, first |-> Catalog, asset |-> <<a.kind, a.id>>,
                        files |-> a.skill.files,
                        got |-> IF how = "tool"
                                THEN [p \in {a.skill.entry} |-> server.contents[p]] ELSE <<>>]
    BY <2>1 DEF LoadSkill
  <2>4. PICK b \in server.manifest.assets : a = [b EXCEPT !.plugins = b.plugins \cap server.plugins]
    BY <2>3 DEF Selected
  <2>5. a.skill = b.skill
    BY <2>4
  <2>6. a.skill.entry \in DOMAIN b.files
    BY <2>2, <2>3, <2>4, <2>5 DEF ServerInv, HeldBy, CatalogLoads, ProjectionLoads, Below
  <2>7. server.contents[a.skill.entry] = FileOf(server.manifest, a.skill.entry)
    BY <2>2, <2>4, <2>6 DEF ServerInv, HeldBy, FilePaths
  <2>8. GatheredBy(client')
    BY <2>3, <2>7 DEF GatheredBy, Catalog
  <2> QED BY <1>2, <2>1, <2>3, <2>8 DEF ClientInv, GatheredBy
<1>6. CASE ReadSkillFile /\ client' # Refused
  <2>1. /\ server # None /\ server.serving /\ client # None
        /\ client.kind \in {"tool", "entry"}
    BY <1>6 DEF ReadSkillFile, Serving
  <2>2. GatheredBy(client) /\ HeldBy(server)
    BY <2>1 DEF ClientInv, ServerInv
  <2>3. PICK p, data :
          /\ p \in client.files \ DOMAIN client.got
          /\ data # None
          /\ \/ data = ReadAsset(client.first.manifest, client.asset[1], client.asset[2], p)
             \/ data = ReadResource([bundle |-> client.first.manifest, path |-> p])
          /\ client' = [client EXCEPT !.got = With(client.got, p, data)]
    BY <1>6 DEF ReadSkillFile
  <2>4. /\ client.first.manifest = server.manifest /\ data = server.contents[p]
        /\ \E a \in Selected(server.manifest, server.plugins) : p \in DOMAIN a.files
    BY <2>3 DEF ReadAsset, ReadResource
  <2>5. p \in FilePaths(server.manifest)
    <3>1. PICK a \in Selected(server.manifest, server.plugins) : p \in DOMAIN a.files
      BY <2>4
    <3>2. PICK b \in server.manifest.assets : a = [b EXCEPT !.plugins = b.plugins \cap server.plugins]
      BY <3>1 DEF Selected
    <3>3. a.files = b.files
      BY <3>2
    <3> QED BY <3>1, <3>2, <3>3 DEF FilePaths
  <2>6. data = FileOf(client.first.manifest, p)
    BY <2>1, <2>2, <2>4, <2>5 DEF HeldBy
  <2> DEFINE got == With(client.got, p, data)
  <2>7. client' = [kind |-> client.kind, first |-> client.first, asset |-> client.asset,
                   files |-> client.files, got |-> got]
    BY <2>2, <2>3 DEF GatheredBy
  <2>8. \A q \in DOMAIN got : got[q] = FileOf(client.first.manifest, q)
    BY <2>2, <2>6 DEF GatheredBy, With
  <2> HIDE DEF got
  <2>9. GatheredBy(client')
    BY <2>7, <2>8 DEF GatheredBy
  <2> QED BY <1>2, <2>1, <2>7, <2>9 DEF ClientInv, GatheredBy
<1>7. CASE Forget \/ client' = Refused
  BY <1>2, <1>7 DEF Forget, ClientInv, Refused
<1> QED BY <1>3, <1>4, <1>5, <1>6, <1>7

LEMMA Invariance == Spec => []Inv
<1>1. Init => Inv
  BY DEF Init, Inv, DiskInv, BuildInv, ServerInv, ClientInv
<1>2. ASSUME Inv, [Next]_vars PROVE Inv'
  <2>1. CASE UNCHANGED vars
    BY <1>2, <2>1 DEF vars, Inv, DiskInv, BuildInv, ServerInv, ClientInv, HeldBy,
                      ListedBy, GatheredBy, CatalogLoads, ProjectionLoads
  <2> QED BY <1>2, <2>1, BuildStep, ServerStep, ClientStep DEF Next
<1>3. Inv /\ [Next]_vars => Inv'
  BY <1>2
<1> QED BY <1>1, <1>3, PTL DEF Spec

-----------------------------------------------------------------------------
(* A server that reads dist/mcp while builds replace it, or after one that  *)
(* died, serves the files of one compiled hub, each as its manifest says,   *)
(* and all of them, or does not serve (_read_bundle, catalog.py).           *)
THEOREM OneReleaseServed == Spec => []ServedWhole
<1>1. ASSUME Inv PROVE ServedWhole
  <2> SUFFICES ASSUME Serving
               PROVE  With(server.contents, ManifestPath, server.manifest) \in Outputs
    BY DEF ServedWhole
  <2>1. HeldBy(server) /\ server.serving
    BY <1>1 DEF Serving, Inv, ServerInv
  <2>2. /\ server.contents = [p \in FilePaths(server.manifest) |-> FileOf(server.manifest, p)]
        /\ server.manifest \in Bundles
    BY <2>1 DEF HeldBy
  <2> QED BY <2>2, BundleIs
<1>2. Inv => ServedWhole
  BY <1>1
<1> QED BY <1>2, Invariance, PTL

(* The files a client gathers for a skill are those of the release its      *)
(* instructions are from, although servers stop and start between requests  *)
(* (load_skill_tool, read_asset, get_skill).                                *)
THEOREM SkillsOfOneRelease == Spec => []SkillsWhole
<1>1. Inv => SkillsWhole
  BY DEF Inv, ClientInv, GatheredBy, SkillsWhole
<1> QED BY <1>1, Invariance, PTL

-----------------------------------------------------------------------------
(* What a compiled asset is.                                                *)
LEMMA CompiledIs ==
  ASSUME NEW a
  PROVE  LET c == CompileAsset(a)
         IN /\ c.kind = a.kind /\ c.id = a.id /\ c.plugins = a.plugins
            /\ c.files = Projection(a).files
            /\ c.skill # None => /\ c.skill = Projection(a).skill
                                 /\ SkillFits(c.files, c.skill)
            /\ c.prompt # None => c.kind = "command"
            /\ \A plugins : /\ [c EXCEPT !.plugins = plugins].skill = c.skill
                            /\ [c EXCEPT !.plugins = plugins].id = c.id
                            /\ [c EXCEPT !.plugins = plugins].plugins = plugins
BY DEF CompileAsset

(* The names in the paths of an asset's files.                              *)
Names(a) == STRING \cup {"assets", "projections", "agent", "SKILL.md", a.kind, a.id}

(* A root and the entrypoint below it.                                      *)
LEMMA EntrypointIs ==
  ASSUME NEW a, NEW root \in Seq(Names(a))
  PROVE  /\ Entrypoint(root) \in Seq(Names(a)) /\ IsStrictPrefix(root, Entrypoint(root))
         /\ SubSeq(Entrypoint(root), 1, Len(Entrypoint(root)) - 1) = root
         /\ Len(root) > 0 => Entrypoint(root)[1] = root[1]
<1> DEFINE entry == Append(root, "SKILL.md")
           S == Names(a)
<1>1. root \in Seq(S) /\ "SKILL.md" \in S
  BY DEF Names
<1> HIDE DEF S
<1>2. /\ entry \in Seq(S) /\ Len(entry) = Len(root) + 1 /\ Len(root) \in Nat
      /\ \A i \in 1 .. Len(root) : entry[i] = root[i]
  BY <1>1, AppendProperties
<1> HIDE DEF entry
<1>3. SubSeq(entry, 1, Len(root)) = root
  <2> DEFINE cut == SubSeq(entry, 1, Len(root))
  <2>1. \A i \in 1 .. Len(root) : entry[i] \in S
    BY <1>1, <1>2
  <2>2. /\ cut \in Seq(S)
        /\ Len(cut) = IF 1 <= Len(root) THEN Len(root) - 1 + 1 ELSE 0
        /\ \A i \in 1 .. Len(root) - 1 + 1 : cut[i] = entry[1 + i - 1]
    BY <1>2, <2>1, SubSeqProperties
  <2> HIDE DEF cut
  <2>3. Len(cut) = Len(root) /\ \A i \in 1 .. Len(cut) : cut[i] = root[i]
    BY <1>2, <2>2
  <2> QED BY <1>1, <2>2, <2>3, SeqEqual DEF cut
<1>4. SubSeq(root, 1, Len(root)) = root
  BY <1>1, SubSeqFull
<1>5. IsStrictPrefix(root, entry)
  <2>1. root # entry
    BY <1>2
  <2> QED BY <1>2, <1>3, <1>4, <2>1 DEF IsStrictPrefix, IsPrefix
<1> QED BY <1>2, <1>3, <1>5 DEF Entrypoint, entry, S

(* The files of an asset are below assets or projections, finitely many.    *)
LEMMA SourcesAre ==
  ASSUME NEW plugins, NEW a, AssetSource(a, plugins)
  PROVE  /\ SourceRoot(a) \in Seq(Names(a)) /\ Len(SourceRoot(a)) = 3 /\ SourceRoot(a)[1] = "assets"
         /\ IsFiniteSet(DOMAIN Sources(a))
         /\ \A p \in DOMAIN Sources(a) : p[1] = "assets"
<1> DEFINE names == DOMAIN a.files \ {<<"asset.yaml">>}
           root == SourceRoot(a)
           S == Names(a)
<1>1. root \in Seq(S) /\ Len(root) = 3 /\ root[1] = "assets"
  BY DEF SourceRoot, Names
<1>2. DOMAIN Sources(a) = {root \o n : n \in names}
  BY DEF Sources
<1>3. IsFiniteSet(names) /\ names \subseteq Seq(S)
  <2>1. IsFiniteSet(DOMAIN a.files) /\ DOMAIN a.files \subseteq Seq(STRING)
    BY DEF AssetSource, Path
  <2>2. \A n \in Seq(STRING) : n \in Seq(S)
    BY SeqMonotonic DEF Names
  <2> QED BY <2>1, <2>2, FS_Subset
<1> HIDE DEF root, names, S
<1>4. ASSUME NEW n \in names PROVE (root \o n)[1] = "assets"
  BY <1>1, <1>3, ConcatProperties
<1>5. IsFiniteSet({root \o n : n \in names})
  <2> DEFINE f == [n \in names |-> root \o n]
             paths == {root \o n : n \in names}
  <2>1. f \in Surjection(names, paths)
    BY DEF Surjection
  <2> QED BY <1>3, <2>1, FS_Surjection
<1> QED BY <1>1, <1>2, <1>4, <1>5 DEF root, S

(* What a projection is: the files stay where assets and projections are;   *)
(* a skill is the directory of its entrypoint, renamed or added.            *)
LEMMA ProjectionIs ==
  ASSUME NEW plugins, NEW a, AssetSource(a, plugins)
  PROVE  LET made == Projection(a)
         IN /\ IsFiniteSet(DOMAIN made.files)
            /\ \A p \in DOMAIN made.files : p[1] \in {"assets", "projections"}
            /\ made.skill # None =>
                 /\ a.kind \in {"skill", "agent"}
                 /\ \E root \in Seq(Names(a)) : \E name :
                      /\ made.skill = Skill(root, made.files, name)
                      /\ Entrypoint(root) \in DOMAIN made.files
                      /\ name = ReadFrontmatter(made.files[Entrypoint(root)])
<1> DEFINE files == Sources(a)
<1>1. /\ SourceRoot(a) \in Seq(Names(a)) /\ Len(SourceRoot(a)) = 3 /\ SourceRoot(a)[1] = "assets"
      /\ IsFiniteSet(DOMAIN files)
      /\ \A p \in DOMAIN files : p[1] = "assets"
  BY SourcesAre
<1> HIDE DEF files
<1>2. CASE a.kind = "skill"
  <2> DEFINE to == Entrypoint(SourceRoot(a))
             entry == CHOOSE p \in Entrypoints(a) : TRUE
             moved == [p \in (DOMAIN files \ {entry}) \cup {to} |->
                         IF p = to THEN files[entry] ELSE files[p]]
             name == ReadFrontmatter(files[entry])
  <2>1. \/ Projection(a) = [files |-> files, skill |-> None]
        \/ Projection(a) = [files |-> moved, skill |-> Skill(SourceRoot(a), moved, name)]
    BY <1>2 DEF Projection, SkillProjection, files
  <2>2. CASE Projection(a) = [files |-> files, skill |-> None]
    BY <1>1, <2>2
  <2>3. CASE Projection(a) = [files |-> moved, skill |-> Skill(SourceRoot(a), moved, name)]
    <3>1. /\ DOMAIN moved = (DOMAIN files \ {entry}) \cup {to} /\ moved[to] = files[entry]
      OBVIOUS
    <3>2. to[1] = "assets"
      <4>1. Entrypoint(SourceRoot(a))[1] = SourceRoot(a)[1]
        BY <1>1, EntrypointIs
      <4> QED BY <1>1, <4>1
    <3> HIDE DEF moved, to, entry
    <3>3. IsFiniteSet(DOMAIN moved)
      <4>1. IsFiniteSet(DOMAIN files \ {entry})
        BY <1>1, FS_Difference
      <4> QED BY <3>1, <4>1, FS_AddElement
    <3>4. \A p \in DOMAIN moved : p[1] = "assets"
      BY <1>1, <3>1, <3>2
    <3>5. /\ Projection(a).files = moved
          /\ Projection(a).skill = Skill(SourceRoot(a), moved, name)
      BY <2>3
    <3>6. to \in DOMAIN moved /\ name = ReadFrontmatter(moved[to])
      BY <3>1
    <3> QED BY <1>1, <1>2, <3>3, <3>4, <3>5, <3>6 DEF to
  <2> QED BY <2>1, <2>2, <2>3
<1>3. CASE a.kind = "agent"
  <2> DEFINE root == <<"projections", "agent", a.id>>
             text == Rendered[Main(a)]
             added == With(files, Entrypoint(root), text)
             skill == IF ReadFrontmatter(text) = None THEN None
                      ELSE Skill(root, added, ReadFrontmatter(text))
  <2>1. \/ Projection(a) = [files |-> files, skill |-> None]
        \/ Projection(a) = [files |-> added, skill |-> skill]
    BY <1>3 DEF Projection, AgentProjection, files
  <2>2. CASE Projection(a) = [files |-> files, skill |-> None]
    BY <1>1, <2>2
  <2>3. CASE Projection(a) = [files |-> added, skill |-> skill]
    <3>1. /\ DOMAIN added = DOMAIN files \cup {Entrypoint(root)}
          /\ added[Entrypoint(root)] = text
      BY DEF With
    <3>2. root \in Seq(Names(a)) /\ Len(root) = 3 /\ root[1] = "projections"
      BY DEF Names
    <3> HIDE DEF added, root
    <3>3. Entrypoint(root)[1] = "projections"
      BY <3>2, EntrypointIs
    <3>4. IsFiniteSet(DOMAIN added)
      BY <1>1, <3>1, FS_AddElement
    <3>5. \A p \in DOMAIN added : p[1] \in {"assets", "projections"}
      BY <1>1, <3>1, <3>3
    <3>6. Projection(a).files = added /\ Projection(a).skill = skill
      BY <2>3
    <3>7. skill # None => skill = Skill(root, added, ReadFrontmatter(added[Entrypoint(root)]))
      BY <3>1
    <3> HIDE DEF skill, text
    <3> QED BY <1>3, <3>1, <3>2, <3>4, <3>5, <3>6, <3>7
  <2> QED BY <2>1, <2>2, <2>3
<1>4. CASE a.kind \notin {"skill", "agent"}
  BY <1>1, <1>4 DEF Projection, files
<1> QED BY <1>2, <1>3, <1>4

-----------------------------------------------------------------------------
(* No two files of a bundle have one path, so what a path holds is what its *)
(* asset has there; and none has the path of the manifest.                  *)
LEMMA FilesApart ==
  ASSUME NEW m, FilesFit(m), IsFiniteSet(AllFiles(m)),
         NEW a \in m.assets, NEW p \in DOMAIN a.files
  PROVE  FileOf(m, p) = a.files[p]
<1> DEFINE S == AllFiles(m)
           T == {Folded(f[2]) : f \in S}
           fold == [f \in S |-> Folded(f[2])]
           b == CHOOSE c \in m.assets : p \in DOMAIN c.files
<1>1. Cardinality(S) = Cardinality(T) /\ fold \in Surjection(S, T)
  BY DEF FilesFit, Surjection
<1>2. fold \in Injection(S, T)
  BY <1>1, FS_SurjSameCardinalityImpliesInj
<1>3. b \in m.assets /\ p \in DOMAIN b.files
  OBVIOUS
<1> HIDE DEF b
<1>4. <<a, p>> \in S /\ <<b, p>> \in S
  BY <1>3 DEF AllFiles
<1>5. fold[<<a, p>>] = fold[<<b, p>>]
  BY <1>4
<1>6. <<a, p>> = <<b, p>>
  BY <1>2, <1>4, <1>5 DEF Injection, IsInjective
<1> QED BY <1>6 DEF FileOf, b

(* What a compiled hub leaves in dist/mcp.                                  *)
LEMMA OutputLoads ==
  ASSUME NEW h \in Hubs, Compiles(h), h.enabled,
         NEW plugins \in SUBSET DOMAIN h.kinds
  PROVE  LET m == Manifest(h)
             files == Output(h)
         IN /\ files[ManifestPath] = m /\ m.plugins = DOMAIN h.kinds
            /\ ManifestLoads(files, plugins) /\ CatalogLoads(m, plugins, files)
<1> DEFINE m == Manifest(h)
           files == Output(h)
           compiled(i) == CompileAsset(h.assets[i])
<1>1. /\ IsFiniteSet(DOMAIN h.assets)
      /\ \A i \in DOMAIN h.assets : AssetSource(h.assets[i], DOMAIN h.kinds)
  BY McpConstants
<1>2. /\ m.plugins = DOMAIN h.kinds
      /\ m.assets = {compiled(i) : i \in DOMAIN h.assets}
  BY DEF Manifest
<1>3. FilesFit(m) /\ ToolsNamed(m.assets) /\ Torn # m
  BY TornIsNoManifest DEF Compiles
<1>4. files = With([p \in FilePaths(m) |-> FileOf(m, p)], ManifestPath, m)
  BY DEF Output
<1> HIDE DEF m, files
<1>5. \A i \in DOMAIN h.assets :
        /\ IsFiniteSet(DOMAIN compiled(i).files)
        /\ \A p \in DOMAIN compiled(i).files : p[1] \in {"assets", "projections"}
  <2> TAKE i \in DOMAIN h.assets
  <2>1. compiled(i).files = Projection(h.assets[i]).files
    BY CompiledIs
  <2> QED BY <1>1, <2>1, ProjectionIs
<1>6. IsFiniteSet(AllFiles(m))
  <2> DEFINE paths(a) == {<<a, p>> : p \in DOMAIN a.files}
             sets == {paths(a) : a \in m.assets}
             index == [i \in DOMAIN h.assets |-> paths(compiled(i))]
  <2>1. index \in Surjection(DOMAIN h.assets, sets)
    <3> HIDE DEF paths, compiled
    <3>1. \A i \in DOMAIN h.assets : paths(compiled(i)) \in sets
      BY <1>2
    <3>2. \A s \in sets : \E i \in DOMAIN h.assets : s = paths(compiled(i))
      BY <1>2
    <3> QED BY <3>1, <3>2 DEF Surjection
  <2>2. IsFiniteSet(sets)
    BY <1>1, <2>1, FS_Surjection
  <2>3. ASSUME NEW i \in DOMAIN h.assets PROVE IsFiniteSet(paths(compiled(i)))
    <3> DEFINE D == DOMAIN compiled(i).files
               pair == [p \in D |-> <<compiled(i), p>>]
    <3>1. pair \in Surjection(D, paths(compiled(i)))
      BY DEF Surjection
    <3> HIDE DEF pair, paths, compiled
    <3> QED BY <1>5, <3>1, FS_Surjection
  <2>4. \A s \in sets : IsFiniteSet(s)
    BY <1>2, <2>3
  <2> HIDE DEF sets
  <2>5. IsFiniteSet(UNION sets)
    BY <2>2, <2>4, FS_UNION
  <2> QED BY <2>5 DEF AllFiles, sets
<1> HIDE DEF compiled
<1>7. ASSUME NEW a \in m.assets, NEW p \in DOMAIN a.files
      PROVE  p \in DOMAIN files /\ files[p] = a.files[p]
  <2>1. p # ManifestPath
    <3>1. p[1] \in {"assets", "projections"}
      BY <1>2, <1>5
    <3>2. ManifestPath[1] = "bundle.json"
      BY DEF ManifestPath
    <3> QED BY <3>1, <3>2
  <2>2. p \in FilePaths(m)
    BY DEF FilePaths
  <2>3. FileOf(m, p) = a.files[p]
    BY <1>3, <1>6, FilesApart
  <2> QED BY <1>4, <2>1, <2>2, <2>3 DEF With
<1>8. ManifestPath \in DOMAIN files /\ files[ManifestPath] = m
  BY <1>4 DEF With
<1>9. \A a \in m.assets : a.plugins # {} /\ a.plugins \subseteq m.plugins
  <2> SUFFICES ASSUME NEW i \in DOMAIN h.assets
               PROVE  compiled(i).plugins # {} /\ compiled(i).plugins \subseteq m.plugins
    BY <1>2
  <2>1. compiled(i).plugins = h.assets[i].plugins
    BY CompiledIs DEF compiled
  <2> QED BY <1>1, <1>2, <2>1 DEF AssetSource
<1>10. ASSUME NEW i \in DOMAIN h.assets
       PROVE  ProjectionLoads(compiled(i), files)
  <2> DEFINE a == compiled(i)
  <2>1. /\ a.kind = h.assets[i].kind /\ a.files = Projection(h.assets[i]).files
        /\ a.skill # None => /\ a.skill = Projection(h.assets[i]).skill
                             /\ SkillFits(a.files, a.skill)
        /\ a.prompt # None => a.kind = "command"
    BY CompiledIs DEF compiled
  <2>2. a \in m.assets
    BY <1>2
  <2> HIDE DEF a
  <2>3. ASSUME a.skill # None
        PROVE  LET root == SubSeq(a.skill.entry, 1, Len(a.skill.entry) - 1)
               IN /\ a.kind \in {"skill", "agent"}
                  /\ a.skill.entry = Entrypoint(root)
                  /\ a.skill.entry \in a.skill.files
                  /\ a.skill.files = Below(root, DOMAIN a.files)
                  /\ SkillFits(files, a.skill)
                  /\ ReadFrontmatter(files[a.skill.entry]) = a.skill.name
    <3>1. Projection(h.assets[i]).skill # None
      BY <2>1, <2>3
    <3>2. AssetSource(h.assets[i], DOMAIN h.kinds)
      BY <1>1
    <3>3. /\ a.kind \in {"skill", "agent"}
          /\ \E root \in Seq(Names(h.assets[i])) : \E name :
               /\ a.skill = Skill(root, a.files, name)
               /\ Entrypoint(root) \in DOMAIN a.files
               /\ name = ReadFrontmatter(a.files[Entrypoint(root)])
      BY <2>1, <2>3, <3>1, <3>2, ProjectionIs
    <3> PICK root \in Seq(Names(h.assets[i])) :
           \E name :
             /\ a.skill = Skill(root, a.files, name)
             /\ Entrypoint(root) \in DOMAIN a.files
             /\ name = ReadFrontmatter(a.files[Entrypoint(root)])
      BY <3>3
    <3>4. PICK name :
            /\ a.skill = Skill(root, a.files, name)
            /\ Entrypoint(root) \in DOMAIN a.files
            /\ name = ReadFrontmatter(a.files[Entrypoint(root)])
      OBVIOUS
    <3>5. /\ a.skill.entry = Entrypoint(root) /\ a.skill.name = name
          /\ a.skill.files = Below(root, DOMAIN a.files)
      BY <3>4 DEF Skill
    <3>6. /\ SubSeq(Entrypoint(root), 1, Len(Entrypoint(root)) - 1) = root
          /\ IsStrictPrefix(root, Entrypoint(root))
      BY EntrypointIs
    <3>7. a.skill.entry \in a.skill.files
      BY <3>4, <3>5, <3>6 DEF Below
    <3>8. a.skill.files \subseteq DOMAIN a.files
      BY <3>5 DEF Below
    <3>9. [p \in a.skill.files |-> files[p]] = [p \in a.skill.files |-> a.files[p]]
      BY <1>7, <2>2, <3>8
    <3>10. SkillFits(files, a.skill)
      BY <2>1, <2>3, <3>9, Zenon DEF SkillFits
    <3>11. ReadFrontmatter(files[a.skill.entry]) = a.skill.name
      BY <1>7, <2>2, <3>4, <3>5
    <3> QED BY <3>3, <3>5, <3>6, <3>7, <3>10, <3>11
  <2>4. ProjectionLoads(a, files)
    BY <2>1, <2>3 DEF ProjectionLoads
  <2> QED BY <2>4 DEF a
<1>11. ToolsNamed(Selected(m, plugins))
  <2> SUFFICES ASSUME NEW c \in Selected(m, plugins), c.skill # None, NEW plugin \in c.plugins
               PROVE  HasToolName(plugin, c)
    BY DEF ToolsNamed
  <2>1. PICK b \in m.assets : c = [b EXCEPT !.plugins = b.plugins \cap plugins]
    BY DEF Selected
  <2>2. PICK i \in DOMAIN h.assets : b = CompileAsset(h.assets[i])
    BY <1>2 DEF compiled
  <2>3. c.skill = b.skill /\ c.id = b.id /\ c.plugins = b.plugins \cap plugins
    BY <2>1, <2>2, CompiledIs
  <2>4. HasToolName(plugin, b)
    BY <1>3, <2>3 DEF ToolsNamed
  <2> QED BY <2>3, <2>4 DEF HasToolName
<1>12. ManifestLoads(files, plugins)
  BY <1>2, <1>3, <1>8, <1>9 DEF ManifestLoads
<1>13. CatalogLoads(m, plugins, files)
  BY <1>2, <1>10, <1>11 DEF CatalogLoads
<1> QED BY <1>2, <1>8, <1>12, <1>13 DEF m, files

(* Whatever hub is compiled, what it leaves loads with every selection of   *)
(* its plugins: the checks of the compiler imply those of the catalog, which*)
(* are written a second time (compiler.py, catalog.py _validate_projection).*)
THEOREM EveryBundleLoads == Spec => []BundlesLoad
<1>1. ASSUME disk \in Outputs \ {<<>>}, NEW plugins \in SUBSET disk[ManifestPath].plugins
      PROVE  ManifestLoads(disk, plugins) /\ CatalogLoads(disk[ManifestPath], plugins, disk)
  <2>1. PICK h \in {g \in Hubs : Compiles(g)} : disk = Output(h)
    BY <1>1 DEF Outputs
  <2>2. h.enabled
    BY <1>1, <2>1 DEF Output
  <2>3. Output(h)[ManifestPath] = Manifest(h) /\ Manifest(h).plugins = DOMAIN h.kinds
    BY <2>2 DEF Output, With, Manifest
  <2>4. plugins \in SUBSET DOMAIN h.kinds
    BY <1>1, <2>1, <2>3
  <2> QED BY <2>1, <2>2, <2>3, <2>4, OutputLoads
<1>2. BundlesLoad
  BY <1>1 DEF BundlesLoad
<1> QED BY <1>2, PTL
-----------------------------------------------------------------------------
(* Listings *)

(* A client that pages has the first items of the catalog it began with, as *)
(* many as its cursor says, or all.                                         *)
PagedBy(c) ==
  /\ c.first \in Scopes
  /\ LET items == Items(c.first.catalog, c.first.key)
         all == SetToSeq(items)
     IN /\ c.items \in Seq(items) /\ Len(c.items) <= Len(all)
        /\ \A i \in 1 .. Len(c.items) : c.items[i] = all[i]
        /\ c.cursor = None => Len(c.items) = Len(all)
        /\ c.cursor # None => c.cursor = [scope |-> c.first, offset |-> Len(c.items)]

PagingInv == client # None /\ client.kind = "listing" => PagedBy(client)

LEMMA SetToSeqIs ==
  ASSUME NEW S, IsFiniteSet(S)
  PROVE  LET q == SetToSeq(S)
         IN /\ q \in Seq(S) /\ Len(q) = Cardinality(S) /\ Len(q) \in Nat
            /\ ToSet(q) = S /\ \A i, j \in 1 .. Len(q) : q[i] = q[j] => i = j
<1> DEFINE n == Cardinality(S)
           q == SetToSeq(S)
<1>1. n \in Nat /\ ExistsBijection(1 .. n, S)
  BY FS_CardinalityType
<1>2. \E f \in [1 .. n -> S] : IsInjective(f)
  BY <1>1 DEF ExistsBijection, Bijection, Injection
<1>3. q \in [1 .. n -> S] /\ IsInjective(q)
  BY <1>2 DEF SetToSeq
<1> HIDE DEF q
<1>4. q \in Seq(S) /\ Len(q) = n
  BY <1>1, <1>3, SeqDef, LenProperties
<1>5. q \in Injection(1 .. n, S)
  BY <1>3 DEF Injection
<1>6. IsFiniteSet(1 .. n) /\ Cardinality(1 .. n) = n
  BY <1>1, FS_Interval
<1>7. q \in Surjection(1 .. n, S)
  BY <1>5, <1>6, FS_Injection
<1>8. ToSet(q) = S
  BY <1>3, <1>7 DEF Surjection, ToSet
<1> QED
  BY <1>1, <1>3, <1>4, <1>8 DEF IsInjective, q

(* There are only so many of anything a catalog lists.                      *)
LEMMA ItemsFinite ==
  ASSUME NEW c, c.manifest \in Bundles, NEW key
  PROVE  IsFiniteSet(Items(c, key))
<1>1. PICK h \in Hubs : h.enabled /\ c.manifest = Manifest(h)
  <2>1. PICK output \in Outputs : output # <<>> /\ c.manifest = output[ManifestPath]
    BY DEF Bundles
  <2>2. PICK h \in {g \in Hubs : Compiles(g)} : output = Output(h)
    BY <2>1 DEF Outputs
  <2>3. h.enabled
    BY <2>1, <2>2 DEF Output
  <2>4. output[ManifestPath] = Manifest(h)
    BY <2>2, <2>3 DEF Output, With
  <2> QED
    BY <2>1, <2>2, <2>3, <2>4
<1>2. /\ IsFiniteSet(DOMAIN h.assets) /\ IsFiniteSet(DOMAIN h.kinds)
      /\ \A i \in DOMAIN h.assets : AssetSource(h.assets[i], DOMAIN h.kinds)
  BY McpConstants
<1> DEFINE compiled(i) == CompileAsset(h.assets[i])
           A == c.manifest.assets
           chosen(a) == [a EXCEPT !.plugins = a.plugins \cap c.plugins]
           S == Selected(c.manifest, c.plugins)
<1>3. A = {compiled(i) : i \in DOMAIN h.assets}
  BY <1>1 DEF Manifest
<1>4. IsFiniteSet(A)
  <2> DEFINE f == [i \in DOMAIN h.assets |-> compiled(i)]
  <2> HIDE DEF compiled, A
  <2>1. f \in Surjection(DOMAIN h.assets, A)
    BY <1>3 DEF Surjection
  <2> QED
    BY <1>2, <2>1, FS_Surjection
<1>5. \A a \in A : IsFiniteSet(DOMAIN a.files) /\ IsFiniteSet(a.plugins)
  <2> SUFFICES ASSUME NEW i \in DOMAIN h.assets
               PROVE  IsFiniteSet(DOMAIN compiled(i).files) /\ IsFiniteSet(compiled(i).plugins)
    BY <1>3
  <2>1. compiled(i).files = Projection(h.assets[i]).files /\ compiled(i).plugins = h.assets[i].plugins
    BY CompiledIs
  <2>2. IsFiniteSet(DOMAIN compiled(i).files)
    BY <1>2, <2>1, ProjectionIs
  <2>3. compiled(i).plugins \subseteq DOMAIN h.kinds
    BY <1>2, <2>1 DEF AssetSource
  <2> QED
    BY <1>2, <2>2, <2>3, FS_Subset
<1> HIDE DEF compiled, A
<1>6. IsFiniteSet(S) /\ \A a \in S : \E b \in A : a = chosen(b)
  <2> DEFINE B == {b \in A : b.plugins \cap c.plugins # {}}
             f == [b \in B |-> chosen(b)]
  <2>1. S = {chosen(b) : b \in B}
    BY DEF Selected, A
  <2> HIDE DEF chosen, S
  <2>2. f \in Surjection(B, S)
    BY <2>1 DEF Surjection
  <2>3. IsFiniteSet(B)
    BY <1>4, FS_Subset
  <2> QED
    BY <2>1, <2>2, <2>3, FS_Surjection
<1>7. \A a \in S : IsFiniteSet(DOMAIN a.files) /\ IsFiniteSet(a.plugins)
  <2> SUFFICES ASSUME NEW b \in A
               PROVE  IsFiniteSet(DOMAIN chosen(b).files) /\ IsFiniteSet(chosen(b).plugins)
    BY <1>6
  <2>1. chosen(b).files = b.files
    OBVIOUS
  <2>2. chosen(b).plugins \subseteq b.plugins
    OBVIOUS
  <2> QED
    BY <1>5, <2>1, <2>2, FS_Subset
<1> HIDE DEF S, chosen
<1>8. CASE key = <<"skills">>
  <2> DEFINE K == {a \in S : a.skill # None}
             item(a) == [uri |-> Uri(c, a.skill.entry), name |-> a.skill.name]
             f == [a \in K |-> item(a)]
  <2>1. Items(c, key) = {item(a) : a \in K}
    BY <1>8 DEF Items, S
  <2>2. IsFiniteSet(K)
    BY <1>6, FS_Subset
  <2> HIDE DEF item, K
  <2>3. f \in Surjection(K, {item(a) : a \in K})
    BY DEF Surjection
  <2> QED
    BY <2>1, <2>2, <2>3, FS_Surjection
<1>9. CASE key = <<"resources">>
  <2> DEFINE D == {DOMAIN a.files : a \in S}
             P == (UNION D) \cup {<<"catalog.json">>}
             f == [a \in S |-> DOMAIN a.files]
             g == [p \in P |-> Uri(c, p)]
  <2>1. Items(c, key) = {Uri(c, p) : p \in P}
    BY <1>9 DEF Items, S
  <2>2. f \in Surjection(S, D)
    BY DEF Surjection
  <2>3. IsFiniteSet(D)
    BY <1>6, <2>2, FS_Surjection
  <2>4. \A d \in D : IsFiniteSet(d)
    BY <1>7
  <2> HIDE DEF D
  <2>5. IsFiniteSet(UNION D)
    BY <2>3, <2>4, FS_UNION
  <2>6. IsFiniteSet(P)
    BY <2>5, FS_AddElement
  <2> HIDE DEF P
  <2>7. g \in Surjection(P, {Uri(c, p) : p \in P})
    BY DEF Surjection
  <2> QED
    BY <2>1, <2>6, <2>7, FS_Surjection
<1>10. CASE key = <<"prompts">>
  <2> DEFINE K == {a \in S : a.prompt # None}
             f == [a \in K |-> <<a.id, a.prompt>>]
  <2>1. Items(c, key) = {<<a.id, a.prompt>> : a \in K}
    BY <1>10 DEF Items, S
  <2>2. IsFiniteSet(K)
    BY <1>6, FS_Subset
  <2> HIDE DEF K
  <2>3. f \in Surjection(K, {<<a.id, a.prompt>> : a \in K})
    BY DEF Surjection
  <2> QED
    BY <2>1, <2>2, <2>3, FS_Surjection
<1>11. CASE key = <<"tools">>
  <2> DEFINE K == {a \in S : a.skill # None}
             tools(a) == {<<plugin, a.kind, a.id>> : plugin \in a.plugins}
             T == {tools(a) : a \in K}
             f == [a \in K |-> tools(a)]
  <2>1. SkillTools(S) = UNION T
    BY DEF SkillTools
  <2>2. IsFiniteSet(K)
    BY <1>6, FS_Subset
  <2>3. ASSUME NEW a \in K
        PROVE  IsFiniteSet(tools(a))
    <3> DEFINE g == [plugin \in a.plugins |-> <<plugin, a.kind, a.id>>]
    <3>1. g \in Surjection(a.plugins, tools(a))
      BY DEF Surjection
    <3> QED
      BY <1>7, <3>1, FS_Surjection
  <2> HIDE DEF K, tools
  <2>4. f \in Surjection(K, T)
    BY DEF Surjection
  <2>5. IsFiniteSet(T)
    BY <2>2, <2>4, FS_Surjection
  <2>6. IsFiniteSet(UNION T)
    BY <2>3, <2>5, FS_UNION
  <2>7. Items(c, key) = {<<"search_assets">>, <<"read_asset">>} \cup SkillTools(S)
    BY <1>11 DEF Items, S
  <2> HIDE DEF T
  <2>8. IsFiniteSet({<<"search_assets">>, <<"read_asset">>})
    <3>1. IsFiniteSet({<<"search_assets">>})
      BY FS_Singleton
    <3>2. IsFiniteSet({<<"search_assets">>} \cup {<<"read_asset">>})
      BY <3>1, FS_AddElement
    <3>3. {<<"search_assets">>} \cup {<<"read_asset">>} = {<<"search_assets">>, <<"read_asset">>}
      BY Zenon
    <3> QED
      BY <3>2, <3>3
  <2> DEFINE general == {<<"search_assets">>, <<"read_asset">>}
             loaders == UNION T
  <2>9. Items(c, key) = general \cup loaders
    BY <2>1, <2>7
  <2>10. IsFiniteSet(general) /\ IsFiniteSet(loaders)
    BY <2>6, <2>8
  <2> HIDE DEF general, loaders
  <2>11. IsFiniteSet(general \cup loaders)
    BY Zenon, <2>10, FS_Union
  <2> QED
    BY Zenon, <2>9, <2>11
<1>12. CASE key \notin {<<"skills">>, <<"resources">>, <<"prompts">>, <<"tools">>}
  <2>1. Items(c, key) = {a \in S : Matches(a, key[2], key[3])}
    BY <1>12 DEF Items, S
  <2> QED
    BY <1>6, <2>1, FS_Subset
<1> QED
  BY <1>8, <1>9, <1>10, <1>11, <1>12

(* What a page takes: what follows the offset, up to its last item.         *)
LEMMA PageTakes ==
  ASSUME NEW S, NEW all \in Seq(S), NEW offset \in 0 .. Len(all), NEW limit \in Nat \ {0}
  PROVE  LET last == IF offset + limit < Len(all) THEN offset + limit ELSE Len(all)
             page == SubSeq(all, offset + 1, last)
         IN /\ last \in Nat /\ offset <= last /\ last <= Len(all)
            /\ page \in Seq(S) /\ Len(page) = last - offset
            /\ \A i \in 1 .. last - offset : page[i] = all[offset + i]
<1> DEFINE last == IF offset + limit < Len(all) THEN offset + limit ELSE Len(all)
<1>1. Len(all) \in Nat
  BY LenProperties
<1>2. last \in Nat /\ offset <= last /\ last <= Len(all)
  BY <1>1
<1> HIDE DEF last
<1>3. \A i \in offset + 1 .. last : all[i] \in S
  BY <1>1, <1>2, ElementOfSeq
<1>4. /\ SubSeq(all, offset + 1, last) \in Seq(S)
      /\ Len(SubSeq(all, offset + 1, last)) = last - offset
  <2>1. Len(SubSeq(all, offset + 1, last))
          = IF offset + 1 <= last THEN last - (offset + 1) + 1 ELSE 0
    BY <1>1, <1>2, <1>3, SubSeqProperties
  <2>2. SubSeq(all, offset + 1, last) \in Seq(S)
    BY <1>1, <1>2, <1>3, SubSeqProperties
  <2> QED
    BY <1>1, <1>2, <2>1, <2>2
<1>5. \A i \in 1 .. last - offset : SubSeq(all, offset + 1, last)[i] = all[offset + i]
  <2> SUFFICES ASSUME NEW i \in 1 .. last - offset
               PROVE  SubSeq(all, offset + 1, last)[i] = all[offset + i]
    OBVIOUS
  <2>1. i \in 1 .. last - (offset + 1) + 1 /\ offset + 1 <= last /\ offset + 1 + i - 1 = offset + i
    BY <1>1, <1>2
  <2>2. SubSeq(all, offset + 1, last)[i] = all[offset + 1 + i - 1]
    BY <1>1, <1>2, <1>3, <2>1, SubSeqProperties
  <2> QED
    BY <2>1, <2>2
<1> QED
  BY <1>2, <1>4, <1>5 DEF last

(* A page of a catalog extends what a client has of it.                     *)
LEMMA PageExtends ==
  ASSUME NEW c, c.manifest \in Bundles, c.plugins \in Selections,
         c = [manifest |-> c.manifest, plugins |-> c.plugins],
         NEW l \in Listings, NEW had, NEW cursor,
         LET items == Items(c, l.key)
             all == SetToSeq(items)
         IN /\ had \in Seq(items) /\ Len(had) <= Len(all)
            /\ \A i \in 1 .. Len(had) : had[i] = all[i]
            /\ \/ cursor = None /\ had = <<>>
               \/ cursor # None /\ cursor.offset = Len(had),
         cursor = None \/ Page(c, l.key, l.limit, cursor) # None
  PROVE  LET page == Page(c, l.key, l.limit, cursor)
             scope == Scope(c, l.key, l.limit)
         IN PagedBy([kind |-> "listing", first |-> scope,
                     items |-> had \o page.items, cursor |-> page.next])
<1> DEFINE items == Items(c, l.key)
           all == SetToSeq(items)
           offset == Len(had)
           last == IF offset + l.limit < Len(all) THEN offset + l.limit ELSE Len(all)
           scope == Scope(c, l.key, l.limit)
           taken == SubSeq(all, offset + 1, last)
           now == had \o taken
           next == IF offset + l.limit < Len(all) THEN [scope |-> scope, offset |-> offset + l.limit]
                   ELSE None
<1>1. all \in Seq(items) /\ Len(all) \in Nat
  <2>1. IsFiniteSet(items)
    BY ItemsFinite
  <2> QED
    BY <2>1, SetToSeqIs
<1>2. had \in Seq(items) /\ offset \in 0 .. Len(all) /\ \A i \in 1 .. Len(had) : had[i] = all[i]
  BY <1>1, LenProperties
<1>3. l.limit \in Nat \ {0}
  BY McpConstants
<1>4. scope \in Scopes
  BY DEF Scopes
<1>5. Page(c, l.key, l.limit, cursor) = [items |-> taken, next |-> next]
  <2>1. (IF cursor = None THEN 0 ELSE cursor.offset) = offset
    BY EmptySeq
  <2> HIDE DEF offset
  <2> QED
    BY <2>1 DEF Page
<1> HIDE DEF items, all, scope
<1>6. /\ last \in Nat /\ offset <= last /\ last <= Len(all)
      /\ taken \in Seq(items) /\ Len(taken) = last - offset
      /\ \A i \in 1 .. last - offset : taken[i] = all[offset + i]
  BY <1>1, <1>2, <1>3, PageTakes
<1> HIDE DEF taken
<1>7. now \in Seq(items) /\ Len(now) = last
  <2>1. now \in Seq(items) /\ Len(now) = Len(had) + Len(taken)
    BY <1>2, <1>6, ConcatProperties
  <2>2. offset + (last - offset) = last
    BY <1>1, <1>2, <1>6
  <2> QED
    BY <1>6, <2>1, <2>2
<1>8. \A i \in 1 .. last : now[i] = all[i]
  <2> SUFFICES ASSUME NEW i \in 1 .. last
               PROVE  now[i] = all[i]
    OBVIOUS
  <2>1. CASE i <= offset
    BY <1>1, <1>2, <1>6, <2>1, ConcatProperties
  <2>2. CASE offset < i
    <3>1. i - offset \in 1 .. last - offset /\ offset + (i - offset) = i
      <4>1. offset \in Nat /\ last \in Nat /\ i \in Nat /\ i <= last
        BY <1>1, <1>2, <1>6
      <4> HIDE DEF offset
      <4> QED
        BY <2>2, <4>1
    <3>2. now[i] = taken[i - offset]
      BY <1>1, <1>2, <1>6, <2>2, ConcatProperties
    <3> QED
      BY <1>6, <3>1, <3>2
  <2> QED
    BY <1>2, <1>6, <2>1, <2>2
<1>9. /\ next = None => last = Len(all)
      /\ next # None => next = [scope |-> scope, offset |-> last]
  <2>1. CASE offset + l.limit < Len(all)
    <3>1. [scope |-> scope, offset |-> offset + l.limit] # None
      BY <1>2, <1>3, <1>4, NoneIsNoCursor
    <3> QED
      BY <2>1, <3>1
  <2>2. CASE ~(offset + l.limit < Len(all))
    BY <2>2
  <2> QED
    BY <2>1, <2>2
<1> DEFINE r == [kind |-> "listing", first |-> scope, items |-> now, cursor |-> next]
<1>10. /\ r.first = scope /\ r.items = now /\ r.cursor = next
       /\ scope.catalog = c /\ scope.key = l.key
  BY DEF scope, Scope
<1> HIDE DEF now, next, last, r
<1>11. PagedBy(r)
  BY <1>4, <1>6, <1>7, <1>8, <1>9, <1>10 DEF PagedBy, items, all
<1> QED
  BY <1>5, <1>11 DEF r, now, scope

LEMMA PagingStep ==
  ASSUME Inv, PagingInv, Next
  PROVE  PagingInv'
<1>1. CASE client' = client \/ client' = None
  BY <1>1 DEF PagingInv, PagedBy
<1>2. CASE \E l \in Listings : List(l.key, l.limit)
  <2>1. PICK l \in Listings : List(l.key, l.limit)
    BY <1>2
  <2> DEFINE page == Page(Catalog, l.key, l.limit, None)
             items == Items(Catalog, l.key)
  <2>2. /\ HeldBy(server)
        /\ client' = [kind |-> "listing", first |-> Scope(Catalog, l.key, l.limit),
                      items |-> page.items, cursor |-> page.next]
    BY <2>1 DEF List, Serving, Inv, ServerInv
  <2>3. /\ Catalog.manifest \in Bundles /\ Catalog.plugins \in Selections
        /\ Catalog = [manifest |-> Catalog.manifest, plugins |-> Catalog.plugins]
    BY <2>2 DEF Catalog, HeldBy
  <2>5. SetToSeq(items) \in Seq(items)
    BY <2>3, ItemsFinite, SetToSeqIs
  <2>6. /\ <<>> \in Seq(items) /\ Len(<<>>) = 0
        /\ \A i \in 1 .. Len(<<>>) : <<>>[i] = SetToSeq(items)[i]
    BY EmptySeq
  <2>7. Len(<<>>) <= Len(SetToSeq(items))
    BY <2>5, <2>6, LenProperties
  <2>8. PagedBy([kind |-> "listing", first |-> Scope(Catalog, l.key, l.limit),
                 items |-> <<>> \o page.items, cursor |-> page.next])
    BY <2>1, <2>3, <2>6, <2>7, PageExtends
  <2> DEFINE c == [kind |-> "listing", first |-> Scope(Catalog, l.key, l.limit),
                   items |-> <<>> \o page.items, cursor |-> page.next]
  <2>9. <<>> \o page.items = page.items
    BY DEF Page
  <2>10. PagedBy(client')
    BY <2>2, <2>8, <2>9
  <2> QED
    BY <2>10 DEF PagingInv, PagedBy
<1>3. CASE NextPage /\ client' # Refused
  <2> DEFINE l == client.first
             page == Page(Catalog, l.key, l.limit, client.cursor)
  <2>1. /\ client # None /\ client.kind = "listing" /\ client.cursor # None
        /\ HeldBy(server) /\ page # None
        /\ client' = [client EXCEPT !.items = client.items \o page.items, !.cursor = page.next]
    BY <1>3, Zenon DEF NextPage, Serving, Inv, ServerInv
  <2>2. ListedBy(client) /\ PagedBy(client)
    BY <2>1 DEF Inv, ClientInv, PagingInv
  <2>3. client.cursor = [scope |-> client.first, offset |-> Len(client.items)]
    BY <2>1, <2>2 DEF PagedBy
  <2>4. client.first = Scope(Catalog, l.key, l.limit)
    <3>1. client.cursor.scope # Scope(Catalog, l.key, l.limit) => page = None
      BY <2>1, Zenon DEF Page
    <3>2. client.cursor.scope = client.first
      BY <2>3
    <3> QED
      BY <2>1, <3>1, <3>2
  <2>5. PICK k \in Listings : l.key = k.key /\ l.limit = k.limit
    BY <2>2 DEF PagedBy, Scopes, Scope
  <2>6. client.first.catalog = Catalog /\ client.first.key = k.key
    BY <2>4, <2>5 DEF Scope
  <2>7. /\ Catalog.manifest \in Bundles /\ Catalog.plugins \in Selections
        /\ Catalog = [manifest |-> Catalog.manifest, plugins |-> Catalog.plugins]
    BY <2>1 DEF Catalog, HeldBy
  <2>8. LET items == Items(Catalog, k.key)
            all == SetToSeq(items)
        IN /\ client.items \in Seq(items) /\ Len(client.items) <= Len(all)
           /\ \A i \in 1 .. Len(client.items) : client.items[i] = all[i]
    BY <2>2, <2>6 DEF PagedBy
  <2>9. client.cursor.offset = Len(client.items)
    BY <2>3
  <2>10. PagedBy([kind |-> "listing", first |-> Scope(Catalog, k.key, k.limit),
                  items |-> client.items \o page.items, cursor |-> page.next])
    BY <2>1, <2>5, <2>7, <2>8, <2>9, PageExtends
  <2>11. client' = [kind |-> "listing", first |-> client.first,
                    items |-> client.items \o page.items, cursor |-> page.next]
    BY <2>1, <2>2 DEF ListedBy
  <2>12. PagedBy(client')
    BY <2>4, <2>5, <2>10, <2>11
  <2> QED
    BY <2>12 DEF PagingInv, PagedBy
<1>4. CASE client' # None /\ client'.kind # "listing"
  BY <1>4 DEF PagingInv
<1>5. CASE \E how \in {"tool", "entry"} : LoadSkill(how)
  <2>1. PICK how \in {"tool", "entry"} :
          \E first, asset, files, got :
            client' = [kind |-> how, first |-> first, asset |-> asset, files |-> files, got |-> got]
    BY <1>5 DEF LoadSkill
  <2>2. client'.kind # "listing"
    BY <2>1
  <2> QED
    BY <1>1, <1>4, <2>2
<1>6. CASE ReadSkillFile /\ client' # Refused
  <2>1. client # None /\ client.kind \in {"tool", "entry"}
    BY <1>6 DEF ReadSkillFile
  <2>2. GatheredBy(client)
    BY <2>1 DEF Inv, ClientInv
  <2>3. PICK got : client' = [client EXCEPT !.got = got]
    BY <1>6, Zenon DEF ReadSkillFile
  <2>4. client'.kind = client.kind
    BY <2>2, <2>3 DEF GatheredBy
  <2> QED
    BY <1>1, <1>4, <2>1, <2>4
<1>7. CASE client' = Refused
  BY <1>1, <1>4, <1>7 DEF Refused
<1> QED
  BY <1>1, <1>2, <1>3, <1>5, <1>6, <1>7
     DEF Next, StartBuild, RemoveFile, BeginCopy, CopyFile, EndBuild, Crash,
         StartServer, ReadFile, Serve, StopServer, Forget

(* A client that pages through a listing while servers stop and start, with *)
(* other releases and other plugins, ends with every item of the catalog it *)
(* began with, each once, or is refused (Catalog.page, catalog.py).         *)
THEOREM ListingsComplete == Spec => []ListingsWhole
<1>1. Init => PagingInv
  BY DEF Init, PagingInv
<1>2. Inv /\ PagingInv /\ [Next]_vars => PagingInv'
  <2>1. CASE UNCHANGED vars
    BY <2>1 DEF vars, PagingInv, PagedBy
  <2> QED
    BY <2>1, PagingStep
<1>3. ASSUME PagingInv
      PROVE  ListingsWhole
  <2> SUFFICES ASSUME client # None, client.kind = "listing", client.cursor = None
               PROVE  /\ ToSet(client.items) = Items(client.first.catalog, client.first.key)
                      /\ Len(client.items) = Cardinality(ToSet(client.items))
    BY DEF ListingsWhole
  <2> DEFINE items == Items(client.first.catalog, client.first.key)
             all == SetToSeq(items)
  <2>1. /\ client.first \in Scopes /\ client.items \in Seq(items)
        /\ Len(client.items) = Len(all)
        /\ \A i \in 1 .. Len(client.items) : client.items[i] = all[i]
    BY <1>3 DEF PagingInv, PagedBy
  <2>2. client.first.catalog.manifest \in Bundles
    BY <2>1 DEF Scopes, Scope
  <2>3. IsFiniteSet(items)
    BY <2>2, ItemsFinite
  <2> HIDE DEF items
  <2>4. all \in Seq(items) /\ Len(all) = Cardinality(items) /\ ToSet(all) = items
    BY <2>3, SetToSeqIs
  <2> HIDE DEF all
  <2>5. client.items = all
    BY <2>1, <2>4, SeqEqual
  <2> QED
    BY <2>4, <2>5 DEF items
<1>4. PagingInv => ListingsWhole
  BY <1>3
<1> QED
  BY <1>1, <1>2, <1>4, Invariance, PTL DEF Spec
=============================================================================
