------------------------------ MODULE HubRelease ------------------------------
(***************************************************************************)
(* hub.release.json: what a build records of its release, what the reader  *)
(* accepts, and the version of the next release. A hash is represented by  *)
(* what it is computed from; the organisation and the marketplace, which   *)
(* no operation changes, are left out.                                     *)
(***************************************************************************)
EXTENDS HubRender, SemVer

AssetRecord(a) ==
  [ref |-> a.ref, hash |-> [rev |-> a.text.rev, files |-> a.files],
   support |-> a.support, blank |-> a.blank]

PluginBasis(h, p) ==
  [includes |-> h.plugins[p], assets |-> {AssetRecord(a) : a \in PluginAssets(h, p)}]

Runtimes(h, tool, version) ==
  {[target |-> t, version |-> version, tool |-> tool] :
     t \in {t \in h.config.targets : \E p \in h.config.stable : RunsHost(h, p, t)}}

\* What moves the version: everything the generated plugins depend on.
VersionBasis(h, tool, version) ==
  [version |-> version, stable |-> h.config.stable, targets |-> h.config.targets,
   plugins |-> [p \in h.config.stable |-> PluginBasis(h, p)],
   hashes |-> Output(h, tool, version).dist,
   runtimes |-> Runtimes(h, tool, version), mcp |-> McpBundle(h, tool, version)]

Release(h, tool, version) ==
  LET content ==
        [schema |-> IF h.config.mcp THEN 4 ELSE 2, version |-> version,
         stable |-> h.config.stable, targets |-> h.config.targets,
         hashes |-> Output(h, tool, version).dist,
         runtimes |-> Runtimes(h, tool, version), mcp |-> McpBundle(h, tool, version),
         assets |-> {AssetRecord(a) : a \in StableAssets(h)},
         basis |-> VersionBasis(h, tool, version)]
  IN [content |-> content, hash |-> content]

-----------------------------------------------------------------------------
(* Reading a release back.                                                  *)

\* Wrong on purpose: a reader that does not know verbatim commands.
AssetRecordValidOlder(r) ==
  /\ \A t \in DOMAIN r.support : r.support[t] \in SupportMode \ {"verbatim"}
  /\ r.blank = {}

AssetRecordValid(r) ==
  /\ r.ref[1] \in AssetKind
  /\ \A t \in DOMAIN r.support : t \in Harness /\ r.support[t] \in SupportMode
  /\ r.blank = {}

\* The reader takes no asset that its plugin does not include.
PluginBasisValid(b) ==
  /\ \A r \in b.assets : AssetRecordValid(r)
  /\ b.includes = {r.ref : r \in b.assets}
  /\ \A r, s \in b.assets : r.ref = s.ref => r = s

\* version_basis by itself, and against the fields it repeats.
BasisValid(c) ==
  LET b == c.basis IN
  /\ b.stable # {} /\ b.targets # {} /\ b.targets \subseteq Harness
  /\ DOMAIN b.hashes = b.targets
  /\ \A r \in b.runtimes : r.target \in {"claude", "codex", "cursor"}
  /\ DOMAIN b.plugins = b.stable /\ \A p \in b.stable : PluginBasisValid(b.plugins[p])
  /\ (c.schema = 4) = (b.mcp # NoValue) /\ b.mcp = c.mcp
  /\ <<c.version, c.stable, c.targets, c.hashes, c.runtimes>>
       = <<b.version, b.stable, b.targets, b.hashes, b.runtimes>>

\* Wrong on purpose: release_id and release_hash are not recomputed.
ReadsUnhashed(m) == m.content.schema \in {2, 3, 4} /\ BasisValid(m.content)

\* read_release_manifest accepts it.
Reads(m) ==
  /\ m.content.schema \in {2, 3, 4} /\ BasisValid(m.content)
  /\ m.content.assets = UNION {m.content.basis.plugins[p].assets : p \in m.content.stable}
  /\ m.hash = m.content

\* Wrong on purpose: the hashes of the generated files are not compared.
ResolveVersionUnhashed(h, tool, previous) ==
  IF previous = NoValue THEN h.version
  ELSE LET c == previous.content
           basis == [VersionBasis(h, tool, c.version) EXCEPT !.hashes = c.basis.hashes]
       IN MaxVersion(h.version, IF basis = c.basis THEN c.version ELSE BumpPatch(c.version))

\* The version to publish a hub with after a release, or first.
ResolveVersion(h, tool, previous) ==
  IF previous = NoValue THEN h.version
  ELSE LET c == previous.content
       IN MaxVersion(h.version, IF VersionBasis(h, tool, c.version) = c.basis
                                THEN c.version ELSE BumpPatch(c.version))
=============================================================================
