------------------------------ MODULE HubRender ------------------------------
(***************************************************************************)
(* What the compiler writes for a valid hub: the plugins of each host, the *)
(* marketplaces, the MCP bundle. Contents are the reference and revision   *)
(* they come from and what a host reads in them; files that toolchains     *)
(* write themselves carry the toolchain's revision.                        *)
(***************************************************************************)
EXTENDS HubSource

CONSTANT NoValue     \* a field this kind of output does not have

\* Assets are rendered in the order of their references: kinds by name, and
\* within a kind no two assets write the same file.
Rank == [agent |-> 1, command |-> 2, hook |-> 3, mcp |-> 4, rule |-> 5, skill |-> 6]

Directory(kind) ==
  [skill |-> "skills", rule |-> "rules", agent |-> "agents", command |-> "commands",
   hook |-> "hooks", mcp |-> "mcps"][kind]

NativeHook(a, t) == a.kind = "hook" /\ a.support[t] = "native"

AsRule(a, t) ==
  t = "cursor" /\ a.support[t] \in {"native", "projected"} /\ a.kind \in {"skill", "rule"}

\* Where an asset is rendered, if anywhere: directory, name and form.
Destination(a, t) ==
  IF a.support[t] = "unsupported" \/ a.kind = "mcp" THEN {}
  ELSE CASE NativeHook(a, t) -> {<<"hooks", IF a.form = "dir" THEN a.id ELSE a.name, a.form>>}
         [] a.kind = "command" /\ a.support[t] = "native" ->
              {IF t = "gemini" THEN <<"commands", a.id, "toml">> ELSE <<"skills", a.id, "dir">>}
         [] a.support[t] = "agent-skill" -> {<<"skills", a.id, "dir">>}
         [] AsRule(a, t) -> {<<"rules", a.id, "mdc">>}
         [] OTHER -> {IF a.support[t] \in {"native", "verbatim"}
                      THEN <<Directory(a.kind), a.name, a.form>> ELSE <<"projected", a.id, "md">>}

\* The name in the frontmatter of what is rendered: conversions write the
\* asset's, and so does Codex for a skill without frontmatter.
RenderedName(a, t) ==
  CASE a.kind = "skill" /\ a.support[t] \in {"agent-skill", "native"} /\ ~AsRule(a, t) ->
         IF a.text.frontmatter THEN a.text.name
         ELSE IF t = "codex" /\ a.support[t] = "agent-skill" THEN a.id ELSE None
    [] <<a.kind, a.support[t]>> \in {<<"command", "native">>, <<"agent", "agent-skill">>} -> a.id
    [] OTHER -> None

\* Rules that are native and have a frontmatter keep it.
Content(a, t) ==
  [ref |-> a.ref, rev |-> a.text.rev, files |-> a.files, name |-> RenderedName(a, t),
   kept |-> AsRule(a, t) /\ a.kind = "rule" /\ a.support[t] = "native" /\ a.text.frontmatter]

Writers(assets, t, path) == {a \in assets : path \in Destination(a, t)}

\* A later asset overwrites what an earlier one wrote.
LastWriter(assets, t, path) ==
  CHOOSE a \in Writers(assets, t, path) :
    \A b \in Writers(assets, t, path) : Rank[b.kind] <= Rank[a.kind]

AssetFiles(assets, t) ==
  [path \in UNION {Destination(a, t) : a \in assets} |->
     Content(LastWriter(assets, t, path), t)]

-----------------------------------------------------------------------------
(* Parts that are not copies of an asset.                                   *)

ManagedFiles(p, t, tool) ==
  [path \in {<<"skills", s, "dir">> : s \in {s \in DOMAIN ManagedSkill : p = "pig" /\ t \in ManagedSkill[s]}} |->
     [ref |-> <<"managed", path[2]>>, rev |-> tool, files |-> {}, name |-> path[2],
      kept |-> FALSE]]

RendersServer(t, c) ==
  [transport |-> Transport(c),
   field |-> IF Transport(c) = "stdio" THEN "command"
             ELSE IF t = "gemini" /\ Transport(c) = "http" THEN "httpUrl" ELSE "url"]

Servers(assets, t) ==
  [s \in Defined(assets, t) |->
     [ref |-> Definer(assets, t, s).ref,
      config |-> RendersServer(t, Definer(assets, t, s).text.servers[s])]]

\* A hook has a declaration or a configuration for the host or for all;
\* files that are no JSON are copied only.
Configured(a, t) ==
  \/ a.form \notin {"dir", "json"} \/ a.text.bindings # None
  \/ a.form = "json" \/ a.text.configs \cap {t, "shared"} # {}

Merged(a) == a.form \in {"dir", "json"}

\* Declared hooks have the field that Cursor's format requires.
Setting(a, t) ==
  IF a.text.bindings = None THEN a.text.setting ELSE IF t = "cursor" THEN 1 ELSE 0

\* Configurations that are merged agree on a field they both have (not 0).
HooksRender(assets, t) ==
  LET native == {a \in assets : NativeHook(a, t)}
  IN /\ \A a \in native : Configured(a, t)
     /\ \A a, b \in {x \in native : Merged(x)} :
          Setting(a, t) = Setting(b, t) \/ 0 \in {Setting(a, t), Setting(b, t)}

\* The runtime comes with trace ingestion in pig, and with declared hooks.
RunsHost(h, p, t) == h.config.trace /\ p = "pig" /\ t # "gemini"

Bundles(assets, t) == {a \in assets : NativeHook(a, t) /\ a.text.bindings # None}

\* hooks.json: the handlers of every hook, those that are declared pinned to
\* the files and the runtime they were built with.
Hooks(h, p, t, assets, tool) ==
  {[ref |-> a.ref, rev |-> a.text.rev,
    runtime |-> IF a \in Bundles(assets, t) THEN tool ELSE NoValue] :
     a \in {x \in assets : NativeHook(x, t) /\ Merged(x)}}
  \cup {[ref |-> <<"managed", "host-runtime">>, rev |-> tool, runtime |-> tool] :
          x \in {x \in {0} : RunsHost(h, p, t)}}

\* The list of the manifest an asset is in, and what each host registers;
\* Claude names the agent files that are there.
Membership(a, t) ==
  CASE a.support[t] = "agent-skill" -> "skills"
    [] a.kind = "command" /\ a.support[t] = "native" /\ t # "gemini" -> "skills"
    [] AsRule(a, t) -> "rules"
    [] OTHER -> Directory(a.kind)

Registrable ==
  [claude |-> {"skills", "commands", "agents", "mcpServers"},
   codex |-> {"skills", "hooks", "mcpServers"},
   cursor |-> {"skills", "rules", "agents", "commands"}, gemini |-> {"mcpServers"}]

Registered(h, p, t, assets, tool) ==
  {field \in Registrable[t] :
     \/ \E a \in assets :
          /\ Destination(a, t) # {} /\ Membership(a, t) = field
          /\ field = "agents" /\ t = "claude" => a.support[t] = "native" /\ a.form = "md"
     \/ field = "skills" /\ DOMAIN ManagedFiles(p, t, tool) # {}
     \/ field = "hooks" /\ Hooks(h, p, t, assets, tool) # {}
     \/ field = "mcpServers" /\ Defined(assets, t) # {}}

PluginTree(h, p, t, tool, version) ==
  LET assets == PluginAssets(h, p)
  IN [files |-> [path \in DOMAIN AssetFiles(assets, t) \cup DOMAIN ManagedFiles(p, t, tool) |->
                   IF path \in DOMAIN ManagedFiles(p, t, tool)
                   THEN ManagedFiles(p, t, tool)[path] ELSE AssetFiles(assets, t)[path]],
      servers |-> Servers(assets, t),
      hooks |-> Hooks(h, p, t, assets, tool),
      runtime |-> IF RunsHost(h, p, t) \/ Bundles(assets, t) # {} THEN tool ELSE NoValue,
      manifest |-> [version |-> version, trace |-> h.config.trace /\ p = "pig",
                    registers |-> Registered(h, p, t, assets, tool)]]

\* Cursor's marketplace and Codex's name no versions, Gemini has none.
Marketplace(h, t, version) ==
  [plugins |-> h.config.stable, version |-> IF t = "claude" THEN version ELSE NoValue,
   trace |-> IF t = "codex" THEN NoValue ELSE h.config.trace]

StableAssets(h) == {a \in Assets(h) : \E p \in h.config.stable : a.ref \in h.plugins[p]}

\* The MCP bundle (McpDistribution), as far as releases are concerned.
McpBundle(h, tool, version) ==
  IF ~h.config.mcp THEN NoValue
  ELSE [version |-> version, tool |-> tool,
        assets |-> {[ref |-> a.ref, rev |-> a.text.rev, files |-> a.files,
                     plugins |-> {p \in h.config.stable : a.ref \in h.plugins[p]}] :
                      a \in StableAssets(h)}]

Renders(h) ==
  \A t \in h.config.targets : \A p \in h.config.stable : HooksRender(PluginAssets(h, p), t)

\* render_target_plugins and render_mcp_bundle, for a version of the hub.
Output(h, tool, version) ==
  [dist |-> [t \in h.config.targets |->
               [p \in h.config.stable |-> PluginTree(h, p, t, tool, version)]],
   markets |-> [t \in h.config.targets \ {"gemini"} |-> Marketplace(h, t, version)],
   mcp |-> McpBundle(h, tool, version)]
=============================================================================
