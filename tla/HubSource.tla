------------------------------ MODULE HubSource ------------------------------
(***************************************************************************)
(* The authored tree of a hub (hub.yaml, plugins/, assets/): how its files *)
(* become assets with their support on each host, and when the hub is      *)
(* valid. An entry is a file or a directory below assets/<kind>s/ with its *)
(* metadata; its text keeps what validation and rendering tell apart.      *)
(***************************************************************************)
EXTENDS Naturals, Sequences

CONSTANTS
  Name,      \* file stems, directory names, asset ids, names in frontmatter
  Fold,      \* Fold[n]: casefold
  Server,    \* names of MCP servers
  Plugin,    \* plugin ids, "pig" among them
  Length,    \* Length[n]: characters of a name or a plugin id
  MaxName,   \* 64
  None

Harness == {"claude", "codex", "gemini", "cursor"}
AssetKind == {"skill", "rule", "agent", "command", "hook", "mcp"}
SupportMode == {"agent-skill", "native", "verbatim", "projected", "unsupported"}

\* The skills the compiler adds to pig, and the hosts that get them.
ManagedSkill ==
  [s \in {"update-instruction-hub", "add-external-plugin"} |->
     IF s = "update-instruction-hub" THEN {"claude", "codex"}
                                     ELSE {"claude", "codex", "cursor"}]

PartialFn(f, S, T) == DOMAIN f \subseteq S /\ f \in [DOMAIN f -> T]

(* The text of an entry: its revision; the name of its frontmatter, whether *)
(* there is a frontmatter and whether it converts; host syntax in the body; *)
(* servers and arguments of an MCP configuration, values of secret fields;  *)
(* a hook's native configurations, their top-level field, its declaration.  *)
Value == {"placeholder", "scheme", "literal"}
Leaf == [field: {"token", "authorization", "value", "other"},
         parent: {"token", "authorization", "other", None}, value: Value]
Argument == [flag: {"token", "other", None}, value: Value \cup {None}]
Connection == [field: {"command", "url", "httpUrl"},
               declared: {"stdio", "http", "sse", "ws", None}]

IsText(t) ==
  /\ t.rev \in Nat /\ t.name \in Name \cup {None} /\ (t.name # None => t.frontmatter)
  /\ {t.frontmatter, t.header, t.dynamic, t.argument, t.link} \subseteq BOOLEAN
  /\ PartialFn(t.servers, Server, Connection)
  /\ t.leaves \subseteq Leaf /\ t.args \in Seq(Argument)
  /\ t.configs \subseteq Harness \cup {"shared"} /\ t.setting \in Nat
  /\ t.bindings = None \/ t.bindings \subseteq Harness

\* The form of an entry is "dir", the suffix of a file, or "orphan" for a
\* sidecar; a skill is whole when it has SKILL.md and its supporting files.
\* The reason of an exclusion may be blank.
IsEntry(e) ==
  /\ e \in [kind: AssetKind, name: Name,
            form: {"dir", "md", "mdc", "json", "yaml", "toml", "other", "orphan"},
            files: SUBSET {"SKILL.md", "support"}, id: Name \cup {None},
            support: {e.support}, blank: SUBSET Harness, text: {e.text}]
  /\ e.support = None \/ PartialFn(e.support, Harness, SupportMode)
  /\ IsText(e.text)

Ref == AssetKind \X Name

Configurations ==
  [targets: (SUBSET Harness) \ {{}}, stable: SUBSET Plugin, trace: BOOLEAN, mcp: BOOLEAN]

\* No two entries are one file or directory.
IsHub(h) ==
  /\ h = [entries |-> h.entries, plugins |-> h.plugins, version |-> h.version,
          config |-> h.config]
  /\ \A e \in h.entries : IsEntry(e)
  /\ \A e, f \in h.entries : <<e.kind, e.name, e.form>> = <<f.kind, f.name, f.form>> => e = f
  /\ PartialFn(h.plugins, Plugin, SUBSET Ref) /\ h.config \in Configurations

\* Managed skills have lower case names, and an author's hub starts with pig.
ASSUME SourceConstants ==
  /\ {"repo-mcp", "cursor-mcp"} \cup DOMAIN ManagedSkill \subseteq Name
  /\ \A s \in DOMAIN ManagedSkill : Fold[s] = s
  /\ "pig" \in Plugin

-----------------------------------------------------------------------------
(* Loading assets.                                                          *)

DefaultSupport(kind) ==
  [t \in Harness |-> CASE kind = "skill" -> "agent-skill"
                       [] kind \in {"mcp", "command"} -> "native"
                       [] OTHER -> "unsupported"]

\* A command's table is an allowlist.
Support(e) ==
  IF e.support = None THEN DefaultSupport(e.kind)
  ELSE [t \in Harness |->
          IF t \in DOMAIN e.support THEN e.support[t]
          ELSE IF e.kind = "command" THEN "unsupported" ELSE DefaultSupport(e.kind)[t]]

Id(e) == IF e.id = None THEN e.name ELSE e.id

Asset(e) == [ref |-> <<e.kind, Id(e)>>, kind |-> e.kind, id |-> Id(e), name |-> e.name,
             form |-> e.form, files |-> e.files, text |-> e.text, support |-> Support(e),
             blank |-> e.blank]

\* A sidecar is part of the asset it is about.
Files(h) == {e \in h.entries : e.form # "orphan"}

Assets(h) == {Asset(e) : e \in Files(h)}

\* A skill is a directory with SKILL.md; other entries have a known suffix,
\* and a sidecar a file it is about.
Recognised(h, e) ==
  IF e.kind = "skill" THEN e.form = "dir" /\ "SKILL.md" \in e.files
  ELSE CASE e.form = "orphan" -> \E f \in h.entries : /\ f.kind = e.kind /\ f.name = e.name
                                                      /\ f.form \notin {"dir", "orphan"}
         [] e.form = "toml" -> e.kind = "command"
         [] OTHER -> e.form # "other"

\* No two files have one reference.
Loads(h) ==
  /\ \A e \in h.entries : Recognised(h, e)
  /\ \A e, f \in Files(h) : e.kind = f.kind /\ Id(e) = Id(f) => e = f

-----------------------------------------------------------------------------
(* Secrets: a value below a secret field is an environment placeholder, and *)
(* so is the argument a secret flag takes.                                  *)

NeedsPlaceholder(field) == field \in {"token", "authorization"}

LiteralLeaf(leaf) ==
  LET field == IF leaf.field = "value" /\ leaf.parent # None THEN leaf.parent ELSE leaf.field
  IN /\ NeedsPlaceholder(field) /\ leaf.value # "placeholder"
     /\ ~(field = "authorization" /\ leaf.value = "scheme")

\* A flag with "=" carries its value; another takes the next argument.
LiteralArgument(args) ==
  \E i \in DOMAIN args :
    /\ NeedsPlaceholder(args[i].flag)
    /\ IF args[i].value # None THEN args[i].value # "placeholder"
       ELSE /\ i < Len(args) /\ args[i + 1].flag = None
            /\ args[i + 1].value # "placeholder"

LiteralSecret(e) ==
  /\ e.form \in {"dir", "json", "yaml"}
  /\ LiteralArgument(e.text.args) \/ \E leaf \in e.text.leaves : LiteralLeaf(leaf)

-----------------------------------------------------------------------------
(* MCP servers, commands, agents and hooks that can be delivered.           *)

Transport(c) ==
  IF c.declared # None THEN c.declared ELSE IF c.field = "command" THEN "stdio" ELSE "http"

Connects(t, c) ==
  /\ (c.field = "command") = (Transport(c) = "stdio")
  /\ c.field = "httpUrl" => Transport(c) = "http"
  /\ Transport(c) = "ws" => t = "claude"
  /\ Transport(c) = "sse" => t # "codex"

\* A definition for one host only precedes those for several.
Priority(a, t) == IF {s \in Harness : a.support[s] # "unsupported"} = {t} THEN 1 ELSE 0

Defines(assets, t, server) ==
  {a \in assets : /\ a.kind = "mcp" /\ a.support[t] # "unsupported"
                  /\ server \in DOMAIN a.text.servers}

Definer(assets, t, server) ==
  CHOOSE a \in Defines(assets, t, server) :
    \A b \in Defines(assets, t, server) : Priority(b, t) <= Priority(a, t)

Defined(assets, t) == {s \in Server : Defines(assets, t, s) # {}}

ServersCollect(assets, t) ==
  \A s \in Defined(assets, t) :
    /\ \A a, b \in Defines(assets, t, s) : Priority(a, t) = Priority(b, t) => a = b
    /\ Connects(t, Definer(assets, t, s).text.servers[s])

\* A portable command is Markdown that no host interprets, but for Claude's
\* arguments; a verbatim one has the form of its host.
Convertible(a, t) ==
  /\ a.form = "md" /\ Length[a.id] <= MaxName /\ a.text.header /\ ~a.text.dynamic
  /\ a.text.name \in {None, a.id} /\ (a.text.argument => t = "claude")

Verbatim(a, t) == t # "codex" /\ a.form = (IF t = "gemini" THEN "toml" ELSE "md")

CommandReads(a, t) ==
  /\ a.support[t] = "native" => Convertible(a, t)
  /\ a.support[t] = "verbatim" => Verbatim(a, t)

AgentReads(a) == a.form = "md" /\ a.text.header

\* A hook that is declared is a directory without native configuration, bound
\* on exactly the hosts it is native on; Gemini has no portable events.
HookDeclared(a) ==
  a.text.bindings # None =>
    /\ a.form = "dir" /\ a.text.configs = {}
    /\ a.text.bindings = {t \in Harness : a.support[t] = "native"}
    /\ a.text.bindings # {} /\ "gemini" \notin a.text.bindings

-----------------------------------------------------------------------------
(* What a plugin's commands and skills are called.                          *)

AllowedModes ==
  [skill |-> {"agent-skill", "native", "projected", "unsupported"},
   rule |-> {"native", "projected", "unsupported"},
   agent |-> {"agent-skill", "native", "projected", "unsupported"},
   command |-> {"native", "verbatim", "projected", "unsupported"},
   hook |-> {"native", "projected", "unsupported"},
   mcp |-> {"native", "unsupported"}]

ModesAllowed(a) ==
  \A t \in Harness : /\ a.support[t] \in AllowedModes[a.kind]
                     /\ a.kind = "agent" /\ a.support[t] = "agent-skill" => t = "codex"

\* An exclusion has a reason.
ReasonsGiven(a) == \A t \in a.blank : a.support[t] # "unsupported"

\* The directory and name an asset is invoked under, of those that are.
Invoked(a, t) ==
  CASE a.support[t] = "agent-skill" -> {<<"skills", a.id>>}
    [] a.kind = "skill" /\ a.support[t] = "native" /\ t # "cursor" -> {<<"skills", a.name>>}
    [] a.kind = "command" /\ a.support[t] = "native" ->
         {<<IF t = "gemini" THEN "commands" ELSE "skills", a.id>>}
    [] a.kind = "command" /\ a.support[t] = "verbatim" -> {<<"commands", a.name>>}
    [] OTHER -> {}

\* Wrong on purpose: the names in frontmatter are not looked at.
InvocationNameDirectory(a, place) == place[2]

\* A skill's frontmatter may give it another name.
InvocationName(a, place) ==
  IF a.kind = "skill" /\ a.text.name # None THEN a.text.name ELSE place[2]

Reserved(p, t) ==
  IF p # "pig" THEN {}
  ELSE {s \in DOMAIN ManagedSkill : s = "update-instruction-hub" \/ t \in ManagedSkill[s]}

\* Claims on a place of plugin p on host t, and what they are called there.
Claims(assets, t) ==
  {c \in assets \X ({"skills", "commands"} \X Name) : c[2] \in Invoked(c[1], t)}

Called(c) == Fold[InvocationName(c[1], c[2])]

Placed(c) == <<c[2][1], Fold[c[2][2]]>>

\* Managed skills keep their name and place, and Codex its length.
ClaimAllowed(c, p, t) ==
  /\ Called(c) \notin Reserved(p, t)
  /\ Placed(c) \notin {<<"skills", s>> : s \in Reserved(p, t)}
  /\ t = "codex" /\ c[1].kind \in {"agent", "command"} =>
       Length[p] + 1 + Length[c[2][2]] <= MaxName

\* Wrong on purpose: only what menus show is compared.
InvocationsValidCalled(assets, p, t) ==
  /\ \A c \in Claims(assets, t) : ClaimAllowed(c, p, t)
  /\ \A c, d \in Claims(assets, t) : c # d => Called(c) # Called(d)

\* Every claim on a name is the only one, in its directory and in menus.
InvocationsValid(assets, p, t) ==
  /\ \A c \in Claims(assets, t) : ClaimAllowed(c, p, t)
  /\ \A c, d \in Claims(assets, t) :
       c # d => Called(c) # Called(d) /\ Placed(c) # Placed(d)

-----------------------------------------------------------------------------
(* Validation.                                                              *)

PluginAssets(h, p) == {a \in Assets(h) : a.ref \in h.plugins[p]}

Selected(h) ==
  /\ "pig" \in h.config.stable
  /\ \A p \in h.config.stable :
       p \in DOMAIN h.plugins /\ h.plugins[p] \subseteq {a.ref : a \in Assets(h)}

Valid(h) ==
  /\ \A e \in h.entries : ~e.text.link /\ ~LiteralSecret(e)
  /\ Loads(h)
  /\ \A a \in Assets(h) : ModesAllowed(a) /\ ReasonsGiven(a) /\ HookDeclared(a)
  /\ \A s \in DOMAIN ManagedSkill :
       "pig" \in DOMAIN h.plugins => <<"skill", s>> \notin h.plugins["pig"]
  /\ Selected(h)
  /\ \A t \in h.config.targets :
       /\ \A a \in Assets(h) : a.kind = "command" => CommandReads(a, t)
       /\ \A p \in h.config.stable : /\ InvocationsValid(PluginAssets(h, p), p, t)
                                     /\ ServersCollect(PluginAssets(h, p), t)
  /\ "codex" \in h.config.targets =>
       \A a \in Assets(h) :
         a.kind = "agent" /\ a.support["codex"] = "agent-skill" => AgentReads(a)
=============================================================================
