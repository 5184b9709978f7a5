------------------------------ MODULE MCHubBuild ------------------------------
(* An instance of HubBuild for TLC: assets whose names, files and servers   *)
(* can get in each other's way on some host, and two states of a repository *)
(* that has one of them too.                                                *)
EXTENDS HubBuild, TLC

MCName == {"x", "y", "Y", "m", "n", "repo-mcp", "cursor-mcp", "update-instruction-hub",
           "add-external-plugin"}

MCFold == [n \in MCName |-> IF n = "Y" THEN "y" ELSE n]

MCLength == [n \in MCName \cup {"pig", "long"} |-> IF n = "long" THEN 63 ELSE 3]

MCFirstVersion == [major |-> 0, minor |-> 1, patch |-> 0, pre |-> <<>>, build |-> 0]

MCSlug == [n \in {"X", "x"} |-> "x"]

Text(rev) ==
  [rev |-> rev, name |-> None, frontmatter |-> TRUE, header |-> TRUE, dynamic |-> FALSE,
   argument |-> FALSE, link |-> FALSE, servers |-> <<>>, leaves |-> {}, args |-> <<>>,
   configs |-> {}, setting |-> 0, bindings |-> None]

Entry(kind, name, form, support, text) ==
  [kind |-> kind, name |-> name, form |-> form, id |-> None, support |-> support,
   files |-> IF kind = "skill" THEN {"SKILL.md", "support"} ELSE {}, blank |-> {}, text |-> text]

Draft(plugin, entry) == [plugin |-> plugin, entry |-> entry]

Named(name) == [Text(1) EXCEPT !.name = name]

Serving(field) == [Text(1) EXCEPT !.servers = ("sv" :> [field |-> field, declared |-> None])]

Only(t, mode) == [s \in Harness |-> IF s = t THEN mode ELSE "unsupported"]

Hook == [Text(1) EXCEPT !.bindings = {"claude", "cursor"}]

Leaking ==
  [Serving("url") EXCEPT !.leaves = {[field |-> "value", parent |-> "token", value |-> "literal"]}]

\* A skill x that menus show as y, a command x, a skill Y; servers; a hook.
MCDrafts ==
  {Draft("pig", Entry("skill", "x", "dir", None, Named("y"))),
   Draft("pig", Entry("command", "x", "md",
                      [t \in {"claude", "cursor"} |-> IF t = "claude" THEN "native" ELSE "verbatim"],
                      Text(1))),
   Draft("pig", Entry("skill", "n", "dir", Only("claude", "native"), Named("Y"))),
   Draft("pig", Entry("mcp", "m", "json", Only("claude", "native"), Serving("command"))),
   Draft("long", Entry("hook", "n", "dir", [t \in {"claude", "cursor"} |-> "native"], Hook)),
   Draft("long", Entry("agent", "n", "md", Only("codex", "agent-skill"), Text(1)))}

MCConfigs ==
  {[targets |-> {"claude", "codex"}, stable |-> {"pig"}, trace |-> TRUE, mcp |-> TRUE]}

Source(name, rev, files) == [name |-> name, files |-> files, text |-> Text(rev)]

Servers1 == [form |-> "json", text |-> Serving("command")]

\* The second has a Cursor configuration that differs from the root's; the
\* third a secret, and a link; the fourth two directories of one id.
MCRepos ==
  {[skills |-> <<Source("X", 2, {"SKILL.md", "support"})>>, root |-> Servers1, cursor |-> Servers1],
   [skills |-> <<Source("x", 3, {"SKILL.md"})>>, root |-> Servers1,
    cursor |-> [form |-> "json", text |-> Serving("url")]],
   [skills |-> <<>>, root |-> [form |-> "yaml", text |-> Leaking],
    cursor |-> [Servers1 EXCEPT !.text.link = TRUE]],
   [skills |-> <<Source("x", 3, {"SKILL.md"}), Source("X", 2, {"SKILL.md"})>>, root |-> None,
    cursor |-> None]}
=============================================================================
