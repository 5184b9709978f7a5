--------------------------- MODULE MCMcpDistribution ---------------------------
(* An instance of McpDistribution for TLC: two plugins, a skill whose       *)
(* entrypoint has another case, an agent and a command; the releases differ *)
(* in contents, in files and in what can be projected.                      *)
EXTENDS McpDistribution

CONSTANTS good, better, plain, agent, bare, deleg, odd, big

MCSize == [b \in {good, better, plain, agent, bare, deleg, odd, big} |-> IF b = big THEN 4 ELSE 1]

Header(name, keys, nodes) ==
  [closed |-> TRUE, keys |-> keys, name |-> name, depth |-> 1, nodes |-> nodes]

MCFrontmatter ==
  [b \in DOMAIN MCSize |->
     CASE b \in {good, better, big} -> Header("s", <<"name", "description">>, 3)
       [] b = deleg -> Header("a", <<"name", "description">>, 3)
       [] b = odd -> Header("a", <<"name", "description", "name">>, 4)
       [] b = plain -> [Header("s", <<"name", "description">>, 3) EXCEPT !.nodes = 9]
       [] OTHER -> None]

MCRendered ==
  [b \in DOMAIN MCSize |-> IF b = agent THEN deleg ELSE IF b = bare THEN odd ELSE None]

MCPrompt == [b \in DOMAIN MCSize |-> IF b = bare THEN bare ELSE None]

MCFold == [n \in {"Skill.md", "SKILL.md"} |-> "skill.md"]

MCLength == [id \in {"p", "q", "s", "a", "long"} |-> IF id = "long" THEN 45 ELSE IF id = "q" THEN 50 ELSE 1]

MCWords == [id \in {"s", "a", "long"} |-> IF id = "a" THEN {"x"} ELSE {}]

Entry(text) == <<"Skill.md">> :> text

Asset(kind, id, plugins, files) == [kind |-> kind, id |-> id, plugins |-> plugins, files |-> files]

Hub(assets) ==
  [enabled |-> TRUE, kinds |-> [p \in {"p", "q"} |-> "authored"], assets |-> assets]

File(text) == <<"f">> :> text

MCHubs ==
  {Hub(<<Asset("skill", "s", {"p"}, Entry(good) @@ (<<"lib", "Skill.md">> :> plain)),
         Asset("agent", "a", {"p", "q"}, File(agent))>>),
   Hub(<<Asset("skill", "s", {"p"}, Entry(better) @@ (<<"lib", "Skill.md">> :> good)),
         Asset("command", "a", {"q"}, File(bare))>>),
   [Hub(<<>>) EXCEPT !.enabled = FALSE],
   [Hub(<<Asset("skill", "s", {"p"}, Entry(big) @@ (<<"asset.yaml">> :> odd)),
          Asset("agent", "a", {"p"}, File(bare))>>)
     EXCEPT !.kinds = [p \in {"p"} |-> "authored"]],
   Hub(<<Asset("skill", "s", {"p"}, Entry(good) @@ (<<"SKILL.md">> :> good))>>),
   Hub(<<Asset("skill", "long", {"q"}, Entry(good))>>)}

MCSelections == {{"p"}, {"p", "q"}}

MCListings ==
  {[key |-> <<"resources">>, limit |-> 2], [key |-> <<"search", "any", "x">>, limit |-> 1],
   [key |-> <<"tools">>, limit |-> 2], [key |-> <<"skills">>, limit |-> 1]}

MCBindings == {[loopback |-> TRUE, token |-> FALSE]}
=============================================================================
