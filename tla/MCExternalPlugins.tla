--------------------------- MODULE MCExternalPlugins ---------------------------
(* An instance of ExternalPlugins for TLC: one plugin that is upstream's in *)
(* one of two repositories, pinned or latest, at the root or below it, or   *)
(* the hub's own.                                                           *)
EXTENDS ExternalPlugins

CONSTANTS P, A, B, t1, t2, t3, t4, t5

V(minor, patch, pre) ==
  [major |-> 1, minor |-> minor, patch |-> patch, pre |-> pre, build |-> 0]

Rc == <<[numeric |-> FALSE, rank |-> 1], [numeric |-> TRUE, rank |-> 1]>>

File(rest) ==
  [mode |-> "100644",
   contents |-> [name |-> None, version |-> None, components |-> {}, rest |-> rest]]

PluginManifest(version) ==
  [mode |-> "100644",
   contents |-> [name |-> P, version |-> version, rest |-> 0,
                 components |-> {[field |-> "skills", path |-> <<"s">>]}]]

(* A commit has the plugin at its root and, with the same version, below d. *)
Tree(version, skill, inner) ==
  LET paths == {<<".claude-plugin">>, <<".codex-plugin">>, <<"s", "f">>}
      at(p, text) == IF p = <<"s", "f">> THEN File(text) ELSE PluginManifest(version)
  IN [p \in paths \cup {<<"d">> \o q : q \in paths} |->
        IF p[1] = "d" THEN at(Tail(p), inner) ELSE at(p, skill)]

(* Nothing verifies: the root has no proper version, and d not its skill.   *)
Broken ==
  [p \in {<<".claude-plugin">>, <<".codex-plugin">>, <<"s", "f">>,
          <<"d", ".claude-plugin">>, <<"d", ".codex-plugin">>} |->
     IF p[1] = "d" THEN PluginManifest(V(0, 0, <<>>))
     ELSE IF p[1] = "s" THEN File(1) ELSE PluginManifest(Malformed)]

MCFiles ==
  [tree \in {t1, t2, t3, t4, t5} |->
     CASE tree = t1 -> Tree(V(0, 0, <<>>), 1, 1)
       [] tree = t2 -> Tree(V(0, 0, <<>>), 2, 1)
       [] tree = t3 -> Tree(V(0, 1, <<>>), 2, 1)
       [] tree = t4 -> Broken
       [] tree = t5 -> Tree(None, 3, 1)]

MCCommits == [url \in {A, B} |-> IF url = B THEN {t5} ELSE {t1, t2, t3, t4}]

MCMaxCommits == [url \in {A, B} |-> IF url = A THEN 3 ELSE 1]

Root(targets) == [t \in targets |-> <<>>]

Ext(url, ref, targets) ==
  [kind |-> "external", url |-> url, ref |-> ref, targets |-> targets]

MCHub(plugin, targets, version) ==
  [plugins |-> [id \in {P} |-> plugin], targets |-> targets, version |-> version,
   content |-> 1]

MCDirectories == {<<>>, <<"d">>}

Both == {"claude", "codex"}

MCHubs ==
  {MCHub(Ext(A, Latest, Root(Both)), Both, V(0, 0, <<>>)),
   MCHub(Ext(A, Latest, Root(Both)), Both, V(0, 0, Rc)),
   MCHub(Ext(A, Latest, Root(Both)), {"claude"}, V(0, 0, <<>>)),
   MCHub(Ext(A, 1, Root(Both)), Both, V(0, 1, Rc)),
   MCHub(Ext(A, Latest, [t \in Both |-> <<"d">>]), Both, V(0, 0, <<>>)),
   MCHub([kind |-> "authored", content |-> 1], Both, V(0, 0, <<>>)),
   MCHub(Ext(B, Latest, Root({"claude"})), Both, V(0, 0, Rc))}
=============================================================================
