--------------------------- MODULE MCCursorExport ---------------------------
(* Databases and sessions of CursorExport for TLC.                          *)
EXTENDS CursorExport, TLC

MCSessions == 1 .. 4

Database(saved, pages, children) ==
  [saved |-> saved, revision |-> 1,
   pages |-> [s \in Sessions |-> IF s \in DOMAIN pages THEN pages[s] ELSE <<>>],
   children |-> [s \in Sessions |-> IF s \in DOMAIN children THEN children[s] ELSE {}]]

\* Sessions without subagents, as many members as a run takes, some that are
\* not saved or not as a whole, and a discovered session with one.
MCDatabases ==
  { Database(Sessions, (1 :> <<1>> @@ 2 :> <<1, 1>> @@ 4 :> <<1>>), <<>>),
    Database(Sessions, (1 :> <<1>> @@ 2 :> <<1>> @@ 3 :> <<1>> @@ 4 :> <<1>>), (1 :> {2, 4})),
    Database({1, 4}, (1 :> <<1, Missing>> @@ 4 :> <<1>>), (1 :> {2, 3})),
    Database({1, 2, 4}, (2 :> <<1>> @@ 4 :> <<1>>), (4 :> {3})) }

MCTranscripts == {2, 4}
=============================================================================
