----------------------------- MODULE MCCurriculum -----------------------------
(* Two levels, units of two lessons, four lessons of the core.             *)
EXTENDS Curriculum

Row(kind, text) ==
  [fields |-> IF kind = "practical" THEN 5 ELSE 7, empty |-> FALSE, words |-> 2,
   focus |-> kind = "grammar", sources |-> IF kind = "grammar" THEN {1} ELSE {}, text |-> text]
Unit(kind, level, unit) ==
  [kind |-> kind, level |-> level, unit |-> unit, rows |-> <<Row(kind, "one"), Row(kind, "two")>>]

P1 == Unit("practical", "A2", 5)
P2 == Unit("practical", "A2", 6)
G2 == [Unit("grammar", "A2", 25) EXCEPT !.rows[1].sources = {}]
G3 == Unit("grammar", "A2", 26)
Edition(p, g) ==
  [practical |-> p, grammar |-> g,
   want |-> [x \in {"A1", "A2"} \X {"practical", "grammar"} |->
      2 * IF x[2] = "practical" THEN Cardinality({i \in DOMAIN p : p[i].level = x[1]})
          ELSE Cardinality({i \in DOMAIN g : g[i].level = x[1]})]]
Changed(u, field, value) == [u EXCEPT !.rows[2][field] = value]

MCEditions ==
  { Edition(<<P1, P2>>, <<G2>>),                            \* as released first
    Edition(<<P1, Changed(P2, "text", "new")>>, <<G2>>),    \* a text edited
    Edition(<<P2, P1>>, <<G2>>),                            \* units renumbered
    Edition(<<P1, P2>>, <<G2, G3>>),                        \* a unit added at the end
    Edition(<<P1, P2>>, <<G3, G2>>),                        \* or before the end
    Edition(<<P1, P2>>, <<>>),                                \* the last unit withdrawn
    Edition(<<P1, P2>>, <<G3>>),                            \* and another in its place
    (* Refused: a unit twice, a level of no practical unit, too few rows,   *)
    (* fields or words, an empty text, sources that do not exist or lack.   *)
    Edition(<<P1, P1>>, <<G2>>), Edition(<<Unit("practical", "A1", 6)>>, <<G2>>),
    Edition(<<[P1 EXCEPT !.rows = <<@[1]>>]>>, <<G2>>),
    Edition(<<P1>>, <<Changed(G2, "fields", 6)>>), Edition(<<P1>>, <<Changed(G2, "words", 1)>>),
    Edition(<<Changed(P1, "empty", TRUE)>>, <<G2>>), Edition(<<P1>>, <<Changed(G2, "focus", FALSE)>>),
    Edition(<<P1>>, <<Changed(G2, "sources", {146})>>), Edition(<<P1>>, <<Changed(G2, "sources", {})>>),
    [Edition(<<P1>>, <<G2>>) EXCEPT !.want["A2", "practical"] = 4] }

MCFoundation == {<<"grammar", "A2", 25, 1>>}
MCCoreUnits == <<[level |-> "A1", texts |-> <<"one", "two">>], [level |-> "A1", texts |-> <<"three", "four">>]>>
MCWorkScenes == <<"Tech", "Tech", "Banking">>
=============================================================================
