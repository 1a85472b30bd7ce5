---------------------------- MODULE MCI18nAudit ----------------------------
(* A small instance of I18nAudit for TLC: two categories, one file of each     *)
(* kind, one of which upstream lacks, and one in a directory upstream lacks.  *)
EXTENDS I18nAudit, TLC

CONSTANTS old, new

Symmetry == Permutations(Pins)

MCPaths == {"Sidebar", "Button", "Types", "lang_en", "lang_br", "test", "json", "NewInput"}
MCDirs == {"elements/", "en/", "pt-BR/", "tests/", "root/", "forms/"}
MCDirOf == [p \in MCPaths |->
  CASE p \in {"Sidebar", "Button", "Types"} -> "elements/"
    [] p = "lang_en" -> "en/" [] p = "lang_br" -> "pt-BR/" [] p = "test" -> "tests/"
    [] p = "json" -> "root/" [] p = "NewInput" -> "forms/"]
MCListed == {"Sidebar", "Button", "Types", "lang_en", "NewInput"}
MCEnglish == {"lang_en"}
MCCounterpart == "lang_en" :> "lang_br"
MCTests == {"test"}
MCSourceNames == MCPaths \ {"json"}
MCUpstream == {"Sidebar", "Types", "lang_en", "test", "json"}

MCGlobs == {"navigation", "all elements", "types", "lang"}
MCMatches == [g \in MCGlobs |->
  CASE g = "navigation" -> {"Sidebar", "Button"}
    [] g = "all elements" -> {"Sidebar", "Button", "Types", "NewInput", "elements/", "forms/"}
    [] g = "types" -> {"Types"}
    [] g = "lang" -> {"lang_en"}]

Unit(id, globs, exclude, catch_all) ==
  [id |-> id, globs |-> globs, exclude |-> exclude, catch_all |-> catch_all]
Category(id, order, units) == [id |-> id, order |-> order, units |-> units]

\* The catch-all is listed first and claims last; Types are nobody's.
Shared == [categories |-> <<Category("pages", 2, <<Unit("page", {"all elements"}, {"types"}, TRUE),
                                                     Unit("lang", {"lang"}, {}, FALSE)>>),
                            Category("shared", 1, <<Unit("nav", {"navigation"}, {}, FALSE)>>)>>,
           excluded |-> <<"types">>]
\* Every element is one unit's.
Merged == [categories |-> <<Category("shared", 1, <<Unit("nav", {"all elements"}, {}, FALSE)>>),
                            Category("pages", 2, <<Unit("lang", {"lang"}, {}, FALSE)>>)>>,
           excluded |-> <<"types">>]
\* The same files under another name of the unit.
Renamed == [Merged EXCEPT !.categories[1].units[1].id = "elements"]
\* Two units claim the same files.
Overlapping == [categories |-> <<Category("shared", 1, <<Unit("nav", {"navigation"}, {}, FALSE),
                                                         Unit("page", {"all elements", "lang"}, {}, FALSE)>>)>>,
                excluded |-> <<>>]
MCManifests == {Shared, Merged, Renamed, Overlapping}
=============================================================================
