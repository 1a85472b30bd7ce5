------------------------- MODULE MCTextRules -------------------------
(* Inputs of TextRules and LangRules for TLC.                         *)
EXTENDS LangRules

(* Texts *)
MCSpelling == [t \in {"Hi :n", "Olá :n", "Olá", " :n", "", "Hello", "Oi", "x", "Seu Server", "olá", "a-b", "x.io", "Veja x.io"}
                |-> CASE t = "Hi :n" -> <<"Hi", " ", ":n">>
                      [] t = "Olá :n" -> <<"Olá", " ", ":n">>
                      [] t = " :n" -> <<" ", ":n">>
                      [] t = "" -> <<>>
                      [] t = "Seu Server" -> <<"Seu", " ", "Server">>
                      [] t = "x.io" -> <<"x", ".", "io">>
                      [] t = "Veja x.io" -> <<"Veja", " ", "x", ".", "io">>
                      [] OTHER -> <<t>>]
              @@ ("a, b" :> <<"a", ",", " ", "b">>) @@ ("a  b" :> <<"a", " ", " ", "b">>)
              @@ ("a b" :> <<"a", " ", "b">>) @@ ("b a" :> <<"b", " ", "a">>) @@ (" " :> <<" ">>)
              @@ ("? (<a>)" :> <<"?", " ", "(", "<", "a", ">", ")">>) @@ ("? <a>" :> <<"?", " ", "<", "a", ">">>)
              @@ ("A long one" :> <<"long">>)
MCTexts == DOMAIN MCSpelling
MCHolders == [t \in MCTexts |-> IF t \in {"Hi :n", "Olá :n", " :n"} THEN <<":n">> ELSE <<>>]
MCUrls == [t \in MCTexts |-> IF t \in {"x.io", "Veja x.io"} THEN <<"x.io">> ELSE <<>>]
MCTraits ==
  LET Of(trait, texts) == [t \in MCTexts |-> IF t \in texts THEN {trait} ELSE {}]
      All == <<Of("blank", {"", " "}), Of("english", {"Hi :n", "Hello"}), Of("glossary", {"Seu Server"}),
               Of("capital", {"Hi :n", "Olá :n", "Olá", "Hello", "Oi", "Seu Server", "Veja x.io"}),
               Of("human", {"Hi :n", "Olá :n", "Olá", "Hello", "Oi", "Seu Server", "Veja x.io"}),
               Of("technical", {"a-b", "x.io"}), Of("plain", {"x.io", ""}), Of("long", {"A long one"})>>
  IN [t \in MCTexts |-> UNION {All[i][t] : i \in DOMAIN All}]

MCLabelProps == {<<"p", "name">>}
MCLabelContexts == {<<"key", "title">>}
MCCodeContexts == {<<"from", "">>}

(* Source files: any code of up to three words a and b on one line or two;    *)
(* some with parentheses that wrap JSX, wrap an operand, or are nested; and    *)
(* some with commas, blanks and marks that the comparison makes nothing of.    *)
Code(units) == <<[kind |-> "code", line |-> 1, text |-> units]>>
Spaced(words) == Code(FlattenSeq([i \in DOMAIN words |-> <<words[i], " ">>]))
Plain == UNION {[1..n -> {"a", "b"}] : n \in 0..3}
Wrapped == {<<"&&", "(", "<", "a", ")">>, <<"&&", "<", "a">>,
            <<"&&", "(", "a", ")">>, <<"&&", "a">>,
            <<"?", "(", "&&", "(", "<", ")", ")">>, <<"?", "(", "&&", "<", ")">>, <<"?", "&&", "<">>,
            <<"a", "?", "(", "<", ")">>, <<"a", "?", "<">>,
            <<"(", "<", ")">>, <<"<">>, <<"&&", "(", "<">>}
Marked == {<<"[", ",", " ", "b", "]">>, <<"[", " ", "b", "]">>, <<"[", "b", "]">>, <<"[", "b", ",", "]">>,
           <<"a", ",", "b">>, <<"a", ",", " ", "b">>, <<"a", " ", "b">>, <<"a", ".", "b">>, <<"a", " ", ".", "b">>,
           <<"{", " ", "a", ",", " ", "}">>, <<"{", "a", "}">>, <<"a", ",">>, <<",", " ", ",", " ", "a">>,
           <<"a", "=", ">", "(", "<", ")">>, <<"a", "=", ">", "<">>,
           <<"a", "?", ".", "b">>, <<"a", " ", "?", ".", "b">>, <<"a", " ", "?", " ", "b">>}
Alone(pieces) == [pieces |-> pieces, comments |-> <<>>, map |-> NotThere]
Below(units) == <<[kind |-> "code", line |-> 2, text |-> units]>>
CodeFamily == {Alone(Spaced(words)) : words \in Plain \cup Wrapped}
                \cup {Alone(Code(units)) : units \in Marked}
                \cup {Alone(Spaced(<<"a", "b">>) \o Below(<<"a">>)), Alone(Code(<<"a", ",">>) \o Below(<<" ", "b">>)),
                      Alone(Code(<<"a">>) \o Below(<<".", "b">>))}

Text(line, tag, text) == [kind |-> "text", line |-> line, tag |-> tag, text |-> text]
Quoted(attribute, context, inside, text) ==
  [kind |-> "string", line |-> 1, tag |-> "p", attribute |-> attribute, context |-> context,
   inside |-> inside, text |-> text]
Attr(attribute, text) == Quoted(attribute, <<"none", "">>, NotThere, text)
After(context, text) == Quoted(NotThere, context, NotThere, text)
Inside(place, text) == Quoted(NotThere, <<"none", "">>, place, text)
Said == {"Hi :n", "Olá :n", "Olá", "Hello", "Seu Server", "x.io", "Veja x.io", "a-b", "olá", ""}

(* One string or text in one place, said in every way.                        *)
MCPlaces ==
  {{<<Attr(a, t)>> : t \in Said} : a \in {"title", "value", "class", "name", "defaultvalue"}}
    \cup {{<<After(c, t)>> : t \in Said} : c \in {<<"key", "title">>, <<"from", "">>, <<"none", "">>}}
    \cup {{<<Inside(p, t)>> : t \in Said} : p \in {"child", "children", "title", "name"}}
    \cup {{<<Text(1, "p", t)>> : t \in Said}}
(* Several labels of one slot, a text with a label in it, and comments.       *)
Several == {<<Attr("title", s), Text(1, "p", t), Attr("title", u)>> : s, u \in {"Hi :n", "Olá :n", "Olá", "Hello"},
                                                                     t \in {"Olá", "Hello"}}
Inline == {<<Text(1, "p", "Olá")>>, <<Text(1, "p", "Oi")>>,
           <<Text(1, "p", "Hi :n")>> \o Code(<<"{">>) \o <<Inside("child", "Olá")>> \o Code(<<"}">>)
             \o <<Text(1, "p", "Olá")>>,
           <<Text(1, "p", "Olá")>> \o Code(<<"{">>) \o <<Inside("child", "a-b")>> \o Code(<<"}">>)
             \o <<Text(1, "p", "Olá")>>,
           <<Text(1, "p", "Olá")>> \o Code(<<"{">>) \o <<Inside("child", " ")>> \o Code(<<"}">>)}
(* Strings of code of several words, alone or before one more.                *)
Imported == {<<After(<<"from", "">>, t)>> \o rest :
               t \in {"a, b", "a b", "a  b", "b a", "? (<a>)", "? <a>", "olá", "", " ", "A long one"},
               rest \in {<<>>, Code(<<"a">>)}}
Commented == [pieces : {<<Attr("title", "Hello")>>, <<Attr("title", "Oi")>>}, map : {NotThere},
              comments : {<<>>, <<"x">>, <<"y">>, <<"x", "y">>}]
(* The map of categories, and the code that looks it up.                      *)
Entry(key, text) == [key |-> key, text |-> text]
Maps == {NotThere}
         \cup [type : {"t"}, comments : {<<>>, <<"x">>},
               entries : {<<Entry("k", "Oi")>>, <<Entry("k", "Hello")>>, <<Entry("l", "Olá")>>,
                          <<Entry("k", "Olá"), Entry("l", NotThere)>>, <<>>}]
         \cup [type : {"u"}, comments : {<<>>}, entries : {<<Entry("k", "Oi")>>}]
Mapped == [pieces : {Code(<<"categoryLabels[category]">>), Code(<<"capitalize(category)">>), Code(<<"a">>)},
           comments : {<<>>}, map : Maps]
MCFamilies == {{Alone(p) : p \in place} : place \in MCPlaces}
                \cup {CodeFamily, {Alone(p) : p \in Several}, {Alone(p) : p \in Inline}, {Alone(p) : p \in Imported}, Commented, Mapped}

(* Language files *)
Wrote(key, texts) == [key |-> key, kind |-> "text", texts |-> texts]
Expression(key) == [key |-> key, kind |-> "call"]
Array(key, syntax, items) == [key |-> key, kind |-> "array", syntax |-> syntax, items |-> items]
UpTo2(items) == {<<>>} \cup {<<i>> : i \in items} \cup {<<i, j>> : i \in items, j \in items}

EnglishItems == {Wrote("a", <<"Hi :n">>), Wrote("a", <<"Hello">>), Wrote("b", <<"Hello">>), Expression("a"),
                 Array("a", "short", <<Wrote("b", <<"Hi :n">>)>>)}
OverlayItems == {Wrote("a", <<"Olá :n">>), Wrote("a", <<"Olá", " :n">>), Wrote("a", <<"Oi">>), Wrote("a", <<"">>),
                 Wrote("b", <<"Oi">>), Wrote("b", <<"Hello">>), Expression("a"),
                 Array("a", "long", <<Wrote("b", <<"Olá :n">>)>>), Array(NotThere, "long", <<Wrote("b", <<"Oi">>)>>)}
MCEnglishFiles == {Array(NotThere, "short", items) : items \in UpTo2(EnglishItems)}
MCOverlays == {Array(NotThere, syntax, items) : syntax \in {"short", "long"}, items \in UpTo2(OverlayItems)}

(* Reports *)
CriteriaOf(low, points) == [c \in Criteria |-> IF c \in low THEN points ELSE 2]
SomeCriteria == {CriteriaOf({}, 2), CriteriaOf({"safety"}, 1), CriteriaOf({"safety"}, 0),
                 CriteriaOf({"context", "coverage"}, 0), CriteriaOf({"context", "coverage"}, 3),
                 CriteriaOf({"context", "coverage", "safety"}, 1), [c \in Criteria \ {"safety"} |-> 2], NotThere}
Finding(line, severity) == [told |-> TRUE, line |-> line, severity |-> severity]
Findings == {<<>>, <<Finding(1, "nit")>>, <<Finding(1, "minor"), Finding(2, "blocker")>>, <<Finding(3, "major")>>,
             <<Finding(0, "nit")>>, <<Finding(1, "bad")>>, NotThere}
MCReports == [score : 6..10, findings : Findings, criteria : SomeCriteria, untranslated : {"empty", "filled"},
              glossary_violations : {"empty", NotThere}, test_impact : {"filled"},
              unit : {"u"}, category : {"c"}, round : {1, 2}]
MCTargets == [kind : {"unit"}, id : {"u", "v"}] \cup [kind : {"category"}, id : {"c", "d"}]

(* Patch files: a full one, with a line taken out and another put in.          *)
MCVocabulary == [n \in {"Origin", "Forwarded", "Applied-Upstream", "Last-Update"} |->
                   CASE n = "Origin" -> {"vendor", "other"}
                     [] n = "Forwarded" -> {"no", "not-needed"}
                     [] n = "Applied-Upstream" -> {"no"}
                     [] n = "Last-Update" -> {"now"}]
MCDiffs == {<<[is |-> "diff", name |-> "a", value |-> "a"], Mark("text")>>,
            <<[is |-> "diff", name |-> "a", value |-> ".env"], Mark("end"), Mark("text")>>}
AnyDiff == CHOOSE d \in MCDiffs : Len(d) = 2
FullPatch == NewPatch("subject", <<Mark("text")>>, NotThere, AnyDiff)
ExtraLines == {Mark("end"), Mark("text"), AnyDiff[1], Field("Subject", "other"), Field("Subject", ""),
               Field("Description", "why"), Field("Description", ""), Field("Origin", "bad"), Field("Origin", ""),
               Field("Last-Update", "bad"), Field("Reviewed-by", "other"), Field("Note", "x")}
Cuts == {FullPatch} \cup {RemoveAt(FullPatch, i) : i \in DOMAIN FullPatch}
MCPatches == Cuts \cup {InsertAt(p, i, l) : p \in Cuts, i \in 1..(Len(FullPatch) - 1), l \in ExtraLines}
MCDescriptions == UNION {[1..n -> {Mark("text"), Mark("blank"), Mark("end"), Field("Note", "x"), Field("Subject", "x")}] : n \in 0..2}

(* The series: up to three lines.                                              *)
MCPatchNames == {"0001-a", "0002-b", "0002-c", "0003-d", "1-e", "p q/0002-f", "g"}
MCNumber == [p \in MCPatchNames |->
               CASE p \in {"0001-a", "1-e"} -> 1
                 [] p \in {"0002-b", "0002-c", "p q/0002-f"} -> 2
                 [] p = "0003-d" -> 3
                 [] p = "g" -> NotThere]
MCProperNames == {"0001-a", "0002-b", "0002-c", "0003-d", "p q/0002-f"}
MCPlainDirs == MCPatchNames \ {"p q/0002-f"}
MCWords == [p \in MCPatchNames |-> IF p = "p q/0002-f" THEN <<"p", "q/0002-f">> ELSE <<p>>]
SeriesLines == [path : {"0001-a", "0002-b", "0003-d", "1-e", "p q/0002-f", "g"}, comment : {FALSE}]
                 \cup {[path |-> NotThere, comment |-> TRUE], [path |-> "0002-b", comment |-> TRUE]}
MCSeriesTexts == UNION {[1..n -> SeriesLines] : n \in 0..3}
MCFileNames == {"0001-a", "0002-b", "0003-d", "p q/0002-f"}
=============================================================================
