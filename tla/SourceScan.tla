----------------------------- MODULE SourceScan -----------------------------
(***************************************************************************)
(* What the scanner makes of a source file (scan.rs), from the pieces its  *)
(* tokenizer cuts it into: which strings are labels, the skeleton, where   *)
(* labels are blanked out, and the map categoryLabels.                     *)
(*                                                                         *)
(* What the code spells is a sequence of units: words, and the marks that  *)
(* matter to its tools one by one, the blank among them.  A piece has a    *)
(* line and a text, which for code is its units; visible text has the tag  *)
(* around it; a string has the tag, its attribute, the JSX braces it is    *)
(* inside of ("child", or the attribute they are the value of) and its     *)
(* context: what the code before it ends with, such as <<"key", "title">>  *)
(* for `title:' and <<"call", "alert">> for `alert('.                      *)
(***************************************************************************)
EXTENDS Wording, Integers, SequencesExt

CONSTANTS
  LabelAttributes,  \* LABEL_ATTRIBUTES
  LabelProps,       \* LABEL_COMPONENT_PROPS, pairs of a tag and an attribute
  LabelContexts,    \* contexts of a label: LABEL_KEYS, LABEL_FUNCTIONS, routes, addError
  CodeContexts,     \* and of code: import, console, CODE_KEYS, CODE_FUNCTIONS, ...
  Spelling          \* the units of each text, as a literal spells it between quotes

ASSUME SourceScanAssumption == LabelContexts \cap CodeContexts = {}

\* What is left of s without the places in I.
Without(s, I) == FlattenSeq([i \in DOMAIN s |-> IF i \in I THEN <<>> ELSE <<s[i]>>])

-----------------------------------------------------------------------------
(* classify_string *)

OfAttribute(s, attribute, sounding) ==
  \/ <<s.tag, attribute>> \in LabelProps
  \/ attribute \in LabelAttributes /\ (attribute \in sounding => Sounds(s.text))
  \/ attribute = "defaultvalue" /\ Sounds(s.text)

\* A string that neither an attribute nor the code before it decides.
OfPlace(s) ==
  CASE s.inside = NotThere -> Is(s.text, "human")
    [] s.inside = "child" -> Is(s.text, "human") /\ ~Is(s.text, "technical")
    [] s.inside \notin {NotThere, "child"} ->
         /\ OfAttribute(s, s.inside, {"value", "children"})
         /\ <<s.tag, s.inside>> \in LabelProps \/ s.inside = "defaultvalue" \/ ~Is(s.text, "technical")

\* Bug: what reads as a sentence is a label wherever it stands.
IsHuman(s) == Is(s.text, "human")
IsLabel(s) ==
  IF s.attribute # NotThere THEN OfAttribute(s, s.attribute, {"value"})
  ELSE s.context \in LabelContexts \/ (s.context \notin CodeContexts /\ OfPlace(s))

Labels(pieces) ==
  Without(pieces, {i \in DOMAIN pieces :
    pieces[i].kind # "text" /\ ~(pieces[i].kind = "string" /\ IsLabel(pieces[i]))})

-----------------------------------------------------------------------------
(* render_skeleton, replace_category_lookups *)

Lookups == {"categoryLabels[category]", "capitalize(category)"}

Quote == "\""

\* normalize_code: one blank at a time, and none at either end.
Normal(s) ==
  Without(s, {i \in DOMAIN s : s[i] = " " /\ \/ i = 1 \/ s[i - 1] = " "
                                             \/ \A j \in i..Len(s) : s[j] = " "})

\* code_string_token; a hash stands for a text of more than 120 characters or one line.
Literal(text) == IF Is(text, "long") THEN <<text>> ELSE <<Quote>> \o Spelling[text] \o <<Quote>>

Token(p) ==
  CASE p.kind = "code" -> [i \in DOMAIN p.text |-> IF p.text[i] \in Lookups THEN "CATEGORY_LABEL_LOOKUP"
                                                  ELSE p.text[i]]
    [] p.kind = "text" -> <<"TEXT">>
    [] p.kind = "string" -> IF IsLabel(p) THEN <<Quote, Quote>> ELSE Literal(p.text)

\* merge_inline_label_strings: TEXT{""}TEXT is TEXT.
Merged(line) ==
  LET inline == <<"TEXT", "{", Quote, Quote, "}", "TEXT">>
      Merge(done) == IF IsSuffix(inline, done) THEN SubSeq(done, 1, Len(done) - 5) ELSE done
      merged[n \in 0..Len(line)] ==
        IF n = 0 THEN <<>> ELSE Merge(Append(merged[n - 1], line[n]))
  IN merged[Len(line)]

LineOf(pieces, n) ==
  Merged(Normal(FlattenSeq([i \in DOMAIN pieces |-> IF pieces[i].line = n THEN Token(pieces[i]) ELSE <<>>])))

\* The lines that are not empty.
Skeleton(pieces) ==
  LET Line(n) == IF LineOf(pieces, n) = <<>> THEN <<>> ELSE <<LineOf(pieces, n)>>
  IN FlattenSeq([n \in 1..Max({0} \cup {p.line : p \in ToSet(pieces)}) |-> Line(n)])

-----------------------------------------------------------------------------
(* extract_category_labels: an entry that is not `key: text' is passed over *)

Listed(map) == Without(map.entries, {i \in DOMAIN map.entries : map.entries[i].text = NotThere})
KeysOf(map) == [i \in DOMAIN Listed(map) |-> Listed(map)[i].key]
UsesCategories(pieces) == \E p \in ToSet(pieces) : p.kind = "code" /\ "categoryLabels[category]" \in ToSet(p.text)
=============================================================================
