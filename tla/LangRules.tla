------------------------------ MODULE LangRules ------------------------------
(***************************************************************************)
(* The rules of TextRules, and those about language files (LangFiles): the *)
(* comparison of an English file with its overlay, and with its earlier    *)
(* revision, against what PHP reads from them.                             *)
(***************************************************************************)
EXTENDS TextRules, LangFiles

CONSTANTS
  EnglishFiles, \* language files, as trees of items (below)
  Overlays

CompareOverlay == \E en \in EnglishFiles, pt \in Overlays : Ask([of |-> "overlay", en |-> en, pt |-> pt])
CompareEnglish == \E old, new \in EnglishFiles : Ask([of |-> "english", en |-> old, new |-> new])

RulesNext == Next \/ (asked = NoQuestion /\ (CompareOverlay \/ CompareEnglish))
RulesSpec == Init /\ [][RulesNext]_asked

-----------------------------------------------------------------------------
(* What PHP reads *)

\* A file is [syntax, items]; an item has a key or none, and is a concatenation
\* of texts, a call, or an array of items.
Brackets(syntax) ==
  IF syntax = "short" THEN <<<<Symbol("[")>>, Symbol("]")>>
  ELSE <<<<Ident("array"), Symbol("(")>>, Symbol(")")>>

\* The call f('x', ['x' => 'x']), of which only the brackets and commas matter.
Call ==
  <<Ident("f"), Symbol("("), Str("x"), Symbol(","), Symbol("["), Str("x"), Symbol("=>"), Str("x"),
    Symbol("]"), Symbol(")")>>

Concatenated(texts) ==
  FlattenSeq([i \in DOMAIN texts |-> IF i = 1 THEN <<Str(texts[i])>> ELSE <<Symbol("."), Str(texts[i])>>])

RECURSIVE Written(_), Flat(_, _)
\* The tokens of an array.
Written(array) ==
  LET Value(item) ==
        CASE item.kind = "text" -> Concatenated(item.texts)
          [] item.kind = "call" -> Call
          [] item.kind = "array" -> Written(item)
      Key(item) == IF item.key = NotThere THEN <<>> ELSE <<Str(item.key), Symbol("=>")>>
  IN Brackets(array.syntax)[1]
       \o FlattenSeq([i \in DOMAIN array.items |->
                        Key(array.items[i]) \o Value(array.items[i]) \o <<Symbol(",")>>])
       \o <<Brackets(array.syntax)[2]>>
\* Its values by key, in the order they are written.
Flat(array, path) ==
  LET Below(item) ==
        CASE item.key = NotThere -> <<>>
          [] item.key # NotThere /\ item.kind = "array" -> Flat(item, Append(path, item.key))
          [] item.key # NotThere /\ item.kind = "text" ->
               <<[path |-> Append(path, item.key), value |-> item.texts]>>
          [] item.key # NotThere /\ item.kind = "call" ->
               <<[path |-> Append(path, item.key), value |-> <<>>]>>
  IN FlattenSeq([i \in DOMAIN array.items |-> Below(array.items[i])])

File(array) == <<Ident("return")>> \o Written(array) \o <<Symbol(";")>>

\* What PHP makes of a key that is there twice: the last value.
Shown(array, path) == SelectLastInSeq(Flat(array, <<>>), LAMBDA e : e.path = path)
Value(array, path) == Flat(array, <<>>)[Shown(array, path)].value
Keys(array) == PathsOf(Flat(array, <<>>))
Twice(array) == \E k \in Keys(array) : Times(Flat(array, <<>>), k) > 1

\* The audit is silent about an overlay only if PHP reads from it every key of
\* the English file, whose keys differ, and no other, and each with a text that
\* is not blank, not English, and has the placeholders of the English one; and
\* about a change of an English file only if PHP reads the same from it.
LangFilesKept ==
  /\ asked.of = "overlay" /\ ~Twice(asked.en) /\ OverlayFindings(File(asked.en), File(asked.pt)) = {} =>
       /\ Keys(asked.pt) = Keys(asked.en)
       /\ \A k \in Keys(asked.en) :
            LET en == Value(asked.en, k)
                pt == Value(asked.pt, k)
            IN pt # <<>> => /\ ~IsBlank(pt)
                            /\ English(pt) = {}
                            /\ en # <<>> => ToBag(HoldersOf(en)) = ToBag(HoldersOf(pt))
  /\ asked.of = "english" /\ EnglishFindings(File(asked.en), File(asked.new)) = {} =>
       /\ Keys(asked.new) = Keys(asked.en)
       /\ \A k \in Keys(asked.en) : Value(asked.en, k) = Value(asked.new, k)
=============================================================================
