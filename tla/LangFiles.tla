----------------------------- MODULE LangFiles -----------------------------
(***************************************************************************)
(* The language files: how the entries of `return [...]' are read (php.rs) *)
(* and what the audit finds when it compares an English file with its      *)
(* pt-BR overlay, or with its own earlier revision (audit.rs).             *)
(*                                                                         *)
(* A file is a sequence of tokens <<kind, value>>.  The value of an entry  *)
(* is the sequence of the literals that are concatenated in it, and is     *)
(* empty when it does not begin with a literal; it is English if one of    *)
(* its literals is.  Comments of an English file are left out.             *)
(***************************************************************************)
EXTENDS Wording, Integers, SequencesExt

Symbol(s) == <<"symbol", s>>
Str(s) == <<"string", s>>
Ident(w) == <<"ident", w>>
Nothing == <<"nothing", "">>

TokenAt(tokens, i) == IF i \in DOMAIN tokens THEN tokens[i] ELSE Nothing
Least(S, otherwise) == IF S = {} THEN otherwise ELSE Min(S)

-----------------------------------------------------------------------------
(* Reading *)

IsArrayStart(tokens, i) ==
  \/ TokenAt(tokens, i) = Symbol("[")
  \/ TokenAt(tokens, i) = Ident("array") /\ TokenAt(tokens, i + 1) = Symbol("(")

Closer(tokens, i) == IF TokenAt(tokens, i) = Symbol("[") THEN "]" ELSE ")"
Opener(tokens, i) == IF TokenAt(tokens, i) = Symbol("[") THEN "[" ELSE "("

\* Openers less closers in tokens[i..j].
Depth(tokens, openers, closers, i, j) ==
  Quantify(i..j, LAMBDA k : tokens[k] \in openers) - Quantify(i..j, LAMBDA k : tokens[k] \in closers)

\* Past the array that starts at i; only its own kind of bracket counts.
SkipArray(tokens, i) ==
  LET closer == Symbol(Closer(tokens, i))
      ends == {j \in i..Len(tokens) :
                 tokens[j] = closer /\ Depth(tokens, {Symbol(Opener(tokens, i))}, {closer}, i, j) = 0}
  IN Least(ends, Len(tokens)) + 1

\* To the comma or the closing bracket that ends the value at i.
SkipScalar(tokens, i) ==
  LET openers == {Symbol("["), Symbol("(")}
      closers == {Symbol("]"), Symbol(")")}
  IN Least({j \in i..Len(tokens) : /\ tokens[j] \in closers \cup {Symbol(",")}
                                   /\ Depth(tokens, openers, closers, i, j - 1) = 0},
           Len(tokens) + 1)

\* The literals concatenated from i on.
RECURSIVE LiteralsFrom(_, _)
LiteralsFrom(tokens, i) ==
  IF TokenAt(tokens, i)[1] # "string" THEN <<>>
  ELSE <<tokens[i][2]>> \o
       (IF TokenAt(tokens, i + 1) = Symbol(".") THEN LiteralsFrom(tokens, i + 2) ELSE <<>>)

RECURSIVE ParseArray(_, _, _), ParseItems(_, _, _, _)

\* The entries of the array that starts at i, and the place past it.
ParseArray(tokens, i, path) ==
  ParseItems(tokens, IF Opener(tokens, i) = "[" THEN i + 1 ELSE i + 2, Symbol(Closer(tokens, i)), path)

ParseItems(tokens, i, closer, path) ==
  LET HasKey == TokenAt(tokens, i)[1] = "string" /\ TokenAt(tokens, i + 1) = Symbol("=>")
      below == Append(path, TokenAt(tokens, i)[2])
      value == LiteralsFrom(tokens, i + 2)
      Then(entries, next) ==
        LET rest == ParseItems(tokens, next, closer, path)
        IN [entries |-> entries \o rest.entries, next |-> rest.next]
  IN CASE i > Len(tokens) -> [entries |-> <<>>, next |-> i]
       [] TokenAt(tokens, i) = closer -> [entries |-> <<>>, next |-> i + 1]
       [] HasKey /\ IsArrayStart(tokens, i + 2) ->
            LET inner == ParseArray(tokens, i + 2, below) IN Then(inner.entries, inner.next)
       [] HasKey /\ ~IsArrayStart(tokens, i + 2) ->
            Then(<<[path |-> below, value |-> value]>>,
                 IF value = <<>> THEN SkipScalar(tokens, i + 2) ELSE i + 1 + 2 * Len(value))
       [] IsArrayStart(tokens, i) -> Then(<<>>, SkipArray(tokens, i))
       [] OTHER -> Then(<<>>, i + 1)

\* Those of the first `return [...]', else of the first array.
Entries(tokens) ==
  LET returned == {i \in DOMAIN tokens : i > 1 /\ tokens[i - 1] = Ident("return") /\ IsArrayStart(tokens, i)}
      arrays == {i \in DOMAIN tokens : IsArrayStart(tokens, i)}
  IN IF arrays = {} THEN <<>>
     ELSE ParseArray(tokens, Least(returned, Min(arrays)), <<>>).entries

-----------------------------------------------------------------------------
(* compare_lang_entries *)

PathsOf(entries) == {e.path : e \in ToSet(entries)}
Named(entries, path) == SelectSeq(entries, LAMBDA e : e.path = path)
Times(entries, path) == Len(Named(entries, path))
FirstOf(entries, path) == Named(entries, path)[1]
LastOf(entries, path) == Last(Named(entries, path))

MissingKeys(en, pt) == {k \in PathsOf(en) : Times(en, k) > Times(pt, k)}
\* Bug: duplicates are not counted.
ExtraAbsent(en, pt) == PathsOf(pt) \ PathsOf(en)
ExtraKeys(en, pt) == {k \in PathsOf(pt) : Times(pt, k) > Times(en, k)}
CommonKeys(en, pt) == PathsOf(en) \cap PathsOf(pt)

-----------------------------------------------------------------------------
(* analyze_lang_key_mismatch, analyze_overlay_values, analyze_english_source *)

HoldersOf(value) == FlattenSeq([i \in DOMAIN value |-> Holders[value[i]]])
IsBlank(value) == \A t \in ToSet(value) : Is(t, "blank")
English(value) == UNION {ToSet(EnglishTerms(t)) : t \in {u \in ToSet(value) : Worded(u)}}

KeyMismatch(en, pt) ==
  {<<"lang-key-mismatch", k>> : k \in MissingKeys(en, pt) \cup ExtraKeys(en, pt)}

\* The first entry of a key in either file; one without a literal is skipped.
OverlayValues(en, pt) ==
  LET spoken == {k \in CommonKeys(en, pt) : FirstOf(pt, k).value # <<>>}
      empty == {k \in spoken : IsBlank(FirstOf(pt, k).value)}
      Kept(k) == \/ FirstOf(en, k).value = <<>>
                 \/ ToBag(HoldersOf(FirstOf(en, k).value)) = ToBag(HoldersOf(FirstOf(pt, k).value))
  IN {<<"empty-translation", k>> : k \in empty}
     \cup {<<"placeholder-changed", k>> : k \in {j \in spoken \ empty : ~Kept(j)}}
     \cup UNION {{<<f, k>> : f \in English(FirstOf(pt, k).value)} : k \in spoken \ empty}

OverlayFindings(enTokens, ptTokens) ==
  LET en == Entries(enTokens)
      pt == Entries(ptTokens)
  IN KeyMismatch(en, pt) \cup OverlayValues(en, pt)

\* An English file against its earlier revision: the last entry of a key counts.
EnglishFindings(oldTokens, newTokens) ==
  LET old == Entries(oldTokens)
      new == Entries(newTokens)
      same == {k \in CommonKeys(old, new) : LastOf(old, k).value = LastOf(new, k).value}
  IN {<<"english-source-changed", k>> : k \in (PathsOf(old) \cup PathsOf(new)) \ same}
=============================================================================
