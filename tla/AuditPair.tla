----------------------------- MODULE AuditPair -----------------------------
(***************************************************************************)
(* The static comparison of two revisions of one source file               *)
(* (analyze_pair in audit.rs): what of the change is not a translation.    *)
(*                                                                         *)
(* A revision is [comments, pieces, map]: what the scanner makes of the    *)
(* text, and the map categoryLabels, [type, comments, entries], which is   *)
(* taken out of it first.  A finding is its code.                          *)
(***************************************************************************)
EXTENDS SourceScan

CONSTANTS
  Preceders,   \* words after which prettier wraps JSX: && || ?? ? : return =>
  MaxCells     \* size up to which revisions are aligned (6 000 000)

ASSUME AuditPairAssumption == MaxCells \in Nat

ItemAt(s, i) == IF i \in DOMAIN s THEN <<s[i]>> ELSE <<>>
Places(s, t) == 1..Max({Len(s), Len(t)})
Repeated(code, n) == [i \in 1..n |-> code]

-----------------------------------------------------------------------------
(* Comments: compared position by position *)

CommentChanges(old, new) ==
  Repeated("comment-changed", Cardinality({i \in Places(old, new) : ItemAt(old, i) # ItemAt(new, i)}))

-----------------------------------------------------------------------------
(* analyze_category_labels *)

MapChanges(old, new) ==
  CASE old # NotThere /\ new # NotThere ->
         CommentChanges(old.comments, new.comments)
           \o (IF old.type # new.type \/ KeysOf(old) # KeysOf(new) THEN <<"code-changed">> ELSE <<>>)
    [] old # NotThere /\ new = NotThere -> <<"code-changed">>
    [] OTHER -> <<>>

EnglishEntries(map) == FlattenSeq([i \in DOMAIN Listed(map) |-> EnglishTerms(Listed(map)[i].text)])

CategoryChanges(old, new) ==
  MapChanges(old.map, new.map)
    \o (IF new.map = NotThere /\ UsesCategories(new.pieces) THEN <<"code-changed">> ELSE <<>>)
    \o (IF new.map # NotThere THEN EnglishEntries(new.map) ELSE <<>>)

-----------------------------------------------------------------------------
(* collapse_skeleton *)

\* Without the blanks next to these marks.
Tight(s, marks) ==
  Without(s, {i \in DOMAIN s : s[i] = " " /\ \E j \in {i - 1, i + 1} \cap DOMAIN s : s[j] \in marks})

\* Without a comma before } or ], nor the blanks between them.
NoTrailing(s) ==
  LET Trails(c, e) == s[c] = "," /\ s[e] \in {"}", "]"} /\ \A b \in (c + 1)..(e - 1) : s[b] = " "
  IN Without(s, {i \in DOMAIN s : \E c, e \in DOMAIN s : i \in c..(e - 1) /\ Trails(c, e)})

\* Where s has the blank {" "} of JSX.
JsxBlanks(s) ==
  {i \in DOMAIN s : \E k \in 1..(Len(s) - 4) :
     i \in k..(k + 4) /\ SubSeq(s, k, k + 4) = <<"{", Quote, " ", Quote, "}">>}

Joined(lines) == Normal(FlattenSeq([i \in DOMAIN lines |-> Append(lines[i], " ")]))
Tightened(lines) == Tight(Joined(lines), {"<", ">", "{", "}", "."})
Collapsed(lines) == NoTrailing(Without(Tightened(lines), JsxBlanks(Tightened(lines))))

-----------------------------------------------------------------------------
(* skeleton_tokens: a token is a sequence of units without blanks *)

\* With a blank on both sides of these marks.
Spread(s, marks) == Normal(FlattenSeq([i \in DOMAIN s |-> IF s[i] \in marks THEN <<" ", s[i], " ">> ELSE <<s[i]>>]))

NoLast(s, unit) == IF s # <<>> /\ Last(s) = unit THEN Front(s) ELSE s

\* Cut at the blanks.
WordsIn(s) ==
  LET cut[n \in 0..Len(s)] ==
        IF n = 0 THEN <<>>
        ELSE IF s[n] = " " THEN cut[n - 1]
        ELSE IF cut[n - 1] # <<>> /\ s[n - 1] # " "
          THEN Append(Front(cut[n - 1]), Append(Last(cut[n - 1]), s[n]))
        ELSE Append(cut[n - 1], <<s[n]>>)
  IN cut[Len(s)]

\* The blank {" "} of JSX, which is to go here too, has its braces spread by now.
LineTokens(line) ==
  LET spread == Tight(Spread(line, {"<", ">", "{", "}", "(", ")"}), {"."})
      words == WordsIn(NoLast(NoTrailing(spread), ","))
  IN [i \in DOMAIN words |-> IF Len(words[i]) > 1 THEN NoLast(words[i], ",") ELSE words[i]]

\* A token that goes on with the one before it: .x, ? alone, or ?. and more.
Joins(token) ==
  \/ token[1] = "." /\ Len(token) > 1 /\ token[2] # "."
  \/ token[1] = "?" /\ (Len(token) > 1 => token[2] = ".")

Rejoined(tokens) ==
  LET joined[n \in 0..Len(tokens)] ==
        IF n = 0 THEN <<>>
        ELSE IF Joins(tokens[n]) /\ joined[n - 1] # <<>>
          THEN Append(Front(joined[n - 1]), Last(joined[n - 1]) \o tokens[n])
        ELSE Append(joined[n - 1], tokens[n])
  IN joined[Len(tokens)]

SkeletonTokens(lines) == Rejoined(FlattenSeq([i \in DOMAIN lines |-> LineTokens(lines[i])]))

-----------------------------------------------------------------------------
(* drop_jsx_wrap_parens *)

\* The parenthesis that closes the one at p, if any.
Closing(tokens, p) ==
  LET Depth(c) == Quantify(p..c, LAMBDA i : tokens[i] = <<"(">>) - Quantify(p..c, LAMBDA i : tokens[i] = <<")">>)
  IN {c \in p..Len(tokens) : Depth(c) = 0 /\ \A d \in p..(c - 1) : Depth(d) > 0}

WrapsJsx(tokens, p, c) ==
  c \in Closing(tokens, p) /\ \E i \in p..c : tokens[i] = <<"<">>

\* A token after which a parenthesis may wrap JSX.
Precedes(token) ==
  IF Len(token) = 1 THEN token[1] \in Preceders ELSE Last(token) \in {"?", "??"}

Wrapping(tokens) ==
  LET Opens(p) == tokens[p] = <<"(">> /\ p > 1 /\ Precedes(tokens[p - 1])
  IN {i \in DOMAIN tokens : \E p, c \in DOMAIN tokens :
        i \in {p, c} /\ Opens(p) /\ WrapsJsx(tokens, p, c)}

Unwrap(tokens) ==
  LET wraps == Wrapping(tokens)
  IN FlattenSeq([i \in DOMAIN tokens |-> IF i \in wraps THEN <<>> ELSE <<tokens[i]>>])
\* Pass after pass, until one drops nothing; as many as there are tokens will do.
Unwrapped(tokens) ==
  LET pass[n \in 0..Len(tokens)] == IF n = 0 THEN tokens ELSE Unwrap(pass[n - 1])
  IN pass[Len(tokens)]

-----------------------------------------------------------------------------
(* align_token_hunks *)

CommonPrefix(s, t) == Len(LongestCommonPrefix({s, t}))

\* Bug: the common end may reach into the common beginning.
OverlappingSuffix(s, t) == CommonPrefix(Reverse(s), Reverse(t))
\* The common end of what follows the common beginning.
CommonSuffix(s, t) ==
  LET n == CommonPrefix(s, t)
      Rest(u) == SubSeq(u, n + 1, Len(u))
  IN CommonPrefix(Reverse(Rest(s)), Reverse(Rest(t)))

Middle(s, t) == SubSeq(s, CommonPrefix(s, t) + 1, Len(s) - CommonSuffix(s, t))

Grid(s, t) == (0..Len(s)) \X (0..Len(t))

\* The table: how long a common subsequence of the first tokens may be.
Common(s, t) ==
  LET common[p \in Grid(s, t)] ==
        IF p[1] = 0 \/ p[2] = 0 THEN 0
        ELSE IF s[p[1]] = t[p[2]] THEN common[<<p[1] - 1, p[2] - 1>>] + 1
        ELSE Max({common[<<p[1] - 1, p[2]>>], common[<<p[1], p[2] - 1>>]})
  IN common

\* More tokens that differ: for the hunk that is open, or for a new one.
Differ(walk, old, new) ==
  LET before == IF walk.open THEN Front(walk.hunks) ELSE walk.hunks
      hunk == IF walk.open THEN Last(walk.hunks) ELSE [old |-> <<>>, new |-> <<>>]
  IN [hunks |-> Append(before, [old |-> hunk.old \o old, new |-> hunk.new \o new]), open |-> TRUE]

\* The way back through the table: a token of both closes the hunk; of two ways
\* that keep as much, the one that drops a token of s.
Walk(s, t) ==
  LET common == Common(s, t)
      walk[p \in Grid(s, t)] ==
        IF p[1] = 0 /\ p[2] = 0 THEN [hunks |-> <<>>, open |-> FALSE]
        ELSE IF p[1] > 0 /\ p[2] > 0 /\ s[p[1]] = t[p[2]]
          THEN [hunks |-> walk[<<p[1] - 1, p[2] - 1>>].hunks, open |-> FALSE]
        ELSE IF p[1] > 0 /\ (p[2] = 0 \/ common[<<p[1] - 1, p[2]>>] >= common[<<p[1], p[2] - 1>>])
          THEN Differ(walk[<<p[1] - 1, p[2]>>], <<s[p[1]]>>, <<>>)
        ELSE Differ(walk[<<p[1], p[2] - 1>>], <<>>, <<t[p[2]]>>)
  IN walk

Hunks(old, new) ==
  LET s == Middle(old, new)
      t == Middle(new, old)
  IN Walk(s, t)[<<Len(s), Len(t)>>].hunks

TooLarge(old, new) == Len(Middle(old, new)) * Len(Middle(new, old)) > MaxCells

\* legacy_hunks: line by line, without unwrapping.
LineHunks(old, new) ==
  LET differ == {i \in Places(old, new) : ItemAt(old, i) # ItemAt(new, i)}
  IN [k \in 1..Cardinality(differ) |->
        LET i == SetToSortSeq(differ, <)[k] IN [old |-> ItemAt(old, i), new |-> ItemAt(new, i)]]

Tokens(skeleton) == Unwrapped(SkeletonTokens(skeleton))

CodeHunks(old, new) ==
  IF TooLarge(Tokens(old), Tokens(new)) THEN LineHunks(old, new) ELSE Hunks(Tokens(old), Tokens(new))

\* Skeletons that collapse to the same are not compared by their tokens.
CodeChanges(old, new) ==
  IF Collapsed(old) = Collapsed(new) THEN <<>> ELSE Repeated("code-changed", Len(CodeHunks(old, new)))

-----------------------------------------------------------------------------
(* pair_labels, and the comparison of the pairs *)

\* Where a label stands: only labels of one slot are compared.
Slot(label) ==
  CASE label.kind = "text" -> <<"tag", label.tag>>
    [] label.kind = "string" /\ label.attribute # NotThere -> <<"attr", label.attribute>>
    [] label.kind = "string" /\ label.attribute = NotThere ->
         IF label.context[1] \in {"key", "call", "route"} THEN label.context ELSE <<"string">>

\* Bug: an old label may be paired more than once.
FreshAlways(old, used, slot) == {i \in DOMAIN old : Slot(old[i]) = slot}
Fresh(old, used, slot) == {i \in DOMAIN old \ used : Slot(old[i]) = slot}

\* Each new label in turn takes the first old one of its slot that is left.
PairOne(old, acc, label) ==
  LET free == Fresh(old, acc.used, Slot(label))
  IN IF free = {} THEN [acc EXCEPT !.unpaired = Append(@, label)]
     ELSE [acc EXCEPT !.pairs = Append(@, <<old[Min(free)], label>>),
                      !.used = @ \cup {Min(free)}]

PairLabels(old, new) ==
  LET paired[n \in 0..Len(new)] ==
        IF n = 0 THEN [pairs |-> <<>>, unpaired |-> <<>>, used |-> {}]
        ELSE PairOne(old, paired[n - 1], new[n])
  IN paired[Len(new)]

Retold(pairs) == Without(pairs, {i \in DOMAIN pairs : pairs[i][1].text = pairs[i][2].text})
SameItems(s, t) == ToBag(s) = ToBag(t)

\* How many of the pairs differ in the items of their texts.
ItemChanges(items, pairs) ==
  Cardinality({i \in DOMAIN pairs : ~SameItems(items[pairs[i][1].text], items[pairs[i][2].text])})

PlaceholderChanges(pairs) == Repeated("placeholder-changed", ItemChanges(Holders, Retold(pairs)))
UrlChanges(pairs) == Repeated("url-changed", ItemChanges(Urls, Retold(pairs)))

\* is_translatable_label: the properties of components are not asked about.
Translatable(label) ==
  /\ Worded(label.text)
  /\ label.kind = "string" =>
       /\ label.attribute \in LabelAttributes \cup {NotThere}
       /\ label.context[1] \notin {"console", "from", "require"} /\ label.context # <<"key", "className">>

\* The i-th of the labels is asked about, unless one of its text and line was.
AskedAbout(labels, i) ==
  LET Same(j) == labels[j].line = labels[i].line /\ labels[j].text = labels[i].text
  IN Translatable(labels[i]) /\ \A j \in 1..(i - 1) : Translatable(labels[j]) => ~Same(j)

\* New and changed labels that are English, once for a text on a line.
EnglishLabels(labels) ==
  LET retold == Retold(labels.pairs)
      candidates == labels.unpaired \o [i \in DOMAIN retold |-> retold[i][2]]
  IN FlattenSeq([i \in DOMAIN candidates |->
       IF AskedAbout(candidates, i) THEN EnglishTerms(candidates[i].text) ELSE <<>>])

-----------------------------------------------------------------------------
\* At most max findings; the first one in excess becomes a marker.
Capped(findings, max) ==
  IF Len(findings) <= max THEN findings
  ELSE Append(SubSeq(findings, 1, max), "findings-truncated")

AnalyzePair(old, new, max) ==
  LET labels == PairLabels(Labels(old.pieces), Labels(new.pieces))
  IN IF old = new THEN <<>>
     ELSE Capped(CategoryChanges(old, new)
                   \o CommentChanges(old.comments, new.comments)
                   \o CodeChanges(Skeleton(old.pieces), Skeleton(new.pieces))
                   \o PlaceholderChanges(labels.pairs)
                   \o UrlChanges(labels.pairs)
                   \o EnglishLabels(labels), max)
=============================================================================
