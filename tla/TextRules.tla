-------------------------- MODULE TextRules --------------------------
(***************************************************************************)
(* The pure rules of the tools about texts, asked about one input after    *)
(* another: the comparison of two revisions of a source file (AuditPair),  *)
(* the check of a reviewer's report (ReviewReport), and the reading,       *)
(* writing and linting of patch files and of the series (PatchFiles).      *)
(* Every property compares what the code computes with what it is to mean, *)
(* defined here without its algorithms.                                    *)
(***************************************************************************)
EXTENDS AuditPair, ReviewReport, PatchFiles

CONSTANTS
  Families,     \* sets of revisions of a source file: [pieces, comments, map]
  Caps,         \* values of max_findings
  Reports,      \* reports, all fields filled in
  Scores,       \* values of --score
  Targets,      \* what a report may be on
  Patches,      \* patch files
  Diffs,        \* diffs of the workspace
  Descriptions, \* values of --description, as lines
  SeriesTexts,  \* texts of the series
  PatchNames,   \* paths of new patches
  FileNames     \* paths of the patch files there may be

ASSUME TextRulesAssumption ==
  /\ \A t \in Targets : t = [kind |-> t.kind, id |-> t.id]
  /\ Patches \cup Diffs \cup Descriptions \subseteq Seq(PatchLines)
  /\ \A d \in Diffs : \E l \in ToSet(d) : l.is = "diff"
  /\ SeriesTexts \subseteq Seq([path : DOMAIN Number \cup {NotThere}, comment : BOOLEAN])
  /\ PatchNames \subseteq DOMAIN Number
  /\ {"subject", "url", " "} \subseteq STRING
  /\ \A r \in UNION Families :
       /\ r.pieces \in Seq(ToSet(r.pieces))
       /\ \A p \in ToSet(r.pieces) : p.line \in Nat \ {0} /\ Token(p) \in Seq(STRING)
       /\ r.comments \in Seq(ToSet(r.comments))
       /\ r.map # NotThere => /\ r.map.comments \in Seq(ToSet(r.map.comments))
                             /\ r.map.entries \in Seq(ToSet(r.map.entries))
  /\ Caps \subseteq Nat

VARIABLE asked  \* the question: what is compared

NoQuestion == [of |-> "nothing"]

Ask(question) == asked' = question

ComparePair ==
  \E family \in Families : \E old, new \in family, max \in Caps :
    Ask([of |-> "source", old |-> old, new |-> new, max |-> max])
CheckReport == \E r \in Reports, s \in Scores : Ask([of |-> "report", report |-> r, score |-> s])

ReadPatch == \E p \in Patches, d \in Diffs : Ask([of |-> "patch", lines |-> p, diff |-> d])
WritePatch ==
  \E subject \in {"", "subject"}, text \in Descriptions, bug \in {NotThere, "url"}, d \in Diffs :
    Ask([of |-> "new", subject |-> subject, description |-> text, bug |-> bug, diff |-> d])
RegisterPatch ==
  \E text \in SeriesTexts, files \in SUBSET FileNames, entry \in PatchNames :
    Number[entry] # NotThere /\ Ask([of |-> "series", lines |-> text, files |-> files, entry |-> entry])

Init == asked = NoQuestion
Answered == asked # NoQuestion /\ asked' = NoQuestion

Next ==
  \/ /\ asked = NoQuestion
     /\ ComparePair \/ CheckReport \/ ReadPatch \/ WritePatch \/ RegisterPatch
  \/ Answered
Spec == Init /\ [][Next]_asked

-----------------------------------------------------------------------------
(* Properties: source files *)

\* The tokens outside the hunks, at I in one revision and at J in the other, are a
\* common subsequence, and no other is longer.
Explains(hunks, old, new) ==
  LET Same(I, J) == Without(old, I) = Without(new, J)
  IN \E I \in SUBSET DOMAIN old, J \in SUBSET DOMAIN new :
       /\ Without(old, I) = FlattenSeq([h \in DOMAIN hunks |-> hunks[h].old])
       /\ Without(new, J) = FlattenSeq([h \in DOMAIN hunks |-> hunks[h].new])
       /\ Same(DOMAIN old \ I, DOMAIN new \ J)
       /\ \A K \in SUBSET DOMAIN old, L \in SUBSET DOMAIN new :
            Same(K, L) => Len(Without(old, K)) <= Len(Without(old, DOMAIN old \ I))

\* The hunks of the token alignment are what two revisions differ by: the tokens
\* outside them are a longest common subsequence of the two, in order, and there
\* is no hunk exactly when nothing differs.
HunksExplain ==
  asked.of = "source" =>
    LET old == Tokens(Skeleton(asked.old.pieces))
        new == Tokens(Skeleton(asked.new.pieces))
        hunks == Hunks(old, new)
    IN (hunks = <<>> <=> old = new) /\ Explains(hunks, old, new)

\* Which of the labels of its slot the i-th is.
Rank(labels, i) == Cardinality({j \in 1..i : Slot(labels[j]) = Slot(labels[i])})

\* The k-th label of each slot, in both revisions.
Counterparts(old, new) ==
  {p \in (DOMAIN old) \X (DOMAIN new) :
     Slot(old[p[1]]) = Slot(new[p[2]]) /\ Rank(old, p[1]) = Rank(new, p[2])}

\* What is left of s without the units in P.
Drop(s, P) == Without(s, {i \in DOMAIN s : s[i] \in P})
Light == {" ", ","}
Parens == {"(", ")"}

\* Strings that are no label, whatever they say: of an import, an identifier, a
\* class; without blanks, commas and parentheses.
CodeStrings(pieces) ==
  LET IsCode(p) == /\ p.kind = "string"
                   /\ IF p.attribute = NotThere THEN p.context \in CodeContexts
                      ELSE /\ p.attribute \notin LabelAttributes \cup {"defaultvalue"}
                           /\ <<p.tag, p.attribute>> \notin LabelProps
      strings == SelectSeq(pieces, IsCode)
      Says(s) == IF Is(s.text, "long") THEN <<s.text>> ELSE Drop(Spelling[s.text], Light \cup Parens)
  IN SelectSeq([i \in DOMAIN strings |-> Says(strings[i])], LAMBDA said : said # <<>>)

\* The map of the categories keeps its comments, its type and its keys, and what
\* it shows is not English.
MapKept(old, new) ==
  /\ old.map # NotThere => new.map # NotThere
  /\ old.map # NotThere /\ new.map # NotThere =>
       /\ old.map.comments = new.map.comments
       /\ old.map.type = new.map.type
       /\ KeysOf(old.map) = KeysOf(new.map)
  /\ new.map = NotThere => ~UsesCategories(new.pieces)
  /\ new.map # NotThere => \A e \in ToSet(Listed(new.map)) : EnglishTerms(e.text) = <<>>

Foreign(label) == Translatable(label) /\ EnglishTerms(label.text) # <<>>
Keeps(a, b) ==
  a.text = b.text \/ ( /\ SameItems(Holders[a.text], Holders[b.text])
                       /\ SameItems(Urls[a.text], Urls[b.text])
                       /\ ~Foreign(b) )

\* Each label keeps the placeholders and URLs of the one it replaces, and what a
\* new label says is not English.
LabelsKept(before, after) ==
  LET pairs == Counterparts(before, after)
  IN /\ \A p \in pairs : Keeps(before[p[1]], after[p[2]])
     /\ \A j \in DOMAIN after : Foreign(after[j]) => \E p \in pairs : p[2] = j

Translated(old, new) ==
  /\ old.comments = new.comments
  /\ MapKept(old, new)
  /\ LabelsKept(Labels(old.pieces), Labels(new.pieces))

CodeOf(revision) == Joined(Skeleton(revision.pieces))

\* Code without blanks, commas and the {" "} of JSX.
Bare(revision) ==
  LET code == Tightened(Skeleton(revision.pieces))
  IN Drop(Without(code, JsxBlanks(code)), Light)

\* The code of two revisions differs at most by blanks and commas, wherever they
\* stand, and besides by {" "} or, if there is JSX, by parentheses.
SameCode(old, new) ==
  \/ Bare(old) = Bare(new)
  \/ Drop(CodeOf(old), Light) = Drop(CodeOf(new), Light)
  \/ /\ Drop(CodeOf(old), Light \cup Parens) = Drop(CodeOf(new), Light \cup Parens)
     /\ "<" \in ToSet(CodeOf(old) \o CodeOf(new))

\* The audit of a source file is silent only about translations, however low
\* max_findings is: comments and the keys of the map of categories are the same,
\* code differs at most by blanks, commas, {" "} and, if it has JSX, parentheses,
\* each label keeps the placeholders and URLs of the one it replaces, and what a
\* new label says is not English; and it is silent about every change of that
\* kind that leaves the code as it is but for its lines.
OnlyTranslations ==
  asked.of = "source" /\ asked.old # asked.new =>
    LET old == asked.old
        new == asked.new
        findings == AnalyzePair(old, new, asked.max)
    IN /\ findings = <<>> => /\ Translated(old, new)
                             /\ SameCode(old, new)
       /\ Translated(old, new) /\ CodeOf(old) = CodeOf(new) => findings = <<>>
       /\ Len(findings) <= asked.max + 1

\* Nor is it silent about what a string that is no label says, wherever that
\* stands, except for blanks, commas and parentheses: the comparison of the code
\* does not know where a string begins.
CodeStringsKept ==
  asked.of = "source" /\ AnalyzePair(asked.old, asked.new, asked.max) = <<>> =>
    CodeStrings(asked.old.pieces) = CodeStrings(asked.new.pieces)

-----------------------------------------------------------------------------
(* Properties: reports *)

\* A report the store accepts passes exactly when it leaves nothing to fix, and
\* one that does not pass has something for the fixer; a finding costs a point
\* and a blocking one three; the command line, which checks first, refuses none
\* of them; and none is accepted for another unit or category of its kind or in
\* another round, so that the report of a retry cannot decide the round after.
VerdictEarned ==
  asked.of = "report" =>
    LET r == asked.report
        Accepts(target, round) == ValidateReviewReport(r, asked.score, target, round)
    IN \A t \in Targets, round \in 1..3 : Accepts(t, round) =>
         /\ CheckReviewReport(r, asked.score)
         /\ Passed(asked.score) <=>
              /\ r.findings = <<>>
              /\ \A c \in Criteria : r.criteria[c] = 2
         /\ Passed(asked.score) => r.untranslated = "empty" /\ r.glossary_violations = "empty"
         /\ Blocks(r.findings) => asked.score <= PassScore - 3
         /\ \A u \in Targets, other \in 1..3 :
              Accepts(u, other) => other = round /\ (u.kind = t.kind => u = t)

-----------------------------------------------------------------------------
(* Properties: patch files and the series *)

\* The two readings of a patch file agree: `jx lint' has nothing against it but
\* its paths exactly when it parses.  What `jx new' writes passes when it has a
\* subject, its description is plain text and the paths of the diff are allowed.
\* And `jx refresh' of a file with a terminator leaves the header as it was,
\* whatever the new diff holds, so that lint finds in the result what it found
\* in the header, and the paths of the new diff.
PatchFilesHold ==
  LET Complaints(lines) == {f \in LintPatch(lines) : f[1] # "forbidden"}
      OnPaths(diff) == {<<"forbidden", p>> : p \in Forbidden \cap Touched(<<Mark("end")>> \o diff)}
      Plain(text) == /\ \A l \in ToSet(text) : l.is \in {"text", "blank"}
                     /\ \E l \in ToSet(text) : l.is = "text"
  IN /\ asked.of = "patch" =>
          /\ Parses(asked.lines) <=> Complaints(asked.lines) = {}
          /\ Terminated(asked.lines) =>
               LET after == Refreshed(asked.lines, asked.diff)
               IN /\ Header(after) = Header(asked.lines)
                  /\ LintPatch(after) = (Complaints(asked.lines) \ {<<"no-diff">>}) \cup OnPaths(asked.diff)
     /\ asked.of = "new" =>
          LET written == NewPatch(asked.subject, asked.description, asked.bug, asked.diff)
          IN asked.subject # "" /\ Plain(asked.description) => LintPatch(written) = OnPaths(asked.diff)

\* A new entry goes into the series without any other line moving, comments
\* included, however its entries are numbered; a series that lints still does
\* with a new patch of a number no entry has, the next one is its last entry; and
\* the image build applies what lint accepts, entry by entry, unless the name of
\* a directory has a blank, at which the shell splits an entry that lints.
SeriesKept ==
  asked.of = "series" =>
    LET lints == LintSeries(asked.lines, asked.files) = {}
        after == InsertIntoText(asked.lines, asked.entry)
        files == asked.files \cup {asked.entry}
        Taken == {Number[p] : p \in ToSet(ParseSeries(asked.lines))}
    IN /\ \E k \in DOMAIN after : after[k].path = asked.entry /\ RemoveAt(after, k) = asked.lines
       /\ lints /\ asked.entry \in ProperNames /\ Number[asked.entry] \notin Taken =>
            /\ LintSeries(after, files) = {}
            /\ Number[asked.entry] = NextAfter(asked.files) => Last(ParseSeries(after)) = asked.entry
       /\ lints /\ ToSet(ParseSeries(asked.lines)) \subseteq PlainDirs =>
            ShellEntries(asked.lines) = ParseSeries(asked.lines)
=============================================================================
