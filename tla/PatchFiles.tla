----------------------------- MODULE PatchFiles -----------------------------
(***************************************************************************)
(* The text of patch files and of the series: how they are read (dep3.rs,  *)
(* series.rs, paths.rs), written (dump.rs) and linted (lint.rs), and how   *)
(* the image build reads the series (docker/apply-series.sh).              *)
(*                                                                         *)
(* A patch file is a sequence of lines [is, name, value]: a field with its *)
(* name and value, which is "" when there is nothing after the colon; an   *)
(* "end" (---); a "diff" (diff --git) with its two paths; "text", "blank". *)
(* A line of the series has a path or none, whatever comment it carries.   *)
(***************************************************************************)
EXTENDS Wording, Integers, SequencesExt

CONSTANTS
  Vocabulary,   \* the values each field with a vocabulary may have
  Forbidden,    \* paths no patch may touch
  Number,       \* the number in each path, NotThere if there is none
  ProperNames,  \* paths whose name is NNNN-kebab-case.patch
  PlainDirs,    \* paths of directories whose names are words of a shell
  Words,        \* the words a shell makes of each path
  MaxNumber     \* PatchNumber::MAX (9999)

\* A proper name has lower-case letters, digits, hyphens and a dot.  The fields with a
\* vocabulary are required, and it has the values that `jx new' writes.
ASSUME PatchFilesAssumption ==
  /\ MaxNumber \in Nat
  /\ NotThere \notin DOMAIN Number /\ NotThere \notin Nat /\ NotThere \notin STRING
  /\ \A p \in DOMAIN Number : Number[p] # NotThere => Number[p] \in Nat
  /\ \A p \in ProperNames \cap PlainDirs : Words[p] = <<p>>
  /\ DOMAIN Vocabulary = {"Origin", "Forwarded", "Applied-Upstream", "Last-Update"}
  /\ \A n \in DOMAIN Vocabulary : NotThere \notin Vocabulary[n]
  /\ "vendor" \in Vocabulary["Origin"] /\ "not-needed" \in Vocabulary["Forwarded"]
  /\ "no" \in Vocabulary["Applied-Upstream"] /\ "now" \in Vocabulary["Last-Update"]

\* The texts that are in every header `jx new' writes.
ASSUME WrittenAssumption ==
  {"", "From", "author", "Date", "now", "Subject", "Description", "Origin", "vendor", "Forwarded",
   "not-needed", "Bug-Next-Panel", "Applied-Upstream", "no", "Last-Update", "Signed-off-by"} \subseteq STRING

PatchLines == [is : {"field", "end", "diff", "text", "blank"}, name : STRING, value : STRING]

Field(name, value) == [is |-> "field", name |-> name, value |-> value]
Mark(kind) == [is |-> kind, name |-> "", value |-> ""]
Find(S, otherwise) == IF S = {} THEN otherwise ELSE Min(S)

-----------------------------------------------------------------------------
(* Reading a patch file *)

Cut(lines) == Find({i \in DOMAIN lines : lines[i].is \in {"end", "diff"}}, 0)
Terminated(lines) == Cut(lines) > 0 /\ lines[Cut(lines)].is = "end"
Header(lines) == IF Cut(lines) = 0 THEN lines ELSE SubSeq(lines, 1, Cut(lines) - 1)
Body(lines) ==
  CASE Cut(lines) = 0 -> <<>>
    [] Terminated(lines) -> SubSeq(lines, Cut(lines) + 1, Len(lines))
    [] Cut(lines) > 0 /\ ~Terminated(lines) -> SubSeq(lines, Cut(lines), Len(lines))
HasDiff(lines) == \E l \in ToSet(Body(lines)) : l.is = "diff"

Given(header, name) == {i \in DOMAIN header : header[i].is = "field" /\ header[i].name = name}
\* The first one counts.
HeaderValue(header, name) ==
  IF Given(header, name) = {} THEN NotThere ELSE header[Min(Given(header, name))].value

\* A field with nothing after its colon does not end a description.
IsFieldLine(line) == line.is = "field" /\ line.value # ""

\* collect_description: whether there is any.
Described(header) ==
  LET starts == Given(header, "Description")
      From(i) == Find({j \in (i + 1)..Len(header) : IsFieldLine(header[j]) /\ j \notin starts}, Len(header) + 1)
      Says(l) == IF l.is = "field" /\ l.name = "Description" THEN l.value # "" ELSE l.is # "blank"
  IN starts # {} /\ \E i \in Min(starts)..(From(Min(starts)) - 1) : Says(header[i])

Understood(header, name) == HeaderValue(header, name) \in Vocabulary[name]
Required == {"From", "Date", "Subject", "Description", "Origin", "Forwarded", "Applied-Upstream", "Last-Update"}
Signed(header) == \E n \in {"Signed-off-by", "Reviewed-by"} : HeaderValue(header, n) # NotThere
Titled(header) == Cardinality(Given(header, "Subject")) = 1 /\ HeaderValue(header, "Subject") # ""

\* parse_patch succeeds.
Parses(lines) ==
  LET header == Header(lines)
  IN /\ Terminated(lines) /\ HasDiff(lines)
     /\ Titled(header) /\ Described(header) /\ Signed(header)
     /\ \A n \in DOMAIN Vocabulary : Understood(header, n)
     /\ \A n \in {"From", "Date"} : HeaderValue(header, n) # NotThere

Touched(lines) == UNION {{l.name, l.value} : l \in {k \in ToSet(Body(lines)) : k.is = "diff"}}

\* What lint_patch_content has against a file, all of it.
LintPatch(lines) ==
  LET header == Header(lines)
      Fails(what, when) == IF when THEN {<<what>>} ELSE {}
  IN Fails("no-terminator", ~Terminated(lines))
       \cup Fails("no-diff", ~HasDiff(lines))
       \cup {<<"missing", n>> : n \in {m \in Required : HeaderValue(header, m) = NotThere}}
       \cup Fails("unsigned", ~Signed(header))
       \cup Fails("several-subjects", Cardinality(Given(header, "Subject")) > 1)
       \cup Fails("empty-subject", Cardinality(Given(header, "Subject")) = 1 /\ ~Titled(header))
       \cup Fails("empty-description", ~Described(header))
       \cup {<<"invalid", n>> : n \in {m \in DOMAIN Vocabulary :
               HeaderValue(header, m) # NotThere /\ ~Understood(header, m)}}
       \cup {<<"forbidden", p>> : p \in Touched(lines) \cap Forbidden}

-----------------------------------------------------------------------------
(* Writing a patch file *)

\* render_new_header, and the diff after the terminator.
NewPatch(subject, description, bug, diff) ==
  <<Field("From", "author"), Field("Date", "now"), Field("Subject", subject), Mark("blank"),
    Field("Description", "")>>
  \o description
  \o <<Mark("blank"), Field("Origin", "vendor"), Field("Forwarded", "not-needed")>>
  \o (IF bug = NotThere THEN <<>> ELSE <<Field("Bug-Next-Panel", bug)>>)
  \o <<Field("Applied-Upstream", "no"), Field("Last-Update", "now"), Field("Signed-off-by", "author"),
       Mark("blank"), Mark("end"), Mark("blank")>>
  \o diff

FirstEnd(lines) == Find({i \in DOMAIN lines : lines[i].is = "end"}, 0)
\* Bug: the terminator is left behind.
KeptLinesBare(lines) == SubSeq(lines, 1, FirstEnd(lines) - 1)
\* Up to the first terminator, wherever it is.
KeptLines(lines) == SubSeq(lines, 1, FirstEnd(lines))

\* dump_refresh; without a terminator it refuses.
Refreshed(lines, diff) == KeptLines(lines) \o <<Mark("blank")>> \o diff

-----------------------------------------------------------------------------
(* The series *)

EntryOn(line) == IF line.path = NotThere THEN <<>> ELSE <<line.path>>
ParseSeries(lines) == FlattenSeq([i \in DOMAIN lines |-> EntryOn(lines[i])])
ShellEntries(lines) ==
  LET entries == ParseSeries(lines) IN FlattenSeq([i \in DOMAIN entries |-> Words[entries[i]]])

\* insert_into_text: before the first entry whose number is not smaller.
Larger(lines, entry) ==
  {i \in DOMAIN lines : /\ lines[i].path # NotThere
                        /\ Number[lines[i].path] # NotThere
                        /\ Number[lines[i].path] >= Number[entry]}
EntryLine(entry) == [path |-> entry, comment |-> FALSE]
\* Bug: before each of them.
InsertEverywhere(lines, entry) ==
  FlattenSeq([i \in DOMAIN lines |->
    IF i \in Larger(lines, entry) THEN <<EntryLine(entry), lines[i]>> ELSE <<lines[i]>>])
  \o (IF Larger(lines, entry) = {} THEN <<EntryLine(entry)>> ELSE <<>>)
InsertIntoText(lines, entry) ==
  InsertAt(lines, Find(Larger(lines, entry), Len(lines) + 1), EntryLine(entry))

\* next_after the numbers of the files; NotThere when the sequence is full.
NextAfter(files) ==
  LET next == Max({Number[f] : f \in {g \in files : Number[g] # NotThere}} \cup {0}) + 1
  IN IF next > MaxNumber THEN NotThere ELSE next

\* What run_lint has against the series and the names of the patch files.  An
\* entry without a file or listed before is not looked at any further.
LintSeries(lines, files) ==
  LET entries == ParseSeries(lines)
      First(i) == entries[i] \in files /\ \A j \in 1..(i - 1) : entries[j] # entries[i]
      Numbered(i) == First(i) /\ Number[entries[i]] # NotThere
      Before(i) == {j \in 1..(i - 1) : Numbered(j)}
      places == DOMAIN entries
      Each(what, S) == {<<what, entries[i]>> : i \in S}
  IN Each("no-file", {i \in places : entries[i] \notin files})
       \cup Each("duplicate", {i \in places : entries[i] \in files /\ ~First(i)})
       \cup Each("name", {i \in places : First(i) /\ (entries[i] \notin ProperNames \/ ~Numbered(i))})
       \cup Each("order", {i \in places : /\ Numbered(i) /\ Before(i) # {}
                                          /\ Number[entries[i]] <= Number[entries[Max(Before(i))]]})
       \cup {<<"not-listed", f>> : f \in files \ ToSet(entries)}
       \cup (IF entries = <<>> THEN {<<"empty">>} ELSE {})
=============================================================================
