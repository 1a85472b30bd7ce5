----------------------------- MODULE I18nAudit -----------------------------
(***************************************************************************)
(* The static audit of a translation (orchestrate.rs, `jx i18n-audit'): of *)
(* everything that changed in the workspace since a base revision, which   *)
(* files it analyses for a unit or a category, which it reports as out of  *)
(* scope and which it leaves to other units.                               *)
(*                                                                         *)
(* The analysis of one file is abstracted to what it may accept: a text is *)
(* "flawed" when it is not a translation of the upstream text (code or     *)
(* comments changed, labels in English, keys missing).  The workspace is   *)
(* edited and committed while the catalogue and its lock move on.          *)
(***************************************************************************)
EXTENDS I18nCatalog

CONSTANTS
  English,      \* resources/lang/en/**.php
  Counterpart,  \* resources/lang/pt-BR/**.php, of each English file
  Tests,        \* code under tests/
  SourceNames,  \* names with an extension of source code (is_source_file)
  Upstream,     \* the files of the upstream revision the work starts from
  Allowlist,    \* <<code, path>>: findings that are subtracted
  GlossaryRead, \* i18n/glossary.tsv is there
  MaxEdits,     \* bound: edits of the workspace
  MaxCommits    \* bound: commits in the workspace

ASSUME AuditAssumption ==
  /\ English \subseteq Listed
  /\ Counterpart \in [English -> Paths]
  /\ Tests \cup English \subseteq SourceNames
  /\ Upstream \subseteq Paths
  /\ GlossaryRead \in BOOLEAN
  /\ MaxEdits \in Nat /\ MaxCommits \in Nat

VARIABLES
  base,     \* the tree of the revision given with --base
  head,     \* the tree of HEAD, which is also what the index lists
  overlay,  \* overlays/resources/lang/pt-BR/**.php, of each English file
  edits,
  commits

vars == <<manifest, pin, lock, worktree, base, head, overlay, edits, commits>>

Counterparts == {Counterpart[e] : e \in English}

-----------------------------------------------------------------------------
(* git *)

UntrackedFiles == Present(worktree) \ Present(head)
\* `git status' names a directory once when nothing in it is tracked.
UntrackedNames ==
  {IF \E q \in Present(head) : DirOf[q] = DirOf[p] THEN p ELSE DirOf[p] : p \in UntrackedFiles}
Dirty == worktree # head

\* `git diff --name-only rev': the revision against the work tree, for what is
\* in the revision or in the index.
Differing(rev) ==
  {p \in Present(rev) \cup Present(head) :
     rev[p] # IF p \in Present(head) THEN worktree[p] ELSE "absent"}

-----------------------------------------------------------------------------
(* run_with_base, for a set of units of the lock *)

\* Bug: files git does not track yet are not looked at.
TrackedOnly(rev) == Differing(rev)
AllChanged(rev) == Differing(rev) \cup UntrackedNames

UnitFiles(U) == UNION {lock.claims[i].files : i \in {j \in DOMAIN lock.claims : lock.claims[j].id \in U}}
UnitEnglish(U) == UnitFiles(U) \cap English
CounterpartsOf(U) == {Counterpart[e] : e \in UnitEnglish(U)}

Scoped(U, rev) ==
  {n \in AllChanged(rev) :
     \/ n \in UnitFiles(U) \cup CounterpartsOf(U)
     \/ OwnerOf(lock, n) \in U
     \/ n \in Tests}
OutOfScope(U, rev) ==
  {n \in AllChanged(rev) \ Scoped(U, rev) : OwnerOf(lock, n) \in {"excluded", "nobody"}}

\* The changed files that are analysed, the texts compared, and whether the
\* comparison finds something.
Compared(U, rev) == (Scoped(U, rev) \ CounterpartsOf(U)) \cap SourceNames
OldText(rev, p) == IF p \in UntrackedNames THEN "absent" ELSE rev[p]
Flagged(old, new) == old # new /\ ~(old = "upstream" /\ new = "translated")

\* The pt-BR text a present English file is compared with: the overlay if there
\* is one, else the file of the workspace.
Portuguese(e) == IF overlay[e] # "absent" THEN overlay[e] ELSE worktree[Counterpart[e]]
PairedEnglish(U) == {e \in UnitEnglish(U) : worktree[e] # "absent"}

Analyzed(U, rev) ==
  Compared(U, rev) \cup PairedEnglish(U)
    \cup {Counterpart[e] : e \in {f \in PairedEnglish(U) : Portuguese(f) # "absent"}}

Findings(U, rev) ==
  (IF GlossaryRead THEN {} ELSE {<<"glossary-missing", "glossary">>})
  \cup {<<"out-of-scope", n>> : n \in OutOfScope(U, rev)}
  \cup {<<"content", p>> : p \in {q \in Compared(U, rev) : Flagged(OldText(rev, q), worktree[q])}}
  \cup {<<"lang-key-mismatch", e>> : e \in {f \in PairedEnglish(U) : Portuguese(f) # "translated"}}
  \cup (IF UnitFiles(U) \cap Differing(rev) # {} /\ Analyzed(U, rev) = {}
        THEN {<<"audit-incomplete", n>> : n \in UnitFiles(U) \cap Differing(rev)} ELSE {})

Passes(U, rev) == Findings(U, rev) \subseteq Allowlist

\* The units of --unit or --category: the audit refuses those the lock lacks.
UnitsOfCategory(c) == {lock.claims[i].id : i \in {j \in DOMAIN lock.claims : lock.claims[j].category = c}}
LockCategories == {lock.claims[i].category : i \in DOMAIN lock.claims}

\* The revisions it may compare with; a clean workspace has to name one.
Bases == {base} \cup (IF Dirty THEN {head} ELSE {})

-----------------------------------------------------------------------------
(* The workspace *)

\* Texts a path may be given: an English file has no translation of its own and
\* a counterpart is not upstream's.
TextsOf(p) ==
  Texts \ ((IF p \in English THEN {"translated"} ELSE {})
           \cup (IF p \in Counterparts \/ p \notin Upstream THEN {"upstream"} ELSE {}))

Init ==
  /\ manifest \in Manifests
  /\ pin \in Pins
  /\ lock = NoLock
  /\ worktree = [p \in Paths |-> IF p \in Upstream THEN "upstream" ELSE "absent"]
  /\ base = worktree /\ head = worktree
  /\ overlay = [e \in English |-> "absent"]
  /\ edits = 0 /\ commits = 0

\* A file of the workspace is created, changed or deleted.
Edit ==
  /\ edits < MaxEdits /\ edits' = edits + 1
  /\ \E p \in Paths : \E t \in TextsOf(p) \ {worktree[p]} : worktree' = [worktree EXCEPT ![p] = t]
  /\ UNCHANGED <<manifest, pin, lock, base, head, overlay, commits>>

\* So is a file under overlays/.
EditOverlay ==
  /\ edits < MaxEdits /\ edits' = edits + 1
  /\ \E e \in English : \E t \in {"absent", "translated", "flawed"} \ {overlay[e]} :
       overlay' = [overlay EXCEPT ![e] = t]
  /\ UNCHANGED <<manifest, pin, lock, worktree, base, head, commits>>

\* `git add -A' and `git commit', as jx dump does after a batch.
Commit ==
  /\ Dirty
  /\ commits < MaxCommits /\ commits' = commits + 1
  /\ head' = worktree
  /\ UNCHANGED <<manifest, pin, lock, worktree, base, overlay, edits>>

EditManifest ==
  /\ edits < MaxEdits /\ edits' = edits + 1
  /\ \E m \in Manifests \ {manifest} : manifest' = m
  /\ UNCHANGED <<pin, lock, worktree, base, head, overlay, commits>>

\* jx rebase writes another upstream.sha.
MovePin ==
  /\ edits < MaxEdits /\ edits' = edits + 1
  /\ \E s \in Pins \ {pin} : pin' = s
  /\ UNCHANGED <<manifest, lock, worktree, base, head, overlay, commits>>

Catalog ==
  /\ CatalogWrite \/ CatalogWriteTorn
  /\ UNCHANGED <<base, head, overlay, edits, commits>>

Next == Edit \/ EditOverlay \/ Commit \/ EditManifest \/ MovePin \/ Catalog
Spec == Init /\ [][Next]_vars

-----------------------------------------------------------------------------
(* Properties *)

EveryAuditPasses(rev) ==
  lock # NoLock /\ \A c \in LockCategories : Passes(UnitsOfCategory(c), rev)

\* What no audit looks at: a file in a directory git does not track, and a pt-BR
\* file of the workspace behind an overlay or without its English file.
Hidden(p) ==
  \/ p \in UntrackedFiles \ UntrackedNames
  \/ \E e \in English : Counterpart[e] = p /\ (overlay[e] # "absent" \/ worktree[e] = "absent")

\* A pt-BR file is looked at even if it did not change, when the lock lists its
\* English file.
Looked(p) == \E e \in English, i \in DOMAIN lock.claims : Counterpart[e] = p /\ e \in lock.claims[i].files
SourceAccepted(p, rev) ==
  IF p \in Counterparts THEN worktree[p] = "flawed" => rev[p] = "flawed" /\ ~Looked(p)
  ELSE ~Flagged(rev[p], worktree[p])

\* The findings about p that the allowlist subtracts.
Allowed(p) ==
  \/ <<"content", p>> \in Allowlist \/ <<"out-of-scope", p>> \in Allowlist
  \/ \E e \in English : Counterpart[e] = p /\ <<"lang-key-mismatch", e>> \in Allowlist

\* When the audit of every category passes against a base, no source file of the
\* workspace differs from it except by a translation, in whatever unit and at
\* whatever age of the lock: what one audit leaves to another is looked at there.
NothingSlips ==
  \A rev \in Bases : EveryAuditPasses(rev) =>
    \A p \in SourceNames \cap Paths : Hidden(p) \/ Allowed(p) \/ SourceAccepted(p, rev)
=============================================================================
