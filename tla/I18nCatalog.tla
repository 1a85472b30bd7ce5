---------------------------- MODULE I18nCatalog ----------------------------
(***************************************************************************)
(* The catalogue of the translation: catalog.json, which the maintainers   *)
(* edit, says which unit owns a source file; `jx i18n-catalog' lists the   *)
(* workspace, assigns every file and keeps the outcome in                  *)
(* catalog.lock.json (catalog.rs and run_i18n_catalog in main.rs).         *)
(*                                                                         *)
(* Globs are model values: Matches gives the paths that match one.  The    *)
(* `files' of the lock, which the audit reads, may be out of date in three *)
(* ways: the manifest changed, the workspace changed, the pin moved.       *)
(***************************************************************************)
EXTENDS Integers, Sequences, SequencesExt

CONSTANTS
  Paths,      \* files of the workspace
  Dirs,       \* their directories
  DirOf,
  Listed,     \* paths under SOURCE_ROOTS with a source extension
  Globs,
  Matches,    \* the paths and directories a glob matches
  Manifests,  \* what catalog.json may say
  Pins        \* values of upstream.sha in config.toml

NoLock == [upstream |-> "none", claims |-> <<>>, excluded |-> <<>>]

\* catalog.json, as far as parsing alone vouches for it: `order' may be any number.
Units == [id : STRING, globs : SUBSET Globs, exclude : SUBSET Globs, catch_all : BOOLEAN]
Categories == [id : STRING, order : Int, units : Seq(Units)]

\* A directory's name ends in a slash; "nobody" stands for the owner there is not.
ASSUME CatalogAssumption ==
  /\ Listed \subseteq Paths
  /\ Paths \cap Dirs = {}
  /\ DirOf \in [Paths -> Dirs]
  /\ Matches \in [Globs -> SUBSET (Paths \cup Dirs)]
  /\ NoLock.upstream \notin Pins
ASSUME ManifestAssumption ==
  \A m \in Manifests :
    /\ m.categories \in Seq(Categories)
    /\ m.excluded \in Seq(Globs)
    /\ \A i \in DOMAIN m.categories : \A j \in DOMAIN m.categories[i].units :
         m.categories[i].units[j].id # "nobody"

VARIABLES
  manifest,   \* catalog.json
  pin,        \* upstream.sha
  worktree,   \* text of each path in the workspace
  lock        \* catalog.lock.json; NoLock if it is absent or is not JSON

Texts == {"absent", "upstream", "translated", "flawed"}
Present(tree) == {p \in Paths : tree[p] # "absent"}

MatchesAny(name, globs) == \E g \in globs : name \in Matches[g]

-----------------------------------------------------------------------------
(* validate_manifest *)

UnitsListed(m) == FlattenSeq([i \in DOMAIN m.categories |-> m.categories[i].units])
CatchAlls(units) == SelectSeq(units, LAMBDA u : u.catch_all)

Distinct(s) == \A i, j \in DOMAIN s : s[i] = s[j] => i = j

Valid(m) ==
  LET ids == [i \in DOMAIN m.categories |-> m.categories[i].id]
      orders == [i \in DOMAIN m.categories |-> m.categories[i].order]
      units == UnitsListed(m)
  IN /\ m.categories # <<>>
     /\ Distinct(ids)
     /\ Distinct(orders)
     /\ Distinct([i \in DOMAIN units |-> units[i].id])
     /\ \A i \in DOMAIN units : units[i].globs # {}
     /\ \A i \in DOMAIN m.categories :
          /\ m.categories[i].order >= 1
          /\ m.categories[i].units # <<>>
          /\ Len(CatchAlls(m.categories[i].units)) <= 1

-----------------------------------------------------------------------------
(* assign_units and collect_excluded *)

\* The units in the order in which they claim: categories by their order, and
\* in a category the catch-all last.
Claim(c, u) ==
  [id |-> u.id, category |-> c.id, globs |-> u.globs, exclude |-> u.exclude,
   catch_all |-> u.catch_all]
ClaimsOf(c, last) ==
  FlattenSeq([i \in DOMAIN c.units |->
                IF c.units[i].catch_all = last THEN <<Claim(c, c.units[i])>> ELSE <<>>])
ClaimsAt(m, order) ==
  FlattenSeq([i \in DOMAIN m.categories |->
                IF m.categories[i].order = order
                THEN ClaimsOf(m.categories[i], FALSE) \o ClaimsOf(m.categories[i], TRUE)
                ELSE <<>>])
LastOrder(m) == Max({0} \cup {m.categories[i].order : i \in DOMAIN m.categories})
\* Those of a category whose order is not positive are of no use: Valid refuses it.
Claimants(m) == FlattenSeq([order \in 1..LastOrder(m) |-> ClaimsAt(m, order)])

Wants(unit, name) == MatchesAny(name, unit.globs) /\ ~MatchesAny(name, unit.exclude)

\* The unit that claims p first, if any.
FirstClaim(units, p) ==
  {i \in DOMAIN units : Wants(units[i], p) /\ \A j \in 1..(i - 1) : ~Wants(units[j], p)}

Assigned(m, files) == {p \in files : FirstClaim(Claimants(m), p) # {}}

\* A file claimed before is an overlap, unless the one to claim it is a catch-all.
Overlaps(m, files) ==
  LET units == Claimants(m)
  IN {p \in files : \E i, j \in DOMAIN units :
        i < j /\ Wants(units[i], p) /\ Wants(units[j], p) /\ ~units[j].catch_all}

\* The first rule of `excluded' that matches a file nobody was assigned.
ExcludedBy(m, files, i) ==
  {p \in files \ Assigned(m, files) :
     p \in Matches[m.excluded[i]] /\ \A j \in 1..(i - 1) : p \notin Matches[m.excluded[j]]}

Uncovered(m, files) ==
  {p \in files \ Assigned(m, files) : \A i \in DOMAIN m.excluded : p \notin Matches[m.excluded[i]]}

-----------------------------------------------------------------------------
(* jx i18n-catalog *)

SourceFiles == Listed \cap Present(worktree)

\* Neither --write nor --check goes on with a manifest that has any of these.
Sound(m, files) == Valid(m) /\ Overlaps(m, files) = {} /\ Uncovered(m, files) = {}

BuiltLock(m, files) ==
  LET units == Claimants(m)
      FilesOf(i) == {p \in files : i \in FirstClaim(units, p)}
  IN [upstream |-> pin,
      claims |-> [i \in DOMAIN units |->
                    [id |-> units[i].id, category |-> units[i].category, globs |-> units[i].globs,
                     exclude |-> units[i].exclude, catch_all |-> units[i].catch_all,
                     files |-> FilesOf(i)]],
      excluded |-> [i \in DOMAIN m.excluded |->
                      [glob |-> m.excluded[i], files |-> ExcludedBy(m, files, i)]]]

\* Bug: the hash is taken of the statistics of the lock.
SameStats(l, k) ==
  /\ l.upstream = k.upstream
  /\ [i \in DOMAIN l.claims |-> Cardinality(l.claims[i].files)] =
       [i \in DOMAIN k.claims |-> Cardinality(k.claims[i].files)]
\* hash_lock, which leaves out only generated_at and source_head.
SameHash(l, k) == l = k

\* --check: exit status 0
CheckPasses ==
  /\ Sound(manifest, SourceFiles)
  /\ lock # NoLock
  /\ SameHash(lock, BuiltLock(manifest, SourceFiles))

\* --write
CatalogWrite ==
  /\ Sound(manifest, SourceFiles)
  /\ lock' = BuiltLock(manifest, SourceFiles)
  /\ UNCHANGED <<manifest, pin, worktree>>

\* The lock is written in place: a process that dies at it leaves no valid JSON.
CatalogWriteTorn ==
  /\ Sound(manifest, SourceFiles)
  /\ lock' = NoLock
  /\ UNCHANGED <<manifest, pin, worktree>>

-----------------------------------------------------------------------------
(* Ownership: what the audit makes of the lock *)

\* Bug: the exclusions of a unit are forgotten.
OwnerByGlobs(l, name) ==
  LET exact == {i \in DOMAIN l.claims : name \in l.claims[i].files}
      globbed == {i \in DOMAIN l.claims : MatchesAny(name, l.claims[i].globs)}
      First(S) == CHOOSE i \in S : \A j \in S : i <= j
  IN IF exact # {} THEN l.claims[First(exact)].id
     ELSE IF globbed # {} THEN l.claims[First(globbed)].id
     ELSE IF \E i \in DOMAIN l.excluded :
               name \in l.excluded[i].files \/ name \in Matches[l.excluded[i].glob]
          THEN "excluded" ELSE "nobody"

\* owner_of: the unit that lists the file, else the first whose globs match and
\* whose exclusions do not, else the rules of `excluded'.
OwnerOf(l, name) ==
  LET exact == {i \in DOMAIN l.claims : name \in l.claims[i].files}
      globbed == {i \in DOMAIN l.claims : Wants(l.claims[i], name)}
      First(S) == CHOOSE i \in S : \A j \in S : i <= j
  IN IF exact # {} THEN l.claims[First(exact)].id
     ELSE IF globbed # {} THEN l.claims[First(globbed)].id
     ELSE IF \E i \in DOMAIN l.excluded :
               name \in l.excluded[i].files \/ name \in Matches[l.excluded[i].glob]
          THEN "excluded" ELSE "nobody"

-----------------------------------------------------------------------------
(* Properties *)

\* The unit to which the manifest gives p, listed in the lock or not.
AssignedOwner(m, p) ==
  LET units == Claimants(m)
      first == FirstClaim(units, p)
  IN IF first # {} THEN units[CHOOSE i \in first : TRUE].id
     ELSE IF \E i \in DOMAIN m.excluded : p \in Matches[m.excluded[i]] THEN "excluded" ELSE "nobody"

\* When --check passes, every source file of the workspace has an owner, and the
\* audit, which reads only the lock, finds the one the manifest gives it: the
\* gate that vouches for the lock vouches for the scope of the audit gate.
CheckMeansOwned ==
  CheckPasses =>
    \A p \in SourceFiles : OwnerOf(lock, p) = AssignedOwner(manifest, p) /\ OwnerOf(lock, p) # "nobody"

\* While the manifest's rules are still the lock's, the audit finds for every
\* source path, one the lock has never listed included, the owner the next
\* --write would give it: no file changes hands by being listed.
OwnersForeseen ==
  LET next == BuiltLock(manifest, SourceFiles)
      Rules(l) == <<[i \in DOMAIN l.claims |-> [l.claims[i] EXCEPT !.files = {}]],
                    [i \in DOMAIN l.excluded |-> l.excluded[i].glob]>>
  IN lock # NoLock /\ Rules(lock) = Rules(next) =>
       \A p \in Listed : OwnerOf(lock, p) = AssignedOwner(manifest, p)
=============================================================================
