----------------------------- MODULE I18nLedger -----------------------------
(***************************************************************************)
(* The ledger of the translation queue (store.rs): which category owns a   *)
(* patch, an overlay or a shared override, and which units it lists.       *)
(*                                                                         *)
(* Unlike claim, which takes the write lock when it begins, these commands *)
(* open a deferred transaction: they read who owns the entry under a       *)
(* shared lock and ask for the write lock at their first INSERT or DELETE. *)
(* `jx' processes interleave at those points.  SQLite grants one reserved  *)
(* lock at a time, and commits only when no other transaction is reading;  *)
(* a command that waits in vain fails and leaves nothing.                  *)
(*                                                                         *)
(* `init --force' removes the database file and creates another: a process *)
(* that had opened it goes on with the file that is no longer there.       *)
(***************************************************************************)
EXTENDS Integers, FiniteSets

CONSTANTS
  Processes,
  Categories,
  Units,
  CategoryOf,   \* units.category
  Patches,      \* names of patches
  Overlays,     \* overlay paths, as they are spelled
  Overrides,    \* paths of shared overrides, as they are spelled
  MaxFiles,     \* bound: database files ever created
  NoOne

Entries == Patches \cup Overlays \cup Overrides

ASSUME LedgerAssumption ==
  /\ CategoryOf \in [Units -> Categories]
  /\ NoOne \notin Categories
  /\ MaxFiles \in Nat

VARIABLES
  current,   \* the file at the path of the database, 0 if there is none
  created,   \* files created so far
  ready,     \* files in which init has filled the tables from the catalogue
  owner,     \* patches.category, overlays.category, shared_overrides.category
  linked,    \* patch_units, overlay_units, shared_override_units
  txn        \* what each process is doing

vars == <<current, created, ready, owner, linked, txn>>
tables == <<ready, owner, linked>>

Files == 1..MaxFiles
Commands == {"none", "record", "assign", "init"}
Points == {"idle", "unlinked", "open", "reading", "writing"}

\* A command, how far it is, the file it has open, its arguments and the owner
\* it has read.
Transactions ==
  [command : Commands, pc : Points, file : Files \cup {0}, entry : Entries \cup {NoOne},
   category : Categories \cup {NoOne}, units : SUBSET Units,
   seen : Categories \cup {NoOne}]
Idle ==
  [command |-> "none", pc |-> "idle", file |-> 0, entry |-> NoOne,
   category |-> NoOne, units |-> {}, seen |-> NoOne]

\* The units a record may list.
\* Bug: a unit is looked up by its name alone.
UnitsAnywhere(c) == Units
UnitsOf(c) == {u \in Units : CategoryOf[u] = c}
AtFile(p, q) == txn[q].file = txn[p].file

-----------------------------------------------------------------------------
(* Opening the database *)

\* Store::open creates the file and its schema if there is none.
OpenFile(p, request) ==
  /\ \/ current # 0 /\ UNCHANGED <<current, created>>
     \/ current = 0 /\ created < MaxFiles /\ created' = created + 1 /\ current' = created'
  /\ txn' = [txn EXCEPT ![p] = [request EXCEPT !.pc = "open", !.file = current']]
  /\ UNCHANGED tables

\* record-patch, record-overlay and record-shared-override
Record(p) ==
  /\ txn[p].pc = "idle"
  /\ \E e \in Entries, c \in Categories, S \in SUBSET Units :
       OpenFile(p, [Idle EXCEPT !.command = "record", !.entry = e, !.category = c, !.units = S])

\* set-patch-units
SetPatchUnits(p) ==
  /\ txn[p].pc = "idle"
  /\ \E e \in Patches, S \in SUBSET Units \ {{}} :
       OpenFile(p, [Idle EXCEPT !.command = "assign", !.entry = e, !.units = S])

\* init, which with --force removes the file that is there first
Unlink(p) ==
  /\ txn[p].pc = "idle" /\ current # 0
  /\ current' = 0
  /\ txn' = [txn EXCEPT ![p] = [Idle EXCEPT !.command = "init", !.pc = "unlinked"]]
  /\ UNCHANGED <<created, tables>>

InitOpen(p) ==
  /\ \/ txn[p].pc = "idle" /\ current = 0
     \/ txn[p].pc = "unlinked"
  /\ OpenFile(p, [Idle EXCEPT !.command = "init"])

-----------------------------------------------------------------------------
(* One deferred transaction *)

\* The first SELECTs: the shared lock, the category and the owner.
ReadOwner(p) ==
  LET t == txn[p] IN
  /\ t.pc = "open" /\ t.command \in {"record", "assign"} /\ t.file \in ready
  /\ t.command = "record" => owner[t.file][t.entry] \in {t.category, NoOne}
  /\ t.command = "assign" => owner[t.file][t.entry] # NoOne
  /\ txn' = [txn EXCEPT ![p] =
       [t EXCEPT !.pc = "reading", !.seen = owner[t.file][t.entry],
                 !.category = IF t.command = "assign" THEN owner[t.file][t.entry] ELSE @]]
  /\ UNCHANGED <<current, created, tables>>

\* SQLite: the reserved lock is granted to one transaction of a file.
\* Bug: every statement commits on its own, so nobody holds it.
Unreserved(p) == TRUE
Reservable(p) == \A q \in Processes \ {p} : ~(AtFile(p, q) /\ txn[q].pc = "writing")

\* The first INSERT or DELETE; init begins with it.  All units are looked up
\* before the commit.
Reserve(p) ==
  LET t == txn[p] IN
  /\ t.pc = (IF t.command = "init" THEN "open" ELSE "reading")
  /\ t.command # "none"
  /\ Reservable(p)
  /\ t.units \subseteq UnitsOf(t.category)
  /\ txn' = [txn EXCEPT ![p].pc = "writing"]
  /\ UNCHANGED <<current, created, tables>>

\* SQLite: a commit waits for the readers of the file.
\* Bug: autocommit does not.
Unread(p) == TRUE
Committable(p) == \A q \in Processes \ {p} : ~(AtFile(p, q) /\ txn[q].pc = "reading")

Committing(p, command) ==
  /\ txn[p].pc = "writing" /\ txn[p].command = command
  /\ Committable(p)
  /\ txn' = [txn EXCEPT ![p] = Idle]
  /\ UNCHANGED <<current, created>>

\* The row is inserted unless it was seen; an override is upserted, which leaves
\* its category alone.
CommitRecord(p) ==
  LET t == txn[p] IN
  /\ Committing(p, "record")
  /\ owner' = [owner EXCEPT ![t.file][t.entry] = IF t.seen = NoOne THEN t.category ELSE @]
  /\ linked' = [linked EXCEPT ![t.file][t.entry] = @ \cup t.units]
  /\ UNCHANGED ready

CommitUnits(p) ==
  LET t == txn[p] IN
  /\ Committing(p, "assign")
  /\ linked' = [linked EXCEPT ![t.file][t.entry] = t.units]
  /\ UNCHANGED <<ready, owner>>

\* init_from_catalog empties every table and fills those of the catalogue.
EmptiesLinks(f) == linked' = [linked EXCEPT ![f] = [e \in Entries |-> {}]]
CommitInit(p) ==
  /\ Committing(p, "init")
  /\ ready' = ready \cup {txn[p].file}
  /\ owner' = [owner EXCEPT ![txn[p].file] = [e \in Entries |-> NoOne]]
  /\ EmptiesLinks(txn[p].file)

\* An error at any point, a lock that is not granted in time, or a crash: the
\* transaction is rolled back.
Fail(p) ==
  /\ txn[p].pc # "idle"
  /\ txn' = [txn EXCEPT ![p] = Idle]
  /\ UNCHANGED <<current, created, tables>>

-----------------------------------------------------------------------------
Init ==
  /\ current = 0 /\ created = 0 /\ ready = {}
  /\ owner = [f \in Files |-> [e \in Entries |-> NoOne]]
  /\ linked = [f \in Files |-> [e \in Entries |-> {}]]
  /\ txn = [p \in Processes |-> Idle]

Next ==
  \E p \in Processes :
    \/ Record(p) \/ SetPatchUnits(p) \/ Unlink(p) \/ InitOpen(p)
    \/ ReadOwner(p) \/ Reserve(p)
    \/ CommitRecord(p) \/ CommitUnits(p) \/ CommitInit(p) \/ Fail(p)

Spec == Init /\ [][Next]_vars

-----------------------------------------------------------------------------
(* Store::validate, on the three pairs of tables *)

\* An entry that is not registered, or that lists a unit of another category, is
\* an error.
LinksValid(f) ==
  \A e \in Entries : \A u \in linked[f][e] : owner[f][e] = CategoryOf[u]

-----------------------------------------------------------------------------
(* Properties *)

TypeOK ==
  /\ current \in Files \cup {0}
  /\ created \in 0..MaxFiles
  /\ ready \subseteq Files
  /\ owner \in [Files -> [Entries -> Categories \cup {NoOne}]]
  /\ linked \in [Files -> [Entries -> SUBSET Units]]
  /\ txn \in [Processes -> Transactions]

\* Safety: validate finds no error, although the owner is read before the write
\* lock is held: an entry lists units of the category that owns it and of no
\* other, and one nobody owns lists nothing.
LinkedToOwner == \A f \in Files : LinksValid(f)

\* Action property: an entry changes hands only through a new init of its file;
\* of two categories that register it at the same time, one gets an error.
OwnerKept ==
  [][\A f \in Files, e \in Entries :
       owner[f][e] # NoOne /\ owner'[f][e] # owner[f][e] =>
         \E p \in Processes : txn[p].command = "init" /\ txn[p].pc = "writing" /\ txn[p].file = f]_vars

\* Refinement: the database at the path is the ledger LedgerBook describes, with
\* every command taking effect at one instant.  A command that commits to a file
\* `init --force' has removed takes no effect at all.
Book ==
  INSTANCE LedgerBook WITH
    holder <- IF current = 0 THEN [e \in Entries |-> NoOne] ELSE owner[current],
    listed <- IF current = 0 THEN [e \in Entries |-> {}] ELSE linked[current]

ImplementsBook == Book!Spec
=============================================================================
