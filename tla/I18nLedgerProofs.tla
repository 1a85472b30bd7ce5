------------------------- MODULE I18nLedgerProofs -------------------------
(***************************************************************************)
(* Proofs about I18nLedger, for any number of processes, categories, units *)
(* and entries: the owner a command has read is still the owner when it    *)
(* commits, so the interleaved commands are the ledger of LedgerBook.      *)
(***************************************************************************)
EXTENDS I18nLedger, TLAPS

-----------------------------------------------------------------------------
(* The inductive invariant *)

Busy(p) == txn[p].pc \in {"reading", "writing"} /\ txn[p].command \in {"record", "assign"}

\* A command that is past its SELECTs knows the owner as it is.
SeenInv ==
  \A p \in Processes : Busy(p) =>
    LET t == txn[p] IN
    /\ t.entry \in Entries /\ t.category \in Categories
    /\ t.seen = owner[t.file][t.entry]
    /\ t.command = "record" => t.seen \in {t.category, NoOne}
    /\ t.command = "assign" => t.seen = t.category

\* One transaction of a file holds the write lock, and it has looked its units up.
WriterInv ==
  \A p \in Processes : txn[p].pc = "writing" =>
    /\ \A q \in Processes : txn[q].pc = "writing" /\ txn[q].file = txn[p].file => q = p
    /\ Busy(p) => txn[p].units \subseteq UnitsOf(txn[p].category)

\* A command keeps its arguments, and a file that is open has been created.
OpenInv ==
  \A p \in Processes :
    /\ txn[p].pc \in {"open", "reading", "writing"} => txn[p].file \in 1..created
    /\ txn[p].pc \in {"open", "reading", "writing"} => txn[p].command # "none"
    /\ txn[p].command \in {"record", "assign"} => txn[p].entry \in Entries
    /\ txn[p].command = "record" => txn[p].category \in Categories

\* A file nobody has created yet holds nothing.
FreshInv ==
  /\ current <= created
  /\ \A f \in Files : f > created =>
       /\ owner[f] = [e \in Entries |-> NoOne]
       /\ linked[f] = [e \in Entries |-> {}]

IInv == TypeOK /\ SeenInv /\ WriterInv /\ OpenInv /\ FreshInv /\ LinkedToOwner

LEMMA IdleType ==
  /\ Idle \in Transactions
  /\ Idle.pc = "idle" /\ Idle.command = "none"
BY DEF Idle, Transactions, Commands, Points

LEMMA InitIInv == Init => IInv
BY IdleType, LedgerAssumption
   DEF Init, IInv, TypeOK, SeenInv, WriterInv, OpenInv, FreshInv, LinkedToOwner, LinksValid, Busy, Files

\* A request as it is before its database is open.
Requests == {t \in Transactions : t.pc = "idle" /\ t.command # "none"
               /\ (t.command \in {"record", "assign"} => t.entry \in Entries)
               /\ (t.command = "record" => t.category \in Categories)}

LEMMA OpenFileStep ==
  ASSUME IInv, NEW p \in Processes, NEW request \in Requests, OpenFile(p, request)
  PROVE  IInv'
<1> DEFINE t == [request EXCEPT !.pc = "open", !.file = current']
<1>1. /\ current' \in Files /\ created' \in 0..MaxFiles /\ created <= created'
      /\ current' <= created' /\ current' \in 1..created'
  BY LedgerAssumption DEF OpenFile, IInv, TypeOK, FreshInv, Files
<1>2. t \in Transactions /\ t.pc = "open" /\ t.file = current'
      /\ t.command # "none"
      /\ (t.command \in {"record", "assign"} => t.entry \in Entries)
      /\ (t.command = "record" => t.category \in Categories)
  BY <1>1 DEF Requests, Transactions, Points
<1>3. txn' = [txn EXCEPT ![p] = t] /\ UNCHANGED <<ready, owner, linked>>
  BY DEF OpenFile, tables
<1> HIDE DEF t
<1>4. TypeOK'
  BY <1>1, <1>2, <1>3 DEF IInv, TypeOK
<1>5. \A q \in Processes : q # p => txn'[q] = txn[q]
  BY <1>3 DEF IInv, TypeOK
<1>6. txn'[p] = t
  BY <1>3 DEF IInv, TypeOK
<1>7. SeenInv' /\ WriterInv'
  BY <1>2, <1>3, <1>5, <1>6 DEF IInv, SeenInv, WriterInv, Busy
<1>8. OpenInv'
  BY <1>1, <1>2, <1>5, <1>6 DEF IInv, TypeOK, OpenInv, Files
<1>9. FreshInv' /\ LinkedToOwner'
  BY <1>1, <1>3 DEF IInv, TypeOK, FreshInv, LinkedToOwner, LinksValid, Files
<1> QED BY <1>4, <1>7, <1>8, <1>9 DEF IInv

LEMMA RecordStep == ASSUME IInv, NEW p \in Processes, Record(p) PROVE IInv'
<1>1. PICK e \in Entries, c \in Categories, S \in SUBSET Units :
        OpenFile(p, [Idle EXCEPT !.command = "record", !.entry = e, !.category = c, !.units = S])
  BY DEF Record
<1>2. [Idle EXCEPT !.command = "record", !.entry = e, !.category = c, !.units = S] \in Requests
  BY IdleType DEF Requests, Transactions, Commands
<1> QED BY <1>1, <1>2, OpenFileStep

LEMMA SetPatchUnitsStep == ASSUME IInv, NEW p \in Processes, SetPatchUnits(p) PROVE IInv'
<1>1. PICK e \in Patches, S \in SUBSET Units \ {{}} :
        OpenFile(p, [Idle EXCEPT !.command = "assign", !.entry = e, !.units = S])
  BY DEF SetPatchUnits
<1>2. [Idle EXCEPT !.command = "assign", !.entry = e, !.units = S] \in Requests
  BY IdleType DEF Requests, Transactions, Commands, Entries
<1> QED BY <1>1, <1>2, OpenFileStep

LEMMA InitOpenStep == ASSUME IInv, NEW p \in Processes, InitOpen(p) PROVE IInv'
<1>1. [Idle EXCEPT !.command = "init"] \in Requests
  BY IdleType DEF Requests, Transactions, Commands
<1> QED BY <1>1, OpenFileStep DEF InitOpen

\* A process that is at rest, or has only removed the file, bears on nothing.
LEMMA RestingStep ==
  ASSUME IInv, NEW p \in Processes, NEW t \in Transactions,
         t.pc \in {"idle", "unlinked"}, t.command \in {"none", "init"},
         txn' = [txn EXCEPT ![p] = t], current' \in {current, 0},
         UNCHANGED <<created, ready, owner, linked>>
  PROVE  IInv'
<1>1. TypeOK'
  BY DEF IInv, TypeOK
<1>2. txn'[p] = t /\ \A q \in Processes : q # p => txn'[q] = txn[q]
  BY DEF IInv, TypeOK
<1>3. SeenInv' /\ WriterInv'
  BY <1>2 DEF IInv, SeenInv, WriterInv, Busy
<1>4. OpenInv'
  BY <1>2 DEF IInv, OpenInv
<1>5. FreshInv' /\ LinkedToOwner'
  BY DEF IInv, TypeOK, FreshInv, LinkedToOwner, LinksValid, Files
<1> QED BY <1>1, <1>3, <1>4, <1>5 DEF IInv

LEMMA UnlinkStep == ASSUME IInv, NEW p \in Processes, Unlink(p) PROVE IInv'
<1> DEFINE t == [Idle EXCEPT !.command = "init", !.pc = "unlinked"]
<1>1. t \in Transactions /\ t.pc = "unlinked" /\ t.command = "init"
  BY IdleType DEF Transactions, Commands, Points
<1> HIDE DEF t
<1>2. txn' = [txn EXCEPT ![p] = t] /\ current' = 0 /\ UNCHANGED <<created, ready, owner, linked>>
  BY DEF Unlink, tables, t
<1> QED BY <1>1, <1>2, RestingStep

LEMMA FailStep == ASSUME IInv, NEW p \in Processes, Fail(p) PROVE IInv'
<1>1. txn' = [txn EXCEPT ![p] = Idle] /\ UNCHANGED <<current, created, ready, owner, linked>>
  BY DEF Fail, tables
<1> QED BY <1>1, IdleType, RestingStep

LEMMA ReadOwnerStep == ASSUME IInv, NEW p \in Processes, ReadOwner(p) PROVE IInv'
<1> DEFINE o == owner[txn[p].file][txn[p].entry]
<1>1. /\ txn[p] \in Transactions /\ txn[p].pc = "open" /\ txn[p].command \in {"record", "assign"}
      /\ txn[p].entry \in Entries /\ txn[p].file \in Files
      /\ txn[p].command = "record" => txn[p].category \in Categories /\ o \in {txn[p].category, NoOne}
      /\ txn[p].command = "assign" => o \in Categories
      /\ o \in Categories \cup {NoOne}
  BY DEF ReadOwner, IInv, TypeOK, OpenInv, Files
<1> DEFINE t == [txn[p] EXCEPT !.pc = "reading", !.seen = o,
                               !.category = IF txn[p].command = "assign" THEN o ELSE @]
<1>2. /\ t \in Transactions /\ t.pc = "reading" /\ t.seen = o /\ t.file = txn[p].file
      /\ t.command = txn[p].command /\ t.entry = txn[p].entry
      /\ t.category = IF txn[p].command = "assign" THEN o ELSE txn[p].category
  BY <1>1 DEF Transactions, Points
<1>3. txn' = [txn EXCEPT ![p] = t] /\ UNCHANGED <<current, created, ready, owner, linked>>
  BY DEF ReadOwner, tables
<1> HIDE DEF t
<1>4. TypeOK'
  BY <1>2, <1>3 DEF IInv, TypeOK
<1>5. txn'[p] = t /\ \A q \in Processes : q # p => txn'[q] = txn[q]
  BY <1>3 DEF IInv, TypeOK
<1>6. SeenInv'
  BY <1>1, <1>2, <1>3, <1>5 DEF IInv, SeenInv, Busy
<1>7. WriterInv'
  BY <1>2, <1>5 DEF IInv, WriterInv, Busy
<1>8. OpenInv'
  BY <1>1, <1>2, <1>3, <1>5 DEF IInv, OpenInv
<1>9. FreshInv' /\ LinkedToOwner'
  BY <1>3 DEF IInv, TypeOK, FreshInv, LinkedToOwner, LinksValid, Files
<1> QED BY <1>4, <1>6, <1>7, <1>8, <1>9 DEF IInv

LEMMA ReserveStep == ASSUME IInv, NEW p \in Processes, Reserve(p) PROVE IInv'
<1> DEFINE t == [txn[p] EXCEPT !.pc = "writing"]
<1>1. /\ t \in Transactions /\ t.pc = "writing" /\ t.seen = txn[p].seen /\ t.file = txn[p].file
      /\ t.command = txn[p].command /\ t.entry = txn[p].entry /\ t.category = txn[p].category
      /\ t.units = txn[p].units
  BY DEF IInv, TypeOK, Transactions, Points
<1>2. txn' = [txn EXCEPT ![p] = t] /\ UNCHANGED <<current, created, ready, owner, linked>>
  BY DEF Reserve, tables, IInv, TypeOK
<1> HIDE DEF t
<1>3. /\ txn[p].pc = (IF txn[p].command = "init" THEN "open" ELSE "reading")
      /\ txn[p].units \subseteq UnitsOf(txn[p].category)
      /\ \A q \in Processes \ {p} : ~(txn[q].file = txn[p].file /\ txn[q].pc = "writing")
  BY DEF Reserve, Reservable, AtFile
<1>4. TypeOK'
  BY <1>1, <1>2 DEF IInv, TypeOK
<1>5. txn'[p] = t /\ \A q \in Processes : q # p => txn'[q] = txn[q]
  BY <1>2 DEF IInv, TypeOK
<1>6. SeenInv'
  BY <1>1, <1>2, <1>3, <1>5 DEF IInv, SeenInv, Busy
<1>7. WriterInv'
  BY <1>1, <1>3, <1>5 DEF IInv, WriterInv, Busy
<1>8. OpenInv'
  BY <1>1, <1>2, <1>3, <1>5 DEF IInv, OpenInv
<1>9. FreshInv' /\ LinkedToOwner'
  BY <1>2 DEF IInv, TypeOK, FreshInv, LinkedToOwner, LinksValid, Files
<1> QED BY <1>4, <1>6, <1>7, <1>8, <1>9 DEF IInv

-----------------------------------------------------------------------------
(* Commits *)

\* While p commits, no other command is past its SELECTs on the same file.
LEMMA Alone ==
  ASSUME IInv, NEW p \in Processes, txn[p].pc = "writing", Committable(p),
         NEW q \in Processes, q # p, Busy(q)
  PROVE  txn[q].file # txn[p].file
BY DEF IInv, WriterInv, Committable, AtFile, Busy

\* What every commit leaves in order.
LEMMA CommitFrame ==
  ASSUME IInv, NEW p \in Processes, NEW command, Committing(p, command),
         owner' \in [Files -> [Entries -> Categories \cup {NoOne}]],
         linked' \in [Files -> [Entries -> SUBSET Units]],
         ready' \subseteq Files,
         \A f \in Files : f # txn[p].file => owner'[f] = owner[f] /\ linked'[f] = linked[f]
  PROVE  TypeOK' /\ SeenInv' /\ WriterInv' /\ OpenInv' /\ FreshInv'
<1>1. txn[p].pc = "writing" /\ Committable(p) /\ txn' = [txn EXCEPT ![p] = Idle]
      /\ UNCHANGED <<current, created>>
  BY DEF Committing
<1>2. TypeOK'
  BY <1>1, IdleType DEF IInv, TypeOK
<1>3. txn'[p] = Idle /\ \A q \in Processes : q # p => txn'[q] = txn[q]
  BY <1>1 DEF IInv, TypeOK
<1>4. \A q \in Processes : Busy(q)' => q # p /\ Busy(q) /\ txn[q].file # txn[p].file
  BY <1>1, <1>3, IdleType, Alone DEF Busy
<1>5. \A q \in Processes : Busy(q) => txn[q].file \in Files
  BY LedgerAssumption DEF IInv, TypeOK, OpenInv, Busy, Files
<1>6. SeenInv'
  BY <1>3, <1>4, <1>5 DEF IInv, SeenInv
<1>7. WriterInv'
  BY <1>3, <1>4, IdleType DEF IInv, WriterInv
<1>8. OpenInv'
  BY <1>1, <1>3, IdleType DEF IInv, OpenInv
<1>9. FreshInv'
  BY <1>1 DEF IInv, TypeOK, OpenInv, FreshInv, Files
<1> QED BY <1>2, <1>6, <1>7, <1>8, <1>9

\* The transaction that commits a record or an assignment.
LEMMA Writer ==
  ASSUME IInv, NEW p \in Processes, txn[p].pc = "writing", txn[p].command \in {"record", "assign"}
  PROVE  LET t == txn[p] IN
         /\ t \in Transactions /\ t.file \in Files /\ t.file \in 1..created
         /\ t.entry \in Entries /\ t.category \in Categories /\ t.category # NoOne
         /\ t.units \subseteq Units /\ \A u \in t.units : CategoryOf[u] = t.category
         /\ t.seen = owner[t.file][t.entry]
         /\ t.command = "record" => t.seen \in {t.category, NoOne}
         /\ t.command = "assign" => t.seen = t.category
BY LedgerAssumption
   DEF IInv, TypeOK, SeenInv, WriterInv, OpenInv, Busy, Transactions, Files, UnitsOf

LEMMA CommitRecordStep == ASSUME IInv, NEW p \in Processes, CommitRecord(p) PROVE IInv'
<1>1. txn[p].pc = "writing" /\ txn[p].command = "record" /\ Committing(p, "record")
  BY DEF CommitRecord, Committing
<1> DEFINE f == txn[p].file
           e == txn[p].entry
           c == txn[p].category
           S == txn[p].units
<1>2. /\ f \in Files /\ e \in Entries /\ c \in Categories /\ S \subseteq Units
      /\ \A u \in S : CategoryOf[u] = c
      /\ owner[f][e] \in {c, NoOne} /\ txn[p].seen = owner[f][e]
  BY <1>1, Writer
<1>3. /\ owner' = [owner EXCEPT ![f][e] = c]
      /\ linked' = [linked EXCEPT ![f][e] = @ \cup S]
      /\ ready' = ready
  BY <1>2 DEF CommitRecord, IInv, TypeOK
<1> HIDE DEF f, e, c, S
<1>4. /\ owner' \in [Files -> [Entries -> Categories \cup {NoOne}]]
      /\ linked' \in [Files -> [Entries -> SUBSET Units]]
      /\ ready' \subseteq Files
      /\ \A g \in Files : g # f => owner'[g] = owner[g] /\ linked'[g] = linked[g]
  BY <1>2, <1>3 DEF IInv, TypeOK
<1>5. TypeOK' /\ SeenInv' /\ WriterInv' /\ OpenInv' /\ FreshInv'
  BY <1>1, <1>4, CommitFrame DEF f
<1>6. ASSUME NEW g \in Files, NEW x \in Entries, NEW u \in linked'[g][x]
      PROVE  owner'[g][x] = CategoryOf[u]
  <2>1. CASE g = f /\ x = e
    <3>1. owner'[g][x] = c /\ linked'[g][x] = linked[f][e] \cup S
      BY <2>1, <1>2, <1>3 DEF IInv, TypeOK
    <3>2. CASE u \in S
      BY <3>1, <3>2, <1>2
    <3>3. CASE u \in linked[f][e]
      <4>1. owner[f][e] = CategoryOf[u] /\ CategoryOf[u] # NoOne
        BY <3>3, <1>2, LedgerAssumption DEF IInv, TypeOK, LinkedToOwner, LinksValid
      <4> QED BY <4>1, <3>1, <1>2
    <3> QED BY <3>1, <3>2, <3>3
  <2>2. CASE ~(g = f /\ x = e)
    <3>1. owner'[g][x] = owner[g][x] /\ linked'[g][x] = linked[g][x]
      BY <2>2, <1>2, <1>3 DEF IInv, TypeOK
    <3> QED BY <3>1 DEF IInv, LinkedToOwner, LinksValid
  <2> QED BY <2>1, <2>2
<1> QED BY <1>5, <1>6 DEF IInv, LinkedToOwner, LinksValid

LEMMA CommitUnitsStep == ASSUME IInv, NEW p \in Processes, CommitUnits(p) PROVE IInv'
<1>1. txn[p].pc = "writing" /\ txn[p].command = "assign" /\ Committing(p, "assign")
  BY DEF CommitUnits, Committing
<1> DEFINE f == txn[p].file
           e == txn[p].entry
           S == txn[p].units
<1>2. /\ f \in Files /\ e \in Entries /\ S \subseteq Units
      /\ \A u \in S : CategoryOf[u] = owner[f][e]
  BY <1>1, Writer
<1>3. linked' = [linked EXCEPT ![f][e] = S] /\ owner' = owner /\ ready' = ready
  BY DEF CommitUnits
<1> HIDE DEF f, e, S
<1>4. /\ owner' \in [Files -> [Entries -> Categories \cup {NoOne}]]
      /\ linked' \in [Files -> [Entries -> SUBSET Units]]
      /\ ready' \subseteq Files
      /\ \A g \in Files : g # f => owner'[g] = owner[g] /\ linked'[g] = linked[g]
  BY <1>2, <1>3 DEF IInv, TypeOK
<1>5. TypeOK' /\ SeenInv' /\ WriterInv' /\ OpenInv' /\ FreshInv'
  BY <1>1, <1>4, CommitFrame DEF f
<1>6. LinkedToOwner'
  BY <1>2, <1>3 DEF IInv, TypeOK, LinkedToOwner, LinksValid
<1> QED BY <1>5, <1>6 DEF IInv

LEMMA CommitInitStep == ASSUME IInv, NEW p \in Processes, CommitInit(p) PROVE IInv'
<1>1. txn[p].pc = "writing" /\ Committing(p, "init")
  BY DEF CommitInit, Committing
<1> DEFINE f == txn[p].file
<1>2. f \in Files
  BY <1>1, LedgerAssumption DEF IInv, TypeOK, OpenInv, Files
<1>3. /\ owner' = [owner EXCEPT ![f] = [e \in Entries |-> NoOne]]
      /\ linked' = [linked EXCEPT ![f] = [e \in Entries |-> {}]]
      /\ ready' = ready \cup {f}
  BY DEF CommitInit, EmptiesLinks
<1> HIDE DEF f
<1>4. /\ owner' \in [Files -> [Entries -> Categories \cup {NoOne}]]
      /\ linked' \in [Files -> [Entries -> SUBSET Units]]
      /\ ready' \subseteq Files
      /\ \A g \in Files : g # f => owner'[g] = owner[g] /\ linked'[g] = linked[g]
  BY <1>2, <1>3 DEF IInv, TypeOK
<1>5. TypeOK' /\ SeenInv' /\ WriterInv' /\ OpenInv' /\ FreshInv'
  BY <1>1, <1>4, CommitFrame DEF f
<1>6. LinkedToOwner'
  BY <1>2, <1>3 DEF IInv, TypeOK, LinkedToOwner, LinksValid
<1> QED BY <1>5, <1>6 DEF IInv

LEMMA NextStep == IInv /\ [Next]_vars => IInv'
<1> SUFFICES ASSUME IInv, [Next]_vars PROVE IInv'
  OBVIOUS
<1>1. CASE UNCHANGED vars
  BY <1>1 DEF vars, IInv, TypeOK, SeenInv, WriterInv, OpenInv, FreshInv, LinkedToOwner, LinksValid, Busy
<1>2. ASSUME NEW p \in Processes,
             \/ Record(p) \/ SetPatchUnits(p) \/ Unlink(p) \/ InitOpen(p)
             \/ ReadOwner(p) \/ Reserve(p)
             \/ CommitRecord(p) \/ CommitUnits(p) \/ CommitInit(p) \/ Fail(p)
      PROVE  IInv'
  BY <1>2, RecordStep, SetPatchUnitsStep, UnlinkStep, InitOpenStep, ReadOwnerStep,
     ReserveStep, CommitRecordStep, CommitUnitsStep, CommitInitStep, FailStep
<1> QED BY <1>1, <1>2 DEF Next

LEMMA Inductive == Spec => []IInv
BY InitIInv, NextStep, PTL DEF Spec

-----------------------------------------------------------------------------
(* What follows from it *)

\* The tables keep their types (the model of store.rs 2538-2850).
THEOREM TypesKept == Spec => []TypeOK
<1>1. IInv => TypeOK
  BY DEF IInv
<1> QED BY <1>1, Inductive, PTL

\* An entry never lists a unit of a category that does not own it (record-patch,
\* set-patch-units, record-overlay, record-shared-override).
THEOREM LinksFollowOwner == Spec => []LinkedToOwner
<1>1. IInv => LinkedToOwner
  BY DEF IInv
<1> QED BY <1>1, Inductive, PTL

\* Only a step that commits writes an owner.
LEMMA OwnersWritten ==
  ASSUME IInv, [Next]_vars, NEW f \in Files, NEW e \in Entries,
         owner[f][e] # NoOne, owner'[f][e] # owner[f][e]
  PROVE  \E p \in Processes :
           txn[p].command = "init" /\ txn[p].pc = "writing" /\ txn[p].file = f
<1>1. owner' # owner
  OBVIOUS
<1>2. PICK p \in Processes : CommitRecord(p) \/ CommitInit(p)
  BY <1>1 DEF Next, vars, tables, Record, SetPatchUnits, OpenFile, Unlink, InitOpen, ReadOwner,
              Reserve, CommitUnits, Fail
<1>3. CASE CommitRecord(p)
  <2>1. txn[p].pc = "writing" /\ txn[p].command = "record"
    BY <1>3 DEF CommitRecord, Committing
  <2>2. owner[txn[p].file][txn[p].entry] \in {txn[p].category, NoOne}
        /\ txn[p].seen = owner[txn[p].file][txn[p].entry]
    BY <2>1, Writer
  <2>3. owner'[f][e] = owner[f][e]
    BY <1>3, <2>2 DEF CommitRecord, IInv, TypeOK
  <2> QED BY <2>3
<1>4. CASE CommitInit(p)
  <2>1. txn[p].pc = "writing" /\ txn[p].command = "init"
        /\ owner' = [owner EXCEPT ![txn[p].file] = [x \in Entries |-> NoOne]]
    BY <1>4 DEF CommitInit, Committing
  <2>2. txn[p].file = f
    BY <2>1 DEF IInv, TypeOK
  <2> QED BY <2>1, <2>2
<1> QED BY <1>2, <1>3, <1>4

\* An entry changes hands through a new init of its file and in no other way.
THEOREM OwnersStay == Spec => OwnerKept
<1>1. IInv /\ [Next]_vars =>
        [\A f \in Files, e \in Entries :
           owner[f][e] # NoOne /\ owner'[f][e] # owner[f][e] =>
             \E p \in Processes : txn[p].command = "init" /\ txn[p].pc = "writing" /\ txn[p].file = f]_vars
  BY OwnersWritten
<1> QED BY <1>1, Inductive, PTL DEF Spec, OwnerKept

-----------------------------------------------------------------------------
(* The refinement *)

Holder == IF current = 0 THEN [e \in Entries |-> NoOne] ELSE owner[current]
Listed == IF current = 0 THEN [e \in Entries |-> {}] ELSE linked[current]

LEMMA InitIsBlank == Init => Book!Blank
BY DEF Init, Book!Blank

\* Opening a file shows the ledger that was there, or an empty one.
LEMMA OpenFileStutters ==
  ASSUME IInv, NEW p, NEW request, OpenFile(p, request)
  PROVE  UNCHANGED <<Holder, Listed>>
<1>1. CASE UNCHANGED <<current, created>>
  BY <1>1 DEF OpenFile, tables, Holder, Listed
<1>2. CASE current = 0 /\ created < MaxFiles /\ created' = created + 1 /\ current' = created'
  <2>1. current' \in Files /\ current' > created /\ current' # 0
    BY <1>2, LedgerAssumption DEF IInv, TypeOK, Files
  <2>2. owner[current'] = [e \in Entries |-> NoOne] /\ linked[current'] = [e \in Entries |-> {}]
    BY <2>1 DEF IInv, FreshInv
  <2>3. owner' = owner /\ linked' = linked
    BY DEF OpenFile, tables
  <2> QED BY <1>2, <2>1, <2>2, <2>3 DEF Holder, Listed
<1> QED BY <1>1, <1>2 DEF OpenFile

\* A commit to a file that is not at the path shows nothing.
LEMMA ElsewhereStutters ==
  ASSUME IInv, NEW f \in Files, f # current, current' = current,
         \A g \in Files : g # f => owner'[g] = owner[g] /\ linked'[g] = linked[g]
  PROVE  UNCHANGED <<Holder, Listed>>
BY DEF IInv, TypeOK, Holder, Listed

LEMMA CommitRecordRegisters ==
  ASSUME IInv, NEW p \in Processes, CommitRecord(p)
  PROVE  Book!Next \/ UNCHANGED <<Holder, Listed>>
<1> DEFINE f == txn[p].file
           e == txn[p].entry
           c == txn[p].category
           S == txn[p].units
<1>1. txn[p].pc = "writing" /\ txn[p].command = "record" /\ current' = current
  BY DEF CommitRecord, Committing
<1>2. /\ f \in Files /\ e \in Entries /\ c \in Categories /\ S \subseteq Units
      /\ \A u \in S : CategoryOf[u] = c
      /\ owner[f][e] \in {c, NoOne} /\ txn[p].seen = owner[f][e]
  BY <1>1, Writer
<1>3. owner' = [owner EXCEPT ![f][e] = c] /\ linked' = [linked EXCEPT ![f][e] = @ \cup S]
  BY <1>2 DEF CommitRecord, IInv, TypeOK
<1> HIDE DEF f, e, c, S
<1>4. CASE f # current
  BY <1>1, <1>2, <1>3, <1>4, ElsewhereStutters DEF IInv, TypeOK
<1>5. CASE f = current
  <2>1. current # 0
    BY <1>2, <1>5 DEF Files
  <2>2. Book!Register(e, c, S)
    BY <1>1, <1>2, <1>3, <1>5, <2>1 DEF Book!Register, IInv, TypeOK
  <2> QED BY <2>2, <1>2 DEF Book!Next
<1> QED BY <1>4, <1>5

LEMMA CommitUnitsRelists ==
  ASSUME IInv, NEW p \in Processes, CommitUnits(p)
  PROVE  Book!Next \/ UNCHANGED <<Holder, Listed>>
<1> DEFINE f == txn[p].file
           e == txn[p].entry
           c == txn[p].category
           S == txn[p].units
<1>1. txn[p].pc = "writing" /\ txn[p].command = "assign" /\ current' = current
  BY DEF CommitUnits, Committing
<1>2. /\ f \in Files /\ e \in Entries /\ c \in Categories /\ c # NoOne /\ S \subseteq Units
      /\ \A u \in S : CategoryOf[u] = c
      /\ owner[f][e] = c
  BY <1>1, Writer
<1>3. owner' = owner /\ linked' = [linked EXCEPT ![f][e] = S]
  BY <1>2 DEF CommitUnits
<1> HIDE DEF f, e, c, S
<1>4. CASE f # current
  BY <1>1, <1>2, <1>3, <1>4, ElsewhereStutters DEF IInv, TypeOK
<1>5. CASE f = current
  <2>1. current # 0
    BY <1>2, <1>5 DEF Files
  <2>2. Book!Relist(e, S)
    BY <1>1, <1>2, <1>3, <1>5, <2>1 DEF Book!Relist, IInv, TypeOK
  <2> QED BY <2>2, <1>2 DEF Book!Next
<1> QED BY <1>4, <1>5

LEMMA CommitInitStartsOver ==
  ASSUME IInv, NEW p \in Processes, CommitInit(p)
  PROVE  Book!Next \/ UNCHANGED <<Holder, Listed>>
<1> DEFINE f == txn[p].file
<1>1. txn[p].pc = "writing" /\ current' = current
  BY DEF CommitInit, Committing
<1>2. f \in Files /\ f # 0
  BY <1>1, LedgerAssumption DEF IInv, TypeOK, OpenInv, Files
<1>3. /\ owner' = [owner EXCEPT ![f] = [e \in Entries |-> NoOne]]
      /\ linked' = [linked EXCEPT ![f] = [e \in Entries |-> {}]]
  BY DEF CommitInit, EmptiesLinks
<1> HIDE DEF f
<1>4. CASE f # current
  BY <1>1, <1>2, <1>3, <1>4, ElsewhereStutters DEF IInv, TypeOK
<1>5. CASE f = current
  <2>1. owner'[f] = [e \in Entries |-> NoOne] /\ linked'[f] = [e \in Entries |-> {}]
    BY <1>2, <1>3 DEF IInv, TypeOK
  <2>2. Book!StartOver
    BY <1>1, <1>2, <1>5, <2>1 DEF Book!StartOver, Book!Blank
  <2> QED BY <2>2 DEF Book!Next
<1> QED BY <1>4, <1>5

LEMMA UnlinkStartsOver ==
  ASSUME NEW p \in Processes, Unlink(p)
  PROVE  Book!Next
<1>1. current' = 0
  BY DEF Unlink
<1>2. Book!StartOver
  BY <1>1 DEF Book!StartOver, Book!Blank
<1> QED BY <1>2 DEF Book!Next

LEMMA StepInBook == IInv /\ [Next]_vars => [Book!Next]_(Book!book)
<1> SUFFICES ASSUME IInv, [Next]_vars PROVE Book!Next \/ UNCHANGED <<Holder, Listed>>
  BY DEF Book!book, Holder, Listed
<1>1. CASE UNCHANGED vars
  BY <1>1 DEF vars, Holder, Listed
<1>2. ASSUME NEW p \in Processes, Record(p) \/ SetPatchUnits(p) \/ InitOpen(p)
      PROVE  UNCHANGED <<Holder, Listed>>
  BY <1>2, OpenFileStutters DEF Record, SetPatchUnits, InitOpen
<1>3. ASSUME NEW p \in Processes, ReadOwner(p) \/ Reserve(p) \/ Fail(p)
      PROVE  UNCHANGED <<Holder, Listed>>
  BY <1>3 DEF ReadOwner, Reserve, Fail, tables, Holder, Listed
<1>4. ASSUME NEW p \in Processes,
             Unlink(p) \/ CommitRecord(p) \/ CommitUnits(p) \/ CommitInit(p)
      PROVE  Book!Next \/ UNCHANGED <<Holder, Listed>>
  BY <1>4, UnlinkStartsOver, CommitRecordRegisters, CommitUnitsRelists, CommitInitStartsOver
<1> QED BY <1>1, <1>2, <1>3, <1>4 DEF Next

\* The interleaved commands, over the database at the path, are the ledger in
\* which every command takes effect at one instant.
THEOREM LedgerIsABook == Spec => ImplementsBook
<1>1. Init => Book!Blank
  BY InitIsBlank
<1>2. IInv /\ [Next]_vars => [Book!Next]_(Book!book)
  BY StepInBook
<1> QED BY <1>1, <1>2, Inductive, PTL DEF Spec, ImplementsBook, Book!Spec
=============================================================================
