-------------------------- MODULE I18nQueueProofs --------------------------
(***************************************************************************)
(* What holds of the queue for every catalogue, team and policy, whatever  *)
(* the operators force and however late the clock samples are.             *)
(*                                                                         *)
(* The inductive invariant is about rows: a unit and its claim             *)
(* (`UnitsOK'), a category (`CategoriesOK'), the focus (`FocusOK'), the    *)
(* gate results (`GatesOK'), and what a category's stage says of its units *)
(* and of its gates (`UnitsDone', `GatesDone').  Every operation is built  *)
(* from a few row updates, so there is one lemma for each of these, and a  *)
(* step only has to say which rows it rewrites.                            *)
(*                                                                         *)
(* Two properties need more than rows: the limit on claims, by counting    *)
(* (after the recovery every claim left is live, so claim counts them      *)
(* all), and the single focus, by the order of execution (advance finds    *)
(* the next category whenever one is left).                                *)
(***************************************************************************)
EXTENDS I18nQueue, FiniteSetTheorems, NaturalsInduction, WellFoundedInduction, TLAPS

InProgress == {"analyzing", "translating", "reviewing", "fixing"}

\* The stage/status pairs of units that validate accepts, as far as the
\* proofs need them.
PairedUnit(r) ==
  /\ r.status = "blocked" <=> r.stage = "blocked"
  /\ r.status = "done" <=> r.stage = "done"
  /\ r.status = "active" <=> r.stage \in InProgress

UnitOK(r, k) ==
  /\ r \in UnitRow
  /\ k \in ClaimRow
  /\ PairedUnit(r)
  /\ ClaimMatches(r, k)
  /\ IndependentRow(r, k)
  /\ StruckOut(r)
  /\ r.status = "done" => r.score = "ten"

UnitsOK(un, cl) ==
  /\ un \in [Units -> UnitRow]
  /\ cl \in [Units -> ClaimRow]
  /\ \A u \in Units : UnitOK(un[u], cl[u])

\* The category is, or was when it was blocked, past review; in verification or
\* past it.
Late(r) ==
  \/ r.stage \in {"consistency", "verification", "done"}
  \/ r.stage = "blocked" /\ r.blocked_stage \in {"consistency", "verification"}
Verifying(r) ==
  \/ r.stage \in {"verification", "done"}
  \/ r.stage = "blocked" /\ r.blocked_stage = "verification"

CategoryOK(r) ==
  /\ r \in CategoryRow
  /\ r.status = "pending" <=> r.stage = "pending"
  /\ r.status = "done" <=> r.stage = "done"
  /\ r.status = "blocked" <=> r.stage = "blocked"
  /\ r.stage = "blocked" => r.blocked_stage \in Stages
  /\ Verifying(r) => r.consistency = "ten"

CategoriesOK(rows) ==
  /\ rows \in [Categories -> CategoryRow]
  /\ \A c \in Categories : CategoryOK(rows[c])

FocusOK(f, rows) ==
  /\ f \in Categories \cup {NoOne}
  /\ f # NoOne => rows[f].status # "done"

GatesOK(gs) == gs \in [Categories -> [RequiredGates -> Verdicts \cup {"none"}]]

\* Past review every unit of the category is done.
UnitsDone(un, rows) == \A u \in Units : Late(rows[CategoryOf[u]]) => un[u].status = "done"

\* Done categories have their gates.
GatesDone(rows, gs) ==
  \A c \in Categories : rows[c].status = "done" =>
    /\ \A g \in RequiredGates : gs[c][g] \in {"pass", "skip"}
    /\ rows[c].gate_status =
         IF \E g \in RequiredGates : gs[c][g] = "skip" THEN "unverified" ELSE "pass"

RowsInv ==
  /\ UnitsOK(unit, claim)
  /\ CategoriesOK(cat)
  /\ FocusOK(focus, cat)
  /\ GatesOK(gates)
  /\ UnitsDone(unit, cat)
  /\ GatesDone(cat, gates)

-----------------------------------------------------------------------------
(* Row updates *)

\* Rows without a claim: waiting for somebody, done, or blocked.
LEMMA WaitingOK ==
  ASSUME NEW r \in UnitRow, r.attempts < MaxRounds,
         r.stage \in {"pending", "translation", "review"}, r.status \in {"pending", "needs_fix"}
  PROVE  UnitOK(r, NoClaim)
<1>1. NoClaim \in ClaimRow /\ NoClaim.role = "none"
  BY DEF NoClaim, ClaimRow
<1>2. r.attempts \in Nat /\ MaxRounds \in Nat
  BY PolicyAssumption DEF UnitRow
<1>3. QED
  BY <1>1, <1>2 DEF UnitOK, PairedUnit, InProgress, ClaimMatches, IndependentRow, StruckOut

\* Rows without a claim that are done or blocked.
LEMMA SettledOK ==
  ASSUME NEW r \in UnitRow,
         \/ r.stage = "blocked" /\ r.status = "blocked"
         \/ /\ r.stage = "done" /\ r.status = "done" /\ r.score = "ten"
            /\ r.last_reviewer # NoOne
            /\ r.last_reviewer \notin {r.translated_by, r.fixed_by}
  PROVE  UnitOK(r, NoClaim)
<1>1. NoClaim \in ClaimRow /\ NoClaim.role = "none"
  BY DEF NoClaim, ClaimRow
<1>2. QED
  BY <1>1 DEF UnitOK, PairedUnit, InProgress, ClaimMatches, IndependentRow, StruckOut

\* A claimed unit is in progress and has rounds left.
LEMMA ClaimedUnit ==
  ASSUME NEW r, NEW k, UnitOK(r, k), k.role # "none"
  PROVE  /\ r \in UnitRow /\ k.role \in Roles
         /\ r.attempts \in Nat /\ r.attempts < MaxRounds
         /\ r.stage = ClaimingStage(k.role)
         /\ k.role \in {"reviewer", "fixer"} => k.owner \in Owners /\ Independent(r, k.role, k.owner)
BY PolicyAssumption
   DEF UnitOK, UnitRow, ClaimRow, ClaimMatches, IndependentRow, Independent, StruckOut

\* The row init writes for a unit (upsert_unit).
LEMMA NewUnitOK == NewUnit \in UnitRow /\ UnitOK(NewUnit, NoClaim)
<1>1. NewUnit \in UnitRow
  BY PolicyAssumption DEF NewUnit, UnitRow, UnitStages, Scores
<1>2. NewUnit.stage = "pending" /\ NewUnit.status = "pending" /\ NewUnit.attempts = 0
  BY DEF NewUnit
<1>3. QED
  BY <1>1, <1>2, WaitingOK, PolicyAssumption

\* The row unblock and reopen leave when a unit starts over.
LEMMA ResetUnitOK ==
  ASSUME NEW stage \in {"analysis", "translation"}
  PROVE  UnitOK(ResetUnit(stage), NoClaim)
<1>1. ResetUnit(stage) \in UnitRow
  BY PolicyAssumption DEF ResetUnit, NewUnit, UnitRow, UnitStages, Scores
<1>2. /\ ResetUnit(stage).stage \in {"pending", "translation"}
      /\ ResetUnit(stage).status = "pending"
      /\ ResetUnit(stage).attempts = 0
  BY DEF ResetUnit, NewUnit
<1>3. QED
  BY <1>1, <1>2, WaitingOK, PolicyAssumption

\* The row unblock and reopen leave when a unit is to be reviewed again.
LEMMA ReviewAgainOK ==
  ASSUME NEW r \in UnitRow
  PROVE  UnitOK(ReviewAgain(r), NoClaim)
<1> DEFINE m == [r EXCEPT !.stage = "review", !.status = "pending"]
<1> DEFINE n == [m EXCEPT !.blocked_stage = "none", !.score = "none"]
<1>a. m \in UnitRow
  BY DEF UnitRow, UnitStages
<1>b. n \in UnitRow
  <2> HIDE DEF m
  <2> QED BY <1>a DEF UnitRow, Scores
<1>c. [n EXCEPT !.attempts = 0] \in UnitRow
  <2> HIDE DEF n
  <2> QED BY <1>b, PolicyAssumption DEF UnitRow
<1>1. ReviewAgain(r) \in UnitRow
  BY <1>c DEF ReviewAgain
<1>2. /\ ReviewAgain(r).stage = "review"
      /\ ReviewAgain(r).status = "pending"
      /\ ReviewAgain(r).attempts = 0
  BY DEF ReviewAgain, UnitRow
<1>3. QED
  BY <1>1, <1>2, WaitingOK, PolicyAssumption

\* revert_unit_tx: a claimed unit falls back to a row that waits for the same role.
LEMMA RevertedOK ==
  ASSUME NEW r, NEW k, UnitOK(r, k), k.role # "none"
  PROVE  UnitOK(Reverted(r, k.role), NoClaim)
<1> DEFINE n == Reverted(r, k.role)
<1>1. r \in UnitRow /\ k.role \in Roles /\ r.attempts < MaxRounds
  BY ClaimedUnit
<1>2. /\ n.stage \in {"pending", "translation", "review"}
      /\ n.status \in {"pending", "needs_fix"}
      /\ n.attempts = r.attempts
  BY <1>1 DEF UnitRow, Reverted, RevertStage, RevertStatus, Roles
<1>3. n \in UnitRow
  BY <1>1 DEF UnitRow, Reverted, RevertStage, RevertStatus, Roles, UnitStages
<1>4. QED
  BY <1>1, <1>2, <1>3, WaitingOK

\* claim: a unit that waits for a role is in progress under a claim of that role
\* by an independent owner.
LEMMA OccupiedOK ==
  ASSUME NEW r, NEW role \in Roles, NEW o \in Owners, NEW left \in Int,
         UnitOK(r, NoClaim), Claimable(r, role), Independent(r, role, o)
  PROVE  UnitOK(Occupied(r, role), [role |-> role, owner |-> o, left |-> left])
BY NoOneAssumption, PolicyAssumption
   DEF UnitOK, UnitRow, ClaimRow, Occupied, Claimable, ClaimingStage, NoClaim, UnitStages, Roles,
       PairedUnit, InProgress, ClaimMatches, IndependentRow, Independent, StruckOut

\* A unit that is not done can be blocked wherever it is.
LEMMA BlockedUnitOK ==
  ASSUME NEW r \in UnitRow, PairedUnit(r), r.status # "done"
  PROVE  UnitOK(BlockedRow(r), NoClaim)
<1>1. r.stage \in UnitStages \ {"done"}
  BY DEF UnitRow, PairedUnit
<1>2. BlockedRow(r) \in UnitRow
  BY <1>1 DEF UnitRow, BlockedRow, NormalizeStage, UnitStages
<1>3. BlockedRow(r).stage = "blocked" /\ BlockedRow(r).status = "blocked"
  BY DEF BlockedRow, UnitRow
<1>4. QED
  BY <1>2, <1>3, SettledOK

\* What the four roles deliver.
LEMMA AnalyzedOK ==
  ASSUME NEW r, NEW k, UnitOK(r, k), k.role = "analyst"
  PROVE  UnitOK(Analyzed(r), NoClaim)
<1>1. r \in UnitRow /\ r.attempts < MaxRounds
  BY ClaimedUnit
<1>2. Analyzed(r) \in UnitRow
  BY <1>1 DEF Analyzed, UnitRow, UnitStages
<1>3. /\ Analyzed(r).stage = "translation" /\ Analyzed(r).status = "pending"
      /\ Analyzed(r).attempts = r.attempts
  BY <1>1 DEF Analyzed, UnitRow
<1>4. QED
  BY <1>1, <1>2, <1>3, WaitingOK

\* complete by the translator, who becomes translated_by.
LEMMA TranslatedOK ==
  ASSUME NEW r, NEW k, UnitOK(r, k), k.role = "translator", NEW o \in Owners
  PROVE  UnitOK(Translated(r, o), NoClaim)
<1>1. r \in UnitRow /\ r.attempts < MaxRounds
  BY ClaimedUnit
<1>2. Translated(r, o) \in UnitRow
  BY <1>1 DEF Translated, UnitRow, UnitStages
<1>3. /\ Translated(r, o).stage = "review" /\ Translated(r, o).status = "pending"
      /\ Translated(r, o).attempts = r.attempts
  BY <1>1 DEF Translated, UnitRow
<1>4. QED
  BY <1>1, <1>2, <1>3, WaitingOK

\* complete by the fixer, who becomes fixed_by; nobody has reviewed the fix yet.
LEMMA FixedOK ==
  ASSUME NEW r, NEW k, UnitOK(r, k), k.role = "fixer", NEW o \in Owners
  PROVE  UnitOK(Fixed(r, o), NoClaim)
<1>1. r \in UnitRow /\ r.attempts < MaxRounds
  BY ClaimedUnit
<1>2. Fixed(r, o) \in UnitRow
  BY <1>1 DEF Fixed, UnitRow, UnitStages
<1>3. /\ Fixed(r, o).stage = "review" /\ Fixed(r, o).status = "pending"
      /\ Fixed(r, o).attempts = r.attempts
  BY <1>1 DEF Fixed, UnitRow
<1>4. QED
  BY <1>1, <1>2, <1>3, WaitingOK

\* A review under an independent reviewer's claim, whatever its score.
LEMMA ReviewedRow ==
  ASSUME NEW r, NEW k, UnitOK(r, k), k.role = "reviewer", NEW score \in {"low", "ten"}
  PROVE  LET n == Reviewed(r, k.owner, score) IN
         /\ n \in UnitRow
         /\ n.attempts = r.attempts + 1 /\ n.attempts \in Nat
         /\ n.score = score
         /\ n.last_reviewer # NoOne
         /\ n.last_reviewer \notin {n.translated_by, n.fixed_by}
<1> DEFINE n == Reviewed(r, k.owner, score)
<1>1. /\ r \in UnitRow /\ r.attempts \in Nat /\ r.attempts < MaxRounds
      /\ k.owner \in Owners /\ Independent(r, "reviewer", k.owner)
  BY ClaimedUnit
<1>2. r.attempts + 1 \in 0..MaxRounds
  BY <1>1, PolicyAssumption
<1>3. n \in UnitRow
  BY <1>1, <1>2 DEF Reviewed, UnitRow, Scores
<1>4. /\ n.attempts = r.attempts + 1 /\ n.last_reviewer = k.owner /\ n.score = score
      /\ n.translated_by = r.translated_by /\ n.fixed_by = r.fixed_by
  BY <1>1 DEF Reviewed, UnitRow
<1>5. QED
  BY <1>1, <1>3, <1>4, NoOneAssumption DEF Independent

\* A passing review: the unit is done, by a reviewer who neither translated nor
\* fixed it.
LEMMA PassedOK ==
  ASSUME NEW r, NEW k, UnitOK(r, k), k.role = "reviewer"
  PROVE  UnitOK(Passed(Reviewed(r, k.owner, "ten")), NoClaim)
<1> DEFINE n == Reviewed(r, k.owner, "ten")
<1>1. n \in UnitRow /\ n.score = "ten" /\ n.last_reviewer # NoOne /\ n.last_reviewer \notin {n.translated_by, n.fixed_by}
  BY ReviewedRow
<1> HIDE DEF n
<1>2. Passed(n) \in UnitRow
  BY <1>1 DEF Passed, UnitRow, UnitStages
<1>3. /\ Passed(n).stage = "done" /\ Passed(n).status = "done" /\ Passed(n).score = n.score
      /\ Passed(n).last_reviewer = n.last_reviewer
      /\ Passed(n).translated_by = n.translated_by /\ Passed(n).fixed_by = n.fixed_by
  BY <1>1 DEF Passed, UnitRow
<1>4. UnitOK(Passed(n), NoClaim)
  BY <1>1, <1>2, <1>3, SettledOK
<1>5. QED
  BY <1>4 DEF n

\* A failing review with rounds left: the unit waits for a fixer.
LEMMA FailedOK ==
  ASSUME NEW r, NEW k, UnitOK(r, k), k.role = "reviewer"
  PROVE  LET n == Failed(Reviewed(r, k.owner, "low")) IN
         /\ n \in UnitRow /\ PairedUnit(n) /\ n.status # "done"
         /\ ~LastRound(r) => UnitOK(n, NoClaim)
<1> DEFINE m == Reviewed(r, k.owner, "low")
<1>1. m \in UnitRow /\ m.attempts = r.attempts + 1
  BY ReviewedRow
<1>2. r.attempts \in Nat
  BY ClaimedUnit
<1> HIDE DEF m
<1>3. Failed(m) \in UnitRow
  BY <1>1 DEF Failed, UnitRow, UnitStages
<1>4. Failed(m).stage = "review" /\ Failed(m).status = "needs_fix" /\ Failed(m).attempts = m.attempts
  BY <1>1 DEF Failed, UnitRow
<1>5. PairedUnit(Failed(m))
  BY <1>4 DEF PairedUnit, InProgress
<1>6. ASSUME ~LastRound(r) PROVE UnitOK(Failed(m), NoClaim)
  <2>1. Failed(m).attempts < MaxRounds
    BY <1>1, <1>2, <1>4, <1>6, PolicyAssumption DEF LastRound
  <2>2. QED
    BY <1>3, <1>4, <2>1, WaitingOK
<1>7. QED
  BY <1>3, <1>4, <1>5, <1>6 DEF m

\* The last round below the pass score.
LEMMA StrikeOutOK ==
  ASSUME NEW r, NEW k, UnitOK(r, k), k.role = "reviewer"
  PROVE  UnitOK(BlockedRow(Failed(Reviewed(r, k.owner, "low"))), NoClaim)
BY FailedOK, BlockedUnitOK

-----------------------------------------------------------------------------
(* Tables of units and claims *)

\* One row is rewritten and its claim goes.
LEMMA PutOK ==
  ASSUME NEW un, NEW cl, UnitsOK(un, cl), NEW u \in Units, NEW r, UnitOK(r, NoClaim)
  PROVE  UnitsOK([un EXCEPT ![u] = r], [cl EXCEPT ![u] = NoClaim])
BY DEF UnitsOK, UnitOK

\* One row is claimed.
LEMMA OccupyOK ==
  ASSUME NEW un, NEW cl, UnitsOK(un, cl), NEW u \in Units, NEW r, NEW k, UnitOK(r, k)
  PROVE  UnitsOK([un EXCEPT ![u] = r], [cl EXCEPT ![u] = k])
BY DEF UnitsOK, UnitOK

\* Claims expire, are released or are cut off by a block.
LEMMA RevertAllOK ==
  ASSUME NEW un, NEW cl, UnitsOK(un, cl),
         NEW S \in SUBSET Units, \A u \in S : Claimed(cl, u)
  PROVE  UnitsOK(RevertAll(un, cl, S), DropAll(cl, S))
<1>1. ASSUME NEW u \in Units
      PROVE  UnitOK(RevertAll(un, cl, S)[u], DropAll(cl, S)[u])
  <2>1. CASE u \in S
    <3>1. UnitOK(un[u], cl[u]) /\ cl[u].role # "none"
      BY <2>1 DEF UnitsOK, Claimed
    <3>2. UnitOK(Reverted(un[u], cl[u].role), NoClaim)
      BY <3>1, RevertedOK
    <3>3. QED
      BY <2>1, <3>2 DEF RevertAll, DropAll
  <2>2. CASE u \notin S
    BY <2>2 DEF UnitsOK, RevertAll, DropAll
  <2>3. QED
    BY <2>1, <2>2
<1>2. QED
  BY <1>1 DEF UnitsOK, UnitOK, RevertAll, DropAll

\* The recovery that opens a transaction.
LEMMA RecoveredOK ==
  ASSUME UnitsOK(unit, claim), NEW d
  PROVE  UnitsOK(RecoveredUnits(d), RecoveredClaims(d))
BY RevertAllOK DEF RecoveredUnits, RecoveredClaims, Due

\* Rows that are sent back: the category's, or a set to be reviewed again.
LEMMA ResetAllOK ==
  ASSUME NEW un, NEW cl, UnitsOK(un, cl), NEW c, NEW stage \in {"analysis", "translation"}
  PROVE  UnitsOK(ResetAll(un, c, stage), DropAll(cl, UnitsOf(c)))
<1>1. ASSUME NEW u \in Units
      PROVE  UnitOK(ResetAll(un, c, stage)[u], DropAll(cl, UnitsOf(c))[u])
  BY ResetUnitOK DEF ResetAll, DropAll, UnitsOK
<1>2. QED
  BY <1>1 DEF UnitsOK, UnitOK, ResetAll, DropAll

\* A set of units is to be reviewed again and its claims go.
LEMMA ReviewAllOK ==
  ASSUME NEW un, NEW cl, UnitsOK(un, cl), NEW S
  PROVE  UnitsOK(ReviewAll(un, S), DropAll(cl, S))
<1>1. ASSUME NEW u \in Units
      PROVE  UnitOK(ReviewAll(un, S)[u], DropAll(cl, S)[u])
  <2>1. CASE u \in S
    <3>1. un[u] \in UnitRow
      BY DEF UnitsOK
    <3>2. UnitOK(ReviewAgain(un[u]), NoClaim)
      BY <3>1, ReviewAgainOK
    <3>3. QED
      BY <2>1, <3>2 DEF ReviewAll, DropAll
  <2>2. CASE u \notin S
    BY <2>2 DEF UnitsOK, ReviewAll, DropAll
  <2>3. QED
    BY <2>1, <2>2
<1>2. QED
  BY <1>1 DEF UnitsOK, UnitOK, ReviewAll, DropAll

\* Dropping the claims of units that are done changes nothing.
LEMMA DropDoneOK ==
  ASSUME NEW un, NEW cl, UnitsOK(un, cl), NEW S, \A u \in S : un[u].status = "done"
  PROVE  UnitsOK(un, DropAll(cl, S))
<1>1. ASSUME NEW u \in Units
      PROVE  UnitOK(un[u], DropAll(cl, S)[u])
  <2>1. CASE u \in S
    <3>1. UnitOK(un[u], cl[u]) /\ un[u].status = "done"
      BY <2>1 DEF UnitsOK
    <3>2. NoClaim \in ClaimRow /\ NoClaim.role = "none"
      BY DEF NoClaim, ClaimRow
    <3>3. UnitOK(un[u], NoClaim)
      BY <3>1, <3>2 DEF UnitOK, ClaimMatches, IndependentRow
    <3>4. QED
      BY <2>1, <3>3 DEF DropAll
  <2>2. CASE u \notin S
    BY <2>2 DEF UnitsOK, DropAll
  <2>3. QED
    BY <2>1, <2>2
<1>2. QED
  BY <1>1 DEF UnitsOK, UnitOK, DropAll

-----------------------------------------------------------------------------
(* Category rows *)

\* A category row in work: its stage is one of the five.
Open(r) ==
  /\ r \in CategoryRow
  /\ r.stage \in Stages
  /\ r.status \in {"active", "needs_fix"}
  /\ r.stage = "verification" => r.consistency = "ten"

\* An open row is a well-formed category.
LEMMA OpenOK ==
  ASSUME NEW r, Open(r)
  PROVE  CategoryOK(r) /\ r.status # "done"
BY DEF Open, CategoryOK, CategoryRow, Stages, Verifying

\* A category that is not done can be blocked.
LEMMA BlockedCategoryOK ==
  ASSUME NEW r, CategoryOK(r), r.status # "done"
  PROVE  /\ CategoryOK(BlockedRow(r)) /\ BlockedRow(r).status = "blocked"
         /\ Late(BlockedRow(r)) => Late(r)
<1>1. r \in CategoryRow /\ r.stage \in Stages \cup {"pending", "blocked"}
  BY DEF CategoryOK, CategoryRow
<1>2. BlockedRow(r) \in CategoryRow
  BY <1>1 DEF CategoryRow, BlockedRow, NormalizeStage, Stages
<1>3. /\ BlockedRow(r).stage = "blocked" /\ BlockedRow(r).status = "blocked"
      /\ BlockedRow(r).consistency = r.consistency
      /\ BlockedRow(r).blocked_stage = IF r.stage = "blocked" THEN r.blocked_stage
                                                             ELSE NormalizeStage(r.stage)
  BY <1>1 DEF BlockedRow, CategoryRow
<1>4. /\ Verifying(BlockedRow(r)) => Verifying(r)
      /\ Late(BlockedRow(r)) => Late(r)
      /\ BlockedRow(r).blocked_stage \in Stages
  BY <1>1, <1>3 DEF CategoryOK, Verifying, Late, NormalizeStage, Stages
<1>5. QED
  BY <1>2, <1>3, <1>4 DEF CategoryOK

\* unblock and reopen put a category back to work.
LEMMA RestartedOK ==
  ASSUME NEW r, r \in CategoryRow, NEW stage \in Stages
  PROVE  /\ (stage = "verification" => r.consistency = "ten") =>
              Open(Restarted(r, stage)) /\ Restarted(r, stage).stage = stage
         /\ stage # "verification" => 
              Open(Wiped(Restarted(r, stage))) /\ Wiped(Restarted(r, stage)).stage = stage
<1> DEFINE n == Restarted(r, stage)
<1>1. n \in CategoryRow
  BY DEF Restarted, CategoryRow, Stages
<1>2. n.stage = stage /\ n.status = "active" /\ n.consistency = r.consistency
  BY DEF Restarted, CategoryRow
<1> HIDE DEF n
<1>3. Wiped(n) \in CategoryRow
  <2> DEFINE m == [n EXCEPT !.consistency = "none"]
  <2> DEFINE l == [m EXCEPT !.round = 0]
  <2>1. m \in CategoryRow
    BY <1>1 DEF CategoryRow, Scores
  <2>2. l \in CategoryRow
    <3> HIDE DEF m
    <3> QED BY <2>1, PolicyAssumption DEF CategoryRow
  <2>3. [l EXCEPT !.gate_status = "none"] \in CategoryRow
    <3> HIDE DEF l
    <3> QED BY <2>2 DEF CategoryRow
  <2>4. QED
    BY <2>3 DEF Wiped
<1>4. Wiped(n).stage = stage /\ Wiped(n).status = "active"
  BY <1>1, <1>2 DEF Wiped, CategoryRow
<1>5. QED
  BY <1>1, <1>2, <1>3, <1>4 DEF Open, n

\* init and advance start a category in analysis.
LEMMA ActivatedOK ==
  ASSUME NEW r \in CategoryRow
  PROVE  Open(Activated(r)) /\ ~Late(Activated(r))
BY DEF Open, Activated, CategoryRow, Stages, Late

-----------------------------------------------------------------------------
(* Steps that several operations share *)

\* A unit that is done has no claim, so that no recovery or revert touches it.
LEMMA RevertKeepsDone ==
  ASSUME NEW un, NEW cl, UnitsOK(un, cl), NEW S, \A u \in S : Claimed(cl, u),
         NEW u \in Units, un[u].status = "done"
  PROVE  cl[u].role = "none" /\ RevertAll(un, cl, S)[u] = un[u]
BY DEF UnitsOK, UnitOK, ClaimMatches, Claimed, RevertAll

\* recover_expired_tx leaves done units alone.
LEMMA RecoveryKeepsDone ==
  ASSUME RowsInv, NEW u \in Units, unit[u].status = "done", NEW d
  PROVE  RecoveredUnits(d)[u] = unit[u]
BY RevertKeepsDone DEF RowsInv, RecoveredUnits, Due

\* A step of units and claims alone that leaves done units done.
LEMMA UnitsStepOK ==
  ASSUME RowsInv, UnitsOK(unit', claim'), UNCHANGED <<focus, cat, gates>>,
         \A u \in Units : unit[u].status = "done" => unit'[u].status = "done"
  PROVE  RowsInv'
BY DEF RowsInv, UnitsDone

\* Blocking a category, on its own or at the end of its rounds.
LEMMA HaltOK ==
  ASSUME RowsInv, NEW c \in Categories,
         NEW row, CategoryOK(row), row.status # "done", Late(row) => Late(cat[c]),
         NEW un, NEW cl, UnitsOK(un, cl),
         \A u \in Units : unit[u].status = "done" => un[u].status = "done",
         NEW d, Halt(c, row, un, cl, d), gates' = gates
  PROVE  RowsInv'
<1> DEFINE live == UnitsOf(c) \cap LiveUnits(cl, d)
<1>1. live \in SUBSET Units /\ \A u \in live : Claimed(cl, u)
  BY DEF LiveUnits, Live
<1>2. unit' = RevertAll(un, cl, live) /\ claim' = DropAll(cl, live)
  BY DEF Halt
<1> HIDE DEF live
<1>3. UnitsOK(unit', claim')
  BY <1>1, <1>2, RevertAllOK
<1>4. \A u \in Units : unit[u].status = "done" => unit'[u].status = "done"
  BY <1>1, <1>2, RevertKeepsDone
<1>5. /\ CategoryOK(BlockedRow(row)) /\ BlockedRow(row).status = "blocked"
      /\ Late(BlockedRow(row)) => Late(cat[c])
  BY BlockedCategoryOK
<1>6. cat' = [cat EXCEPT ![c] = BlockedRow(row)] /\ cat \in [Categories -> CategoryRow]
  BY DEF Halt, RowsInv, CategoriesOK
<1>7. CategoriesOK(cat')
  BY <1>5, <1>6 DEF RowsInv, CategoriesOK, CategoryOK
<1>8. FocusOK(focus', cat')
  BY <1>5, <1>6 DEF Halt, RowsInv, FocusOK
<1>9. UnitsDone(unit', cat')
  BY <1>4, <1>5, <1>6, CategoryAssumption DEF RowsInv, UnitsDone
<1>10. GatesDone(cat', gates')
  BY <1>5, <1>6 DEF RowsInv, GatesDone
<1>11. QED
  BY <1>3, <1>7, <1>8, <1>9, <1>10 DEF RowsInv

\* Moving the focus to a category that starts again, pausing another one.
LEMMA ActivateOK ==
  ASSUME RowsInv, NEW c \in Categories, NEW row, Open(row),
         NEW force, NEW cl, NEW d, Activate(c, row, force, cl, d),
         UnitsOK(unit', claim'),
         \A u \in Units \ UnitsOf(c) : unit[u].status = "done" => unit'[u].status = "done",
         Late(row) => \A u \in UnitsOf(c) : unit'[u].status = "done",
         GatesOK(gates'), \A k \in Categories \ {c} : gates'[k] = gates[k]
  PROVE  RowsInv'
<1>1. CategoryOK(row) /\ row.status # "done"
  BY OpenOK
<1>2. PICK p \in Pausable(c, force, cl, d) :
        /\ cat' = [k \in Categories |->
                     IF k = c THEN row ELSE IF k = p THEN BlockedRow(cat[k]) ELSE cat[k]]
        /\ focus' = c
  BY DEF Activate
<1>3. p \in Categories => cat[p].status # "done"
  BY <1>2, NoOneAssumption DEF Pausable, Others
<1>4. ASSUME NEW k \in Categories
      PROVE  /\ CategoryOK(cat'[k])
             /\ k # c /\ Late(cat'[k]) => Late(cat[k])
             /\ cat'[k].status = "done" => k # c /\ cat'[k] = cat[k]
  <2>1. CategoryOK(cat[k])
    BY DEF RowsInv, CategoriesOK
  <2>2. CASE k = c
    BY <1>1, <1>2, <2>2
  <2>3. CASE k # c /\ k = p
    <3>1. cat'[k] = BlockedRow(cat[k])
      BY <1>2, <2>3
    <3>2. QED
      BY <1>3, <2>1, <2>3, <3>1, BlockedCategoryOK
  <2>4. CASE k # c /\ k # p
    BY <1>2, <2>1, <2>4
  <2>5. QED
    BY <2>2, <2>3, <2>4
<1>5. CategoriesOK(cat')
  BY <1>2, <1>4 DEF CategoriesOK, CategoryOK
<1>6. FocusOK(focus', cat')
  BY <1>1, <1>2 DEF FocusOK
<1>7. UnitsDone(unit', cat')
  <2> SUFFICES ASSUME NEW u \in Units, Late(cat'[CategoryOf[u]])
               PROVE  unit'[u].status = "done"
    BY DEF UnitsDone
  <2>1. CASE CategoryOf[u] = c
    BY <1>2, <2>1 DEF UnitsOf
  <2>2. CASE CategoryOf[u] # c
    <3>1. Late(cat[CategoryOf[u]])
      BY <1>4, <2>2, CategoryAssumption
    <3>2. QED
      BY <2>2, <3>1 DEF RowsInv, UnitsDone, UnitsOf
  <2>3. QED
    BY <2>1, <2>2
<1>8. GatesDone(cat', gates')
  BY <1>4 DEF RowsInv, GatesDone
<1>9. QED
  BY <1>5, <1>6, <1>7, <1>8 DEF RowsInv

\* A completion whose claim is still there finds the unit as it was claimed.
LEMMA HeldClaim ==
  ASSUME RowsInv, NEW u \in Units, NEW role \in Roles, NEW o, NEW d, Holds(u, role, o, d)
  PROVE  /\ UnitOK(unit[u], claim[u])
         /\ claim[u].role = role /\ claim[u].owner = o
<1>1. RecoveredClaims(d)[u] = IF u \in Due(d) THEN NoClaim ELSE claim[u]
  BY DEF RecoveredClaims, DropAll
<1>2. RecoveredClaims(d)[u].role = role /\ RecoveredClaims(d)[u].owner = o /\ role # "none"
  BY DEF Holds, Roles
<1>3. RecoveredClaims(d)[u] = claim[u]
  BY <1>1, <1>2 DEF NoClaim
<1>4. QED
  BY <1>2, <1>3 DEF RowsInv, UnitsOK

\* complete keeps the invariant when the row it delivers is well-formed.
LEMMA DeliverOK ==
  ASSUME RowsInv, NEW u \in Units, Claimed(claim, u),
         NEW r, UnitOK(r, NoClaim), NEW d, Deliver(u, r, d)
  PROVE  RowsInv'
<1>1. UnitsOK(RecoveredUnits(d), RecoveredClaims(d))
  BY RecoveredOK DEF RowsInv
<1>2. UnitsOK(unit', claim')
  BY <1>1, PutOK DEF Deliver
<1>3. ASSUME NEW v \in Units, unit[v].status = "done"
      PROVE  unit'[v].status = "done"
  <2>1. v # u
    BY <1>3 DEF RowsInv, UnitsOK, UnitOK, ClaimMatches, Claimed
  <2>2. unit'[v] = RecoveredUnits(d)[v]
    BY <1>1, <2>1 DEF Deliver, UnitsOK
  <2>3. QED
    BY <1>3, <2>2, RecoveryKeepsDone
<1>4. QED
  BY <1>2, <1>3, UnitsStepOK DEF Deliver

-----------------------------------------------------------------------------
(* The rows, step by step *)

\* The database init creates satisfies the invariant.
LEMMA RowsInit == Init => RowsInv
<1> SUFFICES ASSUME Init PROVE RowsInv
  OBVIOUS
<1>1. UnitsOK(unit, claim)
  <2>1. NoClaim \in ClaimRow
    BY DEF NoClaim, ClaimRow
  <2>2. QED
    BY <2>1, NewUnitOK DEF Init, UnitsOK
<1>2. NewCategory \in CategoryRow /\ CategoryOK(NewCategory)
  BY PolicyAssumption DEF NewCategory, CategoryRow, CategoryOK, Scores, Verifying
<1>3. CategoryOK(Activated(NewCategory)) /\ Activated(NewCategory).status # "done"
  BY <1>2, ActivatedOK, OpenOK
<1>4. CategoriesOK(cat)
  BY <1>2, <1>3 DEF Init, CategoriesOK, CategoryOK
<1>5. FocusOK(focus, cat)
  BY <1>3 DEF Init, FocusOK
<1>6. GatesOK(gates)
  BY DEF Init, GatesOK, NoGates
<1>7. ASSUME NEW c \in Categories PROVE ~Late(cat[c]) /\ cat[c].status # "done"
  BY ActivatedOK, <1>2, <1>3 DEF Init, Late, NewCategory
<1>8. UnitsDone(unit, cat) /\ GatesDone(cat, gates)
  BY <1>7, CategoryAssumption DEF UnitsDone, GatesDone
<1>9. QED
  BY <1>1, <1>4, <1>5, <1>6, <1>8 DEF RowsInv

\* claim keeps the invariant: the unit it takes is free after the recovery.
LEMMA RowsClaim ==
  ASSUME RowsInv, NEW u \in Units, NEW role \in Roles, NEW o \in Owners, NEW lease \in Leases,
         NEW d \in Delays, Claim(u, role, o, lease, d)
  PROVE  RowsInv'
<1> DEFINE un == RecoveredUnits(d)
<1> DEFINE cl == RecoveredClaims(d)
<1> DEFINE k == [role |-> role, owner |-> o, left |-> lease - d]
<1>1. UnitsOK(un, cl)
  BY RecoveredOK DEF RowsInv
<1>2. UnitOK(un[u], NoClaim)
  <2>1. UnitOK(un[u], cl[u])
    BY <1>1 DEF UnitsOK
  <2>2. ~Claimed(cl, u)
    BY DEF Claim, Live, RecoveredClaims, DropAll, Due, Claimed, NoClaim
  <2>3. NoClaim \in ClaimRow /\ NoClaim.role = "none"
    BY DEF NoClaim, ClaimRow
  <2>4. QED
    BY <2>1, <2>2, <2>3 DEF UnitOK, ClaimMatches, IndependentRow, Claimed
<1>3. lease - d \in Int
  BY TimeAssumption DEF Delays
<1>4. UnitOK(Occupied(un[u], role), k)
  BY <1>2, <1>3, OccupiedOK DEF Claim
<1>5. UnitsOK(unit', claim')
  BY <1>1, <1>4, OccupyOK DEF Claim
<1>6. ASSUME NEW v \in Units, unit[v].status = "done"
      PROVE  unit'[v].status = "done"
  <2>1. un[v].status = "done"
    BY <1>6, RecoveryKeepsDone
  <2>2. Claimable(un[u], role)
    BY DEF Claim
  <2>3. un[u].stage # "done" /\ un[u].status # "done"
    BY <1>2, <2>2 DEF Claimable, Roles, UnitOK, PairedUnit
  <2>4. unit'[v] = un[v]
    BY <1>1, <2>1, <2>3 DEF Claim, UnitsOK
  <2>5. QED
    BY <2>1, <2>4
<1>7. QED
  BY <1>5, <1>6, UnitsStepOK DEF Claim

\* The six outcomes of complete keep the invariant.
LEMMA RowsComplete ==
  ASSUME RowsInv, NEW u \in Units, NEW o \in Owners, NEW d \in Delays, Complete(u, o, d)
  PROVE  RowsInv'
<1>1. CASE CompleteAnalysis(u, o, d)
  <2>1. UnitOK(Analyzed(unit[u]), NoClaim)
    BY <1>1, HeldClaim, AnalyzedOK DEF CompleteAnalysis, Roles
  <2>2. QED
    BY <1>1, <2>1, HeldClaim, DeliverOK DEF Claimed, Roles, CompleteAnalysis
<1>2. CASE CompleteTranslation(u, o, d)
  <2>1. UnitOK(Translated(unit[u], o), NoClaim)
    BY <1>2, HeldClaim, TranslatedOK DEF CompleteTranslation, Roles
  <2>2. QED
    BY <1>2, <2>1, HeldClaim, DeliverOK DEF Claimed, Roles, CompleteTranslation
<1>3. CASE CompleteFix(u, o, d)
  <2>1. UnitOK(Fixed(unit[u], o), NoClaim)
    BY <1>3, HeldClaim, FixedOK DEF CompleteFix, Roles
  <2>2. QED
    BY <1>3, <2>1, HeldClaim, DeliverOK DEF Claimed, Roles, CompleteFix
<1>4. CASE ReviewPass(u, o, d)
  <2>1. UnitOK(Passed(Reviewed(unit[u], o, "ten")), NoClaim)
    BY <1>4, HeldClaim, PassedOK DEF ReviewPass, Roles
  <2>2. QED
    BY <1>4, <2>1, HeldClaim, DeliverOK DEF Claimed, Roles, ReviewPass
<1>5. CASE ReviewFail(u, o, d)
  <2>1. UnitOK(Failed(Reviewed(unit[u], o, "low")), NoClaim)
    BY <1>5, HeldClaim, FailedOK DEF ReviewFail, Roles
  <2>2. QED
    BY <1>5, <2>1, HeldClaim, DeliverOK DEF Claimed, Roles, ReviewFail
<1>6. CASE ReviewStrikeOut(u, o, d)
  <2> DEFINE c == CategoryOf[u]
  <2> DEFINE r == BlockedRow(Failed(Reviewed(unit[u], o, "low")))
  <2>1. UnitOK(r, NoClaim)
    BY <1>6, HeldClaim, StrikeOutOK DEF ReviewStrikeOut, Roles
  <2>2. UnitsOK(RecoveredUnits(d), RecoveredClaims(d))
    BY RecoveredOK DEF RowsInv
  <2>3. UnitsOK([RecoveredUnits(d) EXCEPT ![u] = r], [RecoveredClaims(d) EXCEPT ![u] = NoClaim])
    BY <2>1, <2>2, PutOK
  <2>4. c \in Categories /\ CategoryOK(cat[c]) /\ cat[c].status # "done"
    BY <1>6, CategoryAssumption, NoOneAssumption
       DEF ReviewStrikeOut, Holds, RowsInv, FocusOK, CategoriesOK
  <2>5. ASSUME NEW v \in Units, unit[v].status = "done"
        PROVE  [RecoveredUnits(d) EXCEPT ![u] = r][v].status = "done"
    <3>1. v # u
      BY <1>6, <2>5, HeldClaim DEF ReviewStrikeOut, Roles, UnitOK, ClaimMatches
    <3>2. QED
      BY <2>2, <2>5, <3>1, RecoveryKeepsDone DEF UnitsOK
  <2>6. QED
    BY <1>6, <2>3, <2>4, <2>5, HaltOK DEF ReviewStrikeOut
<1>7. QED
  BY <1>1, <1>2, <1>3, <1>4, <1>5, <1>6 DEF Complete

\* release keeps the invariant.
LEMMA RowsRelease ==
  ASSUME RowsInv, NEW u \in Units, NEW o \in Owners, NEW d \in Delays, Release(u, o, d)
  PROVE  RowsInv'
<1>1. Claimed(claim, u) /\ UnitsOK(unit, claim)
  BY DEF Release, HoldsLive, Live, RowsInv
<1>2. UnitsOK(unit', claim')
  BY <1>1, RevertAllOK DEF Release
<1>3. \A v \in Units : unit[v].status = "done" => unit'[v].status = "done"
  BY <1>1, RevertKeepsDone DEF Release
<1>4. QED
  BY <1>2, <1>3, UnitsStepOK DEF Release

\* heartbeat changes nothing but a lease.
LEMMA RowsHeartbeat ==
  ASSUME RowsInv, NEW u \in Units, NEW o \in Owners, NEW lease \in Leases, NEW d \in Delays,
         Heartbeat(u, o, lease, d)
  PROVE  RowsInv'
<1>1. claim[u] \in ClaimRow /\ UnitOK(unit[u], claim[u])
  BY DEF RowsInv, UnitsOK
<1>2. lease - d \in Int
  BY TimeAssumption DEF Delays
<1> DEFINE k == [claim[u] EXCEPT !.left = lease - d]
<1>3. k \in ClaimRow /\ k.role = claim[u].role /\ k.owner = claim[u].owner
  BY <1>1, <1>2 DEF ClaimRow
<1>4. UnitOK(unit[u], k)
  BY <1>1, <1>3 DEF UnitOK, ClaimMatches, IndependentRow
<1>5. UnitsOK([unit EXCEPT ![u] = unit[u]], [claim EXCEPT ![u] = k])
  BY <1>4, OccupyOK DEF RowsInv
<1>6. unit' = [unit EXCEPT ![u] = unit[u]] /\ claim' = [claim EXCEPT ![u] = k]
  BY DEF Heartbeat, RowsInv, UnitsOK
<1>7. QED
  BY <1>5, <1>6, UnitsStepOK DEF Heartbeat

\* recover keeps the invariant.
LEMMA RowsRecover ==
  ASSUME RowsInv, NEW d \in Delays, Recover(d)
  PROVE  RowsInv'
<1>1. UnitsOK(unit', claim')
  BY RecoveredOK DEF Recover, RowsInv
<1>2. \A v \in Units : unit[v].status = "done" => unit'[v].status = "done"
  BY RecoveryKeepsDone DEF Recover
<1>3. QED
  BY <1>1, <1>2, UnitsStepOK DEF Recover

\* Time changes nothing but leases.
LEMMA RowsTick ==
  ASSUME RowsInv, Tick
  PROVE  RowsInv'
<1>1. ASSUME NEW u \in Units
      PROVE  UnitOK(unit[u], claim'[u])
  <2>1. UnitOK(unit[u], claim[u]) /\ claim[u] \in ClaimRow
    BY DEF RowsInv, UnitsOK
  <2>2. claim[u].left - 1 \in Int
    BY <2>1 DEF ClaimRow
  <2>3. /\ claim'[u] \in ClaimRow
        /\ claim'[u].role = claim[u].role /\ claim'[u].owner = claim[u].owner
    BY <2>1, <2>2 DEF Tick, ClaimRow
  <2>4. QED
    BY <2>1, <2>3 DEF UnitOK, ClaimMatches, IndependentRow
<1>2. UnitsOK(unit', claim')
  BY <1>1 DEF Tick, RowsInv, UnitsOK, UnitOK
<1>3. QED
  BY <1>2, UnitsStepOK DEF Tick


\* advance within the five stages keeps the invariant: what it checks of the
\* units is what the next stage requires of them.
LEMMA RowsAdvance ==
  ASSUME RowsInv, NEW c \in Categories, NEW d \in Delays, Advance(c, d)
  PROVE  RowsInv'
<1> DEFINE r == [cat[c] EXCEPT !.stage = NextStage(@)]
<1>1. CategoryOK(cat[c]) /\ cat[c] \in CategoryRow
  BY DEF RowsInv, CategoriesOK
<1>2. /\ cat[c].stage \in {"analysis", "translation", "review", "consistency"}
      /\ cat[c].stage = "review" => \A u \in UnitsOf(c) : RecoveredUnits(d)[u].status = "done"
      /\ cat[c].stage = "consistency" => cat[c].consistency = "ten"
  BY DEF Advance, StageComplete
<1>3. /\ r \in CategoryRow /\ r.stage = NextStage(cat[c].stage)
      /\ r.status = cat[c].status /\ r.consistency = cat[c].consistency
  BY <1>1, <1>2 DEF CategoryRow, NextStage, Stages
<1>4. Open(r)
  BY <1>1, <1>2, <1>3 DEF Open, CategoryOK, CategoryRow, NextStage, Stages
<1>5. CategoryOK(r) /\ r.status # "done"
  BY <1>4, OpenOK
<1>6. Late(r) => Late(cat[c]) \/ cat[c].stage = "review"
  BY <1>2, <1>3 DEF Late, NextStage
<1>7. cat' = [cat EXCEPT ![c] = r] /\ UNCHANGED <<focus, gates>>
  BY DEF Advance
<1> HIDE DEF r
<1>8. CategoriesOK(cat') /\ FocusOK(focus', cat')
  BY <1>5, <1>7 DEF RowsInv, CategoriesOK, CategoryOK, FocusOK
<1>9. UnitsOK(unit', claim')
  BY RecoveredOK DEF Advance, RowsInv
<1>10. UnitsDone(unit', cat')
  <2> SUFFICES ASSUME NEW u \in Units, Late(cat'[CategoryOf[u]])
               PROVE  unit'[u].status = "done"
    BY DEF UnitsDone
  <2>1. CASE CategoryOf[u] = c /\ cat[c].stage = "review"
    BY <1>2, <2>1 DEF UnitsOf, Advance
  <2>2. CASE ~(CategoryOf[u] = c /\ cat[c].stage = "review")
    <3>1. Late(cat[CategoryOf[u]])
      BY <1>6, <1>7, <2>2, CategoryAssumption DEF RowsInv, CategoriesOK
    <3>2. unit[u].status = "done"
      BY <3>1 DEF RowsInv, UnitsDone
    <3>3. QED
      BY <3>2, RecoveryKeepsDone DEF Advance
  <2>3. QED
    BY <2>1, <2>2
<1>11. GatesDone(cat', gates')
  BY <1>5, <1>7 DEF RowsInv, GatesDone, CategoriesOK
<1>12. QED
  BY <1>7, <1>8, <1>9, <1>10, <1>11 DEF RowsInv

\* advance out of verification keeps the invariant: a category is done only with
\* accepted gates, and the next one opens in analysis.
LEMMA RowsFinish ==
  ASSUME RowsInv, NEW c \in Categories, NEW allow \in BOOLEAN, NEW d \in Delays,
         Finish(c, allow, d)
  PROVE  RowsInv'
<1> DEFINE r == [cat[c] EXCEPT !.stage = "done", !.status = "done", !.gate_status = Verdict(c)]
<1> DEFINE rows == [cat EXCEPT ![c] = r]
<1>1. CategoryOK(cat[c]) /\ cat[c] \in CategoryRow /\ cat[c].stage = "verification"
  BY DEF RowsInv, CategoriesOK, Finish
<1>2. /\ r \in CategoryRow /\ r.stage = "done" /\ r.status = "done"
      /\ r.consistency = cat[c].consistency /\ r.gate_status = Verdict(c)
  BY <1>1 DEF CategoryRow, Verdict
<1> HIDE DEF r
<1>3. CategoryOK(r)
  BY <1>1, <1>2 DEF CategoryOK, Verifying
<1>4. CategoriesOK(rows)
  BY <1>3 DEF RowsInv, CategoriesOK, CategoryOK
<1>5. UnitsDone(unit, rows)
  BY <1>1, <1>2 DEF RowsInv, UnitsDone, Late, CategoriesOK
<1>6. GatesDone(rows, gates)
  <2>1. \A g \in RequiredGates : gates[c][g] \in {"pass", "skip"}
    BY DEF Finish, GatesAccepted
  <2>2. r.gate_status = IF \E g \in RequiredGates : gates[c][g] = "skip" THEN "unverified" ELSE "pass"
    BY <1>2, <2>1 DEF Verdict
  <2>3. QED
    BY <2>1, <2>2 DEF RowsInv, GatesDone, CategoriesOK
<1> HIDE DEF rows
<1>7. ASSUME FirstOpen(rows) = {}, focus' = NoOne, cat' = rows
      PROVE  /\ CategoriesOK(cat') /\ FocusOK(focus', cat')
             /\ UnitsDone(unit, cat') /\ GatesDone(cat', gates)
  BY <1>4, <1>5, <1>6, <1>7 DEF FocusOK
<1>8. ASSUME NEW n \in FirstOpen(rows), focus' = n,
             cat' = IF rows[n].status = "pending" THEN [rows EXCEPT ![n] = Activated(@)] ELSE rows
      PROVE  /\ CategoriesOK(cat') /\ FocusOK(focus', cat')
             /\ UnitsDone(unit, cat') /\ GatesDone(cat', gates)
  <2>1. n \in Categories /\ rows[n].status # "done" /\ rows[n] \in CategoryRow
    BY <1>4 DEF FirstOpen, CategoriesOK
  <2>2. /\ CategoryOK(Activated(rows[n])) /\ Activated(rows[n]).status # "done"
        /\ ~Late(Activated(rows[n]))
    BY <2>1, ActivatedOK, OpenOK
  <2>3. CategoriesOK(cat') /\ FocusOK(focus', cat')
    BY <1>4, <1>8, <2>1, <2>2 DEF CategoriesOK, CategoryOK, FocusOK
  <2>4. UnitsDone(unit, cat')
    BY <1>4, <1>5, <1>8, <2>1, <2>2, CategoryAssumption DEF UnitsDone, CategoriesOK
  <2>5. GatesDone(cat', gates)
    BY <1>4, <1>6, <1>8, <2>1, <2>2 DEF GatesDone, CategoriesOK
  <2>6. QED
    BY <2>3, <2>4, <2>5
<1>9. /\ CategoriesOK(cat') /\ FocusOK(focus', cat')
      /\ UnitsDone(unit, cat') /\ GatesDone(cat', gates)
  BY <1>7, <1>8 DEF Finish, rows, r
<1>10. UnitsOK(unit', claim') /\ gates' = gates
  BY RecoveredOK DEF Finish, RowsInv
<1>11. UnitsDone(unit', cat')
  BY <1>9, RecoveryKeepsDone DEF UnitsDone, Finish
<1>12. QED
  BY <1>9, <1>10, <1>11 DEF RowsInv

\* record-consistency keeps the invariant, halting the category at its last round.
LEMMA RowsRecordConsistency ==
  ASSUME RowsInv, NEW c \in Categories, NEW score \in {"low", "ten"}, NEW d \in Delays,
         RecordConsistency(c, score, d)
  PROVE  RowsInv'
<1> DEFINE row == [cat[c] EXCEPT !.round = @ + 1, !.consistency = score]
<1> DEFINE r == [row EXCEPT !.status = IF score = "ten" THEN "active" ELSE "needs_fix"]
<1>1. cat[c] \in CategoryRow /\ CategoryOK(cat[c])
  BY DEF RowsInv, CategoriesOK
<1>2. cat[c].round + 1 \in 0..MaxRounds
  BY <1>1, PolicyAssumption DEF RecordConsistency, CategoryRow
<1>3. cat[c].stage = "consistency" /\ cat[c].status \in {"active", "needs_fix"}
  BY <1>1 DEF RecordConsistency, CategoryOK, CategoryRow
<1>4. /\ row \in CategoryRow
      /\ row.stage = "consistency" /\ row.status \in {"active", "needs_fix"}
  BY <1>1, <1>2, <1>3 DEF CategoryRow, Scores
<1> HIDE DEF row
<1>5. Open(row) /\ Open(r) /\ r.stage = "consistency"
  BY <1>4 DEF Open, CategoryRow, Stages
<1>6. CategoryOK(row) /\ row.status # "done" /\ CategoryOK(r) /\ r.status # "done"
  BY <1>5, OpenOK
<1>7. UnitsOK(RecoveredUnits(d), RecoveredClaims(d))
  BY RecoveredOK DEF RowsInv
<1>8. Late(cat[c])
  BY <1>3 DEF Late
<1>9. CASE score # "ten" /\ row.round >= MaxRounds
  <2>1. Halt(c, row, RecoveredUnits(d), RecoveredClaims(d), d) /\ gates' = gates
    BY <1>9 DEF RecordConsistency, row
  <2>2. QED
    BY <1>6, <1>7, <1>8, <2>1, RecoveryKeepsDone, HaltOK
<1>10. CASE ~(score # "ten" /\ row.round >= MaxRounds)
  <2>1. /\ cat' = [cat EXCEPT ![c] = r]
        /\ unit' = RecoveredUnits(d) /\ claim' = RecoveredClaims(d)
        /\ focus' = focus /\ gates' = gates
    BY <1>10 DEF RecordConsistency, row
  <2> HIDE DEF r
  <2>2. CategoriesOK(cat') /\ FocusOK(focus', cat')
    BY <1>6, <2>1 DEF RowsInv, CategoriesOK, CategoryOK, FocusOK
  <2>3. UnitsDone(unit', cat')
    BY <1>8, <2>1, RecoveryKeepsDone, CategoryAssumption DEF RowsInv, UnitsDone, CategoriesOK
  <2>4. GatesDone(cat', gates')
    BY <1>6, <2>1 DEF RowsInv, GatesDone, CategoriesOK
  <2>5. QED
    BY <1>7, <2>1, <2>2, <2>3, <2>4 DEF RowsInv
<1>11. QED
  BY <1>9, <1>10

\* gate writes only to a category in verification, so never to one that is done.
LEMMA RowsRecordGate ==
  ASSUME RowsInv, NEW c \in Categories, NEW g \in RequiredGates, NEW verdict \in Verdicts,
         RecordGate(c, g, verdict)
  PROVE  RowsInv'
<1>1. cat[c].stage = "verification" /\ cat[c].status # "done"
  BY DEF RecordGate, RowsInv, CategoriesOK, CategoryOK
<1>2. GatesOK(gates')
  BY DEF RecordGate, RowsInv, GatesOK
<1>3. GatesDone(cat', gates')
  BY <1>1 DEF RecordGate, RowsInv, GatesDone, GatesOK
<1>4. QED
  BY <1>2, <1>3 DEF RecordGate, RowsInv

\* Gates of a category that goes back are forgotten.
LEMMA GatesForgotten ==
  ASSUME RowsInv, NEW c \in Categories
  PROVE  /\ GatesOK([gates EXCEPT ![c] = NoGates])
         /\ \A k \in Categories \ {c} : [gates EXCEPT ![c] = NoGates][k] = gates[k]
BY DEF RowsInv, GatesOK, NoGates

\* block of a unit keeps the invariant.
LEMMA RowsBlockUnit ==
  ASSUME RowsInv, NEW u \in Units, NEW d \in Delays, BlockUnit(u, d)
  PROVE  RowsInv'
<1> DEFINE c == CategoryOf[u]
<1> DEFINE un == [unit EXCEPT ![u] = BlockedRow(unit[u])]
<1>1. UnitOK(unit[u], claim[u]) /\ unit[u].status # "done" /\ c \in Categories
  BY CategoryAssumption DEF RowsInv, UnitsOK, BlockUnit
<1>2. UnitOK(BlockedRow(unit[u]), NoClaim)
  BY <1>1, BlockedUnitOK DEF UnitOK
<1>3. UnitsOK(un, [claim EXCEPT ![u] = NoClaim])
  BY <1>2, PutOK DEF RowsInv
<1>4. DropAll(claim, {u}) = [claim EXCEPT ![u] = NoClaim]
  BY DEF DropAll, RowsInv, UnitsOK
<1>5. CategoryOK(cat[c]) /\ cat[c].status # "done"
  BY <1>1 DEF RowsInv, CategoriesOK, CategoryOK, UnitsDone, Late
<1>6. \A v \in Units : unit[v].status = "done" => un[v].status = "done"
  BY <1>1 DEF RowsInv, UnitsOK
<1>7. Halt(c, cat[c], un, DropAll(claim, {u}), d) /\ gates' = gates
  BY DEF BlockUnit
<1> HIDE DEF un, c
<1>8. QED
  BY <1>1, <1>3, <1>4, <1>5, <1>6, <1>7, HaltOK

\* block of a category keeps the invariant.
LEMMA RowsBlockCategory ==
  ASSUME RowsInv, NEW c \in Categories, NEW d \in Delays, BlockCategory(c, d)
  PROVE  RowsInv'
BY HaltOK DEF BlockCategory, RowsInv, CategoriesOK

\* unblock of a unit to analysis or translation resets its category.
LEMMA RowsUnblockUnitReset ==
  ASSUME RowsInv, NEW u \in Units, NEW stage \in {"analysis", "translation"},
         NEW force \in Forces, NEW d \in Delays, UnblockUnitReset(u, stage, force, d)
  PROVE  RowsInv'
<1> DEFINE c == CategoryOf[u]
<1> DEFINE row == Wiped(Restarted(cat[c], stage))
<1> DEFINE cl == DropAll(RecoveredClaims(d), UnitsOf(c))
<1>1. c \in Categories /\ cat[c] \in CategoryRow
  BY CategoryAssumption DEF RowsInv, CategoriesOK
<1>2. Open(row) /\ ~Late(row)
  BY <1>1, RestartedOK DEF Stages, Late
<1>3. UnitsOK(unit', claim')
  BY RecoveredOK, ResetAllOK DEF RowsInv, UnblockUnitReset
<1>4. \A v \in Units \ UnitsOf(c) : unit[v].status = "done" => unit'[v].status = "done"
  BY RecoveryKeepsDone DEF UnblockUnitReset, ResetAll
<1>5. GatesOK(gates') /\ \A k \in Categories \ {c} : gates'[k] = gates[k]
  BY <1>1, GatesForgotten DEF UnblockUnitReset
<1>6. Activate(c, row, force, cl, d)
  BY DEF UnblockUnitReset
<1> HIDE DEF c, row, cl
<1>7. QED
  BY <1>1, <1>2, <1>3, <1>4, <1>5, <1>6, ActivateOK

\* unblock of a unit to review keeps the invariant.
LEMMA RowsUnblockUnitReview ==
  ASSUME RowsInv, NEW u \in Units, NEW force \in Forces, NEW d \in Delays,
         UnblockUnitReview(u, force, d)
  PROVE  RowsInv'
<1> DEFINE c == CategoryOf[u]
<1> DEFINE row == Restarted(cat[c], "review")
<1> DEFINE cl == DropAll(RecoveredClaims(d), {u})
<1>1. c \in Categories /\ cat[c] \in CategoryRow
  BY CategoryAssumption DEF RowsInv, CategoriesOK
<1>2. Open(row) /\ ~Late(row)
  BY <1>1, RestartedOK DEF Stages, Late
<1>3. UnitsOK(unit', claim')
  BY RecoveredOK, ReviewAllOK DEF RowsInv, UnblockUnitReview
<1>4. \A v \in Units \ UnitsOf(c) : unit[v].status = "done" => unit'[v].status = "done"
  BY RecoveryKeepsDone DEF UnblockUnitReview, ReviewAll, UnitsOf
<1>5. GatesOK(gates') /\ \A k \in Categories \ {c} : gates'[k] = gates[k]
  BY DEF UnblockUnitReview, RowsInv
<1>6. Activate(c, row, force, cl, d)
  BY DEF UnblockUnitReview
<1> HIDE DEF c, row, cl
<1>7. QED
  BY <1>1, <1>2, <1>3, <1>4, <1>5, <1>6, ActivateOK

\* unblock of a category to any stage keeps the invariant.
LEMMA RowsUnblockCategory ==
  ASSUME RowsInv, NEW c \in Categories, NEW stage \in Stages, NEW force \in Forces,
         NEW d \in Delays, UnblockCategory(c, stage, force, d)
  PROVE  RowsInv'
<1> DEFINE un == RecoveredUnits(d)
<1> DEFINE struck == BlockedUnits(c, un)
<1> DEFINE cl == DropAll(RecoveredClaims(d), IF stage = "review" THEN struck ELSE UnitsOf(c))
<1> DEFINE row == IF stage = "verification" THEN Restarted(cat[c], stage)
                                            ELSE Wiped(Restarted(cat[c], stage))
<1>1. cat[c] \in CategoryRow
  BY DEF RowsInv, CategoriesOK
<1>2. Open(row) /\ row.stage = stage
  BY <1>1, RestartedOK DEF UnblockCategory
<1>3. UnitsOK(un, RecoveredClaims(d))
  BY RecoveredOK DEF RowsInv
<1>4. /\ claim' = cl
      /\ Activate(c, row, force, cl, d)
      /\ gates' = [gates EXCEPT ![c] = NoGates]
  BY DEF UnblockCategory
<1>5. /\ UnitsOK(unit', claim')
      /\ \A v \in Units \ UnitsOf(c) : unit'[v] = un[v]
      /\ Late(row) => \A v \in UnitsOf(c) : unit'[v].status = "done"
  <2>1. CASE stage \in {"analysis", "translation"}
    <3>1. unit' = ResetAll(un, c, stage) /\ claim' = DropAll(RecoveredClaims(d), UnitsOf(c))
      BY <2>1 DEF UnblockCategory
    <3>2. ~Late(row)
      BY <1>2, <2>1 DEF Late
    <3>3. QED
      BY <1>3, <2>1, <3>1, <3>2, ResetAllOK DEF ResetAll
  <2>2. CASE stage = "review"
    <3>1. unit' = ReviewAll(un, struck) /\ claim' = DropAll(RecoveredClaims(d), struck)
      BY <2>2 DEF UnblockCategory
    <3>2. ~Late(row)
      BY <1>2, <2>2 DEF Late
    <3>3. QED
      BY <1>3, <3>1, <3>2, ReviewAllOK DEF ReviewAll, BlockedUnits
  <2>3. CASE stage \in {"consistency", "verification"}
    <3>1. /\ unit' = un /\ claim' = DropAll(RecoveredClaims(d), UnitsOf(c))
          /\ \A v \in UnitsOf(c) : un[v].status = "done"
      BY <2>3 DEF UnblockCategory
    <3>2. QED
      BY <1>3, <3>1, DropDoneOK
  <2>4. QED
    BY <2>1, <2>2, <2>3 DEF Stages
<1>6. \A v \in Units \ UnitsOf(c) : unit[v].status = "done" => unit'[v].status = "done"
  BY <1>5, RecoveryKeepsDone
<1>7. GatesOK(gates') /\ \A k \in Categories \ {c} : gates'[k] = gates[k]
  BY <1>4, GatesForgotten
<1> HIDE DEF row, cl, un, struck
<1>8. QED
  BY <1>2, <1>4, <1>5, <1>6, <1>7, ActivateOK

\* reopen keeps the invariant.
LEMMA RowsReopen ==
  ASSUME RowsInv, NEW c \in Categories, NEW force \in Forces, NEW d \in Delays,
         Reopen(c, force, d)
  PROVE  RowsInv'
<1> DEFINE un == RecoveredUnits(d)
<1> DEFINE from == cat[c].blocked_stage
<1> DEFINE stage == IF cat[c].status = "blocked" /\ from \in {"analysis", "translation"}
                    THEN from ELSE "review"
<1> DEFINE row == Wiped(Restarted(cat[c], stage))
<1>1. cat[c] \in CategoryRow /\ stage \in {"analysis", "translation", "review"}
  BY DEF RowsInv, CategoriesOK
<1>2. Open(row) /\ ~Late(row)
  BY <1>1, RestartedOK DEF Stages, Late
<1>3. /\ Activate(c, row, force, RecoveredClaims(d), d)
      /\ unit' = IF stage = "review" THEN ReviewAll(un, UnitsOf(c)) ELSE ResetAll(un, c, stage)
      /\ claim' = DropAll(RecoveredClaims(d), UnitsOf(c))
      /\ gates' = [gates EXCEPT ![c] = NoGates]
  BY DEF Reopen
<1> HIDE DEF row, stage
<1>4. UnitsOK(unit', claim')
  BY <1>1, <1>3, RecoveredOK, ReviewAllOK, ResetAllOK DEF RowsInv
<1>5. \A v \in Units \ UnitsOf(c) : unit[v].status = "done" => unit'[v].status = "done"
  BY <1>3, RecoveryKeepsDone DEF ReviewAll, ResetAll
<1>6. GatesOK(gates') /\ \A k \in Categories \ {c} : gates'[k] = gates[k]
  BY <1>3, GatesForgotten
<1>7. QED
  BY <1>2, <1>3, <1>4, <1>5, <1>6, ActivateOK

\* Every step of agents, orchestrator, operators and clock keeps the invariant.
LEMMA RowsNext == RowsInv /\ [Next]_vars => RowsInv'
<1> SUFFICES ASSUME RowsInv, [Next]_vars PROVE RowsInv'
  OBVIOUS
<1>1. CASE Agent
  BY <1>1, RowsClaim, RowsComplete, RowsRelease, RowsHeartbeat DEF Agent
<1>2. CASE Orchestrator
  BY <1>2, RowsAdvance, RowsFinish, RowsRecordConsistency, RowsRecordGate, RowsRecover DEF Orchestrator
<1>3. CASE OperatorOnUnit
  BY <1>3, RowsBlockUnit, RowsUnblockUnitReset, RowsUnblockUnitReview DEF OperatorOnUnit
<1>4. CASE OperatorOnCategory
  BY <1>4, RowsBlockCategory, RowsUnblockCategory, RowsReopen DEF OperatorOnCategory
<1>5. CASE Tick
  BY <1>5, RowsTick
<1>6. CASE UNCHANGED vars
  BY <1>6 DEF vars, RowsInv
<1>7. QED
  BY <1>1, <1>2, <1>3, <1>4, <1>5, <1>6 DEF Next

\* The row invariant holds of every reachable database: whatever the order of the
\* store's operations, the four tables stay consistent with one another.
THEOREM Rows == Spec => []RowsInv
BY RowsInit, RowsNext, PTL DEF Spec

\* Every table always holds rows that Store::validate's type checks accept; in
\* particular attempts and rounds never pass max_rounds.
THEOREM Typing == Spec => []TypeOK
<1>1. RowsInv => TypeOK
  BY DEF RowsInv, UnitsOK, CategoriesOK, FocusOK, GatesOK, TypeOK
<1>2. QED
  BY <1>1, Rows, PTL

\* Always a unit is in progress exactly when the claims table has a row for it, in
\* the role of its stage: no operation writes one table and forgets the other.
THEOREM Matching == Spec => []ClaimsMatchUnits
<1>1. RowsInv => ClaimsMatchUnits
  BY DEF RowsInv, UnitsOK, UnitOK, ClaimsMatchUnits
<1>2. QED
  BY <1>1, Rows, PTL

\* Always the reviewer of a unit, present or past, is neither its translator nor
\* its fixer, and nobody fixes what they reviewed (claim's independence rules).
THEOREM Independence == Spec => []ReviewerIndependence
<1>1. RowsInv => ReviewerIndependence
  BY DEF RowsInv, UnitsOK, UnitOK, ReviewerIndependence
<1>2. QED
  BY <1>1, Rows, PTL

\* Always a unit that has used up max_rounds is done or blocked (complete's third
\* strike): the agents get no further round.
THEOREM Strikes == Spec => []ThreeStrikes
<1>1. RowsInv => ThreeStrikes
  BY DEF RowsInv, UnitsOK, UnitOK, ThreeStrikes
<1>2. QED
  BY <1>1, Rows, PTL

\* The ranks of the stages.
LEMMA Ranks ==
  /\ Rank("pending") = 0 /\ Rank("analysis") = 0 /\ Rank("translation") = 1
  /\ Rank("review") = 2 /\ Rank("consistency") = 3 /\ Rank("verification") = 4
  /\ Rank("done") = 5
<1>1. /\ StageOrder("analysis") = 0 /\ StageOrder("translation") = 1 /\ StageOrder("review") = 2
      /\ StageOrder("consistency") = 3 /\ StageOrder("verification") = 4
  BY DEF StageOrder
<1>2. QED
  BY <1>1 DEF Rank

\* Always a category past review has only units done at the pass score, past
\* consistency its verdict, and done its gates (advance's checks), through every
\* block, unblock and reopen.
THEOREM Verified == Spec => []VerifiedAfterReview
<1>1. ASSUME RowsInv, NEW c \in Categories
      PROVE  /\ Progress(c) >= 3 => Late(cat[c])
             /\ Progress(c) >= 4 => Verifying(cat[c])
             /\ Progress(c) = 5 => cat[c].status = "done"
  <2>1. CategoryOK(cat[c]) /\ cat[c] \in CategoryRow
    BY <1>1 DEF RowsInv, CategoriesOK
  <2> DEFINE s == IF cat[c].stage = "blocked" THEN cat[c].blocked_stage ELSE cat[c].stage
  <2>2. s \in Stages \cup {"pending", "done"}
    BY <2>1 DEF CategoryOK, CategoryRow
  <2>3. /\ Progress(c) >= 3 => s \in {"consistency", "verification", "done"}
        /\ Progress(c) >= 4 => s \in {"verification", "done"}
        /\ Progress(c) = 5 => s = "done"
    BY <2>2, Ranks DEF Progress, Stages
  <2>4. QED
    BY <2>1, <2>3 DEF CategoryOK, CategoryRow, Late, Verifying, Stages
<1>2. RowsInv => VerifiedAfterReview
  <2> SUFFICES ASSUME RowsInv, NEW c \in Categories
      PROVE  /\ Progress(c) >= 3 =>
                  \A u \in UnitsOf(c) : unit[u].status = "done" /\ unit[u].score = "ten"
             /\ Progress(c) >= 4 => cat[c].consistency = "ten"
             /\ Progress(c) = 5 =>
                  /\ \A g \in RequiredGates : gates[c][g] \in {"pass", "skip"}
                  /\ cat[c].gate_status =
                       IF \E g \in RequiredGates : gates[c][g] = "skip" THEN "unverified" ELSE "pass"
    BY DEF VerifiedAfterReview
  <2>1. Late(cat[c]) => \A u \in UnitsOf(c) : unit[u].status = "done" /\ unit[u].score = "ten"
    BY DEF RowsInv, UnitsDone, UnitsOf, UnitsOK, UnitOK
  <2>2. Verifying(cat[c]) => cat[c].consistency = "ten"
    BY DEF RowsInv, CategoriesOK, CategoryOK
  <2>3. QED
    BY <1>1, <2>1, <2>2 DEF RowsInv, GatesDone
<1>3. QED
  BY <1>2, Rows, PTL

-----------------------------------------------------------------------------
(* The limit on claims *)

\* A step that adds no claim keeps the limit.
LEMMA NoMoreClaims ==
  ASSUME ConcurrencyLimit, \A u \in Units : Claimed(claim', u) => Claimed(claim, u)
  PROVE  ConcurrencyLimit'
<1> DEFINE S == {u \in Units : Claimed(claim, u)}
<1> DEFINE T == {u \in Units : Claimed(claim', u)}
<1>1. IsFiniteSet(S) /\ T \in SUBSET S
  BY FiniteAssumption, FS_Subset
<1>2. Cardinality(T) <= Cardinality(S) /\ Cardinality(S) \in Nat /\ Cardinality(T) \in Nat
  BY <1>1, FS_Subset, FS_CardinalityType
<1>3. Cardinality(S) <= MaxAgents
  BY DEF ConcurrencyLimit
<1>4. Cardinality(T) <= MaxAgents
  BY <1>2, <1>3, PolicyAssumption
<1>5. QED
  BY <1>4 DEF ConcurrencyLimit, Claimed

\* After the recovery every claim left is live for the same sample of the
\* clock, so that the claims admitted are all the claims there are.
LEMMA ClaimWithinLimit ==
  ASSUME RowsInv, NEW u \in Units, NEW role \in Roles, NEW o \in Owners, NEW lease \in Leases,
         NEW d \in Delays, Claim(u, role, o, lease, d)
  PROVE  ConcurrencyLimit'
<1> DEFINE cl == RecoveredClaims(d)
<1> DEFINE S == LiveUnits(cl, d)
<1> DEFINE T == {v \in Units : Claimed(claim', v)}
<1>1. cl \in [Units -> ClaimRow]
  BY RecoveredOK DEF RowsInv, UnitsOK
<1>2. \A v \in Units : Claimed(cl, v) => v \in S
  BY DEF RecoveredClaims, DropAll, Due, LiveUnits, Live, Claimed, NoClaim
<1>3. T \subseteq S \cup {u}
  BY <1>1, <1>2 DEF Claim, Claimed
<1>4. IsFiniteSet(S)
  BY FiniteAssumption, FS_Subset DEF LiveUnits
<1>5. /\ IsFiniteSet(S \cup {u})
      /\ Cardinality(S \cup {u}) <= Cardinality(S) + 1
      /\ Cardinality(S) \in Nat
  <2> HIDE DEF S
  <2>1. Cardinality(S) \in Nat
    BY <1>4, FS_CardinalityType
  <2>2. /\ IsFiniteSet(S \cup {u})
        /\ Cardinality(S \cup {u}) = IF u \in S THEN Cardinality(S) ELSE Cardinality(S) + 1
    BY <1>4, FS_AddElement
  <2>3. QED
    BY <2>1, <2>2
<1>6. /\ Cardinality(T) <= Cardinality(S \cup {u})
      /\ Cardinality(T) \in Nat /\ Cardinality(S \cup {u}) \in Nat
  BY <1>3, <1>5, FS_Subset, FS_CardinalityType
<1>7. Cardinality(S) < MaxAgents
  BY DEF Claim, Admits
<1>8. Cardinality(T) <= MaxAgents
  BY <1>5, <1>6, <1>7, PolicyAssumption
<1>9. QED
  BY <1>8 DEF ConcurrencyLimit, Claimed

\* What drops claims adds none.
LEMMA DropAddsNone ==
  ASSUME NEW cl, NEW S, NEW u \in Units, Claimed(DropAll(cl, S), u)
  PROVE  Claimed(cl, u)
BY DEF Claimed, DropAll, NoClaim

\* Every step keeps the number of claims within max_agents.
LEMMA LimitNext == RowsInv /\ ConcurrencyLimit /\ [Next]_vars => ConcurrencyLimit'
<1> SUFFICES ASSUME RowsInv, ConcurrencyLimit, [Next]_vars PROVE ConcurrencyLimit'
  OBVIOUS
<1> DEFINE Fewer == \A u \in Units : Claimed(claim', u) => Claimed(claim, u)
<1>0. claim \in [Units -> ClaimRow]
  BY DEF RowsInv, UnitsOK
<1>a. ASSUME NEW d, NEW u \in Units, Claimed(RecoveredClaims(d), u) PROVE Claimed(claim, u)
  BY <1>a, DropAddsNone DEF RecoveredClaims
<1>b. ASSUME NEW c, NEW row, NEW un, NEW cl, NEW d, Halt(c, row, un, cl, d),
             \A u \in Units : Claimed(cl, u) => Claimed(claim, u)
      PROVE  Fewer
  BY <1>b, DropAddsNone DEF Halt
<1>1. CASE Agent
  <2>1. PICK u \in Units, o \in Owners, d \in Delays :
          \/ \E role \in Roles, lease \in Leases : Claim(u, role, o, lease, d)
          \/ Complete(u, o, d)
          \/ Release(u, o, d)
          \/ \E lease \in Leases : Heartbeat(u, o, lease, d)
    BY <1>1 DEF Agent
  <2>2. CASE \E role \in Roles, lease \in Leases : Claim(u, role, o, lease, d)
    BY <2>2, ClaimWithinLimit
  <2>3. ASSUME NEW r, Deliver(u, r, d) PROVE Fewer
    BY <2>3, <1>a DEF Deliver, Claimed, NoClaim, RecoveredClaims, DropAll
  <2>4. CASE Complete(u, o, d)
    <3>1. CASE ReviewStrikeOut(u, o, d)
      <4>1. \A v \in Units : Claimed([RecoveredClaims(d) EXCEPT ![u] = NoClaim], v) => Claimed(claim, v)
        BY <1>a DEF Claimed, NoClaim, RecoveredClaims, DropAll
      <4>2. Fewer
        BY <3>1, <4>1, <1>b DEF ReviewStrikeOut
      <4>3. QED
        BY <4>2, NoMoreClaims
    <3>2. CASE ~ReviewStrikeOut(u, o, d)
      BY <2>3, <2>4, <3>2, NoMoreClaims
         DEF Complete, CompleteAnalysis, CompleteTranslation, CompleteFix, ReviewPass, ReviewFail
    <3>3. QED
      BY <3>1, <3>2
  <2>5. CASE Release(u, o, d)
    BY <2>5, DropAddsNone, NoMoreClaims DEF Release
  <2>6. CASE \E lease \in Leases : Heartbeat(u, o, lease, d)
    <3>1. Fewer
      BY <2>6, <1>0 DEF Heartbeat, Claimed, ClaimRow
    <3>2. QED
      BY <3>1, NoMoreClaims
  <2>7. QED
    BY <2>1, <2>2, <2>4, <2>5, <2>6
<1>2. CASE Orchestrator
  <2>1. PICK c \in Categories, d \in Delays :
          \/ Advance(c, d)
          \/ \E allow \in BOOLEAN : Finish(c, allow, d)
          \/ \E score \in {"low", "ten"} : RecordConsistency(c, score, d)
          \/ \E g \in RequiredGates, verdict \in Verdicts : RecordGate(c, g, verdict)
          \/ Recover(d)
    BY <1>2 DEF Orchestrator
  <2>2. Fewer
    <3>1. CASE claim' = RecoveredClaims(d)
      BY <3>1, <1>a
    <3>2. CASE claim' = claim
      BY <3>2
    <3>3. CASE \E row : Halt(c, row, RecoveredUnits(d), RecoveredClaims(d), d)
      BY <3>3, <1>a, <1>b
    <3>4. QED
      BY <2>1, <3>1, <3>2, <3>3 DEF Advance, Finish, RecordConsistency, RecordGate, Recover
  <2>3. QED
    BY <2>2, NoMoreClaims
<1>3. CASE OperatorOnUnit
  <2>1. PICK u \in Units, d \in Delays :
          \/ BlockUnit(u, d)
          \/ \E force \in Forces :
               \/ \E stage \in {"analysis", "translation"} : UnblockUnitReset(u, stage, force, d)
               \/ UnblockUnitReview(u, force, d)
    BY <1>3 DEF OperatorOnUnit
  <2>2. Fewer
    <3>1. CASE BlockUnit(u, d)
      BY <3>1, <1>b, DropAddsNone DEF BlockUnit
    <3>2. CASE \E S : claim' = DropAll(RecoveredClaims(d), S)
      BY <3>2, <1>a, DropAddsNone
    <3>3. QED
      BY <2>1, <3>1, <3>2 DEF UnblockUnitReset, UnblockUnitReview
  <2>3. QED
    BY <2>2, NoMoreClaims
<1>4. CASE OperatorOnCategory
  <2>1. PICK c \in Categories, d \in Delays :
          \/ BlockCategory(c, d)
          \/ \E force \in Forces :
               \/ \E stage \in Stages : UnblockCategory(c, stage, force, d)
               \/ Reopen(c, force, d)
    BY <1>4 DEF OperatorOnCategory
  <2>2. Fewer
    <3>1. CASE BlockCategory(c, d)
      BY <3>1, <1>b DEF BlockCategory
    <3>2. CASE \E S : claim' = DropAll(RecoveredClaims(d), S)
      BY <3>2, <1>a, DropAddsNone
    <3>3. QED
      BY <2>1, <3>1, <3>2 DEF UnblockCategory, Reopen
  <2>3. QED
    BY <2>2, NoMoreClaims
<1>5. CASE Tick
  <2>1. Fewer
    BY <1>5, <1>0 DEF Tick, Claimed, ClaimRow
  <2>2. QED
    BY <2>1, NoMoreClaims
<1>6. CASE UNCHANGED vars
  BY <1>6 DEF vars, ConcurrencyLimit, Claimed
<1>7. QED
  BY <1>1, <1>2, <1>3, <1>4, <1>5, <1>6 DEF Next

\* Never more claims than max_agents, expired ones included, whatever the lag of
\* each agent's clock sample (claim's concurrency check after the recovery).
THEOREM Limit == Spec => []ConcurrencyLimit
<1>1. Init => ConcurrencyLimit
  <2> SUFFICES ASSUME Init PROVE ConcurrencyLimit
    OBVIOUS
  <2>1. {u \in Units : Claimed(claim, u)} = {}
    BY DEF Init, Claimed, NoClaim
  <2>2. QED
    BY <2>1, FS_EmptySet, PolicyAssumption DEF ConcurrencyLimit
<1>2. QED
  BY <1>1, LimitNext, Rows, PTL DEF Spec

-----------------------------------------------------------------------------
(* One category at a time *)

\* A finite-ranked set has a least element; the order of execution is one.
LEMMA Least ==
  ASSUME NEW S, S # {}, NEW f \in [S -> Nat]
  PROVE  \E x \in S : \A y \in S : f[x] <= f[y]
<1> DEFINE T == {f[x] : x \in S}
<1> DEFINE R == {p \in Nat \X Nat : p[1] < p[2]}
<1>1. IsWellFoundedOn(R, Nat)
  BY NatLessThanWellFounded DEF OpToRel
<1>2. T \subseteq Nat /\ T # {}
  OBVIOUS
<1>3. PICK m \in T : \A n \in T : ~(<<n, m>> \in R)
  BY <1>1, <1>2, WFMin
<1>4. PICK x \in S : m = f[x]
  OBVIOUS
<1>5. ASSUME NEW y \in S PROVE f[x] <= f[y]
  <2>1. f[y] \in T /\ f[y] \in Nat /\ f[x] \in Nat
    OBVIOUS
  <2>2. ~(<<f[y], f[x]>> \in R)
    BY <1>3, <1>4, <2>1
  <2>3. ~(f[y] < f[x])
    BY <2>1, <2>2
  <2>4. QED
    BY <2>1, <2>3
<1>6. QED
  BY <1>5

\* advance finds no next category only when every category is done.
LEMMA NoneOpen ==
  ASSUME NEW rows, FirstOpen(rows) = {}, NEW c \in Categories
  PROVE  rows[c].status = "done"
<1> SUFFICES ASSUME rows[c].status # "done" PROVE FALSE
  OBVIOUS
<1> DEFINE open == {k \in Categories : rows[k].status # "done"}
<1> DEFINE f == [k \in open |-> Ord[k]]
<1>1. open # {} /\ f \in [open -> Nat]
  BY CategoryAssumption
<1>2. \E x \in open : \A y \in open : f[x] <= f[y]
  <2> HIDE DEF open, f
  <2> QED BY <1>1, Least
<1>3. \E x \in open : \A y \in open : Ord[x] <= Ord[y]
  BY <1>2
<1>4. QED
  BY <1>3 DEF FirstOpen

\* Only statuses matter.
LEMMA FocusKept ==
  ASSUME SingleFocus, focus' = focus, \A c \in Categories : cat'[c].status = cat[c].status,
         FocusOK(focus, cat)
  PROVE  SingleFocus'
BY DEF SingleFocus, Working, FocusOK

\* Blocking a category, which takes the focus only if there is none, keeps the
\* focus unique.
LEMMA HaltFocus ==
  ASSUME SingleFocus, RowsInv, NEW c \in Categories, cat[c].status # "done",
         NEW row, CategoryOK(row), row.status # "done", NEW un, NEW cl, NEW d,
         Halt(c, row, un, cl, d)
  PROVE  SingleFocus'
<1>1. BlockedRow(row).status = "blocked"
  BY BlockedCategoryOK
<1>2. focus # NoOne
  BY DEF SingleFocus
<1>3. focus' = focus
  BY <1>2 DEF Halt
<1>4. /\ cat'[c].status = "blocked"
      /\ \A k \in Categories \ {c} : cat'[k] = cat[k]
  BY <1>1 DEF Halt, RowsInv, CategoriesOK
<1>5. focus \in Categories
  BY <1>2 DEF RowsInv, FocusOK
<1>6. \A k \in Categories : Working(k)' => focus' = k
  BY <1>3, <1>4 DEF SingleFocus, Working
<1>7. Working(focus)' \/ cat'[focus'].status = "blocked"
  BY <1>2, <1>3, <1>4, <1>5 DEF SingleFocus, Working
<1>8. QED
  BY <1>2, <1>3, <1>4, <1>6, <1>7 DEF SingleFocus

\* unblock and reopen pause the category being worked on before they take the
\* focus (ensure_only_active_tx).
LEMMA ActivateFocus ==
  ASSUME SingleFocus, NEW c \in Categories, NEW row, Open(row),
         NEW force, NEW cl, NEW d, Activate(c, row, force, cl, d)
  PROVE  SingleFocus'
<1>1. PICK p \in Pausable(c, force, cl, d) :
        /\ cat' = [k \in Categories |->
                     IF k = c THEN row ELSE IF k = p THEN BlockedRow(cat[k]) ELSE cat[k]]
        /\ focus' = c
  BY DEF Activate
<1>2. cat'[c].status \in {"active", "needs_fix"}
  BY <1>1 DEF Open
<1>3. ASSUME NEW k \in Categories, cat'[k].status \in {"active", "needs_fix"}
      PROVE  k = c
  <2> SUFFICES ASSUME k # c PROVE FALSE
    OBVIOUS
  <2>1. CASE k = p
    <3>1. Working(k)
      BY <1>1, <2>1, NoOneAssumption DEF Pausable, Others, Working
    <3>2. BlockedRow(cat[k]).status # "active" /\ BlockedRow(cat[k]).status # "needs_fix"
      BY <3>1 DEF BlockedRow
    <3>3. QED
      BY <1>1, <1>3, <2>1, <3>2
  <2>2. CASE k # p
    <3>1. cat'[k] = cat[k]
      BY <1>1, <2>2
    <3>2. k \in Others(c) /\ focus = k
      BY <1>3, <3>1 DEF Others, SingleFocus, Working
    <3>3. p \in Others(c)
      BY <1>1, <3>2 DEF Pausable
    <3>4. focus = p
      BY <3>3 DEF Others, SingleFocus, Working
    <3>5. QED
      BY <2>2, <3>2, <3>4
  <2>3. QED
    BY <2>1, <2>2
<1>4. c # NoOne
  BY NoOneAssumption
<1>5. QED
  BY <1>1, <1>2, <1>3, <1>4 DEF SingleFocus, Working

\* advance hands the focus to the first category that is not done, or to none.
LEMMA FinishFocus ==
  ASSUME SingleFocus, RowsInv, NEW c \in Categories, NEW allow, NEW d, Finish(c, allow, d)
  PROVE  SingleFocus'
<1> DEFINE r == [cat[c] EXCEPT !.stage = "done", !.status = "done", !.gate_status = Verdict(c)]
<1> DEFINE rows == [cat EXCEPT ![c] = r]
<1>1. CategoryOK(cat[c]) /\ cat[c].stage = "verification" /\ cat[c].status # "blocked"
  BY DEF RowsInv, CategoriesOK, Finish
<1>2. Working(c) /\ focus = c
  BY <1>1 DEF CategoryOK, CategoryRow, Working, SingleFocus
<1>3. r.status = "done"
  BY <1>1 DEF CategoryOK, CategoryRow
<1> HIDE DEF r
<1>4. /\ rows \in [Categories -> {rows[k] : k \in Categories}]
      /\ rows[c].status = "done"
      /\ \A k \in Categories \ {c} : rows[k] = cat[k] /\ ~Working(k)
      /\ \A k \in Categories : CategoryOK(cat[k])
  BY <1>2, <1>3 DEF RowsInv, CategoriesOK, SingleFocus
<1> HIDE DEF rows
<1>5. ASSUME FirstOpen(rows) = {}, focus' = NoOne, cat' = rows
      PROVE  SingleFocus'
  <2>1. \A k \in Categories : cat'[k].status = "done"
    BY <1>5, NoneOpen
  <2>2. QED
    BY <1>5, <2>1 DEF SingleFocus, Working
<1>6. ASSUME NEW n \in FirstOpen(rows), focus' = n,
             cat' = IF rows[n].status = "pending" THEN [rows EXCEPT ![n] = Activated(@)] ELSE rows
      PROVE  SingleFocus'
  <2>1. n \in Categories /\ rows[n].status # "done" /\ n # c /\ n # NoOne
    BY <1>4, NoOneAssumption DEF FirstOpen
  <2>2. rows[n] \in CategoryRow /\ rows[n].status \in {"pending", "blocked"}
    BY <1>4, <2>1 DEF CategoryOK, CategoryRow, Working
  <2>3. /\ cat'[n].status \in {"active", "blocked"}
        /\ \A k \in Categories \ {n} : cat'[k] = rows[k]
    BY <1>4, <1>6, <2>1, <2>2 DEF Activated, CategoryRow
  <2>4. \A k \in Categories \ {n} : cat'[k].status \notin {"active", "needs_fix"}
    BY <1>4, <2>3 DEF Working
  <2>5. QED
    BY <1>6, <2>1, <2>3, <2>4 DEF SingleFocus, Working
<1>7. QED
  BY <1>5, <1>6 DEF Finish, rows, r

\* record-consistency is about the focus category and leaves it the focus.
LEMMA ConsistencyFocus ==
  ASSUME SingleFocus, RowsInv, NEW c \in Categories, NEW score \in {"low", "ten"}, NEW d,
         RecordConsistency(c, score, d)
  PROVE  SingleFocus'
<1> DEFINE row == [cat[c] EXCEPT !.round = @ + 1, !.consistency = score]
<1>1. cat[c] \in CategoryRow /\ CategoryOK(cat[c])
  BY DEF RowsInv, CategoriesOK
<1>2. cat[c].stage = "consistency" /\ cat[c].status \in {"active", "needs_fix"} /\ focus = c
  BY <1>1 DEF RecordConsistency, CategoryOK, CategoryRow
<1>3. cat[c].round + 1 \in 0..MaxRounds
  BY <1>1, PolicyAssumption DEF RecordConsistency, CategoryRow
<1>4. /\ row \in CategoryRow
      /\ row.stage = "consistency" /\ row.status = cat[c].status
  BY <1>1, <1>2, <1>3 DEF CategoryRow, Scores
<1>5. CategoryOK(row) /\ row.status # "done"
  BY <1>2, <1>4, OpenOK DEF Open, Stages
<1>6. CASE score # "ten" /\ row.round >= MaxRounds
  <2>1. Halt(c, row, RecoveredUnits(d), RecoveredClaims(d), d)
    BY <1>6 DEF RecordConsistency
  <2> HIDE DEF row
  <2>2. QED
    BY <1>2, <1>5, <2>1, HaltFocus
<1>7. CASE ~(score # "ten" /\ row.round >= MaxRounds)
  <2>1. cat' = [cat EXCEPT ![c] = [row EXCEPT !.status = IF score = "ten" THEN "active" ELSE "needs_fix"]]
        /\ focus' = focus
    BY <1>7 DEF RecordConsistency
  <2> HIDE DEF row
  <2>2. /\ cat'[c].status \in {"active", "needs_fix"}
        /\ \A k \in Categories \ {c} : cat'[k] = cat[k]
    BY <1>4, <2>1 DEF CategoryRow, RowsInv, CategoriesOK
  <2>3. c # NoOne
    BY NoOneAssumption
  <2>4. QED
    BY <1>2, <2>1, <2>2, <2>3 DEF SingleFocus, Working
<1>8. QED
  BY <1>6, <1>7

\* advance within the five stages leaves every status alone.
LEMMA AdvanceFocus ==
  ASSUME SingleFocus, RowsInv, NEW c \in Categories, NEW d, Advance(c, d)
  PROVE  SingleFocus'
<1>1. \A k \in Categories : cat'[k].status = cat[k].status
  BY DEF Advance, RowsInv, CategoriesOK, CategoryRow
<1>2. QED
  BY <1>1, FocusKept DEF Advance, RowsInv

\* Every step keeps the focus unique.
LEMMA FocusNext == RowsInv /\ SingleFocus /\ [Next]_vars => SingleFocus'
<1> SUFFICES ASSUME RowsInv, SingleFocus, [Next]_vars PROVE SingleFocus'
  OBVIOUS
<1>a. ASSUME UNCHANGED <<focus, cat>> PROVE SingleFocus'
  BY <1>a, FocusKept DEF RowsInv
<1>b. \A c \in Categories : CategoryOK(cat[c]) /\ cat[c] \in CategoryRow
  BY DEF RowsInv, CategoriesOK
<1>1. CASE Agent
  <2>1. PICK u \in Units, o \in Owners, d \in Delays :
          \/ \E role \in Roles, lease \in Leases : Claim(u, role, o, lease, d)
          \/ Complete(u, o, d)
          \/ Release(u, o, d)
          \/ \E lease \in Leases : Heartbeat(u, o, lease, d)
    BY <1>1 DEF Agent
  <2>2. CASE ReviewStrikeOut(u, o, d)
    <3> DEFINE c == CategoryOf[u]
    <3>1. focus = c /\ c \in Categories /\ c # NoOne
      BY <2>2, CategoryAssumption, NoOneAssumption DEF ReviewStrikeOut, Holds
    <3>2. CategoryOK(cat[c]) /\ cat[c].status # "done"
      BY <1>b, <3>1 DEF RowsInv, FocusOK
    <3>3. \E un, cl : Halt(c, cat[c], un, cl, d)
      BY <2>2 DEF ReviewStrikeOut
    <3>4. QED
      BY <3>1, <3>2, <3>3, HaltFocus
  <2>3. CASE ~ReviewStrikeOut(u, o, d)
    BY <1>a, <2>1, <2>3
       DEF Claim, Complete, CompleteAnalysis, CompleteTranslation, CompleteFix, ReviewPass, ReviewFail,
           Deliver, Release, Heartbeat
  <2>4. QED
    BY <2>2, <2>3
<1>2. CASE Orchestrator
  BY <1>2, <1>a, AdvanceFocus, FinishFocus, ConsistencyFocus DEF Orchestrator, RecordGate, Recover
<1>3. CASE OperatorOnUnit
  <2>1. PICK u \in Units, d \in Delays :
          \/ BlockUnit(u, d)
          \/ \E force \in Forces :
               \/ \E stage \in {"analysis", "translation"} : UnblockUnitReset(u, stage, force, d)
               \/ UnblockUnitReview(u, force, d)
    BY <1>3 DEF OperatorOnUnit
  <2> DEFINE c == CategoryOf[u]
  <2>2. c \in Categories /\ cat[c] \in CategoryRow /\ CategoryOK(cat[c])
    BY <1>b, CategoryAssumption
  <2>3. CASE BlockUnit(u, d)
    <3>1. cat[c].status # "done"
      BY <2>2, <2>3 DEF BlockUnit, RowsInv, UnitsDone, CategoryOK, Late
    <3>2. \E un, cl : Halt(c, cat[c], un, cl, d)
      BY <2>3 DEF BlockUnit
    <3>3. QED
      BY <2>2, <3>1, <3>2, HaltFocus
  <2>4. ASSUME NEW force \in Forces, NEW stage \in {"analysis", "translation"},
               UnblockUnitReset(u, stage, force, d)
        PROVE  SingleFocus'
    <3>1. \E cl : Activate(c, Wiped(Restarted(cat[c], stage)), force, cl, d)
      BY <2>4 DEF UnblockUnitReset
    <3>2. Open(Wiped(Restarted(cat[c], stage)))
      BY <2>2, RestartedOK DEF Stages
    <3>3. QED
      BY <2>2, <3>1, <3>2, ActivateFocus
  <2>5. ASSUME NEW force \in Forces, UnblockUnitReview(u, force, d)
        PROVE  SingleFocus'
    <3>1. \E cl : Activate(c, Restarted(cat[c], "review"), force, cl, d)
      BY <2>5 DEF UnblockUnitReview
    <3>2. Open(Restarted(cat[c], "review"))
      BY <2>2, RestartedOK DEF Stages
    <3>3. QED
      BY <2>2, <3>1, <3>2, ActivateFocus
  <2>6. QED
    BY <2>1, <2>3, <2>4, <2>5
<1>4. CASE OperatorOnCategory
  <2>1. PICK c \in Categories, d \in Delays :
          \/ BlockCategory(c, d)
          \/ \E force \in Forces :
               \/ \E stage \in Stages : UnblockCategory(c, stage, force, d)
               \/ Reopen(c, force, d)
    BY <1>4 DEF OperatorOnCategory
  <2>2. CASE BlockCategory(c, d)
    BY <1>b, <2>2, HaltFocus DEF BlockCategory
  <2>3. ASSUME NEW force \in Forces, NEW stage \in Stages, UnblockCategory(c, stage, force, d)
        PROVE  SingleFocus'
    <3> DEFINE row == IF stage = "verification" THEN Restarted(cat[c], stage)
                                                ELSE Wiped(Restarted(cat[c], stage))
    <3>1. \E cl : Activate(c, row, force, cl, d)
      BY <2>3 DEF UnblockCategory
    <3>2. Open(row)
      BY <1>b, <2>3, RestartedOK DEF UnblockCategory
    <3> HIDE DEF row
    <3>3. QED
      BY <3>1, <3>2, ActivateFocus
  <2>4. ASSUME NEW force \in Forces, Reopen(c, force, d)
        PROVE  SingleFocus'
    <3>1. PICK stage, cl :
            /\ stage \in Stages \ {"verification"}
            /\ Activate(c, Wiped(Restarted(cat[c], stage)), force, cl, d)
      BY <2>4 DEF Reopen, Stages
    <3>2. Open(Wiped(Restarted(cat[c], stage)))
      BY <1>b, <3>1, RestartedOK
    <3>3. QED
      BY <3>1, <3>2, ActivateFocus
  <2>5. QED
    BY <2>1, <2>2, <2>3, <2>4
<1>5. CASE Tick
  BY <1>5, <1>a DEF Tick
<1>6. CASE UNCHANGED vars
  BY <1>6, <1>a DEF vars
<1>7. QED
  BY <1>1, <1>2, <1>3, <1>4, <1>5, <1>6 DEF Next

\* Always at most one category is being worked on, it is the focus, and there is no
\* focus exactly when everything is done.
THEOREM Focus == Spec => []SingleFocus
<1>1. Init => SingleFocus
  <2> SUFFICES ASSUME Init PROVE SingleFocus
    OBVIOUS
  <2>1. Activated(NewCategory).status = "active" /\ NewCategory.status = "pending"
    BY DEF Activated, NewCategory
  <2>2. QED
    BY <2>1, NoOneAssumption DEF Init, SingleFocus, Working
<1>2. QED
  BY <1>1, FocusNext, Rows, PTL DEF Spec
=============================================================================
