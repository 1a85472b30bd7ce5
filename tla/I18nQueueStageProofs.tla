------------------------ MODULE I18nQueueStageProofs ------------------------
(***************************************************************************)
(* Where the units of a category can be, given the stage of the category,  *)
(* and what follows from it: no untranslated unit is under review, the     *)
(* verdicts are about the work as it stands, and a category that is sent   *)
(* back takes its units along.                                             *)
(*                                                                         *)
(* The rows of I18nQueueProofs say nothing about the distance between a    *)
(* unit and its category, so the invariant is strengthened (`StagesInv'):  *)
(* a unit is in the stage of its category, or waits at the next one, and a *)
(* unit is blocked only in a blocked category.  Operators who unblock a    *)
(* unit into a stage its category has not reached break this, so the       *)
(* theorems about it assume OrderlyUnblock.  The verdicts survive any      *)
(* unblocking (`FreshInv'), but not a --force, which records a verdict     *)
(* nobody gave: their theorems assume TRUE \notin Forces.                  *)
(*                                                                         *)
(* Last, that the queue implements CategoryPipeline.                       *)
(***************************************************************************)
EXTENDS I18nQueueProofs

\* The stage a category is in, or was in when it was blocked.
At(row) == IF row.stage = "blocked" THEN row.blocked_stage ELSE row.stage

PlacedUnit(r) ==
  /\ r.blocked_stage # "none" <=> r.stage = "blocked"
  /\ r.stage \in {"pending", "translation"} => r.status = "pending"
  /\ r.stage = "review" => r.status \in {"pending", "needs_fix"}

PlacedCategory(row) ==
  /\ row.blocked_stage # "none" <=> row.stage = "blocked"
  /\ row.status = "needs_fix" => row.stage = "consistency" /\ row.consistency # "ten"

\* The unit is in the stage that follows s.
Ahead(r, s) ==
  \/ s \in {"pending", "analysis"} /\ UnitOrigin(r) = "translation"
  \/ s = "translation" /\ UnitOrigin(r) = "review"

\* A unit of a category at stage s is in that stage or waits in the next one.
Fits(r, s) ==
  /\ s \in {"pending", "analysis"} => UnitOrigin(r) \in {"analysis", "translation"}
  /\ s = "translation" => UnitOrigin(r) \in {"translation", "review"}
  /\ s \notin {"pending", "analysis", "translation"} => UnitOrigin(r) = "review"
  /\ Ahead(r, s) => r.status \notin {"active", "done"}
  /\ UnitOrigin(r) = "review" => r.translated_by # NoOne

\* Units are blocked with their category, and start with it.
Together(r, row) ==
  /\ r.stage = "blocked" => row.stage = "blocked"
  /\ row.stage = "pending" => r.stage = "pending"

Stands(r, row) == PlacedUnit(r) /\ Fits(r, At(row)) /\ Together(r, row)

StagesInv ==
  /\ \A u \in Units : Stands(unit[u], cat[CategoryOf[u]])
  /\ \A c \in Categories : PlacedCategory(cat[c])

-----------------------------------------------------------------------------
(* Positions of units *)

\* Where a unit is, by its stage.
LEMMA Origins ==
  ASSUME NEW r \in UnitRow, PairedUnit(r), PlacedUnit(r)
  PROVE  /\ r.stage \in {"pending", "analyzing"} => UnitOrigin(r) = "analysis"
         /\ r.stage \in {"translation", "translating"} => UnitOrigin(r) = "translation"
         /\ r.stage \in {"review", "reviewing", "fixing", "done"} => UnitOrigin(r) = "review"
         /\ r.stage = "blocked" => UnitOrigin(r) = r.blocked_stage
         /\ UnitOrigin(r) \in {"analysis", "translation", "review"}
BY DEF UnitRow, UnitStages, PairedUnit, PlacedUnit, UnitOrigin, Origin, NormalizeStage

\* The row upsert_unit writes, in analysis.
LEMMA NewUnitStands ==
  ASSUME NEW row, row.stage \in {"pending", "analysis"}
  PROVE  Stands(NewUnit, row)
<1>1. UnitOrigin(NewUnit) = "analysis"
  BY DEF NewUnit, UnitOrigin, Origin, NormalizeStage
<1>2. QED
  BY <1>1 DEF NewUnit, Stands, PlacedUnit, Fits, Ahead, At, Together

\* A unit that is given back waits in the stage it was claimed in.
LEMMA RevertedStands ==
  ASSUME NEW r, NEW k, UnitOK(r, k), k.role # "none", NEW row, Stands(r, row)
  PROVE  Stands(Reverted(r, k.role), row)
<1> DEFINE n == Reverted(r, k.role)
<1>1. /\ r \in UnitRow /\ k.role \in Roles /\ r.stage = ClaimingStage(k.role)
      /\ PairedUnit(r) /\ PlacedUnit(r) /\ UnitOK(n, NoClaim)
  BY ClaimedUnit, RevertedOK DEF UnitOK, Stands
<1>2. /\ n.stage = RevertStage(k.role) /\ n.status = RevertStatus(k.role)
      /\ n.blocked_stage = r.blocked_stage /\ n.translated_by = r.translated_by
  BY <1>1 DEF Reverted, UnitRow
<1>3. PlacedUnit(n) /\ n \in UnitRow /\ PairedUnit(n)
  BY <1>1, <1>2 DEF PlacedUnit, RevertStage, RevertStatus, ClaimingStage, Roles, UnitOK
<1> HIDE DEF n
<1>4. UnitOrigin(n) = UnitOrigin(r)
  BY <1>1, <1>2, <1>3, Origins DEF RevertStage, ClaimingStage, Roles
<1>5. n.status \notin {"active", "done"} /\ n.stage # "blocked" /\ r.stage # "pending"
  BY <1>1, <1>2 DEF RevertStage, RevertStatus, ClaimingStage, Roles
<1>6. Stands(n, row)
  BY <1>2, <1>3, <1>4, <1>5 DEF Stands, Fits, Ahead, Together
<1>7. QED
  BY <1>6 DEF n

\* A claim takes a unit that waits in the stage of its category.
LEMMA OccupiedStands ==
  ASSUME NEW r, NEW role \in Roles, UnitOK(r, NoClaim), Claimable(r, role),
         NEW row, Stands(r, row), row.stage = RoleStage(role)
  PROVE  Stands(Occupied(r, role), row)
<1> DEFINE n == Occupied(r, role)
<1>1. r \in UnitRow /\ PairedUnit(r) /\ PlacedUnit(r)
  BY DEF UnitOK, Stands
<1>2. /\ n.stage = ClaimingStage(role) /\ n.status = "active"
      /\ n.blocked_stage = r.blocked_stage /\ n.translated_by = r.translated_by
      /\ n \in UnitRow
  BY <1>1 DEF Occupied, UnitRow, UnitStages, ClaimingStage, Roles
<1> HIDE DEF n
<1>3. PlacedUnit(n) /\ PairedUnit(n)
  BY <1>1, <1>2 DEF PlacedUnit, PairedUnit, InProgress, Claimable, ClaimingStage, Roles
<1>4. UnitOrigin(n) = UnitOrigin(r) /\ UnitOrigin(n) = At(row)
  BY <1>1, <1>2, <1>3, Origins DEF Claimable, ClaimingStage, RoleStage, Roles, At
<1>5. At(row) \in {"analysis", "translation", "review"}
  BY <1>1, <1>4, Origins
<1>6. Stands(n, row)
  BY <1>2, <1>3, <1>4, <1>5 DEF Stands, Fits, Ahead, Together, RoleStage, ClaimingStage, Roles
<1>7. QED
  BY <1>6 DEF n

\* The analyst's report sends the unit on to wait for a translator.
LEMMA AnalyzedStands ==
  ASSUME NEW r, NEW k, UnitOK(r, k), k.role = "analyst", NEW row, Stands(r, row)
  PROVE  Stands(Analyzed(r), row)
<1> DEFINE n == Analyzed(r)
<1>1. r \in UnitRow /\ r.stage = "analyzing" /\ PairedUnit(r) /\ PlacedUnit(r) /\ UnitOK(n, NoClaim)
  BY ClaimedUnit, AnalyzedOK DEF UnitOK, Stands, ClaimingStage
<1>2. /\ n.stage = "translation" /\ n.status = "pending" /\ n.blocked_stage = r.blocked_stage
      /\ n \in UnitRow /\ PairedUnit(n)
  BY <1>1 DEF Analyzed, UnitRow, UnitOK
<1> HIDE DEF n
<1>3. PlacedUnit(n)
  BY <1>1, <1>2 DEF PlacedUnit
<1>4. UnitOrigin(n) = "translation" /\ UnitOrigin(r) = "analysis"
  BY <1>1, <1>2, <1>3, Origins
<1>5. At(row) \in {"pending", "analysis"} /\ row.stage # "pending"
  BY <1>1, <1>4 DEF Stands, Fits, Ahead, Together
<1>6. Stands(n, row)
  BY <1>2, <1>3, <1>4, <1>5 DEF Stands, Fits, Ahead, Together
<1>7. QED
  BY <1>6 DEF n

\* The translation sends the unit on to wait for a reviewer, with a translator.
LEMMA TranslatedStands ==
  ASSUME NEW r, NEW k, UnitOK(r, k), k.role = "translator", NEW o \in Owners,
         NEW row, Stands(r, row)
  PROVE  Stands(Translated(r, o), row)
<1> DEFINE n == Translated(r, o)
<1>1. r \in UnitRow /\ r.stage = "translating" /\ PairedUnit(r) /\ PlacedUnit(r) /\ UnitOK(n, NoClaim)
  BY ClaimedUnit, TranslatedOK DEF UnitOK, Stands, ClaimingStage
<1>2. r.status = "active"
  BY <1>1 DEF PairedUnit, InProgress
<1>3. /\ n.stage = "review" /\ n.status = "pending" /\ n.blocked_stage = r.blocked_stage
      /\ n.translated_by # NoOne /\ n \in UnitRow /\ PairedUnit(n)
  BY <1>1, NoOneAssumption DEF Translated, UnitRow, UnitOK
<1> HIDE DEF n
<1>4. PlacedUnit(n)
  BY <1>1, <1>3 DEF PlacedUnit
<1>5. UnitOrigin(n) = "review" /\ UnitOrigin(r) = "translation"
  BY <1>1, <1>3, <1>4, Origins
<1>6. At(row) = "translation" /\ row.stage # "pending"
  BY <1>1, <1>2, <1>5 DEF Stands, Fits, Ahead, Together
<1>7. Stands(n, row)
  BY <1>3, <1>4, <1>5, <1>6 DEF Stands, Fits, Ahead, Together
<1>8. QED
  BY <1>7 DEF n

\* Whatever happens to a unit under review leaves it there: a row n that was r
\* under review, is not blocked and has the same translator.
LEMMA StaysUnderReview ==
  ASSUME NEW r \in UnitRow, PairedUnit(r), r.stage \in {"reviewing", "fixing"},
         NEW row, Stands(r, row),
         NEW n \in UnitRow, PairedUnit(n), n.stage \in {"review", "done"},
         n.stage = "review" => n.status \in {"pending", "needs_fix"},
         n.blocked_stage = r.blocked_stage, n.translated_by = r.translated_by
  PROVE  Stands(n, row)
<1>1. PlacedUnit(r) /\ PlacedUnit(n)
  BY DEF Stands, PlacedUnit
<1>2. UnitOrigin(r) = "review" /\ UnitOrigin(n) = "review" /\ r.status = "active"
  BY <1>1, Origins DEF PairedUnit, InProgress
<1>3. At(row) \notin {"pending", "analysis", "translation"} /\ row.stage # "pending"
  BY <1>2 DEF Stands, Fits, Ahead, Together
<1>4. QED
  BY <1>1, <1>2, <1>3 DEF Stands, Fits, Ahead, Together

\* Blocking a unit keeps where it came from.
LEMMA BlockedUnitFits ==
  ASSUME NEW r \in UnitRow, PairedUnit(r), r.status # "done", PlacedUnit(r),
         NEW s, Fits(r, s)
  PROVE  PlacedUnit(BlockedRow(r)) /\ Fits(BlockedRow(r), s)
<1> DEFINE n == BlockedRow(r)
<1>1. n \in UnitRow /\ PairedUnit(n)
  BY BlockedUnitOK DEF UnitOK
<1>2. /\ n.stage = "blocked" /\ n.status = "blocked" /\ n.translated_by = r.translated_by
      /\ n.blocked_stage = IF r.stage = "blocked" THEN r.blocked_stage ELSE NormalizeStage(r.stage)
  BY DEF BlockedRow, UnitRow
<1>3. r.stage # "done"
  BY DEF PairedUnit
<1>4. PlacedUnit(n)
  BY <1>2, <1>3 DEF PlacedUnit, UnitRow, UnitStages, NormalizeStage
<1> HIDE DEF n
<1>5. UnitOrigin(n) = n.blocked_stage
  BY <1>1, <1>2, <1>4, Origins
<1>6. UnitOrigin(r) = n.blocked_stage
  BY <1>2, <1>3, Origins DEF UnitOrigin, Origin, PlacedUnit, PairedUnit, UnitRow, UnitStages
<1>7. PlacedUnit(n) /\ Fits(n, s)
  BY <1>2, <1>4, <1>5, <1>6 DEF Fits, Ahead
<1>8. QED
  BY <1>7 DEF n

\* A unit that starts over in the stage its category restarts at.
LEMMA ResetUnitStands ==
  ASSUME NEW stage \in {"analysis", "translation"}, NEW row, row.stage = stage
  PROVE  Stands(ResetUnit(stage), row)
<1> DEFINE n == ResetUnit(stage)
<1>1. n \in UnitRow /\ PairedUnit(n)
  BY ResetUnitOK DEF UnitOK
<1>2. /\ n.stage = IF stage = "analysis" THEN "pending" ELSE "translation"
      /\ n.status = "pending" /\ n.blocked_stage = "none"
  BY DEF ResetUnit, NewUnit
<1> HIDE DEF n
<1>3. PlacedUnit(n)
  BY <1>2 DEF PlacedUnit
<1>4. UnitOrigin(n) = stage
  BY <1>1, <1>2, <1>3, Origins
<1>5. Stands(n, row)
  BY <1>2, <1>3, <1>4 DEF Stands, Fits, Ahead, At, Together
<1>6. QED
  BY <1>5 DEF n

\* A translated unit that is to be reviewed again in a category that is back in
\* review.
LEMMA ReviewAgainStands ==
  ASSUME NEW r \in UnitRow, r.translated_by # NoOne, NEW row, row.stage = "review"
  PROVE  Stands(ReviewAgain(r), row)
<1> DEFINE n == ReviewAgain(r)
<1>1. n \in UnitRow /\ PairedUnit(n)
  BY ReviewAgainOK DEF UnitOK
<1>2. /\ n.stage = "review" /\ n.status = "pending" /\ n.blocked_stage = "none"
      /\ n.translated_by = r.translated_by
  BY DEF ReviewAgain, UnitRow
<1> HIDE DEF n
<1>3. PlacedUnit(n)
  BY <1>2 DEF PlacedUnit
<1>4. UnitOrigin(n) = "review"
  BY <1>1, <1>2, <1>3, Origins
<1>5. Stands(n, row)
  BY <1>2, <1>3, <1>4 DEF Stands, Fits, Ahead, At, Together
<1>6. QED
  BY <1>5 DEF n

-----------------------------------------------------------------------------
(* Positions of categories *)

\* Where a category is, by its stage.
LEMMA Positions ==
  ASSUME NEW row, CategoryOK(row)
  PROVE  /\ At(row) \in Stages \cup {"pending", "done"}
         /\ row.status # "blocked" => At(row) = row.stage
         /\ row.status = "done" <=> At(row) = "done"
         /\ Late(row) <=> At(row) \in {"consistency", "verification", "done"}
         /\ Verifying(row) <=> At(row) \in {"verification", "done"}
BY DEF CategoryOK, CategoryRow, At, Late, Verifying, Stages

\* Blocking a category keeps where it is: an untouched one counts as analysis.
LEMMA BlockedCategoryAt ==
  ASSUME NEW row, CategoryOK(row), row.status # "done"
  PROVE  /\ PlacedCategory(BlockedRow(row))
         /\ BlockedRow(row).stage = "blocked"
         /\ At(BlockedRow(row)) = IF At(row) = "pending" THEN "analysis" ELSE At(row)
<1>1. row \in CategoryRow /\ row.stage \in Stages \cup {"pending", "blocked"}
  BY DEF CategoryOK, CategoryRow
<1>2. /\ BlockedRow(row).stage = "blocked" /\ BlockedRow(row).status = "blocked"
      /\ BlockedRow(row).blocked_stage = IF row.stage = "blocked" THEN row.blocked_stage
                                                                  ELSE NormalizeStage(row.stage)
  BY <1>1 DEF BlockedRow, CategoryRow
<1>3. row.stage = "blocked" => row.blocked_stage \in Stages
  BY DEF CategoryOK
<1>4. QED
  BY <1>1, <1>2, <1>3 DEF PlacedCategory, At, NormalizeStage, Stages

\* For its units a blocked category is where it was.
LEMMA FitsBlocked ==
  ASSUME NEW row, CategoryOK(row), row.status # "done", NEW r
  PROVE  /\ Fits(r, At(BlockedRow(row))) <=> Fits(r, At(row))
         /\ Together(r, BlockedRow(row))
BY BlockedCategoryAt DEF Fits, Ahead, Together

\* unblock and reopen restart a category at a stage.
LEMMA RestartedAt ==
  ASSUME NEW row \in CategoryRow, NEW stage \in Stages
  PROVE  /\ PlacedCategory(Restarted(row, stage)) /\ At(Restarted(row, stage)) = stage
         /\ PlacedCategory(Wiped(Restarted(row, stage))) /\ At(Wiped(Restarted(row, stage))) = stage
<1>1. LET n == Restarted(row, stage) IN
      n.stage = stage /\ n.status = "active" /\ n.blocked_stage = "none" /\ n \in CategoryRow
  BY DEF Restarted, CategoryRow, Stages
<1>2. LET n == Wiped(Restarted(row, stage)) IN
      n.stage = stage /\ n.status = "active" /\ n.blocked_stage = "none"
  BY <1>1 DEF Wiped, CategoryRow
<1>3. stage # "blocked"
  BY DEF Stages
<1>4. QED
  BY <1>1, <1>2, <1>3 DEF PlacedCategory, At

-----------------------------------------------------------------------------
(* Tables *)

\* Every unit of the table stands where its category allows.
AllStand(un, rows) == \A u \in Units : Stands(un[u], rows[CategoryOf[u]])

\* Giving back any set of claims moves no unit out of its stage.
LEMMA RevertAllStands ==
  ASSUME NEW un, NEW cl, UnitsOK(un, cl), NEW S, \A u \in S : Claimed(cl, u),
         NEW rows, NEW u \in Units, Stands(un[u], rows[CategoryOf[u]])
  PROVE  Stands(RevertAll(un, cl, S)[u], rows[CategoryOf[u]])
<1>1. CASE u \in S
  <2>1. UnitOK(un[u], cl[u]) /\ cl[u].role # "none"
    BY <1>1 DEF UnitsOK, Claimed
  <2>2. QED
    BY <1>1, <2>1, RevertedStands DEF RevertAll
<1>2. CASE u \notin S
  BY <1>2 DEF RevertAll
<1>3. QED
  BY <1>1, <1>2

\* Nor does the recovery.
LEMMA RecoveredStand ==
  ASSUME RowsInv, StagesInv, NEW d
  PROVE  AllStand(RecoveredUnits(d), cat)
BY RevertAllStands DEF RowsInv, StagesInv, AllStand, RecoveredUnits, Due

\* A step of units and claims alone.
LEMMA UnitsStepStands ==
  ASSUME StagesInv, cat' = cat, AllStand(unit', cat)
  PROVE  StagesInv'
BY DEF StagesInv, AllStand

\* Halting a category, whose own units may already be blocked.
LEMMA HaltStands ==
  ASSUME RowsInv, StagesInv, NEW c \in Categories,
         NEW row, CategoryOK(row), row.status # "done", PlacedCategory(row), At(row) = At(cat[c]),
         NEW un, NEW cl, UnitsOK(un, cl),
         \A u \in UnitsOf(c) : PlacedUnit(un[u]) /\ Fits(un[u], At(cat[c])),
         \A u \in Units \ UnitsOf(c) : Stands(un[u], cat[CategoryOf[u]]),
         NEW d, Halt(c, row, un, cl, d)
  PROVE  StagesInv'
<1> DEFINE live == UnitsOf(c) \cap LiveUnits(cl, d)
<1>1. \A u \in live : Claimed(cl, u) /\ u \in UnitsOf(c)
  BY DEF LiveUnits, Live
<1>2. unit' = RevertAll(un, cl, live) /\ cat' = [cat EXCEPT ![c] = BlockedRow(row)]
  BY DEF Halt
<1> HIDE DEF live
<1>3. cat \in [Categories -> CategoryRow] /\ CategoryOf \in [Units -> Categories]
  BY CategoryAssumption DEF RowsInv, CategoriesOK
<1>4. ASSUME NEW u \in UnitsOf(c) PROVE Stands(un[u], cat'[CategoryOf[u]])
  <2>1. u \in Units /\ CategoryOf[u] = c
    BY DEF UnitsOf
  <2>2. cat'[c] = BlockedRow(row)
    BY <1>2, <1>3
  <2>3. QED
    BY <2>1, <2>2, FitsBlocked DEF Stands
<1>5. ASSUME NEW u \in Units \ UnitsOf(c) PROVE Stands(un[u], cat'[CategoryOf[u]])
  BY <1>2, <1>3 DEF UnitsOf
<1>6. \A u \in Units : Stands(unit'[u], cat'[CategoryOf[u]])
  BY <1>1, <1>2, <1>4, <1>5, RevertAllStands
<1>7. \A k \in Categories : PlacedCategory(cat'[k])
  BY <1>2, <1>3, BlockedCategoryAt DEF StagesInv
<1>8. QED
  BY <1>6, <1>7 DEF StagesInv

\* Moving the focus to a category that restarts, pausing another one.
LEMMA ActivateStands ==
  ASSUME RowsInv, StagesInv, NEW c \in Categories, NEW row, PlacedCategory(row),
         NEW force, NEW cl, NEW d, Activate(c, row, force, cl, d),
         \A u \in UnitsOf(c) : Stands(unit'[u], row),
         \A u \in Units \ UnitsOf(c) : Stands(unit'[u], cat[CategoryOf[u]])
  PROVE  StagesInv'
<1>1. PICK p \in Pausable(c, force, cl, d) :
        cat' = [k \in Categories |->
                  IF k = c THEN row ELSE IF k = p THEN BlockedRow(cat[k]) ELSE cat[k]]
  BY DEF Activate
<1>2. p \in Categories => cat[p].status # "done"
  BY <1>1, NoOneAssumption DEF Pausable, Others
<1>3. ASSUME NEW k \in Categories \ {c}
      PROVE  /\ PlacedCategory(cat'[k])
             /\ \A r : Stands(r, cat[k]) => Stands(r, cat'[k])
  <2>1. CategoryOK(cat[k]) /\ PlacedCategory(cat[k])
    BY DEF RowsInv, CategoriesOK, StagesInv
  <2>2. CASE k = p
    <3>1. cat'[k] = BlockedRow(cat[k]) /\ cat[k].status # "done"
      BY <1>1, <1>2, <2>2
    <3>2. QED
      BY <2>1, <3>1, BlockedCategoryAt, FitsBlocked DEF Stands
  <2>3. CASE k # p
    BY <1>1, <2>1, <2>3
  <2>4. QED
    BY <2>2, <2>3
<1>4. \A k \in Categories : PlacedCategory(cat'[k])
  BY <1>1, <1>3
<1>5. ASSUME NEW u \in Units PROVE Stands(unit'[u], cat'[CategoryOf[u]])
  <2>1. CASE u \in UnitsOf(c)
    BY <1>1, <2>1 DEF UnitsOf
  <2>2. CASE u \notin UnitsOf(c)
    BY <1>3, <2>2, CategoryAssumption DEF UnitsOf
  <2>3. QED
    BY <2>1, <2>2
<1>6. QED
  BY <1>4, <1>5 DEF StagesInv

\* A completion: the row that is delivered stands, and the recovery takes care of
\* the rest.
LEMMA DeliverStands ==
  ASSUME RowsInv, StagesInv, NEW u \in Units, NEW r, Stands(r, cat[CategoryOf[u]]),
         NEW d, Deliver(u, r, d)
  PROVE  StagesInv'
<1>1. AllStand(RecoveredUnits(d), cat) /\ UnitsOK(RecoveredUnits(d), RecoveredClaims(d))
  BY RecoveredStand, RecoveredOK DEF RowsInv
<1>2. AllStand(unit', cat) /\ cat' = cat
  BY <1>1 DEF Deliver, AllStand, UnitsOK
<1>3. QED
  BY <1>2, UnitsStepStands

-----------------------------------------------------------------------------
(* The positions, step by step *)

\* The tables init creates: everything is in analysis.
LEMMA StagesInit == Init => StagesInv
<1> SUFFICES ASSUME Init PROVE StagesInv
  OBVIOUS
<1>1. /\ NewCategory.stage = "pending" /\ NewCategory.blocked_stage = "none"
      /\ NewCategory.status = "pending"
      /\ Activated(NewCategory).stage = "analysis" /\ Activated(NewCategory).blocked_stage = "none"
      /\ Activated(NewCategory).status = "active"
  BY DEF NewCategory, Activated
<1>2. ASSUME NEW c \in Categories
      PROVE  cat[c].stage \in {"pending", "analysis"} /\ PlacedCategory(cat[c])
  BY <1>1 DEF Init, PlacedCategory
<1>3. \A u \in Units : unit[u] = NewUnit
  BY DEF Init
<1>4. QED
  BY <1>2, <1>3, NewUnitStands, CategoryAssumption DEF StagesInv

\* claim takes a unit of the stage its category is in.
LEMMA StagesClaim ==
  ASSUME RowsInv, StagesInv, NEW u \in Units, NEW role \in Roles, NEW o \in Owners,
         NEW lease \in Leases, NEW d \in Delays, Claim(u, role, o, lease, d)
  PROVE  StagesInv'
<1> DEFINE un == RecoveredUnits(d)
<1> DEFINE cl == RecoveredClaims(d)
<1>1. UnitsOK(un, cl) /\ AllStand(un, cat)
  BY RecoveredOK, RecoveredStand DEF RowsInv
<1>2. UnitOK(un[u], NoClaim)
  <2>1. UnitOK(un[u], cl[u])
    BY <1>1 DEF UnitsOK
  <2>2. ~Claimed(cl, u)
    BY DEF Claim, Live, RecoveredClaims, DropAll, Due, Claimed, NoClaim
  <2>3. NoClaim \in ClaimRow /\ NoClaim.role = "none"
    BY DEF NoClaim, ClaimRow
  <2>4. QED
    BY <2>1, <2>2, <2>3 DEF UnitOK, ClaimMatches, IndependentRow, Claimed
<1>3. Stands(Occupied(un[u], role), cat[CategoryOf[u]])
  BY <1>1, <1>2, OccupiedStands DEF Claim, AllStand
<1>4. unit' = [un EXCEPT ![u] = Occupied(un[u], role)] /\ cat' = cat
  BY <1>1 DEF Claim, UnitsOK
<1> HIDE DEF un, cl
<1>5. AllStand(unit', cat)
  BY <1>1, <1>3, <1>4 DEF AllStand, UnitsOK
<1>6. QED
  BY <1>4, <1>5, UnitsStepStands

\* The six outcomes of complete.
LEMMA StagesComplete ==
  ASSUME RowsInv, StagesInv, NEW u \in Units, NEW o \in Owners, NEW d \in Delays,
         Complete(u, o, d)
  PROVE  StagesInv'
<1> DEFINE row == cat[CategoryOf[u]]
<1>0. Stands(unit[u], row)
  BY DEF StagesInv
<1>1. CASE CompleteAnalysis(u, o, d)
  <2>1. Stands(Analyzed(unit[u]), row)
    BY <1>0, <1>1, HeldClaim, AnalyzedStands DEF CompleteAnalysis, Roles
  <2>2. QED
    BY <1>1, <2>1, DeliverStands DEF CompleteAnalysis
<1>2. CASE CompleteTranslation(u, o, d)
  <2>1. Stands(Translated(unit[u], o), row)
    BY <1>0, <1>2, HeldClaim, TranslatedStands DEF CompleteTranslation, Roles
  <2>2. QED
    BY <1>2, <2>1, DeliverStands DEF CompleteTranslation
<1>3. CASE CompleteFix(u, o, d)
  <2>1. UnitOK(unit[u], claim[u]) /\ claim[u].role = "fixer"
    BY <1>3, HeldClaim DEF CompleteFix, Roles
  <2>2. UnitOK(Fixed(unit[u], o), NoClaim)
    BY <2>1, FixedOK
  <2>3. unit[u] \in UnitRow /\ unit[u].stage = "fixing" /\ PairedUnit(unit[u])
    BY <2>1, ClaimedUnit DEF UnitOK, ClaimingStage
  <2>4. /\ Fixed(unit[u], o).stage = "review" /\ Fixed(unit[u], o).status = "pending"
        /\ Fixed(unit[u], o).blocked_stage = unit[u].blocked_stage
        /\ Fixed(unit[u], o).translated_by = unit[u].translated_by
    BY <2>3 DEF Fixed, UnitRow
  <2>5. Stands(Fixed(unit[u], o), row)
    BY <1>0, <2>2, <2>3, <2>4, StaysUnderReview DEF UnitOK
  <2>6. QED
    BY <1>3, <2>5, DeliverStands DEF CompleteFix
<1>4. ASSUME Holds(u, "reviewer", o, d)
      PROVE  /\ UnitOK(unit[u], claim[u]) /\ claim[u].role = "reviewer" /\ claim[u].owner = o
             /\ unit[u] \in UnitRow /\ unit[u].stage = "reviewing" /\ PairedUnit(unit[u])
             /\ \A score \in {"low", "ten"} :
                  LET n == Reviewed(unit[u], o, score) IN
                  /\ n \in UnitRow /\ n.blocked_stage = unit[u].blocked_stage
                  /\ n.translated_by = unit[u].translated_by
  <2>1. UnitOK(unit[u], claim[u]) /\ claim[u].role = "reviewer" /\ claim[u].owner = o
    BY <1>4, HeldClaim DEF Roles
  <2>2. unit[u] \in UnitRow /\ unit[u].stage = "reviewing" /\ PairedUnit(unit[u])
    BY <2>1, ClaimedUnit DEF UnitOK, ClaimingStage
  <2>3. ASSUME NEW score \in {"low", "ten"}
        PROVE  LET n == Reviewed(unit[u], o, score) IN
               /\ n \in UnitRow /\ n.blocked_stage = unit[u].blocked_stage
               /\ n.translated_by = unit[u].translated_by
    <3>1. Reviewed(unit[u], o, score) \in UnitRow
      BY <2>1, ReviewedRow
    <3>2. QED
      BY <2>2, <3>1 DEF Reviewed, UnitRow
  <2>4. QED
    BY <2>1, <2>2, <2>3
<1>5. CASE ReviewPass(u, o, d)
  <2> DEFINE m == Reviewed(unit[u], o, "ten")
  <2>1. Holds(u, "reviewer", o, d) /\ Deliver(u, Passed(m), d)
    BY <1>5 DEF ReviewPass
  <2>2. UnitOK(Passed(m), NoClaim)
    BY <1>4, <2>1, PassedOK
  <2>3. m \in UnitRow /\ m.blocked_stage = unit[u].blocked_stage
        /\ m.translated_by = unit[u].translated_by
    BY <1>4, <2>1
  <2> HIDE DEF m
  <2>4. /\ Passed(m).stage = "done"
        /\ Passed(m).blocked_stage = unit[u].blocked_stage
        /\ Passed(m).translated_by = unit[u].translated_by
    BY <2>3 DEF Passed, UnitRow
  <2>5. Stands(Passed(m), row)
    BY <1>0, <1>4, <2>1, <2>2, <2>4, StaysUnderReview DEF UnitOK
  <2>6. QED
    BY <2>1, <2>5, DeliverStands
<1>6. ASSUME Holds(u, "reviewer", o, d)
      PROVE  LET n == Failed(Reviewed(unit[u], o, "low")) IN
             Stands(n, row) /\ n \in UnitRow /\ PairedUnit(n) /\ n.status # "done"
  <2> DEFINE m == Reviewed(unit[u], o, "low")
  <2>1. Failed(m) \in UnitRow /\ PairedUnit(Failed(m)) /\ Failed(m).status # "done"
    BY <1>4, <1>6, FailedOK
  <2>2. m \in UnitRow /\ m.blocked_stage = unit[u].blocked_stage
        /\ m.translated_by = unit[u].translated_by
    BY <1>4, <1>6
  <2> HIDE DEF m
  <2>3. /\ Failed(m).stage = "review" /\ Failed(m).status = "needs_fix"
        /\ Failed(m).blocked_stage = unit[u].blocked_stage
        /\ Failed(m).translated_by = unit[u].translated_by
    BY <2>2 DEF Failed, UnitRow
  <2>4. Stands(Failed(m), row)
    BY <1>0, <1>4, <1>6, <2>1, <2>3, StaysUnderReview
  <2>5. QED
    BY <2>1, <2>4 DEF m
<1>7. CASE ReviewFail(u, o, d)
  BY <1>6, <1>7, DeliverStands DEF ReviewFail
<1>8. CASE ReviewStrikeOut(u, o, d)
  <2> DEFINE c == CategoryOf[u]
  <2> DEFINE n == Failed(Reviewed(unit[u], o, "low"))
  <2> DEFINE un == [RecoveredUnits(d) EXCEPT ![u] = BlockedRow(n)]
  <2> DEFINE cl == [RecoveredClaims(d) EXCEPT ![u] = NoClaim]
  <2>1. Stands(n, row) /\ n \in UnitRow /\ PairedUnit(n) /\ n.status # "done"
    BY <1>6, <1>8 DEF ReviewStrikeOut
  <2>2. UnitOK(BlockedRow(n), NoClaim)
    BY <1>4, <1>8, StrikeOutOK DEF ReviewStrikeOut
  <2>3. c \in Categories /\ CategoryOK(cat[c]) /\ cat[c].status # "done" /\ PlacedCategory(cat[c])
    BY <1>8, CategoryAssumption, NoOneAssumption
       DEF ReviewStrikeOut, Holds, RowsInv, FocusOK, CategoriesOK, StagesInv
  <2>4. Halt(c, cat[c], un, cl, d)
    BY <1>8 DEF ReviewStrikeOut
  <2>5. PlacedUnit(BlockedRow(n)) /\ Fits(BlockedRow(n), At(cat[c]))
    BY <2>1, BlockedUnitFits DEF Stands
  <2>6. AllStand(RecoveredUnits(d), cat) /\ UnitsOK(RecoveredUnits(d), RecoveredClaims(d))
    BY RecoveredStand, RecoveredOK DEF RowsInv
  <2> HIDE DEF n
  <2>7. UnitsOK(un, cl)
    BY <2>2, <2>6, PutOK
  <2>8. \A v \in Units : un[v] = IF v = u THEN BlockedRow(n) ELSE RecoveredUnits(d)[v]
    BY <2>6 DEF UnitsOK
  <2> HIDE DEF un, cl
  <2>9. /\ \A v \in UnitsOf(c) : PlacedUnit(un[v]) /\ Fits(un[v], At(cat[c]))
        /\ \A v \in Units \ UnitsOf(c) : Stands(un[v], cat[CategoryOf[v]])
    BY <2>5, <2>6, <2>8 DEF AllStand, Stands, UnitsOf
  <2>10. QED
    BY <2>3, <2>4, <2>7, <2>9, HaltStands
<1>9. QED
  BY <1>1, <1>2, <1>3, <1>5, <1>7, <1>8 DEF Complete

\* release, heartbeat, recover and the clock.
LEMMA StagesLeases ==
  ASSUME RowsInv, StagesInv,
         \/ \E u \in Units, o \in Owners, d \in Delays :
              Release(u, o, d) \/ \E lease \in Leases : Heartbeat(u, o, lease, d)
         \/ \E d \in Delays : Recover(d)
         \/ Tick
  PROVE  StagesInv'
<1>1. ASSUME NEW u \in Units, NEW o \in Owners, NEW d \in Delays, Release(u, o, d)
      PROVE  StagesInv'
  <2>1. Claimed(claim, u) /\ unit' = RevertAll(unit, claim, {u}) /\ cat' = cat
    BY <1>1 DEF Release, HoldsLive, Live
  <2>2. AllStand(unit', cat)
    BY <2>1, RevertAllStands DEF AllStand, RowsInv, StagesInv
  <2>3. QED
    BY <2>1, <2>2, UnitsStepStands
<1>2. ASSUME NEW d \in Delays, Recover(d) PROVE StagesInv'
  BY <1>2, RecoveredStand, UnitsStepStands DEF Recover
<1>3. ASSUME UNCHANGED <<unit, cat>> PROVE StagesInv'
  BY <1>3 DEF StagesInv
<1>4. QED
  BY <1>1, <1>2, <1>3 DEF Heartbeat, Tick

\* advance within the five stages: what it checks of the units is that they have
\* all left the stage.
LEMMA StagesAdvance ==
  ASSUME RowsInv, StagesInv, NEW c \in Categories, NEW d \in Delays, Advance(c, d)
  PROVE  StagesInv'
<1> DEFINE un == RecoveredUnits(d)
<1> DEFINE r == [cat[c] EXCEPT !.stage = NextStage(@)]
<1>1. CategoryOK(cat[c]) /\ cat[c] \in CategoryRow /\ PlacedCategory(cat[c])
  BY DEF RowsInv, CategoriesOK, StagesInv
<1>2. /\ cat[c].stage \in {"analysis", "translation", "review", "consistency"}
      /\ cat[c].stage = "analysis" => \A u \in UnitsOf(c) : un[u].stage \notin {"pending", "analyzing"}
      /\ cat[c].stage = "translation" => \A u \in UnitsOf(c) : un[u].stage \notin {"translation", "translating"}
      /\ cat[c].stage = "consistency" => cat[c].consistency = "ten"
      /\ cat' = [cat EXCEPT ![c] = r] /\ unit' = un
  BY DEF Advance, StageComplete
<1>3. /\ r.stage = NextStage(cat[c].stage) /\ r.status = cat[c].status
      /\ r.blocked_stage = cat[c].blocked_stage
  BY <1>1 DEF CategoryRow
<1>4. PlacedCategory(r) /\ At(r) = r.stage /\ At(cat[c]) = cat[c].stage
      /\ r.stage \notin {"pending", "blocked"}
  BY <1>1, <1>2, <1>3 DEF PlacedCategory, At, NextStage
<1> HIDE DEF r
<1>5. AllStand(un, cat) /\ UnitsOK(un, RecoveredClaims(d))
  BY RecoveredStand, RecoveredOK DEF RowsInv
<1> HIDE DEF un
<1>6. ASSUME NEW u \in UnitsOf(c) PROVE Stands(un[u], r)
  <2>1. /\ Stands(un[u], cat[c]) /\ un[u] \in UnitRow /\ PairedUnit(un[u]) /\ PlacedUnit(un[u])
    BY <1>5 DEF AllStand, UnitsOK, UnitOK, UnitsOf, Stands
  <2>2. un[u].stage # "blocked"
    BY <1>2, <2>1 DEF Stands, Together
  <2>3. Fits(un[u], cat[c].stage)
    BY <1>4, <2>1 DEF Stands
  <2>4. /\ cat[c].stage = "analysis" => UnitOrigin(un[u]) = "translation"
        /\ cat[c].stage \in {"translation", "review", "consistency"} => UnitOrigin(un[u]) = "review"
    BY <1>2, <2>1, <2>2, <2>3, Origins DEF Fits, Ahead, UnitRow, UnitStages
  <2>5. Fits(un[u], r.stage)
    BY <1>2, <1>3, <2>3, <2>4 DEF Fits, Ahead, NextStage
  <2>6. QED
    BY <1>4, <2>1, <2>2, <2>5 DEF Stands, Together
<1>7. cat \in [Categories -> CategoryRow]
  BY DEF RowsInv, CategoriesOK
<1>8. \A u \in Units : Stands(unit'[u], cat'[CategoryOf[u]])
  BY <1>2, <1>5, <1>6, <1>7, CategoryAssumption DEF AllStand, UnitsOf
<1>9. QED
  BY <1>2, <1>4, <1>7, <1>8 DEF StagesInv

\* A category row changes without leaving its stage: verdicts and rounds.
LEMMA SameStageStands ==
  ASSUME RowsInv, StagesInv, NEW c \in Categories, NEW row, PlacedCategory(row),
         \A r : Stands(r, cat[c]) => Stands(r, row),
         AllStand(unit', cat), cat' = [cat EXCEPT ![c] = row]
  PROVE  StagesInv'
<1>1. cat \in [Categories -> CategoryRow]
  BY DEF RowsInv, CategoriesOK
<1>2. QED
  BY <1>1, CategoryAssumption DEF StagesInv, AllStand

\* advance out of verification: the next category opens in analysis, where its
\* untouched units are.
LEMMA StagesFinish ==
  ASSUME RowsInv, StagesInv, NEW c \in Categories, NEW allow \in BOOLEAN, NEW d \in Delays,
         Finish(c, allow, d)
  PROVE  StagesInv'
<1> DEFINE r == [cat[c] EXCEPT !.stage = "done", !.status = "done", !.gate_status = Verdict(c)]
<1> DEFINE rows == [cat EXCEPT ![c] = r]
<1>1. /\ CategoryOK(cat[c]) /\ cat[c] \in CategoryRow /\ PlacedCategory(cat[c])
      /\ cat[c].stage = "verification"
  BY DEF RowsInv, CategoriesOK, StagesInv, Finish
<1>2. r.stage = "done" /\ r.status = "done" /\ r.blocked_stage = cat[c].blocked_stage
  BY <1>1 DEF CategoryRow
<1> HIDE DEF r
<1>3. PlacedCategory(r) /\ At(r) = "done" /\ At(cat[c]) = "verification"
  BY <1>1, <1>2 DEF PlacedCategory, At
<1>4. \A x : Stands(x, cat[c]) => Stands(x, r)
  BY <1>1, <1>2, <1>3 DEF Stands, Fits, Ahead, Together
<1>5. cat \in [Categories -> CategoryRow]
  BY DEF RowsInv, CategoriesOK
<1>6. unit' = RecoveredUnits(d) /\ AllStand(RecoveredUnits(d), cat)
  BY RecoveredStand DEF Finish
<1>7. AllStand(unit', rows) /\ \A k \in Categories : PlacedCategory(rows[k])
  BY <1>3, <1>4, <1>5, <1>6, CategoryAssumption DEF AllStand, StagesInv
<1>8. \A k \in Categories : rows[k] = IF k = c THEN r ELSE cat[k]
  BY <1>5
<1>9. rows = [k \in Categories |-> rows[k]]
  BY <1>5
<1> HIDE DEF rows
<1>10. CASE cat' = rows
  BY <1>7, <1>10 DEF AllStand, StagesInv
<1>11. ASSUME NEW n \in Categories, rows[n].status = "pending",
              cat' = [rows EXCEPT ![n] = Activated(@)]
       PROVE  StagesInv'
  <2>1. n # c /\ rows[n] = cat[n]
    BY <1>2, <1>8, <1>11
  <2>2. CategoryOK(cat[n]) /\ cat[n] \in CategoryRow /\ cat[n].stage = "pending" /\ PlacedCategory(cat[n])
    BY <1>11, <2>1 DEF RowsInv, CategoriesOK, CategoryOK, StagesInv
  <2> DEFINE a == Activated(cat[n])
  <2>3. /\ a.stage = "analysis" /\ a.status = "active"
        /\ a.blocked_stage = cat[n].blocked_stage
    BY <2>2 DEF Activated, CategoryRow
  <2> HIDE DEF a
  <2>4. PlacedCategory(a) /\ At(a) = "analysis" /\ At(cat[n]) = "pending"
    BY <2>2, <2>3 DEF PlacedCategory, At
  <2>5. \A x : Stands(x, cat[n]) => Stands(x, a)
    BY <2>2, <2>3, <2>4 DEF Stands, Fits, Ahead, Together
  <2>6. \A k \in Categories : cat'[k] = IF k = n THEN a ELSE rows[k]
    BY <1>9, <1>11, <2>1 DEF a
  <2>7. QED
    BY <1>7, <2>1, <2>4, <2>5, <2>6, CategoryAssumption DEF AllStand, StagesInv
<1>12. QED
  BY <1>10, <1>11 DEF Finish, FirstOpen, rows, r

\* record-consistency leaves the category in consistency, or halts it there.
LEMMA StagesRecordConsistency ==
  ASSUME RowsInv, StagesInv, NEW c \in Categories, NEW score \in {"low", "ten"},
         NEW d \in Delays, RecordConsistency(c, score, d)
  PROVE  StagesInv'
<1> DEFINE row == [cat[c] EXCEPT !.round = @ + 1, !.consistency = score]
<1> DEFINE r == [row EXCEPT !.status = IF score = "ten" THEN "active" ELSE "needs_fix"]
<1>1. cat[c] \in CategoryRow /\ CategoryOK(cat[c]) /\ PlacedCategory(cat[c])
  BY DEF RowsInv, CategoriesOK, StagesInv
<1>2. cat[c].round + 1 \in 0..MaxRounds
  BY <1>1, PolicyAssumption DEF RecordConsistency, CategoryRow
<1>3. cat[c].stage = "consistency" /\ cat[c].status \in {"active", "needs_fix"}
  BY <1>1 DEF RecordConsistency, CategoryOK, CategoryRow
<1>4. /\ row \in CategoryRow
      /\ row.stage = "consistency" /\ row.status = cat[c].status /\ row.consistency = score
      /\ row.blocked_stage = cat[c].blocked_stage
  BY <1>1, <1>2, <1>3 DEF CategoryRow, Scores
<1>5. /\ r.stage = "consistency" /\ r.consistency = score
      /\ r.blocked_stage = cat[c].blocked_stage
      /\ r.status = IF score = "ten" THEN "active" ELSE "needs_fix"
  <2> HIDE DEF row
  <2> QED BY <1>4 DEF CategoryRow
<1>6. UnitsOK(RecoveredUnits(d), RecoveredClaims(d)) /\ AllStand(RecoveredUnits(d), cat)
  BY RecoveredOK, RecoveredStand DEF RowsInv
<1>7. CASE score # "ten" /\ row.round >= MaxRounds
  <2>1. Halt(c, row, RecoveredUnits(d), RecoveredClaims(d), d)
    BY <1>7 DEF RecordConsistency
  <2> HIDE DEF row
  <2>2. Open(row) /\ PlacedCategory(row) /\ At(row) = At(cat[c])
    BY <1>1, <1>3, <1>4, <1>7 DEF Open, Stages, PlacedCategory, At
  <2>3. CategoryOK(row) /\ row.status # "done"
    BY <2>2, OpenOK
  <2>4. /\ \A u \in UnitsOf(c) : /\ PlacedUnit(RecoveredUnits(d)[u])
                                  /\ Fits(RecoveredUnits(d)[u], At(cat[c]))
        /\ \A u \in Units \ UnitsOf(c) : Stands(RecoveredUnits(d)[u], cat[CategoryOf[u]])
    BY <1>6 DEF AllStand, Stands, UnitsOf
  <2>5. QED
    BY <1>6, <2>1, <2>2, <2>3, <2>4, HaltStands
<1>8. CASE ~(score # "ten" /\ row.round >= MaxRounds)
  <2>1. cat' = [cat EXCEPT ![c] = r] /\ unit' = RecoveredUnits(d)
    BY <1>8 DEF RecordConsistency
  <2> HIDE DEF r
  <2>2. PlacedCategory(r) /\ At(r) = At(cat[c])
    BY <1>1, <1>3, <1>5 DEF PlacedCategory, At
  <2>3. \A x : Stands(x, cat[c]) => Stands(x, r)
    BY <1>3, <1>5, <2>2 DEF Stands, Together
  <2>4. QED
    BY <1>6, <2>1, <2>2, <2>3, SameStageStands
<1>9. QED
  BY <1>7, <1>8

\* block of a unit or of a category halts the category where it is.
LEMMA StagesBlock ==
  ASSUME RowsInv, StagesInv, NEW d \in Delays,
         \/ \E u \in Units : BlockUnit(u, d)
         \/ \E c \in Categories : BlockCategory(c, d)
  PROVE  StagesInv'
<1>1. ASSUME NEW u \in Units, BlockUnit(u, d) PROVE StagesInv'
  <2> DEFINE c == CategoryOf[u]
  <2> DEFINE un == [unit EXCEPT ![u] = BlockedRow(unit[u])]
  <2>1. /\ UnitOK(unit[u], claim[u]) /\ unit[u].status # "done" /\ c \in Categories
        /\ Stands(unit[u], cat[c]) /\ unit \in [Units -> UnitRow]
    BY <1>1, CategoryAssumption DEF RowsInv, UnitsOK, BlockUnit, StagesInv
  <2>2. UnitOK(BlockedRow(unit[u]), NoClaim)
    BY <2>1, BlockedUnitOK DEF UnitOK
  <2>3. UnitsOK(un, [claim EXCEPT ![u] = NoClaim])
    BY <2>2, PutOK DEF RowsInv
  <2>4. DropAll(claim, {u}) = [claim EXCEPT ![u] = NoClaim]
    BY DEF DropAll, RowsInv, UnitsOK
  <2>5. CategoryOK(cat[c]) /\ cat[c].status # "done" /\ PlacedCategory(cat[c])
    BY <2>1 DEF RowsInv, CategoriesOK, CategoryOK, UnitsDone, Late, StagesInv
  <2>6. PlacedUnit(BlockedRow(unit[u])) /\ Fits(BlockedRow(unit[u]), At(cat[c]))
    BY <2>1, BlockedUnitFits DEF UnitOK, Stands
  <2>7. \A v \in Units : un[v] = IF v = u THEN BlockedRow(unit[u]) ELSE unit[v]
    BY <2>1
  <2>8. Halt(c, cat[c], un, DropAll(claim, {u}), d)
    BY <1>1 DEF BlockUnit
  <2> HIDE DEF un
  <2>9. /\ \A v \in UnitsOf(c) : PlacedUnit(un[v]) /\ Fits(un[v], At(cat[c]))
        /\ \A v \in Units \ UnitsOf(c) : Stands(un[v], cat[CategoryOf[v]])
    BY <2>6, <2>7 DEF StagesInv, Stands, UnitsOf
  <2> HIDE DEF c
  <2>10. QED
    BY <2>1, <2>3, <2>4, <2>5, <2>8, <2>9, HaltStands
<1>2. ASSUME NEW c \in Categories, BlockCategory(c, d) PROVE StagesInv'
  <2>1. /\ CategoryOK(cat[c]) /\ cat[c].status # "done" /\ PlacedCategory(cat[c])
        /\ Halt(c, cat[c], unit, claim, d) /\ UnitsOK(unit, claim)
    BY <1>2 DEF BlockCategory, RowsInv, CategoriesOK, StagesInv
  <2>2. /\ \A v \in UnitsOf(c) : PlacedUnit(unit[v]) /\ Fits(unit[v], At(cat[c]))
        /\ \A v \in Units \ UnitsOf(c) : Stands(unit[v], cat[CategoryOf[v]])
    BY DEF StagesInv, Stands, UnitsOf
  <2>3. QED
    BY <2>1, <2>2, HaltStands
<1>3. QED
  BY <1>1, <1>2

\* How far a category is, by where it is.
LEMMA ProgressAt ==
  ASSUME RowsInv, NEW c \in Categories
  PROVE  /\ Progress(c) = Rank(At(cat[c])) /\ Progress(c) \in 0..5
         /\ Progress(c) = 0 <=> At(cat[c]) \in {"pending", "analysis"}
         /\ Progress(c) = 1 <=> At(cat[c]) = "translation"
         /\ Progress(c) = 2 <=> At(cat[c]) = "review"
         /\ Progress(c) = 3 <=> At(cat[c]) = "consistency"
         /\ Progress(c) = 4 <=> At(cat[c]) = "verification"
         /\ Progress(c) = 5 <=> At(cat[c]) = "done"
<1>1. At(cat[c]) \in Stages \cup {"pending", "done"}
  BY Positions DEF RowsInv, CategoriesOK
<1>2. Progress(c) = Rank(At(cat[c]))
  BY DEF Progress, At
<1>3. QED
  BY <1>1, <1>2, Ranks DEF Stages

\* The stages unblock may name do not lie ahead of where a blocked row came from.
LEMMA NotAheadOf ==
  ASSUME NEW stage \in Stages, NEW origin, NotAhead(stage, origin)
  PROVE  /\ stage = "review" => origin \in {"review", "consistency", "verification"}
         /\ stage = "consistency" => origin \in {"consistency", "verification"}
         /\ stage = "verification" => origin = "verification"
         /\ stage = "translation" => origin # "analysis"
         /\ origin \in Stages
<1>1. /\ StageOrder("analysis") = 0 /\ StageOrder("translation") = 1 /\ StageOrder("review") = 2
      /\ StageOrder("consistency") = 3 /\ StageOrder("verification") = 4
  BY DEF StageOrder
<1>2. QED
  BY <1>1 DEF NotAhead, Stages

\* Where a category row came from, for unblock.
LEMMA CategoryOrigin ==
  ASSUME NEW row, CategoryOK(row), PlacedCategory(row), Origin(row) \in Stages
  PROVE  At(row) = Origin(row) \/ (At(row) = "pending" /\ Origin(row) = "analysis")
<1>1. CASE row.stage = "blocked"
  <2>1. row.blocked_stage \in Stages
    BY <1>1 DEF CategoryOK
  <2>2. row.blocked_stage # "none"
    BY <2>1 DEF Stages
  <2>3. Origin(row) = row.blocked_stage
    BY <2>2 DEF Origin
  <2>4. QED
    BY <1>1, <2>3 DEF At
<1>2. CASE row.stage # "blocked"
  <2>1. Origin(row) = NormalizeStage(row.stage) /\ At(row) = row.stage
    BY <1>2 DEF PlacedCategory, Origin, At
  <2>2. row.stage \in Stages \cup {"pending", "done"}
    BY <1>2 DEF CategoryOK, CategoryRow
  <2>3. QED
    <3>1. CASE row.stage \in Stages
      <4>1. NormalizeStage(row.stage) = row.stage
        BY <3>1 DEF NormalizeStage, Stages
      <4>2. QED
        BY <2>1, <4>1
    <3>2. CASE row.stage = "pending"
      <4>1. NormalizeStage("pending") = "analysis"
        BY DEF NormalizeStage
      <4>2. QED
        BY <2>1, <3>2, <4>1
    <3>3. CASE row.stage = "done"
      <4>1. NormalizeStage("done") = "done"
        BY DEF NormalizeStage
      <4>2. QED
        BY <2>1, <3>3, <4>1 DEF Stages
    <3>4. QED
      BY <2>2, <3>1, <3>2, <3>3
<1>3. QED
  BY <1>1, <1>2

\* Units outside the category that restarts are only recovered.
LEMMA Elsewhere ==
  ASSUME RowsInv, StagesInv, NEW c \in Categories, NEW d,
         \A u \in Units \ UnitsOf(c) : unit'[u] = RecoveredUnits(d)[u]
  PROVE  \A u \in Units \ UnitsOf(c) : Stands(unit'[u], cat[CategoryOf[u]])
BY RecoveredStand DEF AllStand

\* unblock of a unit to analysis or translation sends its whole category there.
LEMMA StagesUnblockUnitReset ==
  ASSUME RowsInv, StagesInv, NEW u \in Units, NEW stage \in {"analysis", "translation"},
         NEW force \in Forces, NEW d \in Delays, UnblockUnitReset(u, stage, force, d)
  PROVE  StagesInv'
<1> DEFINE c == CategoryOf[u]
<1> DEFINE row == Wiped(Restarted(cat[c], stage))
<1> DEFINE cl == DropAll(RecoveredClaims(d), UnitsOf(c))
<1>1. c \in Categories /\ cat[c] \in CategoryRow
  BY CategoryAssumption DEF RowsInv, CategoriesOK
<1>2. PlacedCategory(row) /\ row.stage = stage
  BY <1>1, RestartedAt, RestartedOK DEF Stages
<1>3. Activate(c, row, force, cl, d) /\ unit' = ResetAll(RecoveredUnits(d), c, stage)
  BY DEF UnblockUnitReset
<1> HIDE DEF c, row, cl
<1>4. \A v \in UnitsOf(c) : Stands(unit'[v], row)
  BY <1>2, <1>3, ResetUnitStands DEF ResetAll, UnitsOf
<1>5. \A v \in Units \ UnitsOf(c) : Stands(unit'[v], cat[CategoryOf[v]])
  BY <1>1, <1>3, Elsewhere DEF ResetAll
<1>6. QED
  BY <1>1, <1>2, <1>3, <1>4, <1>5, ActivateStands

\* unblock of a unit to review, of a category that had reached review: all its
\* units are there, and none but the unit is blocked.
LEMMA StagesUnblockUnitReview ==
  ASSUME RowsInv, StagesInv, NEW u \in Units, NEW force \in Forces, NEW d \in Delays,
         UnblockUnitReview(u, force, d), StageOrder("review") <= Progress(CategoryOf[u])
  PROVE  StagesInv'
<1> DEFINE c == CategoryOf[u]
<1> DEFINE un == RecoveredUnits(d)
<1> DEFINE row == Restarted(cat[c], "review")
<1> DEFINE cl == DropAll(RecoveredClaims(d), {u})
<1>1. c \in Categories /\ cat[c] \in CategoryRow
  BY CategoryAssumption DEF RowsInv, CategoriesOK
<1>2. PlacedCategory(row) /\ At(row) = "review" /\ row.stage = "review"
  <2>1. "review" \in Stages /\ "review" # "verification"
    BY DEF Stages
  <2>2. QED
    BY <1>1, <2>1, RestartedAt, RestartedOK
<1>3. At(cat[c]) \notin {"pending", "analysis", "translation"}
  <2>1. StageOrder("review") = 2
    BY DEF StageOrder
  <2>2. QED
    BY <1>1, <2>1, ProgressAt
<1>4. /\ Activate(c, row, force, cl, d) /\ unit' = ReviewAll(un, {u})
      /\ un[u].translated_by # NoOne /\ BlockedUnits(c, un) \subseteq {u}
  BY DEF UnblockUnitReview
<1>5. AllStand(un, cat) /\ UnitsOK(un, RecoveredClaims(d))
  BY RecoveredStand, RecoveredOK DEF RowsInv
<1>6. \A v \in Units : unit'[v] = IF v = u THEN ReviewAgain(un[v]) ELSE un[v]
  BY <1>4 DEF ReviewAll
<1>7. u \in UnitsOf(c)
  BY DEF UnitsOf
<1> HIDE DEF c, row, cl, un
<1>8. ASSUME NEW v \in UnitsOf(c) PROVE Stands(unit'[v], row)
  <2>1. v \in Units /\ CategoryOf[v] = c /\ un[v] \in UnitRow /\ PairedUnit(un[v])
    BY <1>5 DEF UnitsOf, UnitsOK, UnitOK
  <2>2. CASE v = u
    BY <1>2, <1>4, <1>6, <2>1, <2>2, ReviewAgainStands
  <2>3. CASE v # u
    <3>1. un[v].stage # "blocked"
      BY <1>4, <2>1, <2>3 DEF BlockedUnits, UnitsOf, PairedUnit
    <3>2. Stands(un[v], cat[c]) /\ UnitOrigin(un[v]) = "review"
      BY <1>3, <1>5, <2>1 DEF AllStand, Stands, Fits, Ahead
    <3>3. QED
      BY <1>2, <1>3, <1>6, <2>1, <2>3, <3>1, <3>2 DEF Stands, Fits, Ahead, Together
  <2>4. QED
    BY <2>2, <2>3
<1>9. \A v \in Units \ UnitsOf(c) : unit'[v] = RecoveredUnits(d)[v]
  BY <1>6, <1>7 DEF un
<1>10. QED
  BY <1>1, <1>2, <1>4, <1>8, <1>9, ActivateStands, Elsewhere

\* unblock of a category, to no stage ahead of where it was blocked.
LEMMA StagesUnblockCategory ==
  ASSUME RowsInv, StagesInv, NEW c \in Categories, NEW stage \in Stages,
         NEW force \in Forces, NEW d \in Delays, UnblockCategory(c, stage, force, d)
  PROVE  StagesInv'
<1> DEFINE un == RecoveredUnits(d)
<1> DEFINE struck == BlockedUnits(c, un)
<1> DEFINE cl == DropAll(RecoveredClaims(d), IF stage = "review" THEN struck ELSE UnitsOf(c))
<1> DEFINE row == IF stage = "verification" THEN Restarted(cat[c], stage)
                                            ELSE Wiped(Restarted(cat[c], stage))
<1>1. CategoryOK(cat[c]) /\ cat[c] \in CategoryRow /\ PlacedCategory(cat[c])
  BY DEF RowsInv, CategoriesOK, StagesInv
<1>2. PlacedCategory(row) /\ At(row) = stage /\ row.stage = stage
  BY <1>1, RestartedAt, RestartedOK DEF UnblockCategory
<1>3. Activate(c, row, force, cl, d)
  BY DEF UnblockCategory
<1>4. /\ NotAhead(stage, Origin(cat[c]))
      /\ stage = "review" => \A u \in struck : un[u].translated_by # NoOne
      /\ stage \in {"consistency", "verification"} => \A u \in UnitsOf(c) : un[u].status = "done"
      /\ stage \in {"analysis", "translation"} => unit' = ResetAll(un, c, stage)
      /\ stage = "review" => unit' = ReviewAll(un, struck)
      /\ stage \in {"consistency", "verification"} => unit' = un
  BY DEF UnblockCategory, Stages
<1>5. AllStand(un, cat) /\ UnitsOK(un, RecoveredClaims(d))
  BY RecoveredStand, RecoveredOK DEF RowsInv
<1>6. stage \in {"review", "consistency", "verification"} =>
        At(cat[c]) \in {"review", "consistency", "verification"}
  BY <1>1, <1>4, NotAheadOf, CategoryOrigin
<1>7. \A v \in Units \ UnitsOf(c) : unit'[v] = un[v]
  BY <1>4 DEF ResetAll, ReviewAll, BlockedUnits, Stages
<1> HIDE DEF row, cl, un
<1>8. ASSUME NEW v \in UnitsOf(c) PROVE Stands(unit'[v], row)
  <2>1. v \in Units /\ CategoryOf[v] = c /\ un[v] \in UnitRow /\ PairedUnit(un[v])
    BY <1>5 DEF UnitsOf, UnitsOK, UnitOK
  <2>2. CASE stage \in {"analysis", "translation"}
    <3>1. unit'[v] = ResetUnit(stage)
      BY <1>4, <2>1, <2>2 DEF ResetAll
    <3>2. QED
      BY <1>2, <2>2, <3>1, ResetUnitStands
  <2>3. CASE stage \notin {"analysis", "translation"}
    <3>1. Stands(un[v], cat[c]) /\ UnitOrigin(un[v]) = "review" /\ un[v].translated_by # NoOne
      BY <1>5, <1>6, <2>1, <2>3 DEF AllStand, Stands, Fits, Ahead, Stages
    <3>2. un[v].stage # "blocked" => Stands(un[v], row)
      BY <1>2, <1>6, <2>1, <2>3, <3>1 DEF Stands, Fits, Ahead, Together, Stages
    <3>3. CASE stage = "review"
      <4>1. CASE v \in struck
        <5>1. unit'[v] = ReviewAgain(un[v])
          BY <1>4, <2>1, <3>3, <4>1 DEF ReviewAll
        <5>2. QED
          BY <1>2, <2>1, <3>1, <3>3, <5>1, ReviewAgainStands
      <4>2. CASE v \notin struck
        <5>1. unit'[v] = un[v] /\ un[v].stage # "blocked"
          BY <1>4, <2>1, <3>3, <4>2 DEF ReviewAll, BlockedUnits, PairedUnit
        <5>2. QED
          BY <3>2, <5>1
      <4>3. QED
        BY <4>1, <4>2
    <3>4. CASE stage \in {"consistency", "verification"}
      <4>1. unit'[v] = un[v] /\ un[v].stage # "blocked"
        BY <1>4, <2>1, <3>4 DEF PairedUnit
      <4>2. QED
        BY <3>2, <4>1
    <3>5. QED
      BY <2>3, <3>3, <3>4 DEF Stages
  <2>4. QED
    BY <2>2, <2>3
<1>9. \A v \in Units \ UnitsOf(c) : Stands(unit'[v], cat[CategoryOf[v]])
  BY <1>7, Elsewhere DEF un
<1> HIDE DEF struck
<1>10. QED
  BY <1>2, <1>3, <1>8, <1>9, ActivateStands

\* reopen sends a category back to where it was blocked, or to review with all
\* its units, which have been translated.
LEMMA StagesReopen ==
  ASSUME RowsInv, StagesInv, NEW c \in Categories, NEW force \in Forces, NEW d \in Delays,
         Reopen(c, force, d)
  PROVE  StagesInv'
<1> DEFINE un == RecoveredUnits(d)
<1> DEFINE from == cat[c].blocked_stage
<1> DEFINE stage == IF cat[c].status = "blocked" /\ from \in {"analysis", "translation"}
                    THEN from ELSE "review"
<1> DEFINE row == Wiped(Restarted(cat[c], stage))
<1>1. /\ CategoryOK(cat[c]) /\ cat[c] \in CategoryRow /\ PlacedCategory(cat[c])
      /\ stage \in {"analysis", "translation", "review"}
  BY DEF RowsInv, CategoriesOK, StagesInv
<1>2. PlacedCategory(row) /\ At(row) = stage /\ row.stage = stage
  <2>1. stage \in Stages /\ stage # "verification"
    BY <1>1 DEF Stages
  <2> HIDE DEF stage
  <2>2. QED
    BY <1>1, <2>1, RestartedAt, RestartedOK
<1>3. /\ Activate(c, row, force, RecoveredClaims(d), d)
      /\ unit' = IF stage = "review" THEN ReviewAll(un, UnitsOf(c)) ELSE ResetAll(un, c, stage)
      /\ cat[c].status \in {"done", "blocked"}
  BY DEF Reopen
<1>4. stage = "review" => At(cat[c]) \in {"review", "consistency", "verification", "done"}
  BY <1>1, <1>3 DEF CategoryOK, At, Stages
<1>5. AllStand(un, cat) /\ UnitsOK(un, RecoveredClaims(d))
  BY RecoveredStand, RecoveredOK DEF RowsInv
<1> HIDE DEF row, stage
<1>6. \A v \in Units \ UnitsOf(c) : Stands(unit'[v], cat[CategoryOf[v]])
  BY <1>3, Elsewhere DEF ReviewAll, ResetAll
<1> HIDE DEF un
<1>7. ASSUME NEW v \in UnitsOf(c) PROVE Stands(unit'[v], row)
  <2>1. v \in Units /\ CategoryOf[v] = c /\ un[v] \in UnitRow
    BY <1>5 DEF UnitsOf, UnitsOK
  <2>2. CASE stage = "review"
    <3>1. un[v].translated_by # NoOne
      BY <1>4, <1>5, <2>1, <2>2 DEF AllStand, Stands, Fits, Ahead
    <3>2. QED
      BY <1>2, <1>3, <2>1, <2>2, <3>1, ReviewAgainStands DEF ReviewAll
  <2>3. CASE stage # "review"
    BY <1>1, <1>2, <1>3, <2>1, <2>3, ResetUnitStands DEF ResetAll
  <2>4. QED
    BY <2>2, <2>3
<1>8. QED
  BY <1>2, <1>3, <1>6, <1>7, ActivateStands

\* Every step keeps units and categories together, if operators unblock in order.
LEMMA StagesNext ==
  ASSUME OrderlyUnblock, RowsInv, StagesInv, [Next]_vars
  PROVE  StagesInv'
<1>1. CASE Agent
  BY <1>1, StagesClaim, StagesComplete, StagesLeases DEF Agent
<1>2. CASE Orchestrator
  <2>1. ASSUME NEW c \in Categories, NEW g \in RequiredGates, NEW verdict \in Verdicts,
               RecordGate(c, g, verdict)
        PROVE  StagesInv'
    BY <2>1 DEF RecordGate, StagesInv
  <2>2. QED
    BY <1>2, <2>1, StagesAdvance, StagesFinish, StagesRecordConsistency, StagesLeases DEF Orchestrator
<1>3. CASE OperatorOnUnit
  BY <1>3, StagesBlock, StagesUnblockUnitReset, StagesUnblockUnitReview
     DEF OperatorOnUnit, Orderly
<1>4. CASE OperatorOnCategory
  BY <1>4, StagesBlock, StagesUnblockCategory, StagesReopen DEF OperatorOnCategory
<1>5. CASE Tick
  BY <1>5, StagesLeases
<1>6. CASE UNCHANGED vars
  BY <1>6 DEF vars, StagesInv
<1>7. QED
  BY <1>1, <1>2, <1>3, <1>4, <1>5, <1>6 DEF Next

\* A unit is always in the stage of its category or waits at the next one, and is
\* blocked only with its category, whatever the order of the store's operations.
THEOREM Standing ==
  ASSUME OrderlyUnblock
  PROVE  Spec => []StagesInv
<1>1. Init => StagesInv
  BY StagesInit
<1>2. RowsInv /\ StagesInv /\ [Next]_vars => StagesInv'
  BY StagesNext
<1>3. QED
  BY <1>1, <1>2, Rows, PTL DEF Spec

\* Under review or later every unit has been analysed, and translated by somebody
\* (advance's checks, and unblock's and reopen's translated_by), for orderly
\* operators.
THEOREM TranslationFirst ==
  ASSUME OrderlyUnblock
  PROVE  Spec => []TranslatedBeforeReview
<1>1. ASSUME RowsInv, StagesInv, NEW u \in Units
      PROVE  LET c == CategoryOf[u] IN
             /\ Progress(c) >= 1 => UnitOrigin(unit[u]) # "analysis"
             /\ Progress(c) >= 2 => unit[u].translated_by # NoOne
  <2> DEFINE c == CategoryOf[u]
  <2>1. c \in Categories /\ Fits(unit[u], At(cat[c]))
    BY <1>1, CategoryAssumption DEF StagesInv, Stands
  <2>2. /\ Progress(c) >= 1 => At(cat[c]) \notin {"pending", "analysis"}
        /\ Progress(c) >= 2 => At(cat[c]) \notin {"pending", "analysis", "translation"}
    BY <1>1, <2>1, ProgressAt
  <2>3. QED
    BY <2>1, <2>2 DEF Fits, Ahead
<1>2. RowsInv /\ StagesInv => TranslatedBeforeReview
  BY <1>1 DEF TranslatedBeforeReview
<1>3. QED
  BY <1>2, Rows, Standing, PTL

-----------------------------------------------------------------------------
(* Verdicts are about the work as it stands *)

\* A category has a consistency verdict only past review, gate results only in
\* verification or later, and a gate status only when it is done.
Fresh(row, gs) ==
  /\ ~Late(row) => row.consistency = "none" /\ row.round = 0
  /\ ~Verifying(row) => gs = NoGates
  /\ row.status # "done" => row.gate_status = "none"

FreshInv == \A c \in Categories : Fresh(cat[c], gates[c])

\* A category that is blocked keeps its verdicts, and its distance from the end.
LEMMA BlockedFresh ==
  ASSUME NEW row, CategoryOK(row), row.status # "done", NEW gs, Fresh(row, gs)
  PROVE  Fresh(BlockedRow(row), gs)
<1>1. /\ CategoryOK(BlockedRow(row))
      /\ At(BlockedRow(row)) = IF At(row) = "pending" THEN "analysis" ELSE At(row)
  BY BlockedCategoryOK, BlockedCategoryAt
<1>2. Late(BlockedRow(row)) <=> Late(row)
  BY <1>1, Positions
<1>3. Verifying(BlockedRow(row)) <=> Verifying(row)
  BY <1>1, Positions
<1>4. /\ BlockedRow(row).consistency = row.consistency /\ BlockedRow(row).round = row.round
      /\ BlockedRow(row).gate_status = row.gate_status
  BY DEF BlockedRow, CategoryOK, CategoryRow
<1>5. QED
  BY <1>2, <1>3, <1>4 DEF Fresh

\* Blocking a category.
LEMMA HaltFresh ==
  ASSUME RowsInv, FreshInv, NEW c \in Categories,
         NEW row, CategoryOK(row), row.status # "done", Fresh(row, gates[c]),
         NEW un, NEW cl, NEW d, Halt(c, row, un, cl, d), gates' = gates
  PROVE  FreshInv'
<1>1. cat' = [cat EXCEPT ![c] = BlockedRow(row)] /\ cat \in [Categories -> CategoryRow]
  BY DEF Halt, RowsInv, CategoriesOK
<1>2. QED
  BY <1>1, BlockedFresh DEF FreshInv

\* Moving the focus to a category that restarts, pausing another one.
LEMMA ActivateFresh ==
  ASSUME RowsInv, FreshInv, NEW c \in Categories, NEW row, Fresh(row, gates'[c]),
         NEW force, NEW cl, NEW d, Activate(c, row, force, cl, d),
         \A k \in Categories \ {c} : gates'[k] = gates[k]
  PROVE  FreshInv'
<1>1. PICK p \in Pausable(c, force, cl, d) :
        cat' = [k \in Categories |->
                  IF k = c THEN row ELSE IF k = p THEN BlockedRow(cat[k]) ELSE cat[k]]
  BY DEF Activate
<1>2. p \in Categories => cat[p].status # "done"
  BY <1>1, NoOneAssumption DEF Pausable, Others
<1>3. ASSUME NEW k \in Categories \ {c} PROVE Fresh(cat'[k], gates'[k])
  <2>1. CategoryOK(cat[k]) /\ Fresh(cat[k], gates'[k])
    BY DEF RowsInv, CategoriesOK, FreshInv
  <2>2. CASE k = p
    BY <1>1, <1>2, <2>1, <2>2, BlockedFresh
  <2>3. CASE k # p
    BY <1>1, <2>1, <2>3
  <2>4. QED
    BY <2>2, <2>3
<1>4. cat'[c] = row
  BY <1>1
<1>5. QED
  BY <1>3, <1>4 DEF FreshInv

\* A category that starts over has no verdict left.
LEMMA WipedFresh ==
  ASSUME NEW row \in CategoryRow, NEW stage \in Stages
  PROVE  Fresh(Wiped(Restarted(row, stage)), NoGates)
<1>1. Restarted(row, stage) \in CategoryRow
  BY DEF Restarted, CategoryRow, Stages
<1>2. LET n == Wiped(Restarted(row, stage)) IN
      n.consistency = "none" /\ n.round = 0 /\ n.gate_status = "none"
  BY <1>1 DEF Wiped, CategoryRow
<1>3. QED
  BY <1>2 DEF Fresh

\* What advance, record-consistency and gate write.
LEMMA FreshOrchestrator ==
  ASSUME RowsInv, FreshInv, Orchestrator
  PROVE  FreshInv'
<1>a. cat \in [Categories -> CategoryRow] /\ \A c \in Categories : CategoryOK(cat[c]) /\ Fresh(cat[c], gates[c])
  BY DEF RowsInv, CategoriesOK, FreshInv
<1>b. PICK c \in Categories, d \in Delays :
        \/ Advance(c, d)
        \/ \E allow \in BOOLEAN : Finish(c, allow, d)
        \/ \E score \in {"low", "ten"} : RecordConsistency(c, score, d)
        \/ \E g \in RequiredGates, verdict \in Verdicts : RecordGate(c, g, verdict)
        \/ Recover(d)
  BY DEF Orchestrator
<1>1. CASE Advance(c, d)
  <2> DEFINE r == [cat[c] EXCEPT !.stage = NextStage(@)]
  <2>1. /\ cat[c].stage \in {"analysis", "translation", "review", "consistency"}
        /\ cat' = [cat EXCEPT ![c] = r] /\ gates' = gates
    BY <1>1 DEF Advance, StageComplete
  <2>2. /\ r.stage = NextStage(cat[c].stage) /\ r.status = cat[c].status
        /\ r.consistency = cat[c].consistency /\ r.round = cat[c].round
        /\ r.gate_status = cat[c].gate_status
    BY <1>a DEF CategoryRow
  <2> HIDE DEF r
  <2>3. (~Late(r) => ~Late(cat[c])) /\ (~Verifying(r) => ~Verifying(cat[c]))
    BY <2>1, <2>2 DEF Late, Verifying, NextStage
  <2>4. Fresh(r, gates[c])
    BY <1>a, <2>2, <2>3 DEF Fresh
  <2>5. QED
    BY <1>a, <2>1, <2>4 DEF FreshInv
<1>2. ASSUME NEW allow \in BOOLEAN, Finish(c, allow, d) PROVE FreshInv'
  <2> DEFINE r == [cat[c] EXCEPT !.stage = "done", !.status = "done", !.gate_status = Verdict(c)]
  <2> DEFINE rows == [cat EXCEPT ![c] = r]
  <2>1. r.stage = "done" /\ r.status = "done"
    BY <1>a DEF CategoryRow
  <2> HIDE DEF r
  <2>2. Fresh(r, gates[c])
    BY <2>1 DEF Fresh, Late, Verifying
  <2>3. \A k \in Categories : rows[k] = IF k = c THEN r ELSE cat[k]
    BY <1>a
  <2>4. rows = [k \in Categories |-> rows[k]] /\ gates' = gates
    BY <1>a, <1>2 DEF Finish
  <2> HIDE DEF rows
  <2>5. CASE cat' = rows
    BY <1>a, <2>2, <2>3, <2>4, <2>5 DEF FreshInv
  <2>6. ASSUME NEW n \in Categories, rows[n].status = "pending", cat' = [rows EXCEPT ![n] = Activated(@)]
        PROVE  FreshInv'
    <3>1. n # c /\ rows[n] = cat[n]
      BY <2>1, <2>3, <2>6
    <3>2. cat[n].stage = "pending" /\ cat[n].status = "pending" /\ cat[n] \in CategoryRow
      BY <1>a, <2>6, <3>1 DEF CategoryOK
    <3>3. /\ Activated(cat[n]).stage = "analysis" /\ Activated(cat[n]).status = "active"
          /\ Activated(cat[n]).consistency = cat[n].consistency
          /\ Activated(cat[n]).round = cat[n].round
          /\ Activated(cat[n]).gate_status = cat[n].gate_status
      BY <3>2 DEF Activated, CategoryRow
    <3>4. Fresh(Activated(cat[n]), gates[n])
      BY <1>a, <3>2, <3>3 DEF Fresh, Late, Verifying
    <3>5. \A k \in Categories : cat'[k] = IF k = n THEN Activated(cat[n]) ELSE rows[k]
      BY <2>4, <2>6, <3>1
    <3>6. QED
      BY <1>a, <2>2, <2>3, <2>4, <3>4, <3>5 DEF FreshInv
  <2>7. QED
    BY <1>2, <2>5, <2>6 DEF Finish, FirstOpen, rows, r
<1>3. ASSUME NEW score \in {"low", "ten"}, RecordConsistency(c, score, d) PROVE FreshInv'
  <2> DEFINE row == [cat[c] EXCEPT !.round = @ + 1, !.consistency = score]
  <2> DEFINE r == [row EXCEPT !.status = IF score = "ten" THEN "active" ELSE "needs_fix"]
  <2>1. cat[c].stage = "consistency" /\ cat[c].status \in {"active", "needs_fix"}
    BY <1>a, <1>3 DEF RecordConsistency, CategoryOK, CategoryRow
  <2>2. cat[c].round + 1 \in 0..MaxRounds
    BY <1>a, <1>3, PolicyAssumption DEF RecordConsistency, CategoryRow
  <2>3. /\ row \in CategoryRow /\ row.stage = "consistency" /\ row.status = cat[c].status
        /\ row.gate_status = cat[c].gate_status
    BY <1>a, <2>1, <2>2 DEF CategoryRow, Scores
  <2>4. r.stage = "consistency" /\ r.status \in {"active", "needs_fix"} /\ r.gate_status = cat[c].gate_status
    <3> HIDE DEF row
    <3> QED BY <2>3 DEF CategoryRow
  <2>5. gates' = gates
    BY <1>3 DEF RecordConsistency
  <2>6. gates[c] = NoGates /\ cat[c].gate_status = "none"
    BY <1>a, <2>1 DEF Fresh, Verifying
  <2>7. CASE score # "ten" /\ row.round >= MaxRounds
    <3>1. Halt(c, row, RecoveredUnits(d), RecoveredClaims(d), d)
      BY <1>3, <2>7 DEF RecordConsistency
    <3> HIDE DEF row
    <3>2. CategoryOK(row) /\ row.status # "done"
      BY <2>1, <2>3, OpenOK DEF Open, Stages
    <3>3. Fresh(row, gates[c])
      BY <2>3, <2>6 DEF Fresh, Late
    <3>4. QED
      BY <2>5, <3>1, <3>2, <3>3, HaltFresh
  <2>8. CASE ~(score # "ten" /\ row.round >= MaxRounds)
    <3>1. cat' = [cat EXCEPT ![c] = r]
      BY <1>3, <2>8 DEF RecordConsistency
    <3> HIDE DEF r
    <3>2. Fresh(r, gates[c])
      BY <2>4, <2>6 DEF Fresh, Late
    <3>3. QED
      BY <1>a, <2>5, <3>1, <3>2 DEF FreshInv
  <2>9. QED
    BY <2>7, <2>8
<1>4. ASSUME NEW g \in RequiredGates, NEW verdict \in Verdicts, RecordGate(c, g, verdict)
      PROVE  FreshInv'
  <2>1. /\ cat[c].stage = "verification" /\ cat' = cat
        /\ \A k \in Categories \ {c} : gates'[k] = gates[k]
    BY <1>4 DEF RecordGate, RowsInv, GatesOK
  <2>2. Verifying(cat[c])
    BY <2>1 DEF Verifying
  <2>3. QED
    BY <1>a, <2>1, <2>2 DEF FreshInv, Fresh
<1>5. CASE Recover(d)
  BY <1>5 DEF Recover, FreshInv
<1>6. QED
  BY <1>b, <1>1, <1>2, <1>3, <1>4, <1>5

\* Every step keeps the verdicts fresh, if operators do not use force: unblock of
\* a unit that is not blocked would take a verified category back to review with
\* its verdicts.
LEMMA FreshNext ==
  ASSUME TRUE \notin Forces, RowsInv, FreshInv, [Next]_vars
  PROVE  FreshInv'
<1>a. \A c \in Categories : CategoryOK(cat[c]) /\ cat[c] \in CategoryRow /\ Fresh(cat[c], gates[c])
  BY DEF RowsInv, CategoriesOK, FreshInv
<1>b. \A force \in Forces : force = FALSE
  BY OperatorAssumption
<1>c. ASSUME UNCHANGED <<cat, gates>> PROVE FreshInv'
  BY <1>c DEF FreshInv
<1>d. ASSUME NEW c \in Categories
      PROVE  /\ [gates EXCEPT ![c] = NoGates][c] = NoGates
             /\ \A k \in Categories \ {c} : [gates EXCEPT ![c] = NoGates][k] = gates[k]
  BY DEF RowsInv, GatesOK
<1>1. CASE Agent
  <2>1. PICK u \in Units, o \in Owners, d \in Delays :
          \/ \E role \in Roles, lease \in Leases : Claim(u, role, o, lease, d)
          \/ Complete(u, o, d)
          \/ Release(u, o, d)
          \/ \E lease \in Leases : Heartbeat(u, o, lease, d)
    BY <1>1 DEF Agent
  <2>2. CASE ReviewStrikeOut(u, o, d)
    <3> DEFINE c == CategoryOf[u]
    <3>1. c \in Categories /\ cat[c].status # "done" /\ gates' = gates
      BY <2>2, CategoryAssumption, NoOneAssumption DEF ReviewStrikeOut, Holds, RowsInv, FocusOK
    <3>2. \E un, cl : Halt(c, cat[c], un, cl, d)
      BY <2>2 DEF ReviewStrikeOut
    <3>3. QED
      BY <1>a, <3>1, <3>2, HaltFresh
  <2>3. CASE ~ReviewStrikeOut(u, o, d)
    BY <1>c, <2>1, <2>3
       DEF Claim, Complete, CompleteAnalysis, CompleteTranslation, CompleteFix, ReviewPass, ReviewFail,
           Deliver, Release, Heartbeat
  <2>4. QED
    BY <2>2, <2>3
<1>2. CASE Orchestrator
  BY <1>2, FreshOrchestrator
<1>3. CASE OperatorOnUnit
  <2>1. PICK u \in Units, d \in Delays :
          \/ BlockUnit(u, d)
          \/ \E force \in Forces :
               \/ \E stage \in {"analysis", "translation"} : UnblockUnitReset(u, stage, force, d)
               \/ UnblockUnitReview(u, force, d)
    BY <1>3 DEF OperatorOnUnit
  <2> DEFINE c == CategoryOf[u]
  <2>2. c \in Categories
    BY CategoryAssumption
  <2>3. CASE BlockUnit(u, d)
    <3>1. cat[c].status # "done" /\ gates' = gates
      BY <1>a, <2>2, <2>3 DEF BlockUnit, RowsInv, UnitsDone, CategoryOK, Late
    <3>2. \E un, cl : Halt(c, cat[c], un, cl, d)
      BY <2>3 DEF BlockUnit
    <3>3. QED
      BY <1>a, <2>2, <3>1, <3>2, HaltFresh
  <2>4. ASSUME NEW force \in Forces, NEW stage \in {"analysis", "translation"},
               UnblockUnitReset(u, stage, force, d)
        PROVE  FreshInv'
    <3>1. \E cl : Activate(c, Wiped(Restarted(cat[c], stage)), force, cl, d)
      BY <2>4 DEF UnblockUnitReset
    <3>2. gates' = [gates EXCEPT ![c] = NoGates]
      BY <2>4 DEF UnblockUnitReset
    <3>3. Fresh(Wiped(Restarted(cat[c], stage)), NoGates)
      BY <1>a, <2>2, WipedFresh DEF Stages
    <3> HIDE DEF c
    <3>4. QED
      BY <1>d, <2>2, <3>1, <3>2, <3>3, ActivateFresh
  <2>5. ASSUME NEW force \in Forces, UnblockUnitReview(u, force, d)
        PROVE  FreshInv'
    <3>1. /\ RecoveredUnits(d)[u].status = "blocked" /\ gates' = gates
          /\ \E cl : Activate(c, Restarted(cat[c], "review"), force, cl, d)
      BY <1>b, <2>5 DEF UnblockUnitReview
    <3>2. unit[u].status # "done"
      <4> SUFFICES ASSUME unit[u].status = "done" PROVE FALSE
        OBVIOUS
      <4>1. RecoveredUnits(d)[u] = unit[u]
        BY RecoveryKeepsDone
      <4>2. QED
        BY <3>1, <4>1
    <3>3. ~Late(cat[c])
      BY <3>2 DEF RowsInv, UnitsDone
    <3>4. ~Verifying(cat[c]) /\ cat[c].status # "done"
      BY <1>a, <2>2, <3>3 DEF Late, Verifying, CategoryOK
    <3>5. /\ Restarted(cat[c], "review").consistency = cat[c].consistency
          /\ Restarted(cat[c], "review").round = cat[c].round
          /\ Restarted(cat[c], "review").gate_status = cat[c].gate_status
      BY <1>a, <2>2 DEF Restarted, CategoryRow
    <3>6. Fresh(Restarted(cat[c], "review"), gates'[c])
      BY <1>a, <2>2, <3>1, <3>3, <3>4, <3>5 DEF Fresh
    <3> HIDE DEF c
    <3>7. QED
      BY <2>2, <3>1, <3>6, ActivateFresh
  <2>6. QED
    BY <2>1, <2>3, <2>4, <2>5
<1>4. CASE OperatorOnCategory
  <2>1. PICK c \in Categories, d \in Delays :
          \/ BlockCategory(c, d)
          \/ \E force \in Forces :
               \/ \E stage \in Stages : UnblockCategory(c, stage, force, d)
               \/ Reopen(c, force, d)
    BY <1>4 DEF OperatorOnCategory
  <2>2. CASE BlockCategory(c, d)
    BY <1>a, <2>2, HaltFresh DEF BlockCategory
  <2>3. ASSUME NEW force \in Forces, NEW stage \in Stages, UnblockCategory(c, stage, force, d)
        PROVE  FreshInv'
    <3> DEFINE row == IF stage = "verification" THEN Restarted(cat[c], stage)
                                                ELSE Wiped(Restarted(cat[c], stage))
    <3>1. /\ cat[c].status = "blocked" /\ gates' = [gates EXCEPT ![c] = NoGates]
          /\ \E cl : Activate(c, row, force, cl, d)
      BY <1>b, <2>3 DEF UnblockCategory
    <3>2. Fresh(row, NoGates)
      <4>1. CASE stage = "verification"
        <5>1. row.stage = "verification" /\ row.gate_status = cat[c].gate_status
          BY <1>a, <4>1 DEF Restarted, CategoryRow
        <5>2. cat[c].gate_status = "none"
          BY <1>a, <3>1 DEF Fresh
        <5>3. QED
          BY <5>1, <5>2 DEF Fresh, Late
      <4>2. CASE stage # "verification"
        BY <1>a, <4>2, WipedFresh
      <4>3. QED
        BY <4>1, <4>2
    <3> HIDE DEF row
    <3>3. QED
      BY <1>d, <3>1, <3>2, ActivateFresh
  <2>4. ASSUME NEW force \in Forces, Reopen(c, force, d)
        PROVE  FreshInv'
    <3>1. PICK stage, cl :
            /\ stage \in Stages
            /\ Activate(c, Wiped(Restarted(cat[c], stage)), force, cl, d)
      BY <2>4 DEF Reopen, Stages
    <3>2. gates' = [gates EXCEPT ![c] = NoGates]
      BY <2>4 DEF Reopen
    <3>3. QED
      BY <1>a, <1>d, <3>1, <3>2, WipedFresh, ActivateFresh
  <2>5. QED
    BY <2>1, <2>2, <2>3, <2>4
<1>5. CASE Tick
  BY <1>5, <1>c DEF Tick
<1>6. CASE UNCHANGED vars
  BY <1>6, <1>c DEF vars
<1>7. QED
  BY <1>1, <1>2, <1>3, <1>4, <1>5, <1>6 DEF Next

\* A category that is back before consistency has no consistency score or rounds,
\* before verification no gate results, before done no gate status, when nobody
\* uses --force.
THEOREM Freshness ==
  ASSUME TRUE \notin Forces
  PROVE  Spec => []VerdictFresh
<1>1. Init => FreshInv
  <2> SUFFICES ASSUME Init, NEW c \in Categories PROVE Fresh(cat[c], gates[c])
    BY DEF FreshInv
  <2>1. /\ cat[c].consistency = "none" /\ cat[c].round = 0 /\ cat[c].gate_status = "none"
        /\ gates[c] = NoGates
    BY DEF Init, NewCategory, Activated
  <2>2. QED
    BY <2>1 DEF Fresh
<1>2. RowsInv /\ FreshInv /\ [Next]_vars => FreshInv'
  BY FreshNext
<1>3. RowsInv /\ FreshInv => VerdictFresh
  <2> SUFFICES ASSUME RowsInv, FreshInv, NEW c \in Categories
               PROVE  /\ Progress(c) < 3 => cat[c].consistency = "none" /\ cat[c].round = 0
                      /\ Progress(c) < 4 => gates[c] = NoGates
                      /\ Progress(c) < 5 => cat[c].gate_status = "none"
    BY DEF VerdictFresh
  <2>1. CategoryOK(cat[c]) /\ Fresh(cat[c], gates[c])
    BY DEF RowsInv, CategoriesOK, FreshInv
  <2>2. /\ Progress(c) < 3 => ~Late(cat[c])
        /\ Progress(c) < 4 => ~Verifying(cat[c])
        /\ Progress(c) < 5 => cat[c].status # "done"
    BY <2>1, ProgressAt, Positions
  <2>3. QED
    BY <2>1, <2>2 DEF Fresh
<1>4. QED
  BY <1>1, <1>2, <1>3, Rows, PTL DEF Spec

-----------------------------------------------------------------------------
(* Rounds are given back only for what is blocked or done *)

BlockedTogether ==
  \A u \in Units : unit[u].status = "blocked" => cat[CategoryOf[u]].status = "blocked"

\* Claims that are given back cost no round and block nothing.
LEMMA RevertKeepsRounds ==
  ASSUME NEW un \in [Units -> UnitRow], NEW cl, NEW S, NEW u \in Units
  PROVE  /\ RevertAll(un, cl, S)[u].attempts = un[u].attempts
         /\ RevertAll(un, cl, S)[u].status = "blocked" => un[u].status = "blocked"
<1>1. CASE u \in S
  <2>1. un[u] \in UnitRow /\ RevertAll(un, cl, S)[u] = Reverted(un[u], cl[u].role)
    BY <1>1 DEF RevertAll
  <2>2. /\ Reverted(un[u], cl[u].role).attempts = un[u].attempts
        /\ Reverted(un[u], cl[u].role).status = RevertStatus(cl[u].role)
    BY <2>1 DEF Reverted, UnitRow
  <2>3. RevertStatus(cl[u].role) # "blocked"
    BY DEF RevertStatus
  <2>4. QED
    BY <2>1, <2>2, <2>3
<1>2. CASE u \notin S
  BY <1>2 DEF RevertAll
<1>3. QED
  BY <1>1, <1>2

\* Nor does the recovery.
LEMMA RecoveryKeepsRounds ==
  ASSUME RowsInv, NEW d, NEW u \in Units
  PROVE  /\ RecoveredUnits(d)[u].attempts = unit[u].attempts
         /\ RecoveredUnits(d)[u].status = "blocked" => unit[u].status = "blocked"
BY RevertKeepsRounds DEF RowsInv, UnitsOK, RecoveredUnits

\* What a step may do to the rounds of a unit.
RoundsKeptStep ==
  \A u \in Units : unit'[u].attempts < unit[u].attempts =>
    cat[CategoryOf[u]].status \in {"blocked", "done"}

\* A step that only recovers, apart from the row of one unit, which it does not
\* block and which loses no round.
LEMMA OneUnitStep ==
  ASSUME RowsInv, BlockedTogether, NEW u \in Units, NEW r, NEW d,
         unit' = [RecoveredUnits(d) EXCEPT ![u] = r], cat' = cat,
         r.status # "blocked", r.attempts \in Nat, r.attempts >= unit[u].attempts
  PROVE  BlockedTogether' /\ RoundsKeptStep
<1>1. RecoveredUnits(d) \in [Units -> UnitRow] /\ unit \in [Units -> UnitRow]
  BY RecoveredOK DEF RowsInv, UnitsOK
<1>2. \A v \in Units : unit'[v] = IF v = u THEN r ELSE RecoveredUnits(d)[v]
  BY <1>1
<1>3. \A v \in Units : unit[v].attempts \in Nat
  BY <1>1, PolicyAssumption DEF UnitRow
<1>4. BlockedTogether'
  BY <1>2, RecoveryKeepsRounds DEF BlockedTogether
<1>5. \A v \in Units : unit'[v].attempts \in Nat /\ unit'[v].attempts >= unit[v].attempts
  BY <1>2, <1>3, RecoveryKeepsRounds
<1>6. QED
  BY <1>3, <1>4, <1>5 DEF RoundsKeptStep

\* A step that only recovers, or does not touch the units.
LEMMA RecoveryStep ==
  ASSUME RowsInv, BlockedTogether, NEW d, unit' \in {unit, RecoveredUnits(d)},
         \A c \in Categories : cat[c].status = "blocked" => cat'[c].status = "blocked"
  PROVE  BlockedTogether' /\ RoundsKeptStep
<1>1. \A v \in Units : unit[v].attempts \in Nat
  BY PolicyAssumption DEF UnitRow, RowsInv, UnitsOK
<1>2. \A v \in Units : /\ unit'[v].attempts = unit[v].attempts
                       /\ unit'[v].status = "blocked" => unit[v].status = "blocked"
  BY RecoveryKeepsRounds
<1>3. QED
  BY <1>1, <1>2, CategoryAssumption DEF BlockedTogether, RoundsKeptStep

\* Halting a category: its units may be blocked before it is.
LEMMA HaltRounds ==
  ASSUME RowsInv, BlockedTogether, NEW c \in Categories, NEW row, CategoryOK(row), row.status # "done",
         NEW un \in [Units -> UnitRow], NEW cl, NEW d, Halt(c, row, un, cl, d),
         \A u \in Units : un[u].attempts >= unit[u].attempts,
         \A u \in Units \ UnitsOf(c) : un[u].status = "blocked" => unit[u].status = "blocked"
  PROVE  BlockedTogether' /\ RoundsKeptStep
<1>1. PICK S : unit' = RevertAll(un, cl, S)
  BY DEF Halt
<1>2. cat' = [cat EXCEPT ![c] = BlockedRow(row)] /\ cat \in [Categories -> CategoryRow]
  BY DEF Halt, RowsInv, CategoriesOK
<1>3. BlockedRow(row).status = "blocked"
  BY BlockedCategoryOK
<1>4. \A k \in Categories : cat'[k] = IF k = c THEN BlockedRow(row) ELSE cat[k]
  BY <1>2
<1>5. ASSUME NEW u \in Units, unit'[u].status = "blocked"
      PROVE  cat'[CategoryOf[u]].status = "blocked"
  BY <1>1, <1>3, <1>4, <1>5, RevertKeepsRounds, CategoryAssumption DEF BlockedTogether, UnitsOf
<1>6. \A u \in Units : unit[u].attempts \in Nat /\ un[u].attempts \in Nat
  BY PolicyAssumption DEF UnitRow, RowsInv, UnitsOK
<1>7. \A u \in Units : unit'[u].attempts = un[u].attempts
  BY <1>1, RevertKeepsRounds
<1>8. QED
  BY <1>5, <1>6, <1>7 DEF BlockedTogether, RoundsKeptStep

\* A category restarts with none of its units blocked, after it was blocked or
\* done.
LEMMA ActivateRounds ==
  ASSUME RowsInv, BlockedTogether, NEW c \in Categories, NEW row,
         NEW force, NEW cl, NEW d, Activate(c, row, force, cl, d),
         \A u \in UnitsOf(c) : unit'[u].status # "blocked",
         \A u \in Units \ UnitsOf(c) : unit'[u] = RecoveredUnits(d)[u],
         cat[c].status \in {"blocked", "done"}
  PROVE  BlockedTogether' /\ RoundsKeptStep
<1>1. PICK p \in Pausable(c, force, cl, d) :
        cat' = [k \in Categories |->
                  IF k = c THEN row ELSE IF k = p THEN BlockedRow(cat[k]) ELSE cat[k]]
  BY DEF Activate
<1>2. ASSUME NEW k \in Categories \ {c}, cat[k].status = "blocked" PROVE cat'[k].status = "blocked"
  <2>1. cat[k] \in CategoryRow
    BY DEF RowsInv, CategoriesOK
  <2>2. BlockedRow(cat[k]).status = "blocked"
    BY <2>1 DEF BlockedRow, CategoryRow
  <2>3. QED
    BY <1>1, <1>2, <2>2
<1>3. BlockedTogether'
  BY <1>2, RecoveryKeepsRounds, CategoryAssumption DEF BlockedTogether, UnitsOf
<1>4. \A u \in Units : unit[u].attempts \in Nat
  BY PolicyAssumption DEF UnitRow, RowsInv, UnitsOK
<1>5. RoundsKeptStep
  <2> SUFFICES ASSUME NEW u \in Units, unit'[u].attempts < unit[u].attempts
               PROVE  u \in UnitsOf(c)
    BY DEF RoundsKeptStep, UnitsOf
  <2>1. CASE u \notin UnitsOf(c)
    <3>1. unit'[u].attempts = unit[u].attempts
      BY <2>1, RecoveryKeepsRounds
    <3>2. QED
      BY <1>4, <3>1
  <2>2. QED
    BY <2>1
<1>6. QED
  BY <1>3, <1>5

\* Every step keeps blocked units in blocked categories, and the rounds.
LEMMA RoundsNext ==
  ASSUME TRUE \notin Forces, RowsInv, BlockedTogether, [Next]_vars
  PROVE  BlockedTogether' /\ RoundsKeptStep
<1>a. /\ \A c \in Categories : CategoryOK(cat[c]) /\ cat[c] \in CategoryRow
      /\ unit \in [Units -> UnitRow] /\ CategoryOf \in [Units -> Categories]
      /\ \A u \in Units : unit[u].attempts \in Nat
  BY CategoryAssumption, PolicyAssumption DEF RowsInv, CategoriesOK, UnitsOK, UnitRow
<1>b. \A force \in Forces : force = FALSE
  BY OperatorAssumption
<1>c. ASSUME UNCHANGED <<unit, cat>> PROVE BlockedTogether' /\ RoundsKeptStep
  BY <1>a, <1>c DEF BlockedTogether, RoundsKeptStep
<1>1. CASE Agent
  <2>1. PICK u \in Units, o \in Owners, d \in Delays :
          \/ \E role \in Roles, lease \in Leases : Claim(u, role, o, lease, d)
          \/ Complete(u, o, d)
          \/ Release(u, o, d)
          \/ \E lease \in Leases : Heartbeat(u, o, lease, d)
    BY <1>1 DEF Agent
  <2> DEFINE un == RecoveredUnits(d)
  <2>2. /\ un \in [Units -> UnitRow] /\ UnitsOK(un, RecoveredClaims(d))
        /\ un[u].attempts = unit[u].attempts
    BY RecoveredOK, RecoveryKeepsRounds DEF RowsInv, UnitsOK
  <2>3. ASSUME NEW role \in Roles, NEW lease \in Leases, Claim(u, role, o, lease, d)
        PROVE  BlockedTogether' /\ RoundsKeptStep
    <3>1. unit' = [un EXCEPT ![u] = Occupied(un[u], role)] /\ cat' = cat
      BY <2>2, <2>3 DEF Claim
    <3>2. Occupied(un[u], role).status = "active" /\ Occupied(un[u], role).attempts = unit[u].attempts
      BY <2>2 DEF Occupied, UnitRow
    <3> DEFINE r == Occupied(un[u], role)
    <3>3. unit' = [un EXCEPT ![u] = r] /\ r.status # "blocked" /\ r.attempts \in Nat
          /\ r.attempts >= unit[u].attempts
      BY <1>a, <3>1, <3>2
    <3> HIDE DEF r
    <3>4. QED
      BY <3>1, <3>3, OneUnitStep
  <2>4. ASSUME NEW r, Deliver(u, r, d), r.status # "blocked",
               r.attempts \in {unit[u].attempts, unit[u].attempts + 1}
        PROVE  BlockedTogether' /\ RoundsKeptStep
    <3>1. r.attempts \in Nat /\ r.attempts >= unit[u].attempts
      BY <1>a, <2>4
    <3>2. QED
      BY <2>4, <3>1, OneUnitStep DEF Deliver
  <2>5. ASSUME NEW score \in {"low", "ten"}
        PROVE  LET n == Reviewed(unit[u], o, score) IN
               /\ n.attempts = unit[u].attempts + 1
               /\ Passed(n).attempts = n.attempts /\ Passed(n).status = "done"
               /\ Failed(n).attempts = n.attempts /\ Failed(n).status = "needs_fix"
    BY <1>a DEF Reviewed, Passed, Failed, UnitRow
  <2>6. CASE ReviewStrikeOut(u, o, d)
    <3> DEFINE c == CategoryOf[u]
    <3> DEFINE n == Failed(Reviewed(unit[u], o, "low"))
    <3> DEFINE new == [un EXCEPT ![u] = BlockedRow(n)]
    <3>1. c \in Categories /\ cat[c].status # "done"
      BY <2>6, CategoryAssumption, NoOneAssumption DEF ReviewStrikeOut, Holds, RowsInv, FocusOK
    <3>2. \E cl : Halt(c, cat[c], new, cl, d)
      BY <2>6 DEF ReviewStrikeOut
    <3>3. UnitOK(unit[u], claim[u]) /\ claim[u].role = "reviewer" /\ claim[u].owner = o
      BY <2>6, HeldClaim DEF ReviewStrikeOut, Roles
    <3>4. BlockedRow(n) \in UnitRow /\ n \in UnitRow
      BY <3>3, StrikeOutOK, FailedOK DEF UnitOK
    <3>5. n.attempts = unit[u].attempts + 1
      BY <2>5
    <3> HIDE DEF n
    <3>6. BlockedRow(n).attempts = n.attempts
      BY <3>4 DEF BlockedRow, UnitRow
    <3>7. \A v \in Units : new[v] = IF v = u THEN BlockedRow(n) ELSE un[v]
      BY <2>2
    <3>8. new \in [Units -> UnitRow]
      BY <2>2, <3>4
    <3> HIDE DEF new
    <3>9. \A v \in Units : new[v].attempts >= unit[v].attempts
      BY <1>a, <3>5, <3>6, <3>7, RecoveryKeepsRounds
    <3>10. \A v \in Units \ UnitsOf(c) : new[v].status = "blocked" => unit[v].status = "blocked"
      BY <3>7, RecoveryKeepsRounds DEF UnitsOf
    <3>11. QED
      BY <1>a, <3>1, <3>2, <3>8, <3>9, <3>10, HaltRounds
  <2>7. CASE Complete(u, o, d) /\ ~ReviewStrikeOut(u, o, d)
    <3>1. /\ Analyzed(unit[u]).status = "pending" /\ Analyzed(unit[u]).attempts = unit[u].attempts
          /\ Translated(unit[u], o).status = "pending"
          /\ Translated(unit[u], o).attempts = unit[u].attempts
          /\ Fixed(unit[u], o).status = "pending" /\ Fixed(unit[u], o).attempts = unit[u].attempts
      BY <1>a DEF Analyzed, Translated, Fixed, UnitRow
    <3>2. QED
      BY <2>4, <2>5, <2>7, <3>1
         DEF Complete, CompleteAnalysis, CompleteTranslation, CompleteFix, ReviewPass, ReviewFail
  <2>8. CASE Release(u, o, d)
    <3>1. unit' = RevertAll(unit, claim, {u}) /\ cat' = cat
      BY <2>8 DEF Release
    <3>2. \A v \in Units : /\ unit'[v].attempts = unit[v].attempts
                           /\ unit'[v].status = "blocked" => unit[v].status = "blocked"
      BY <1>a, <3>1, RevertKeepsRounds
    <3>3. BlockedTogether'
      BY <3>1, <3>2 DEF BlockedTogether
    <3>4. \A v \in Units : ~(unit'[v].attempts < unit[v].attempts)
      BY <1>a, <3>2
    <3>5. QED
      BY <3>3, <3>4 DEF RoundsKeptStep
  <2>9. CASE \E lease \in Leases : Heartbeat(u, o, lease, d)
    BY <1>c, <2>9 DEF Heartbeat
  <2>10. QED
    BY <2>1, <2>3, <2>6, <2>7, <2>8, <2>9
<1>2. CASE Orchestrator
  <2>1. PICK c \in Categories, d \in Delays :
          \/ Advance(c, d)
          \/ \E allow \in BOOLEAN : Finish(c, allow, d)
          \/ \E score \in {"low", "ten"} : RecordConsistency(c, score, d)
          \/ \E g \in RequiredGates, verdict \in Verdicts : RecordGate(c, g, verdict)
          \/ Recover(d)
    BY <1>2 DEF Orchestrator
  <2>2. CASE Advance(c, d)
    <3>1. cat'[c].status = cat[c].status /\ \A k \in Categories \ {c} : cat'[k] = cat[k]
      BY <1>a, <2>2 DEF Advance, CategoryRow, RowsInv, CategoriesOK
    <3>2. QED
      BY <2>2, <3>1, RecoveryStep DEF Advance
  <2>3. ASSUME NEW allow \in BOOLEAN, Finish(c, allow, d) PROVE BlockedTogether' /\ RoundsKeptStep
    <3>1. \A k \in Categories : cat[k].status = "blocked" => cat'[k] = cat[k]
      BY <1>a, <2>3 DEF Finish, RowsInv, CategoriesOK
    <3>2. QED
      BY <2>3, <3>1, RecoveryStep DEF Finish
  <2>4. ASSUME NEW score \in {"low", "ten"}, RecordConsistency(c, score, d)
        PROVE  BlockedTogether' /\ RoundsKeptStep
    <3> DEFINE row == [cat[c] EXCEPT !.round = @ + 1, !.consistency = score]
    <3>1. cat[c].stage = "consistency" /\ cat[c].status \in {"active", "needs_fix"}
      BY <1>a, <2>4 DEF RecordConsistency, CategoryOK, CategoryRow
    <3>2. CASE score # "ten" /\ row.round >= MaxRounds
      <4>1. Halt(c, row, RecoveredUnits(d), RecoveredClaims(d), d)
        BY <2>4, <3>2 DEF RecordConsistency
      <4>2. cat[c].round + 1 \in 0..MaxRounds
        BY <1>a, <2>4, PolicyAssumption DEF RecordConsistency, CategoryRow
      <4>3. row \in CategoryRow /\ row.stage = "consistency" /\ row.status = cat[c].status
        BY <1>a, <3>1, <4>2 DEF CategoryRow, Scores
      <4> HIDE DEF row
      <4>4. CategoryOK(row) /\ row.status # "done"
        BY <3>1, <4>3, OpenOK DEF Open, Stages
      <4>5. RecoveredUnits(d) \in [Units -> UnitRow]
        BY RecoveredOK DEF RowsInv, UnitsOK
      <4>6. \A v \in Units : RecoveredUnits(d)[v].attempts >= unit[v].attempts
        BY <1>a, RecoveryKeepsRounds
      <4>7. QED
        BY <4>1, <4>4, <4>5, <4>6, HaltRounds, RecoveryKeepsRounds
    <3>3. CASE ~(score # "ten" /\ row.round >= MaxRounds)
      <4>1. unit' = RecoveredUnits(d) /\ \A k \in Categories \ {c} : cat'[k] = cat[k]
        BY <1>a, <2>4, <3>3 DEF RecordConsistency, RowsInv, CategoriesOK
      <4>2. QED
        BY <3>1, <4>1, RecoveryStep
    <3>4. QED
      BY <3>2, <3>3
  <2>5. CASE \E g \in RequiredGates, verdict \in Verdicts : RecordGate(c, g, verdict)
    BY <1>c, <2>5 DEF RecordGate
  <2>6. CASE Recover(d)
    BY <2>6, RecoveryStep DEF Recover
  <2>7. QED
    BY <2>1, <2>2, <2>3, <2>4, <2>5, <2>6
<1>3. CASE OperatorOnUnit
  <2>1. PICK u \in Units, d \in Delays :
          \/ BlockUnit(u, d)
          \/ \E force \in Forces :
               \/ \E stage \in {"analysis", "translation"} : UnblockUnitReset(u, stage, force, d)
               \/ UnblockUnitReview(u, force, d)
    BY <1>3 DEF OperatorOnUnit
  <2> DEFINE c == CategoryOf[u]
  <2> DEFINE un == RecoveredUnits(d)
  <2>2. c \in Categories /\ un \in [Units -> UnitRow] /\ u \in UnitsOf(c)
    BY <1>a, RecoveredOK DEF RowsInv, UnitsOK, UnitsOf
  <2>3. CASE BlockUnit(u, d)
    <3> DEFINE new == [unit EXCEPT ![u] = BlockedRow(unit[u])]
    <3>1. cat[c].status # "done" /\ unit[u].status # "done"
      BY <1>a, <2>2, <2>3 DEF BlockUnit, RowsInv, UnitsDone, CategoryOK, Late
    <3>2. \E cl : Halt(c, cat[c], new, cl, d)
      BY <2>3 DEF BlockUnit
    <3>3. UnitOK(unit[u], claim[u])
      BY DEF RowsInv, UnitsOK
    <3>4. BlockedRow(unit[u]) \in UnitRow
      BY <3>1, <3>3, BlockedUnitOK DEF UnitOK
    <3>5. BlockedRow(unit[u]).attempts = unit[u].attempts
      BY <1>a DEF BlockedRow, UnitRow
    <3>6. new \in [Units -> UnitRow] /\ \A v \in Units : new[v] = IF v = u THEN BlockedRow(unit[u]) ELSE unit[v]
      BY <1>a, <3>4
    <3> HIDE DEF new
    <3>7. \A v \in Units : new[v].attempts >= unit[v].attempts
      BY <1>a, <3>5, <3>6
    <3>8. \A v \in Units \ UnitsOf(c) : new[v] = unit[v]
      BY <2>2, <3>6
    <3>9. QED
      BY <1>a, <2>2, <3>1, <3>2, <3>6, <3>7, <3>8, HaltRounds
  <2>4. ASSUME NEW force \in Forces, un[u].status # "blocked" => force
        PROVE  cat[c].status = "blocked"
    BY <1>b, <2>4, RecoveryKeepsRounds DEF BlockedTogether
  <2>5. ASSUME NEW force \in Forces, NEW stage \in {"analysis", "translation"},
               UnblockUnitReset(u, stage, force, d)
        PROVE  BlockedTogether' /\ RoundsKeptStep
    <3>1. /\ \E row, cl : Activate(c, row, force, cl, d)
          /\ unit' = ResetAll(un, c, stage) /\ cat[c].status = "blocked"
      BY <2>4, <2>5 DEF UnblockUnitReset
    <3>2. ResetUnit(stage).status = "pending"
      BY DEF ResetUnit, NewUnit
    <3>3. /\ \A v \in UnitsOf(c) : unit'[v].status # "blocked"
          /\ \A v \in Units \ UnitsOf(c) : unit'[v] = un[v]
      BY <3>1, <3>2 DEF ResetAll, UnitsOf
    <3> HIDE DEF c
    <3>4. QED
      BY <2>2, <3>1, <3>3, ActivateRounds
  <2>6. ASSUME NEW force \in Forces, UnblockUnitReview(u, force, d)
        PROVE  BlockedTogether' /\ RoundsKeptStep
    <3>1. /\ \E row, cl : Activate(c, row, force, cl, d)
          /\ unit' = ReviewAll(un, {u}) /\ cat[c].status = "blocked"
          /\ BlockedUnits(c, un) \subseteq {u}
      BY <2>4, <2>6 DEF UnblockUnitReview
    <3>2. ReviewAgain(un[u]).status = "pending"
      BY <2>2 DEF ReviewAgain, UnitRow
    <3>3. /\ \A v \in UnitsOf(c) : unit'[v].status # "blocked"
          /\ \A v \in Units \ UnitsOf(c) : unit'[v] = un[v]
      BY <2>2, <3>1, <3>2 DEF ReviewAll, UnitsOf, BlockedUnits
    <3> HIDE DEF c
    <3>4. QED
      BY <2>2, <3>1, <3>3, ActivateRounds
  <2>7. QED
    BY <2>1, <2>3, <2>5, <2>6
<1>4. CASE OperatorOnCategory
  <2>1. PICK c \in Categories, d \in Delays :
          \/ BlockCategory(c, d)
          \/ \E force \in Forces :
               \/ \E stage \in Stages : UnblockCategory(c, stage, force, d)
               \/ Reopen(c, force, d)
    BY <1>4 DEF OperatorOnCategory
  <2> DEFINE un == RecoveredUnits(d)
  <2>2. un \in [Units -> UnitRow]
    BY RecoveredOK DEF RowsInv, UnitsOK
  <2>3. \A v \in Units : ReviewAgain(un[v]).status = "pending"
    BY <2>2 DEF ReviewAgain, UnitRow
  <2>4. \A stage : ResetUnit(stage).status = "pending"
    BY DEF ResetUnit, NewUnit
  <2>5. CASE BlockCategory(c, d)
    <3>1. \A v \in Units : unit[v].attempts >= unit[v].attempts
      BY <1>a
    <3>2. QED
      BY <1>a, <2>5, <3>1, HaltRounds DEF BlockCategory
  <2>6. ASSUME NEW force \in Forces, NEW stage \in Stages, UnblockCategory(c, stage, force, d)
        PROVE  BlockedTogether' /\ RoundsKeptStep
    <3>1. /\ \E row, cl : Activate(c, row, force, cl, d)
          /\ cat[c].status = "blocked"
          /\ stage \in {"analysis", "translation"} => unit' = ResetAll(un, c, stage)
          /\ stage = "review" => unit' = ReviewAll(un, BlockedUnits(c, un))
          /\ stage \in {"consistency", "verification"} =>
               unit' = un /\ \A v \in UnitsOf(c) : un[v].status = "done"
      BY <1>b, <2>6 DEF UnblockCategory, Stages
    <3> HIDE DEF un
    <3>2. \A v \in UnitsOf(c) : unit'[v].status # "blocked"
      BY <2>3, <2>4, <3>1 DEF ResetAll, ReviewAll, UnitsOf, BlockedUnits, Stages
    <3>3. \A v \in Units \ UnitsOf(c) : unit'[v] = un[v]
      BY <3>1 DEF ResetAll, ReviewAll, UnitsOf, BlockedUnits, Stages
    <3>4. QED
      BY <3>1, <3>2, <3>3, ActivateRounds DEF un
  <2>7. ASSUME NEW force \in Forces, Reopen(c, force, d)
        PROVE  BlockedTogether' /\ RoundsKeptStep
    <3>1. /\ \E row, cl : Activate(c, row, force, cl, d)
          /\ cat[c].status \in {"blocked", "done"}
          /\ unit' = ReviewAll(un, UnitsOf(c)) \/ \E stage : unit' = ResetAll(un, c, stage)
      BY <2>7 DEF Reopen
    <3>2. /\ \A v \in UnitsOf(c) : unit'[v].status # "blocked"
          /\ \A v \in Units \ UnitsOf(c) : unit'[v] = un[v]
      BY <2>3, <2>4, <3>1 DEF ResetAll, ReviewAll, UnitsOf
    <3>3. QED
      BY <3>1, <3>2, ActivateRounds
  <2>8. QED
    BY <2>1, <2>5, <2>6, <2>7
<1>5. CASE Tick
  BY <1>5, <1>c DEF Tick
<1>6. CASE UNCHANGED vars
  BY <1>6, <1>c DEF vars
<1>7. QED
  BY <1>1, <1>2, <1>3, <1>4, <1>5, <1>6 DEF Next

\* Without --force no step gives back a round that was used, except an unblock or
\* a reopen of what is blocked or done.
THEOREM RoundsStay ==
  ASSUME TRUE \notin Forces
  PROVE  Spec => RoundsKept
<1>1. Init => BlockedTogether
  BY DEF Init, NewUnit, BlockedTogether
<1>2. RowsInv /\ BlockedTogether /\ [Next]_vars => BlockedTogether'
  BY RoundsNext
<1>3. RowsInv /\ BlockedTogether /\ [Next]_vars =>
        [\A u \in Units : unit'[u].attempts < unit[u].attempts =>
           cat[CategoryOf[u]].status \in {"blocked", "done"}]_vars
  BY RoundsNext DEF RoundsKeptStep
<1>4. QED
  BY <1>1, <1>2, <1>3, Rows, PTL DEF Spec, RoundsKept
-----------------------------------------------------------------------------
(* The queue implements CategoryPipeline: with the units, the claims, the     *)
(* reports and the gates left out, its categories move one stage at a time    *)
(* while they are the focus, and back only by a decision that restarts them   *)
(* at a stage they had reached.  Every operation ends in one of four updates  *)
(* of the categories, so there is one lemma for each: none at all, Halt,      *)
(* Activate, and the two forms of advance.  The progress of a row is read off *)
(* its position (`At'), which blocking keeps and restarting sets.             *)

\* What the abstract specification sees of the categories.
Progresses == [c \in Categories |-> Progress(c)]
Halted == [c \in Categories |-> cat[c].status = "blocked"]

\* The ranks of the positions.
LEMMA RankAt ==
  ASSUME NEW row, CategoryOK(row)
  PROVE  /\ Rank(At(row)) \in 0..5
         /\ Rank(At(row)) = 0 <=> At(row) \in {"pending", "analysis"}
         /\ Rank(At(row)) = 1 <=> At(row) = "translation"
         /\ Rank(At(row)) = 2 <=> At(row) = "review"
         /\ Rank(At(row)) = 3 <=> At(row) = "consistency"
         /\ Rank(At(row)) = 4 <=> At(row) = "verification"
         /\ Rank(At(row)) = 5 <=> At(row) = "done"
BY Positions, Ranks DEF Stages

\* Progress is the rank of the position, now and after the step.
LEMMA ProgressRank ==
  ASSUME NEW c
  PROVE  Progress(c) = Rank(At(cat[c])) /\ Progress(c)' = Rank(At(cat'[c]))
BY DEF Progress, At

\* Blocking a row does not change how far it is.
LEMMA BlockedRank ==
  ASSUME NEW row, CategoryOK(row), row.status # "done"
  PROVE  Rank(At(BlockedRow(row))) = Rank(At(row)) /\ BlockedRow(row).status = "blocked"
<1>1. BlockedRow(row).status = "blocked"
  BY BlockedCategoryOK
<1>2. At(BlockedRow(row)) = IF At(row) = "pending" THEN "analysis" ELSE At(row)
  BY BlockedCategoryAt
<1>3. QED
  BY <1>1, <1>2, Ranks

\* A step that leaves the focus, the positions and the blocks alone.
LEMMA PipelineStutter ==
  ASSUME focus' = focus,
         \A c \in Categories : /\ At(cat'[c]) = At(cat[c])
                               /\ cat'[c].status = "blocked" <=> cat[c].status = "blocked"
  PROVE  UNCHANGED Pipeline!vars
<1>1. Progresses' = Progresses
  BY ProgressRank DEF Progresses
<1>2. Halted' = Halted
  BY DEF Halted
<1>3. QED
  BY <1>1, <1>2 DEF Pipeline!vars, Progresses, Halted

\* A block halts its category.
LEMMA PipelineHalt ==
  ASSUME RowsInv, SingleFocus, NEW c \in Categories, cat[c].status # "done",
         NEW row, CategoryOK(row), row.status # "done", At(row) = At(cat[c]),
         NEW un, NEW cl, NEW d, Halt(c, row, un, cl, d)
  PROVE  Pipeline!Next
<1>1. cat \in [Categories -> CategoryRow] /\ CategoryOK(cat[c])
  BY DEF RowsInv, CategoriesOK
<1>2. focus' = focus
  BY NoOneAssumption DEF SingleFocus, Halt
<1>3. cat'[c] = BlockedRow(row) /\ \A k \in Categories \ {c} : cat'[k] = cat[k]
  BY <1>1 DEF Halt
<1>4. \A k \in Categories : Progress(k)' = Progress(k)
  BY <1>3, BlockedRank, ProgressRank
<1>5. \A k \in Categories : (cat'[k].status = "blocked") <=> (k = c \/ cat[k].status = "blocked")
  BY <1>3, BlockedRank
<1>6. Progresses[c] # 5
  BY <1>1, RankAt, Positions, ProgressRank DEF Progresses
<1>7. Progresses' = Progresses
  BY <1>4 DEF Progresses
<1>8. Halted' = [Halted EXCEPT ![c] = TRUE]
  BY <1>5 DEF Halted
<1>9. Pipeline!Halt(c)
  BY <1>2, <1>6, <1>7, <1>8 DEF Pipeline!Halt, Pipeline!Done, Progresses, Halted
<1>10. QED
  BY <1>9 DEF Pipeline!Next

\* unblock and reopen restart their category no further than it was, and halt
\* the one that was worked on.
LEMMA PipelineResume ==
  ASSUME RowsInv, SingleFocus, NEW c \in Categories, NEW row, Open(row),
         row.stage # "done", Rank(At(row)) <= Rank(At(cat[c])),
         NEW force, NEW cl, NEW d, Activate(c, row, force, cl, d)
  PROVE  Pipeline!Next
<1>1. PICK p \in Pausable(c, force, cl, d) :
        cat' = [k \in Categories |->
                  IF k = c THEN row ELSE IF k = p THEN BlockedRow(cat[k]) ELSE cat[k]]
  BY DEF Activate
<1>2. \A k \in Categories : CategoryOK(cat[k])
  BY DEF RowsInv, CategoriesOK
<1>3. focus' = c /\ row.status # "blocked" /\ CategoryOK(row) /\ At(row) # "done"
  BY OpenOK, Positions DEF Activate, Open
<1>4. ASSUME NEW k \in Categories \ {c}
      PROVE  /\ Progress(k)' = Progress(k)
             /\ (cat'[k].status = "blocked") <=> (cat[k].status = "blocked" \/ k = focus)
  <2>1. CASE k = p
    <3>1. cat[k].status \in {"active", "needs_fix"}
      BY <1>1, <2>1, NoOneAssumption DEF Pausable, Others
    <3>2. k = focus /\ cat[k].status # "done" /\ cat'[k] = BlockedRow(cat[k])
      BY <1>1, <2>1, <3>1 DEF SingleFocus, Working
    <3>3. QED
      BY <1>2, <3>2, BlockedRank, ProgressRank
  <2>2. CASE k # p
    <3>1. cat'[k] = cat[k]
      BY <1>1, <2>2
    <3>2. ASSUME k = focus, cat[k].status # "blocked" PROVE FALSE
      <4>1. Working(k)
        BY <3>2, NoOneAssumption DEF SingleFocus
      <4>2. k \in Others(c) /\ \A j \in Others(c) : j = k
        BY <3>2, <4>1 DEF Others, Working, SingleFocus
      <4>3. p = k
        BY <1>1, <4>2 DEF Pausable
      <4>4. QED
        BY <2>2, <4>3
    <3>3. QED
      BY <3>1, <3>2, ProgressRank
  <2>3. QED
    BY <2>1, <2>2
<1> DEFINE n == Rank(At(row))
<1>5. n \in 0..4 /\ n <= Progresses[c] /\ n # 5
  BY <1>3, RankAt, ProgressRank DEF Progresses
<1>6. Progress(c)' = n /\ cat'[c].status # "blocked"
  BY <1>1, <1>3, ProgressRank
<1> HIDE DEF n
<1>7. Progresses' = [Progresses EXCEPT ![c] = n]
  BY <1>4, <1>6 DEF Progresses
<1>8. Halted' = [k \in Categories |-> IF k = c THEN FALSE ELSE Halted[k] \/ k = focus]
  BY <1>4, <1>6 DEF Halted
<1>9. Pipeline!Resume(c, n)
  BY <1>3, <1>5, <1>7, <1>8 DEF Pipeline!Resume, Pipeline!Done, Progresses, Halted
<1>10. QED
  BY <1>5, <1>9 DEF Pipeline!Next, Pipeline!Done

\* advance moves the focus category to its next stage.
LEMMA PipelineStep ==
  ASSUME RowsInv, SingleFocus, NEW c \in Categories, NEW d, Advance(c, d)
  PROVE  Pipeline!Next
<1>1. cat \in [Categories -> CategoryRow] /\ CategoryOK(cat[c])
  BY DEF RowsInv, CategoriesOK
<1>2. cat[c].stage \in {"analysis", "translation", "review", "consistency"}
  BY <1>1 DEF Advance, StageComplete, CategoryOK, CategoryRow
<1>3. cat[c].status # "blocked" /\ Working(c) /\ focus = c
  BY <1>1, <1>2 DEF CategoryOK, CategoryRow, Working, SingleFocus
<1>4. /\ cat'[c].stage = NextStage(cat[c].stage) /\ cat'[c].status = cat[c].status
      /\ \A k \in Categories \ {c} : cat'[k] = cat[k]
      /\ focus' = focus
  BY <1>1 DEF Advance, CategoryRow
<1>5. /\ At(cat[c]) = cat[c].stage /\ At(cat'[c]) = NextStage(cat[c].stage)
      /\ Rank(NextStage(cat[c].stage)) = Rank(cat[c].stage) + 1 /\ Rank(cat[c].stage) \in 0..3
  BY <1>2, <1>4, Ranks DEF At, NextStage
<1>6. Progress(c)' = Progress(c) + 1 /\ Progress(c) \in 0..3
  BY <1>5, ProgressRank
<1>7. \A k \in Categories \ {c} : Progress(k)' = Progress(k)
  BY <1>4, ProgressRank
<1>8. Progresses' = [Progresses EXCEPT ![c] = @ + 1] /\ Progresses[c] + 1 < 5
  <2>1. Progresses[c] = Progress(c) /\ Progresses'[c] = Progress(c)'
    BY DEF Progresses
  <2>2. \A k \in Categories \ {c} : Progresses'[k] = Progresses[k]
    BY <1>7 DEF Progresses
  <2>3. Progresses = [k \in Categories |-> Progresses[k]]
        /\ Progresses' = [k \in Categories |-> Progresses'[k]]
    BY DEF Progresses
  <2>4. QED
    BY <1>6, <2>1, <2>2, <2>3
<1>9. Halted' = Halted
  BY <1>3, <1>4 DEF Halted
<1>10. ~Halted[c]
  BY <1>3 DEF Halted
<1>11. Pipeline!Step(c)
  BY <1>3, <1>4, <1>8, <1>9, <1>10
     DEF Pipeline!Step, Pipeline!Working, Pipeline!Done, Progresses, Halted
<1>12. QED
  BY <1>11 DEF Pipeline!Next

\* advance out of verification finishes the focus category, and the next open one
\* becomes the focus.
LEMMA PipelineFinish ==
  ASSUME RowsInv, SingleFocus, NEW c \in Categories, NEW allow, NEW d, Finish(c, allow, d)
  PROVE  Pipeline!Next
<1> DEFINE r == [cat[c] EXCEPT !.stage = "done", !.status = "done", !.gate_status = Verdict(c)]
<1> DEFINE rows == [cat EXCEPT ![c] = r]
<1>1. /\ cat \in [Categories -> CategoryRow] /\ CategoryOK(cat[c])
      /\ \A k \in Categories : CategoryOK(cat[k])
  BY DEF RowsInv, CategoriesOK
<1>2. cat[c].stage = "verification" /\ cat[c].status # "blocked" /\ Working(c) /\ focus = c
  BY <1>1 DEF Finish, CategoryOK, CategoryRow, Working, SingleFocus
<1>3. /\ rows[c].stage = "done" /\ rows[c].status = "done"
      /\ \A k \in Categories \ {c} : rows[k] = cat[k]
  BY <1>1 DEF CategoryRow
<1>4. \/ /\ FirstOpen(rows) = {} /\ focus' = NoOne /\ cat' = rows
      \/ \E n \in FirstOpen(rows) :
           /\ focus' = n
           /\ cat' = IF rows[n].status = "pending" THEN [rows EXCEPT ![n] = Activated(@)] ELSE rows
  BY DEF Finish
<1> HIDE DEF r, rows
<1>5. ASSUME NEW n \in Categories, rows[n].status = "pending",
             cat' = [rows EXCEPT ![n] = Activated(@)]
      PROVE  /\ n # c /\ cat[n].stage = "pending"
             /\ cat'[n].stage = "analysis" /\ cat'[n].status = "active"
             /\ \A k \in Categories \ {n} : cat'[k] = rows[k]
  <2>1. n # c /\ rows[n] = cat[n]
    BY <1>3, <1>5
  <2>2. cat[n] \in CategoryRow /\ cat[n].stage = "pending"
    BY <1>1, <1>5, <2>1 DEF CategoryOK
  <2>3. rows \in [Categories -> CategoryRow] \/ cat'[n] = Activated(cat[n])
    BY <1>1, <1>5, <2>1 DEF rows
  <2>4. cat'[n] = Activated(cat[n]) /\ \A k \in Categories \ {n} : cat'[k] = rows[k]
    BY <1>1, <1>5, <2>1 DEF rows
  <2>5. QED
    BY <2>1, <2>2, <2>4 DEF Activated, CategoryRow
<1>6. /\ cat'[c].stage = "done" /\ cat'[c].status = "done"
      /\ \A k \in Categories \ {c} :
           \/ cat'[k] = cat[k]
           \/ /\ cat[k].stage = "pending" /\ cat'[k].stage = "analysis" /\ cat'[k].status = "active"
  BY <1>3, <1>4, <1>5 DEF FirstOpen
<1>7. Progress(c) = 4 /\ Progress(c)' = 5
  BY <1>2, <1>6, ProgressRank, Ranks DEF At
<1>8. ASSUME NEW k \in Categories \ {c}
      PROVE  /\ Progress(k)' = Progress(k)
             /\ cat'[k].status = "blocked" <=> cat[k].status = "blocked"
             /\ cat[k].status = "done" <=> Progress(k) = 5
  <2>1. cat[k].stage = "pending" => cat[k].status = "pending"
    BY <1>1 DEF CategoryOK
  <2>2. cat[k].stage = "pending" /\ cat'[k].stage = "analysis" => Progress(k)' = Progress(k)
    BY ProgressRank, Ranks DEF At
  <2>3. cat[k].status = "done" <=> Progress(k) = 5
    BY <1>1, ProgressRank, RankAt, Positions
  <2>4. QED
    BY <1>6, <2>1, <2>2, <2>3, ProgressRank
<1>9. Progresses' = [Progresses EXCEPT ![c] = 5] /\ Progresses[c] + 1 = 5
  <2>1. Progresses[c] = Progress(c) /\ Progresses'[c] = Progress(c)'
    BY DEF Progresses
  <2>2. \A k \in Categories \ {c} : Progresses'[k] = Progresses[k]
    BY <1>8 DEF Progresses
  <2>3. Progresses = [k \in Categories |-> Progresses[k]]
        /\ Progresses' = [k \in Categories |-> Progresses'[k]]
    BY DEF Progresses
  <2>4. QED
    BY <1>7, <2>1, <2>2, <2>3
<1>10. Halted' = Halted
  BY <1>2, <1>6, <1>8 DEF Halted
<1>11. ~Halted[c]
  BY <1>2 DEF Halted
<1> DEFINE open == {k \in Categories : Progresses'[k] # 5}
<1>12. open = {k \in Categories : rows[k].status # "done"}
  BY <1>3, <1>7, <1>8 DEF Progresses
<1>13. IF open = {} THEN focus' = NoOne ELSE focus' \in open
  <2>1. CASE FirstOpen(rows) = {} /\ focus' = NoOne
    BY <1>12, <2>1, NoneOpen
  <2>2. ASSUME NEW n \in FirstOpen(rows), focus' = n PROVE focus' \in open
    BY <1>12, <2>2 DEF FirstOpen
  <2>3. QED
    BY <1>4, <2>1, <2>2
<1>14. Pipeline!Finish(c)
  BY <1>2, <1>9, <1>10, <1>11, <1>13
     DEF Pipeline!Finish, Pipeline!Working, Pipeline!Done, Progresses, Halted
<1>15. QED
  BY <1>14 DEF Pipeline!Next

\* The consistency report leaves its category where it is, or blocks it.
LEMMA PipelineConsistency ==
  ASSUME RowsInv, SingleFocus, NEW c \in Categories, NEW score \in {"low", "ten"},
         NEW d, RecordConsistency(c, score, d)
  PROVE  Pipeline!Next \/ UNCHANGED Pipeline!vars
<1> DEFINE row == [cat[c] EXCEPT !.round = @ + 1, !.consistency = score]
<1>1. cat \in [Categories -> CategoryRow] /\ CategoryOK(cat[c]) /\ cat[c] \in CategoryRow
  BY DEF RowsInv, CategoriesOK
<1>2. cat[c].stage = "consistency" /\ cat[c].status \in {"active", "needs_fix"}
  BY <1>1 DEF RecordConsistency, CategoryOK, CategoryRow
<1>3. cat[c].round + 1 \in 0..MaxRounds
  BY <1>1, PolicyAssumption DEF RecordConsistency, CategoryRow
<1>4. row \in CategoryRow /\ row.stage = "consistency" /\ row.status = cat[c].status
  BY <1>1, <1>2, <1>3 DEF CategoryRow, Scores
<1>5. CASE score # "ten" /\ row.round >= MaxRounds
  <2>1. Halt(c, row, RecoveredUnits(d), RecoveredClaims(d), d)
    BY <1>5 DEF RecordConsistency
  <2> HIDE DEF row
  <2>2. CategoryOK(row) /\ row.status # "done"
    BY <1>2, <1>4, OpenOK DEF Open, Stages
  <2>3. At(row) = At(cat[c])
    BY <1>2, <1>4 DEF At
  <2>4. QED
    BY <1>2, <2>1, <2>2, <2>3, PipelineHalt
<1>6. CASE ~(score # "ten" /\ row.round >= MaxRounds)
  <2>1. /\ cat' = [cat EXCEPT ![c] = [row EXCEPT !.status = IF score = "ten" THEN "active" ELSE "needs_fix"]]
        /\ focus' = focus
    BY <1>6 DEF RecordConsistency
  <2> HIDE DEF row
  <2>2. /\ cat'[c].stage = "consistency" /\ cat'[c].status # "blocked"
        /\ \A k \in Categories \ {c} : cat'[k] = cat[k]
    BY <1>1, <1>4, <2>1 DEF CategoryRow
  <2>3. QED
    BY <1>2, <2>1, <2>2, PipelineStutter DEF At
<1>7. QED
  BY <1>5, <1>6

-----------------------------------------------------------------------------
(* The steps *)

\* What agents do is invisible to the pipeline, but for the last strike.
LEMMA PipelineAgent ==
  ASSUME RowsInv, SingleFocus, Agent
  PROVE  Pipeline!Next \/ UNCHANGED Pipeline!vars
<1>1. ASSUME NEW u \in Units, NEW o \in Owners, NEW d \in Delays, ReviewStrikeOut(u, o, d)
      PROVE  Pipeline!Next
  <2> DEFINE c == CategoryOf[u]
  <2>1. c \in Categories /\ cat[c].status # "done" /\ CategoryOK(cat[c])
    BY <1>1, CategoryAssumption, NoOneAssumption
       DEF ReviewStrikeOut, Holds, RowsInv, FocusOK, CategoriesOK
  <2>2. \E un, cl : Halt(c, cat[c], un, cl, d)
    BY <1>1 DEF ReviewStrikeOut
  <2>3. QED
    BY <2>1, <2>2, PipelineHalt
<1>2. CASE UNCHANGED <<focus, cat>>
  BY <1>2, PipelineStutter
<1>3. QED
  BY <1>1, <1>2
     DEF Agent, Claim, Complete, CompleteAnalysis, CompleteTranslation, CompleteFix, ReviewPass,
         ReviewFail, Deliver, Release, Heartbeat

\* The orchestrator advances, finishes, records.
LEMMA PipelineOrchestrator ==
  ASSUME RowsInv, SingleFocus, Orchestrator
  PROVE  Pipeline!Next \/ UNCHANGED Pipeline!vars
<1>1. CASE UNCHANGED <<focus, cat>>
  BY <1>1, PipelineStutter
<1>2. QED
  BY <1>1, PipelineStep, PipelineFinish, PipelineConsistency DEF Orchestrator, RecordGate, Recover

\* An operator's decision about a unit halts or restarts its category.
LEMMA PipelineUnit ==
  ASSUME OrderlyUnblock, RowsInv, SingleFocus, OperatorOnUnit
  PROVE  Pipeline!Next
<1>a. \A c \in Categories : cat[c] \in CategoryRow /\ CategoryOK(cat[c])
  BY DEF RowsInv, CategoriesOK
<1>b. ASSUME NEW c \in Categories, NEW stage \in Stages, StageOrder(stage) <= Progress(c)
      PROVE  Rank(stage) <= Rank(At(cat[c]))
  <2>1. Rank(stage) = StageOrder(stage)
    BY DEF Rank, Stages
  <2>2. QED
    BY <1>b, <2>1, ProgressRank
<1>1. PICK u \in Units, d \in Delays :
        \/ BlockUnit(u, d)
        \/ \E force \in Forces, stage \in {"analysis", "translation"} :
             Orderly(CategoryOf[u], stage) /\ UnblockUnitReset(u, stage, force, d)
        \/ \E force \in Forces : Orderly(CategoryOf[u], "review") /\ UnblockUnitReview(u, force, d)
  BY DEF OperatorOnUnit
<1> DEFINE c == CategoryOf[u]
<1>2. c \in Categories
  BY CategoryAssumption
<1>3. CASE BlockUnit(u, d)
  <2>1. cat[c].status # "done"
    BY <1>a, <1>2, <1>3 DEF BlockUnit, RowsInv, UnitsDone, Late, CategoryOK
  <2>2. \E un, cl : Halt(c, cat[c], un, cl, d)
    BY <1>3 DEF BlockUnit
  <2>3. QED
    BY <1>a, <1>2, <2>1, <2>2, PipelineHalt
<1>4. ASSUME NEW force \in Forces, NEW stage \in {"analysis", "translation"},
             Orderly(c, stage), UnblockUnitReset(u, stage, force, d)
      PROVE  Pipeline!Next
  <2> DEFINE row == Wiped(Restarted(cat[c], stage))
  <2>1. stage \in Stages /\ stage # "verification" /\ StageOrder(stage) <= Progress(c)
    BY <1>4 DEF Stages, Orderly
  <2>2. Open(row) /\ row.stage # "done" /\ At(row) = stage
    BY <1>a, <1>2, <2>1, RestartedOK, RestartedAt DEF Stages
  <2>3. \E cl : Activate(c, row, force, cl, d)
    BY <1>4 DEF UnblockUnitReset
  <2> HIDE DEF row
  <2>4. QED
    BY <1>b, <1>2, <2>1, <2>2, <2>3, PipelineResume
<1>5. ASSUME NEW force \in Forces, Orderly(c, "review"), UnblockUnitReview(u, force, d)
      PROVE  Pipeline!Next
  <2> DEFINE row == Restarted(cat[c], "review")
  <2>1. "review" \in Stages /\ StageOrder("review") <= Progress(c)
    BY <1>5 DEF Stages, Orderly
  <2>2. Open(row) /\ row.stage # "done" /\ At(row) = "review"
    BY <1>a, <1>2, <2>1, RestartedOK, RestartedAt DEF Stages
  <2>3. \E cl : Activate(c, row, force, cl, d)
    BY <1>5 DEF UnblockUnitReview
  <2> HIDE DEF row
  <2>4. QED
    BY <1>b, <1>2, <2>1, <2>2, <2>3, PipelineResume
<1>6. QED
  BY <1>1, <1>3, <1>4, <1>5

\* So does a decision about a category.
LEMMA PipelineCategory ==
  ASSUME RowsInv, StagesInv, SingleFocus, OperatorOnCategory
  PROVE  Pipeline!Next
<1>1. PICK c \in Categories, d \in Delays :
        \/ BlockCategory(c, d)
        \/ \E force \in Forces, stage \in Stages : UnblockCategory(c, stage, force, d)
        \/ \E force \in Forces : Reopen(c, force, d)
  BY DEF OperatorOnCategory
<1>a. cat[c] \in CategoryRow /\ CategoryOK(cat[c]) /\ PlacedCategory(cat[c])
  BY DEF RowsInv, CategoriesOK, StagesInv
<1>2. CASE BlockCategory(c, d)
  BY <1>a, <1>2, PipelineHalt DEF BlockCategory
<1>3. ASSUME NEW force \in Forces, NEW stage \in Stages, UnblockCategory(c, stage, force, d)
      PROVE  Pipeline!Next
  <2> DEFINE row == IF stage = "verification" THEN Restarted(cat[c], stage)
                                              ELSE Wiped(Restarted(cat[c], stage))
  <2>1. Open(row) /\ row.stage = stage /\ At(row) = stage /\ stage # "done"
    BY <1>a, <1>3, RestartedOK, RestartedAt DEF UnblockCategory, Stages
  <2>2. \E cl : Activate(c, row, force, cl, d)
    BY <1>3 DEF UnblockCategory
  <2> HIDE DEF row
  <2>3. Origin(cat[c]) \in Stages /\ StageOrder(stage) <= StageOrder(Origin(cat[c]))
    BY <1>3 DEF UnblockCategory, NotAhead
  <2>4. At(cat[c]) = Origin(cat[c]) \/ (At(cat[c]) = "pending" /\ Origin(cat[c]) = "analysis")
    BY <1>a, <2>3, CategoryOrigin
  <2>5. \A s \in Stages : Rank(s) = StageOrder(s)
    BY DEF Rank, Stages
  <2>6. Rank(stage) <= Rank(At(cat[c]))
    BY <2>3, <2>4, <2>5, Ranks
  <2>7. QED
    BY <2>1, <2>2, <2>6, PipelineResume
<1>4. ASSUME NEW force \in Forces, Reopen(c, force, d) PROVE Pipeline!Next
  <2> DEFINE from == cat[c].blocked_stage
  <2> DEFINE stage == IF cat[c].status = "blocked" /\ from \in {"analysis", "translation"}
                      THEN from ELSE "review"
  <2> DEFINE row == Wiped(Restarted(cat[c], stage))
  <2>1. stage \in {"analysis", "translation", "review"} /\ Activate(c, row, force, RecoveredClaims(d), d)
    BY <1>4 DEF Reopen
  <2>2. Rank(stage) <= Rank(At(cat[c]))
    <3>1. CASE cat[c].status = "blocked" /\ from \in {"analysis", "translation"}
      BY <1>a, <3>1, Ranks DEF At, CategoryOK
    <3>2. CASE cat[c].status = "blocked" /\ from \notin {"analysis", "translation"}
      BY <1>a, <3>2, Ranks DEF At, CategoryOK, Stages
    <3>3. CASE cat[c].status = "done"
      BY <1>a, <3>3, Ranks DEF At, CategoryOK
    <3>4. QED
      BY <1>4, <3>1, <3>2, <3>3 DEF Reopen
  <2> HIDE DEF from, stage
  <2>3. Open(row) /\ row.stage = stage /\ At(row) = stage /\ stage # "done"
    BY <1>a, <2>1, RestartedOK, RestartedAt DEF Stages
  <2> HIDE DEF row
  <2>4. QED
    BY <2>1, <2>2, <2>3, PipelineResume
<1>5. QED
  BY <1>1, <1>2, <1>3, <1>4

\* The categories of the queue behave as CategoryPipeline says, for orderly
\* operators (advance, block, unblock, reopen and the pause in
\* ensure_only_active_tx, seen from the categories alone).
THEOREM Pipelined ==
  ASSUME OrderlyUnblock
  PROVE  Spec => ImplementsPipeline
<1>1. Init => Pipeline!Init
  <2> SUFFICES ASSUME Init PROVE Pipeline!Init
    OBVIOUS
  <2>1. /\ NewCategory.stage = "pending" /\ NewCategory.status = "pending"
        /\ Activated(NewCategory).stage = "analysis" /\ Activated(NewCategory).status = "active"
    BY DEF NewCategory, Activated
  <2>2. focus \in Categories
        /\ \A k \in Categories : cat[k].stage \in {"pending", "analysis"} /\ cat[k].status # "blocked"
    BY <2>1 DEF Init
  <2>3. \A k \in Categories : Progress(k) = 0
    BY <2>2, ProgressRank, Ranks DEF At
  <2>4. QED
    BY <2>2, <2>3 DEF Pipeline!Init
<1>2. RowsInv /\ StagesInv /\ SingleFocus /\ [Next]_vars => [Pipeline!Next]_(Pipeline!vars)
  <2>1. Tick \/ UNCHANGED vars => UNCHANGED Pipeline!vars
    BY PipelineStutter DEF Tick, vars
  <2>2. QED
    BY <2>1, PipelineAgent, PipelineOrchestrator, PipelineUnit, PipelineCategory DEF Next
<1>3. QED
  BY <1>1, <1>2, Rows, Standing, Focus, PTL DEF Spec, ImplementsPipeline, Pipeline!Spec
=============================================================================
