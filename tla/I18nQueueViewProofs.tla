------------------------- MODULE I18nQueueViewProofs -------------------------
(***************************************************************************)
(* What the queue tells its users is true: the stage table and the other   *)
(* rules of validate hold of every reachable database, next proposes only  *)
(* what claim lets in, and status shows live claims of the active category *)
(* only.                                                                   *)
(*                                                                         *)
(* Behind most of it is the invariant `LeaseInv': a lease in force is on a *)
(* unit of the focus, which is not blocked.  It needs the operations'      *)
(* samples of the clock to be current (MaxDelay = 0): a heartbeat whose    *)
(* sample is late renews a lease that a block has already taken for        *)
(* expired.                                                                *)
(***************************************************************************)
EXTENDS I18nQueueViews, I18nQueueStageProofs

-----------------------------------------------------------------------------
(* Leases in force *)

\* Leases are in force on units of the focus only, and not while it is blocked.
LeaseInv ==
  \A u \in Units : Live(claim, u, 0) =>
    focus = CategoryOf[u] /\ cat[CategoryOf[u]].status # "blocked"

\* Deleting claims brings none into force.
LEMMA DropLive ==
  ASSUME NEW cl, NEW S, NEW u \in Units, Live(DropAll(cl, S), u, 0)
  PROVE  Live(cl, u, 0) /\ u \notin S
BY DEF Live, Claimed, DropAll, NoClaim

\* After a recovery the claims are the leases in force.
LEMMA RecoveredLive ==
  ASSUME NEW u \in Units
  PROVE  /\ Claimed(RecoveredClaims(0), u) <=> Live(claim, u, 0)
         /\ Live(RecoveredClaims(0), u, 0) <=> Live(claim, u, 0)
         /\ Live(claim, u, 0) =>
              RecoveredClaims(0)[u] = claim[u] /\ RecoveredUnits(0)[u] = unit[u]
BY DEF RecoveredClaims, RecoveredUnits, RevertAll, DropAll, Due, Live, Claimed, NoClaim

\* A step that brings no lease into force and leaves focus and categories.
LEMMA LeasesKept ==
  ASSUME LeaseInv, \A u \in Units : Live(claim', u, 0) => Live(claim, u, 0),
         focus' = focus,
         \A c \in Categories : cat[c].status # "blocked" => cat'[c].status # "blocked"
  PROVE  LeaseInv'
BY CategoryAssumption DEF LeaseInv

\* A block ends the leases of its category, and another one has any only if it
\* is the focus and stays so.
LEMMA HaltLeases ==
  ASSUME RowsInv, LeaseInv, NEW c \in Categories, NEW row, NEW un,
         NEW cl, \A u \in Units : Live(cl, u, 0) => Live(claim, u, 0),
         Halt(c, row, un, cl, 0)
  PROVE  LeaseInv'
<1> SUFFICES ASSUME NEW u \in Units, Live(claim', u, 0)
             PROVE  focus' = CategoryOf[u] /\ cat'[CategoryOf[u]].status # "blocked"
  BY DEF LeaseInv
<1>1. Live(cl, u, 0) /\ u \notin UnitsOf(c) \cap LiveUnits(cl, 0)
  BY DropLive DEF Halt
<1>2. CategoryOf[u] # c /\ CategoryOf[u] \in Categories
  BY <1>1, CategoryAssumption DEF UnitsOf, LiveUnits
<1>3. focus = CategoryOf[u] /\ cat[CategoryOf[u]].status # "blocked"
  BY <1>1 DEF LeaseInv
<1>4. cat'[CategoryOf[u]] = cat[CategoryOf[u]] /\ focus' = focus
  BY <1>2, <1>3, NoOneAssumption DEF Halt, RowsInv, CategoriesOK
<1>5. QED
  BY <1>3, <1>4

\* Only a category without leases is paused, so the leases in force are of the
\* category that starts.
LEMMA ActivateLeases ==
  ASSUME RowsInv, SingleFocus, LeaseInv, NEW c \in Categories, NEW row, Open(row),
         NEW force, NEW cl, Activate(c, row, force, cl, 0),
         \A u \in Units : Live(cl, u, 0) => Live(claim, u, 0),
         \A u \in Units : Live(claim', u, 0) => Live(cl, u, 0)
  PROVE  LeaseInv'
<1>1. PICK p \in Pausable(c, force, cl, 0) :
        cat' = [k \in Categories |->
                  IF k = c THEN row ELSE IF k = p THEN BlockedRow(cat[k]) ELSE cat[k]]
  BY DEF Activate
<1>2. focus' = c /\ cat'[c].status # "blocked"
  BY <1>1 DEF Activate, Open
<1>3. ASSUME NEW u \in Units, Live(cl, u, 0), CategoryOf[u] # c PROVE FALSE
  <2> DEFINE k == CategoryOf[u]
  <2>1. k \in Categories /\ focus = k /\ cat[k].status # "blocked"
    BY <1>3, CategoryAssumption DEF LeaseInv
  <2>2. Working(k)
    BY <2>1, NoOneAssumption DEF SingleFocus
  <2>3. k \in Others(c) /\ \A j \in Others(c) : j = k
    BY <1>3, <2>1, <2>2 DEF Others, Working, SingleFocus
  <2>4. p = k /\ UnitsOf(k) \cap LiveUnits(cl, 0) = {}
    BY <1>1, <2>3 DEF Pausable
  <2>5. QED
    BY <1>3, <2>4 DEF UnitsOf, LiveUnits
<1>4. QED
  BY <1>2, <1>3 DEF LeaseInv

\* Every step keeps the leases on the focus, with current samples of the clock.
LEMMA LeasesNext ==
  ASSUME MaxDelay = 0, RowsInv, SingleFocus, LeaseInv, [Next]_vars
  PROVE  LeaseInv'
<1>a. /\ \A c \in Categories : CategoryOK(cat[c]) /\ cat[c] \in CategoryRow
      /\ cat \in [Categories -> CategoryRow] /\ claim \in [Units -> ClaimRow]
      /\ \A u \in Units : CategoryOf[u] \in Categories
  BY CategoryAssumption DEF RowsInv, CategoriesOK, UnitsOK
<1>b. \A d \in Delays : d = 0
  BY DEF Delays
<1>c. \A u \in Units : Live(RecoveredClaims(0), u, 0) => Live(claim, u, 0)
  BY RecoveredLive
<1>d. RecoveredClaims(0) \in [Units -> ClaimRow]
  BY RecoveredOK DEF RowsInv, UnitsOK
<1>1. CASE Agent
  <2>1. PICK u \in Units, o \in Owners :
          \/ \E role \in Roles, lease \in Leases : Claim(u, role, o, lease, 0)
          \/ Complete(u, o, 0)
          \/ Release(u, o, 0)
          \/ \E lease \in Leases : Heartbeat(u, o, lease, 0)
    BY <1>1, <1>b DEF Agent
  <2>2. ASSUME NEW role \in Roles, NEW lease \in Leases, Claim(u, role, o, lease, 0)
        PROVE  LeaseInv'
    <3>1. \A v \in Units \ {u} : claim'[v] = RecoveredClaims(0)[v]
      BY <1>d, <2>2 DEF Claim
    <3>2. \A v \in Units \ {u} : Live(claim', v, 0) => Live(claim, v, 0)
      BY <1>c, <3>1 DEF Live, Claimed
    <3>3. focus' = CategoryOf[u] /\ cat'[CategoryOf[u]].status # "blocked" /\ UNCHANGED <<focus, cat>>
      BY <2>2 DEF Claim
    <3>4. QED
      BY <3>2, <3>3 DEF LeaseInv
  <2>3. ASSUME NEW r, Deliver(u, r, 0) PROVE LeaseInv'
    <3>1. \A v \in Units : Live(claim', v, 0) => Live(claim, v, 0)
      BY <1>c, <1>d, <2>3 DEF Deliver, Live, Claimed, NoClaim
    <3>2. QED
      BY <2>3, <3>1, LeasesKept DEF Deliver
  <2>4. CASE ReviewStrikeOut(u, o, 0)
    <3> DEFINE cl == [RecoveredClaims(0) EXCEPT ![u] = NoClaim]
    <3>1. \A v \in Units : Live(cl, v, 0) => Live(claim, v, 0)
      BY <1>c, <1>d DEF Live, Claimed, NoClaim
    <3>2. \E un : Halt(CategoryOf[u], cat[CategoryOf[u]], un, cl, 0)
      BY <2>4 DEF ReviewStrikeOut
    <3> HIDE DEF cl
    <3>3. QED
      BY <1>a, <3>1, <3>2, HaltLeases
  <2>5. CASE Complete(u, o, 0) /\ ~ReviewStrikeOut(u, o, 0)
    BY <2>3, <2>5 DEF Complete, CompleteAnalysis, CompleteTranslation, CompleteFix, ReviewPass, ReviewFail
  <2>6. CASE Release(u, o, 0)
    <3>1. \A v \in Units : Live(claim', v, 0) => Live(claim, v, 0)
      BY <2>6, DropLive DEF Release
    <3>2. QED
      BY <2>6, <3>1, LeasesKept DEF Release
  <2>7. ASSUME NEW lease \in Leases, Heartbeat(u, o, lease, 0) PROVE LeaseInv'
    <3>1. Live(claim, u, 0) /\ \A v \in Units \ {u} : claim'[v] = claim[v]
      BY <1>a, <2>7 DEF Heartbeat, HoldsLive
    <3>2. \A v \in Units : Live(claim', v, 0) => Live(claim, v, 0)
      BY <3>1 DEF Live, Claimed
    <3>3. QED
      BY <2>7, <3>2, LeasesKept DEF Heartbeat
  <2>8. QED
    BY <2>1, <2>2, <2>4, <2>5, <2>6, <2>7
<1>2. CASE Orchestrator
  <2>1. PICK c \in Categories :
          \/ Advance(c, 0)
          \/ \E allow \in BOOLEAN : Finish(c, allow, 0)
          \/ \E score \in {"low", "ten"} : RecordConsistency(c, score, 0)
          \/ \E g \in RequiredGates, verdict \in Verdicts : RecordGate(c, g, verdict)
          \/ Recover(0)
    BY <1>2, <1>b DEF Orchestrator
  <2>2. CASE Advance(c, 0)
    <3>1. \A k \in Categories : cat'[k].status = cat[k].status
      BY <1>a, <2>2 DEF Advance, CategoryRow
    <3>2. QED
      BY <1>c, <2>2, <3>1, LeasesKept DEF Advance
  <2>3. ASSUME NEW allow \in BOOLEAN, Finish(c, allow, 0) PROVE LeaseInv'
    <3>1. cat[c].stage = "verification" /\ cat[c].status \notin {"blocked", "pending", "done"}
      BY <1>a, <2>3 DEF Finish, CategoryOK
    <3>2. focus = c
      BY <1>a, <3>1 DEF SingleFocus, Working, CategoryRow
    <3>3. \A u \in UnitsOf(c) : unit[u].status = "done"
      BY <3>1 DEF RowsInv, UnitsDone, Late, UnitsOf
    <3>4. ASSUME NEW u \in Units, Live(claim, u, 0) PROVE FALSE
      <4>1. u \in UnitsOf(c)
        BY <3>2, <3>4 DEF LeaseInv, UnitsOf
      <4>2. UnitOK(unit[u], claim[u]) /\ claim[u].role # "none"
        BY <3>4 DEF RowsInv, UnitsOK, Live, Claimed
      <4>3. QED
        BY <3>3, <4>1, <4>2 DEF UnitOK, ClaimMatches
    <3>5. \A u \in Units : ~Live(claim', u, 0)
      BY <1>c, <2>3, <3>4 DEF Finish
    <3>6. QED
      BY <3>5 DEF LeaseInv
  <2>4. ASSUME NEW score \in {"low", "ten"}, RecordConsistency(c, score, 0) PROVE LeaseInv'
    <3> DEFINE row == [cat[c] EXCEPT !.round = @ + 1, !.consistency = score]
    <3>1. CASE score # "ten" /\ row.round >= MaxRounds
      <4>1. Halt(c, row, RecoveredUnits(0), RecoveredClaims(0), 0)
        BY <2>4, <3>1 DEF RecordConsistency
      <4> HIDE DEF row
      <4>2. QED
        BY <1>c, <4>1, HaltLeases
    <3>2. CASE ~(score # "ten" /\ row.round >= MaxRounds)
      <4>1. /\ cat' = [cat EXCEPT ![c] = [row EXCEPT !.status = IF score = "ten" THEN "active" ELSE "needs_fix"]]
            /\ claim' = RecoveredClaims(0) /\ focus' = focus
        BY <2>4, <3>2 DEF RecordConsistency
      <4>2. cat'[c].status # "blocked" /\ \A k \in Categories \ {c} : cat'[k] = cat[k]
        BY <1>a, <4>1 DEF CategoryRow
      <4>3. QED
        BY <1>c, <4>1, <4>2, LeasesKept
    <3>3. QED
      BY <3>1, <3>2
  <2>5. CASE \E g \in RequiredGates, verdict \in Verdicts : RecordGate(c, g, verdict)
    BY <2>5, LeasesKept DEF RecordGate
  <2>6. CASE Recover(0)
    BY <1>c, <2>6, LeasesKept DEF Recover
  <2>7. QED
    BY <2>1, <2>2, <2>3, <2>4, <2>5, <2>6
<1>3. CASE OperatorOnUnit
  <2>1. ASSUME NEW u \in Units, BlockUnit(u, 0) PROVE LeaseInv'
    <3>1. \A v \in Units : Live(DropAll(claim, {u}), v, 0) => Live(claim, v, 0)
      BY DropLive
    <3>2. \E un : Halt(CategoryOf[u], cat[CategoryOf[u]], un, DropAll(claim, {u}), 0)
      BY <2>1 DEF BlockUnit
    <3>3. QED
      BY <1>a, <3>1, <3>2, HaltLeases
  <2>2. ASSUME NEW u \in Units, NEW force \in Forces, NEW stage \in {"analysis", "translation"},
               UnblockUnitReset(u, stage, force, 0)
        PROVE  LeaseInv'
    <3> DEFINE row == Wiped(Restarted(cat[CategoryOf[u]], stage))
    <3> DEFINE cl == DropAll(RecoveredClaims(0), UnitsOf(CategoryOf[u]))
    <3>1. Open(row)
      BY <1>a, RestartedOK DEF Stages
    <3>2. \A v \in Units : Live(cl, v, 0) => Live(claim, v, 0)
      BY <1>c, DropLive
    <3>3. Activate(CategoryOf[u], row, force, cl, 0) /\ claim' = cl
      BY <2>2 DEF UnblockUnitReset
    <3> HIDE DEF row, cl
    <3>4. QED
      BY <1>a, <3>1, <3>2, <3>3, ActivateLeases
  <2>3. ASSUME NEW u \in Units, NEW force \in Forces, UnblockUnitReview(u, force, 0)
        PROVE  LeaseInv'
    <3> DEFINE row == Restarted(cat[CategoryOf[u]], "review")
    <3> DEFINE cl == DropAll(RecoveredClaims(0), {u})
    <3>1. Open(row)
      BY <1>a, RestartedOK DEF Stages
    <3>2. \A v \in Units : Live(cl, v, 0) => Live(claim, v, 0)
      BY <1>c, DropLive
    <3>3. Activate(CategoryOf[u], row, force, cl, 0) /\ claim' = cl
      BY <2>3 DEF UnblockUnitReview
    <3> HIDE DEF row, cl
    <3>4. QED
      BY <1>a, <3>1, <3>2, <3>3, ActivateLeases
  <2>4. QED
    BY <1>3, <1>b, <2>1, <2>2, <2>3 DEF OperatorOnUnit
<1>4. CASE OperatorOnCategory
  <2>1. ASSUME NEW c \in Categories, BlockCategory(c, 0) PROVE LeaseInv'
    BY <2>1, HaltLeases DEF BlockCategory
  <2>2. ASSUME NEW c \in Categories, NEW force \in Forces, NEW stage \in Stages,
               UnblockCategory(c, stage, force, 0)
        PROVE  LeaseInv'
    <3> DEFINE row == IF stage = "verification" THEN Restarted(cat[c], stage)
                                                ELSE Wiped(Restarted(cat[c], stage))
    <3>1. Open(row)
      BY <1>a, <2>2, RestartedOK DEF UnblockCategory
    <3>2. PICK S : /\ claim' = DropAll(RecoveredClaims(0), S)
                   /\ Activate(c, row, force, DropAll(RecoveredClaims(0), S), 0)
      BY <2>2 DEF UnblockCategory
    <3> HIDE DEF row
    <3>3. \A v \in Units : Live(DropAll(RecoveredClaims(0), S), v, 0) => Live(claim, v, 0)
      BY <1>c, DropLive
    <3>4. QED
      BY <3>1, <3>2, <3>3, ActivateLeases
  <2>3. ASSUME NEW c \in Categories, NEW force \in Forces, Reopen(c, force, 0) PROVE LeaseInv'
    <3>1. PICK stage \in Stages \ {"verification"} :
            Activate(c, Wiped(Restarted(cat[c], stage)), force, RecoveredClaims(0), 0)
      BY <2>3 DEF Reopen, Stages
    <3>2. Open(Wiped(Restarted(cat[c], stage)))
      BY <1>a, RestartedOK
    <3>3. \A v \in Units : Live(claim', v, 0) => Live(RecoveredClaims(0), v, 0)
      BY <2>3, DropLive DEF Reopen
    <3>4. QED
      BY <1>c, <3>1, <3>2, <3>3, ActivateLeases
  <2>4. QED
    BY <1>4, <1>b, <2>1, <2>2, <2>3 DEF OperatorOnCategory
<1>5. CASE Tick
  <2>1. ASSUME NEW u \in Units, Live(claim', u, 0) PROVE Live(claim, u, 0)
    <3>1. claim[u] \in ClaimRow
      BY <1>a
    <3>2. QED
      BY <1>5, <2>1, <3>1 DEF Tick, Live, Claimed, Expired, ClaimRow
  <2>2. QED
    BY <1>5, <2>1, LeasesKept DEF Tick
<1>6. CASE UNCHANGED vars
  BY <1>6 DEF vars, LeaseInv, Live, Claimed, Expired
<1>7. QED
  BY <1>1, <1>2, <1>3, <1>4, <1>5, <1>6 DEF Next

\* Leases are always in force on units of the focus only, and never while it is
\* blocked (claim and complete check it, block reverts the claims, a pause
\* refuses while there are any), with current samples of the clock.
THEOREM LeasesOnFocus ==
  ASSUME MaxDelay = 0
  PROVE  Spec => []LeaseInv
<1>1. Init => LeaseInv
  BY DEF Init, LeaseInv, Live, Claimed, NoClaim
<1>2. RowsInv /\ SingleFocus /\ LeaseInv /\ [Next]_vars => LeaseInv'
  BY LeasesNext
<1>3. QED
  BY <1>1, <1>2, Rows, Focus, PTL DEF Spec

-----------------------------------------------------------------------------
(* The stage table of validate *)

\* A unit whose category is not blocked is where the table allows it.
LEMMA StageAllowed ==
  ASSUME NEW r \in UnitRow, PairedUnit(r), NEW row, CategoryOK(row), Stands(r, row),
         Late(row) => r.status = "done", row.stage # "blocked"
  PROVE  r.stage \in AllowedUnits[row.stage]
<1>1. At(row) = row.stage /\ row.stage \in Stages \cup {"pending", "done"}
  BY DEF At, CategoryOK, CategoryRow
<1>2. PlacedUnit(r) /\ r.stage # "blocked" /\ r.stage \in UnitStages
  BY DEF Stands, Together, UnitRow
<1>3. CASE row.stage = "pending"
  BY <1>3 DEF Stands, Together, AllowedUnits
<1>4. CASE row.stage \in {"analysis", "translation"}
  <2>1. r.stage \in {"analyzing", "translating", "reviewing", "fixing", "done"} =>
          r.status \in {"active", "done"}
    BY DEF PairedUnit, InProgress
  <2>2. row.stage = "analysis" => r.stage \in {"pending", "analyzing", "translation"}
    BY <1>1, <1>2, <2>1, Origins DEF Stands, Fits, Ahead, UnitStages
  <2>3. row.stage = "translation" => r.stage \in {"translation", "translating", "review"}
    BY <1>1, <1>2, <2>1, Origins DEF Stands, Fits, Ahead, UnitStages
  <2>4. QED
    BY <1>4, <2>2, <2>3 DEF AllowedUnits
<1>5. CASE row.stage = "review"
  <2>1. r.stage \in {"review", "reviewing", "fixing", "done"}
    BY <1>1, <1>2, <1>5, Origins DEF Stands, Fits, UnitStages
  <2>2. QED
    BY <1>5, <2>1 DEF AllowedUnits
<1>6. CASE row.stage \in {"consistency", "verification", "done"}
  <2>1. r.stage = "done"
    BY <1>6 DEF Late, PairedUnit
  <2>2. QED
    BY <1>6, <2>1 DEF AllowedUnits
<1>7. QED
  BY <1>1, <1>3, <1>4, <1>5, <1>6 DEF Stages

\* A unit in progress in a blocked category has a claim whose lease has run out.
LEMMA FitStage ==
  ASSUME RowsInv, StagesInv, LeaseInv
  PROVE  UnitsFitStage
<1> SUFFICES ASSUME NEW u \in Units
             PROVE  \/ unit[u].stage \in AllowedUnits[cat[CategoryOf[u]].stage]
                    \/ cat[CategoryOf[u]].stage = "blocked" /\ Claimed(claim, u) /\ ~Live(claim, u, 0)
  BY DEF UnitsFitStage
<1> DEFINE row == cat[CategoryOf[u]]
<1>1. /\ UnitOK(unit[u], claim[u]) /\ CategoryOK(row) /\ Stands(unit[u], row)
      /\ Late(row) => unit[u].status = "done"
  BY CategoryAssumption DEF RowsInv, UnitsOK, CategoriesOK, StagesInv, UnitsDone
<1>2. CASE row.stage # "blocked"
  BY <1>1, <1>2, StageAllowed DEF UnitOK
<1>3. CASE row.stage = "blocked"
  <2>1. unit[u].stage \in {"blocked", "pending", "translation", "review", "done"}
        \/ unit[u].stage \in InProgress
    BY <1>1 DEF UnitOK, UnitRow, UnitStages, InProgress
  <2>2. unit[u].stage \in InProgress => Claimed(claim, u) /\ ~Live(claim, u, 0)
    BY <1>1, <1>3 DEF UnitOK, PairedUnit, ClaimMatches, Claimed, LeaseInv, CategoryOK
  <2>3. QED
    BY <1>3, <2>1, <2>2 DEF AllowedUnits
<1>4. QED
  BY <1>2, <1>3

\* Every reachable database passes the stage table of Store::validate, except that
\* block leaves a unit in progress when its lease has already run out; for orderly
\* operators and current samples of the clock.
THEOREM StageTable ==
  ASSUME OrderlyUnblock, MaxDelay = 0
  PROVE  Spec => []UnitsFitStage
<1>1. RowsInv /\ StagesInv /\ LeaseInv => UnitsFitStage
  BY FitStage
<1>2. QED
  BY <1>1, Rows, Standing, LeasesOnFocus, PTL

-----------------------------------------------------------------------------
(* validate *)

\* The focus passes.
LEMMA FocusAccepted ==
  ASSUME RowsInv, StagesInv, SingleFocus
  PROVE  FocusValid
<1>1. CASE focus = NoOne
  BY <1>1 DEF SingleFocus, FocusValid
<1>2. CASE focus # NoOne
  <2>1. CategoryOK(cat[focus]) /\ PlacedCategory(cat[focus])
    BY <1>2 DEF RowsInv, FocusOK, CategoriesOK, StagesInv
  <2>2. cat[focus].status \in {"active", "blocked", "needs_fix"}
    BY <1>2 DEF SingleFocus, Working
  <2>3. \A c \in Categories : cat[c].status \in {"active", "needs_fix"} => c = focus
    BY DEF SingleFocus, Working
  <2>4. QED
    BY <1>2, <2>1, <2>2, <2>3 DEF FocusValid, PlacedCategory, CategoryOK
<1>3. QED
  BY <1>1, <1>2

\* Every category passes.
LEMMA CategoryAccepted ==
  ASSUME RowsInv, StagesInv, NEW c \in Categories
  PROVE  CategoryValid(c)
<1> DEFINE r == cat[c]
<1>1. CategoryOK(r) /\ r \in CategoryRow /\ PlacedCategory(r)
  BY DEF RowsInv, CategoriesOK, StagesInv
<1>2. <<r.stage, r.status>> \in StageStatusPairs
  <2>1. \/ r.stage = r.status /\ r.status \in {"pending", "done", "blocked"}
        \/ r.stage \in Stages /\ r.status \in {"active", "needs_fix"}
    BY <1>1 DEF CategoryOK, CategoryRow, Stages
  <2>2. QED
    BY <2>1 DEF StageStatusPairs
<1>3. IF r.status = "blocked" THEN r.blocked_stage \in Stages ELSE r.blocked_stage = "none"
  BY <1>1 DEF CategoryOK, PlacedCategory
<1>4. r.round <= MaxRounds
  BY <1>1, PolicyAssumption DEF CategoryRow
<1>5. r.status = "done" =>
        /\ r.consistency = "ten"
        /\ \A u \in UnitsOf(c) : unit[u].status = "done"
        /\ \A g \in RequiredGates : gates[c][g] \in {"pass", "skip"}
  BY <1>1 DEF CategoryOK, Verifying, Late, RowsInv, UnitsDone, GatesDone, UnitsOf
<1>6. QED
  BY <1>2, <1>3, <1>4, <1>5 DEF CategoryValid

\* Every unit passes.
LEMMA UnitAccepted ==
  ASSUME RowsInv, StagesInv, NEW u \in Units
  PROVE  UnitValid(u)
<1> DEFINE r == unit[u]
<1>1. /\ UnitOK(r, claim[u]) /\ PlacedUnit(r) /\ r \in UnitRow /\ PairedUnit(r)
      /\ Fits(r, At(cat[CategoryOf[u]]))
  BY DEF RowsInv, UnitsOK, StagesInv, UnitOK, Stands
<1>2. <<r.stage, r.status>> \in UnitPairs
  BY <1>1 DEF PairedUnit, PlacedUnit, UnitRow, UnitStages, InProgress, UnitPairs
<1>3. ~(r.attempts > MaxRounds)
  BY <1>1, PolicyAssumption DEF UnitRow
<1>4. r.status = "done" =>
        /\ r.score = "ten" /\ r.translated_by # NoOne /\ r.last_reviewer # NoOne
        /\ r.last_reviewer \notin {r.translated_by, r.fixed_by}
  BY <1>1, Origins DEF UnitOK, IndependentRow, Fits, PairedUnit
<1>5. IF r.status = "blocked" THEN r.blocked_stage \in Stages ELSE r.blocked_stage = "none"
  BY <1>1 DEF PairedUnit, PlacedUnit, UnitRow, Stages
<1>6. r.status = "active" => Claimed(claim, u)
  BY <1>1 DEF UnitOK, ClaimMatches, Claimed
<1>7. QED
  BY <1>2, <1>3, <1>4, <1>5, <1>6 DEF UnitValid

\* Claims are held by somebody, whom claim writes down and nothing rewrites, and
\* nothing is left of a claim that is deleted.
OwnersInv ==
  \A u \in Units : IF Claimed(claim, u) THEN claim[u].owner \in Owners ELSE claim[u] = NoClaim

\* Tables of claims in which everything is deleted or as in the claims table.
Inherited(cl) ==
  \A u \in Units : IF Claimed(cl, u) THEN Claimed(claim, u) /\ cl[u].owner = claim[u].owner
                                     ELSE cl[u] = NoClaim

LEMMA DropInherited ==
  ASSUME NEW cl, Inherited(cl), NEW S
  PROVE  Inherited(DropAll(cl, S))
BY DEF Inherited, DropAll, Claimed, NoClaim

\* Every step keeps the claims held by somebody.
LEMMA OwnersNext ==
  ASSUME RowsInv, OwnersInv, [Next]_vars
  PROVE  OwnersInv'
<1>a. /\ claim \in [Units -> ClaimRow] /\ Inherited(claim)
      /\ \A d : RecoveredClaims(d) \in [Units -> ClaimRow] /\ Inherited(RecoveredClaims(d))
  BY RecoveredOK, DropInherited DEF RowsInv, UnitsOK, Inherited, RecoveredClaims, OwnersInv
<1>b. ASSUME Inherited(claim') PROVE OwnersInv'
  BY <1>b DEF OwnersInv, Inherited
<1>c. ASSUME NEW cl, Inherited(cl), NEW S, claim' = DropAll(cl, S) PROVE OwnersInv'
  BY <1>b, <1>c, DropInherited
<1>1. CASE Agent
  <2>1. PICK u \in Units, o \in Owners, d \in Delays :
          \/ \E role \in Roles, lease \in Leases : Claim(u, role, o, lease, d)
          \/ Complete(u, o, d)
          \/ Release(u, o, d)
          \/ \E lease \in Leases : Heartbeat(u, o, lease, d)
    BY <1>1 DEF Agent
  <2> DEFINE cl == [RecoveredClaims(d) EXCEPT ![u] = NoClaim]
  <2>2. Inherited(cl)
    BY <1>a DEF Inherited, Claimed, NoClaim
  <2>3. ASSUME NEW role \in Roles, NEW lease \in Leases, Claim(u, role, o, lease, d)
        PROVE  OwnersInv'
    <3>1. /\ claim'[u].owner = o /\ claim'[u].role # "none"
          /\ \A v \in Units \ {u} : claim'[v] = RecoveredClaims(d)[v]
      BY <1>a, <2>3 DEF Claim, Roles
    <3>2. QED
      BY <1>a, <3>1 DEF OwnersInv, Inherited, Claimed
  <2>4. ASSUME NEW r, Deliver(u, r, d) PROVE OwnersInv'
    BY <1>b, <2>2, <2>4 DEF Deliver
  <2>5. CASE ReviewStrikeOut(u, o, d)
    <3>1. \E S : claim' = DropAll(cl, S)
      BY <2>5 DEF ReviewStrikeOut, Halt
    <3>2. QED
      BY <1>c, <2>2, <3>1
  <2>6. CASE Complete(u, o, d) /\ ~ReviewStrikeOut(u, o, d)
    BY <2>4, <2>6 DEF Complete, CompleteAnalysis, CompleteTranslation, CompleteFix, ReviewPass, ReviewFail
  <2>7. CASE Release(u, o, d)
    BY <1>a, <1>c, <2>7 DEF Release
  <2>8. CASE \E lease \in Leases : Heartbeat(u, o, lease, d)
    <3>1. Inherited(claim')
      BY <1>a, <2>8 DEF Heartbeat, HoldsLive, Live, Claimed, ClaimRow, Inherited
    <3>2. QED
      BY <1>b, <3>1
  <2>9. QED
    BY <2>1, <2>3, <2>5, <2>6, <2>7, <2>8
<1>2. CASE Orchestrator
  <2>1. PICK c \in Categories, d \in Delays :
          \/ Advance(c, d)
          \/ \E allow \in BOOLEAN : Finish(c, allow, d)
          \/ \E score \in {"low", "ten"} : RecordConsistency(c, score, d)
          \/ \E g \in RequiredGates, verdict \in Verdicts : RecordGate(c, g, verdict)
          \/ Recover(d)
    BY <1>2 DEF Orchestrator
  <2>2. claim' \in {claim, RecoveredClaims(d)} \/ \E S : claim' = DropAll(RecoveredClaims(d), S)
    BY <2>1 DEF Advance, Finish, RecordConsistency, RecordGate, Recover, Halt
  <2>3. QED
    BY <1>a, <1>b, <1>c, <2>2
<1>3. CASE OperatorOnUnit
  <2>1. PICK u \in Units, d \in Delays :
          \/ BlockUnit(u, d)
          \/ \E force \in Forces, stage \in {"analysis", "translation"} :
               UnblockUnitReset(u, stage, force, d)
          \/ \E force \in Forces : UnblockUnitReview(u, force, d)
    BY <1>3 DEF OperatorOnUnit
  <2>2. \/ \E S : claim' = DropAll(DropAll(claim, {u}), S)
        \/ \E S : claim' = DropAll(RecoveredClaims(d), S)
    BY <2>1 DEF BlockUnit, Halt, UnblockUnitReset, UnblockUnitReview
  <2>3. QED
    BY <1>a, <1>c, <2>2, DropInherited
<1>4. CASE OperatorOnCategory
  <2>1. PICK c \in Categories, d \in Delays :
          \/ BlockCategory(c, d)
          \/ \E force \in Forces, stage \in Stages : UnblockCategory(c, stage, force, d)
          \/ \E force \in Forces : Reopen(c, force, d)
    BY <1>4 DEF OperatorOnCategory
  <2>2. \E S : claim' = DropAll(claim, S) \/ claim' = DropAll(RecoveredClaims(d), S)
    BY <2>1 DEF BlockCategory, Halt, UnblockCategory, Reopen
  <2>3. QED
    BY <1>a, <1>c, <2>2
<1>5. CASE Tick
  <2>1. Inherited(claim')
    BY <1>a, <1>5 DEF Tick, Claimed, ClaimRow, Inherited
  <2>2. QED
    BY <1>b, <2>1
<1>6. CASE UNCHANGED vars
  BY <1>6 DEF vars, OwnersInv, Claimed
<1>7. QED
  BY <1>1, <1>2, <1>3, <1>4, <1>5, <1>6 DEF Next

\* Claims are always held by one of the agents (claim is the only writer of the
\* owner column).
THEOREM Owned == Spec => []OwnersInv
<1>1. Init => OwnersInv
  BY DEF Init, OwnersInv, Claimed, NoClaim
<1>2. RowsInv /\ OwnersInv /\ [Next]_vars => OwnersInv'
  BY OwnersNext
<1>3. QED
  BY <1>1, <1>2, Rows, PTL DEF Spec

\* Every claim passes.
LEMMA ClaimAccepted ==
  ASSUME RowsInv, LeaseInv, OwnersInv, NEW u \in Units
  PROVE  ClaimValid(u)
<1>1. UnitOK(unit[u], claim[u])
  BY DEF RowsInv, UnitsOK
<1>2. QED
  BY <1>1, NoOneAssumption DEF UnitOK, ClaimMatches, LeaseInv, OwnersInv, Claimed, ClaimValid

\* Leases in force are claims.
LEMMA LiveWithinLimit ==
  ASSUME ConcurrencyLimit
  PROVE  /\ IsFiniteSet(LiveUnits(claim, 0)) /\ Cardinality(LiveUnits(claim, 0)) \in Nat
         /\ Cardinality(LiveUnits(claim, 0)) <= MaxAgents
<1> DEFINE held == {u \in Units : Claimed(claim, u)}
<1>1. IsFiniteSet(held) /\ Cardinality(held) \in Nat
  BY FiniteAssumption, FS_Subset, FS_CardinalityType
<1>2. LiveUnits(claim, 0) \subseteq held
  BY DEF LiveUnits, Live
<1>3. Cardinality(held) <= MaxAgents
  BY DEF ConcurrencyLimit
<1> HIDE DEF held
<1>4. /\ IsFiniteSet(LiveUnits(claim, 0)) /\ Cardinality(LiveUnits(claim, 0)) \in Nat
      /\ Cardinality(LiveUnits(claim, 0)) <= Cardinality(held)
  BY <1>1, <1>2, FS_Subset, FS_CardinalityType
<1>5. QED
  BY <1>1, <1>3, <1>4, PolicyAssumption

\* Every reachable database passes Store::validate, apart from leases that have
\* run out; for orderly operators and current samples of the clock.
THEOREM Validates ==
  ASSUME OrderlyUnblock, MaxDelay = 0
  PROVE  Spec => []ValidateAccepts
<1>1. RowsInv /\ StagesInv /\ LeaseInv /\ OwnersInv /\ SingleFocus /\ ConcurrencyLimit => ValidateAccepts
  BY FocusAccepted, CategoryAccepted, FitStage, UnitAccepted, ClaimAccepted, LiveWithinLimit
     DEF ValidateAccepts, ClaimsWithinLimit
<1>2. QED
  BY <1>1, Rows, Standing, LeasesOnFocus, Owned, Focus, Limit, PTL

-----------------------------------------------------------------------------
(* status *)

\* status counts the leases in force, and the done units of every category.
LEMMA StatusShows ==
  ASSUME RowsInv, OwnersInv
  PROVE  /\ Status.claims = LiveUnits(claim, 0)
         /\ Status.active_units = IF focus = NoOne THEN {} ELSE UnitsOf(focus)
         /\ Status.active_stage = IF focus = NoOne THEN "none" ELSE cat[focus].stage
         /\ \A c \in Categories :
              (\A u \in UnitsOf(c) : unit[u].status = "done") => Status.done[c] = Status.total[c]
<1> DEFINE un == RecoveredUnits(0)
<1> DEFINE cl == RecoveredClaims(0)
<1> DEFINE shown == SnapshotUnits(un, cl)
<1>1. focus # NoOne => focus \in Categories
  BY DEF RowsInv, FocusOK
<1>2. \A u \in Units : shown[u].claim = cl[u] /\ shown[u].status = un[u].status
  BY DEF SnapshotUnits
<1>3. \A c \in Categories : /\ SnapshotCategories[c].units = UnitsOf(c)
                            /\ SnapshotCategories[c].stage = cat[c].stage
  BY DEF SnapshotCategories
<1>4. \A u \in Units : cl[u] # NoClaim <=> Live(claim, u, 0)
  BY RecoveredLive DEF OwnersInv, RecoveredClaims, DropAll, Due, Live, Claimed, NoClaim
<1>5. \A u \in Units : unit[u].status = "done" => un[u].status = "done"
  BY RecoveryKeepsDone
<1>6. Status = Summary(SnapshotCategories, shown)
  BY DEF Status
<1> HIDE DEF un, cl, shown
<1>7. Status.claims = {u \in Units : shown[u].claim # NoClaim}
  BY <1>6 DEF Summary
<1>8. Status.claims = LiveUnits(claim, 0)
  BY <1>2, <1>4, <1>7 DEF LiveUnits
<1>9. /\ Status.active_units = IF focus = NoOne THEN {} ELSE UnitsOf(focus)
      /\ Status.active_stage = IF focus = NoOne THEN "none" ELSE cat[focus].stage
  BY <1>1, <1>3, <1>6 DEF Summary
<1>10. ASSUME NEW c \in Categories, \A u \in UnitsOf(c) : unit[u].status = "done"
       PROVE  Status.done[c] = Status.total[c]
  <2>1. {u \in UnitsOf(c) : shown[u].status = "done"} = UnitsOf(c)
    BY <1>2, <1>5, <1>10 DEF UnitsOf
  <2>2. /\ Status.done[c] = Cardinality({u \in SnapshotCategories[c].units : shown[u].status = "done"})
        /\ Status.total[c] = Cardinality(SnapshotCategories[c].units)
    BY <1>6 DEF Summary
  <2>3. QED
    BY <1>3, <2>1, <2>2
<1>11. QED
  BY <1>8, <1>9, <1>10

\* status always shows claims of the active category only, none while it is
\* blocked and never more than agents, and categories past review as done to the
\* last unit (recover_expired_tx opens status; block reverts the claims), with
\* current samples of the clock.
THEOREM StatusTrue ==
  ASSUME MaxDelay = 0
  PROVE  Spec => []StatusTruthful
<1>1. ASSUME RowsInv, LeaseInv, OwnersInv, ConcurrencyLimit, VerifiedAfterReview
      PROVE  StatusTruthful
  <2>1. ASSUME NEW u \in LiveUnits(claim, 0)
        PROVE  /\ focus \in Categories /\ focus # NoOne /\ u \in UnitsOf(focus)
               /\ cat[focus].stage # "blocked"
    <3>1. u \in Units /\ Live(claim, u, 0) /\ CategoryOf[u] \in Categories
      BY <2>1, CategoryAssumption DEF LiveUnits
    <3>2. focus = CategoryOf[u] /\ cat[focus].status # "blocked"
      BY <1>1, <3>1 DEF LeaseInv
    <3>3. CategoryOK(cat[focus])
      BY <1>1, <3>1, <3>2 DEF RowsInv, CategoriesOK
    <3>4. QED
      BY <3>1, <3>2, <3>3, NoOneAssumption DEF UnitsOf, CategoryOK
  <2>2. Status.claims \subseteq Status.active_units
    BY <1>1, <2>1, StatusShows
  <2>3. Status.active_stage = "blocked" => Status.claims = {}
    BY <1>1, <2>1, StatusShows
  <2>4. Cardinality(Status.claims) <= MaxAgents
    BY <1>1, StatusShows, LiveWithinLimit
  <2>5. \A c \in Categories : Progress(c) >= 3 => Status.done[c] = Status.total[c]
    BY <1>1, StatusShows DEF VerifiedAfterReview
  <2>6. QED
    BY <2>2, <2>3, <2>4, <2>5 DEF StatusTruthful
<1>2. QED
  BY <1>1, Rows, LeasesOnFocus, Owned, Limit, Verified, PTL

-----------------------------------------------------------------------------
(* next *)

\* Smallest is the smallest of three numbers.
LEMMA SmallestOfThree ==
  \A i, j, k \in Int :
    /\ Smallest({i, j, k}) \in {i, j, k}
    /\ Smallest({i, j, k}) <= i /\ Smallest({i, j, k}) <= j /\ Smallest({i, j, k}) <= k
<1> SUFFICES ASSUME NEW i \in Int, NEW j \in Int, NEW k \in Int
             PROVE  /\ Smallest({i, j, k}) \in {i, j, k}
                    /\ Smallest({i, j, k}) <= i /\ Smallest({i, j, k}) <= j
                    /\ Smallest({i, j, k}) <= k
  OBVIOUS
<1>1. \E l \in {i, j, k} : \A m \in {i, j, k} : l <= m
  <2>1. i <= j \/ j <= i
    OBVIOUS
  <2>2. i <= k \/ k <= i
    OBVIOUS
  <2>3. j <= k \/ k <= j
    OBVIOUS
  <2>4. i <= i /\ j <= j /\ k <= k
    OBVIOUS
  <2>5. QED
    BY <2>1, <2>2, <2>3, <2>4, SMTT(30)
<1>2. QED
  BY <1>1 DEF Smallest

\* What next prints: nothing, or as many waiting units as the limit, the free
\* slots and the queue allow.
LEMMA Printed ==
  ASSUME NEW role \in Roles, NEW limit \in Nat,
         ~ \/ focus = NoOne
           \/ cat[focus].status = "blocked"
           \/ cat[focus].stage # RoleStage(role)
           \/ FreeSlots(RecoveredClaims(0), 0) <= 0
  PROVE  LET live    == LiveUnits(RecoveredClaims(0), 0)
             waiting == Waiting(role, RecoveredUnits(0), RecoveredClaims(0), 0)
         IN /\ IsFiniteSet(waiting)
            /\ Cardinality(live) \in Nat
            /\ \E size \in Nat :
                 /\ size <= limit /\ size + Cardinality(live) <= MaxAgents
                 /\ limit > 0 /\ waiting # {} => size > 0
                 /\ Proposed(role, limit) = {S \in SUBSET waiting : Cardinality(S) = size}
<1> DEFINE live == LiveUnits(RecoveredClaims(0), 0)
<1> DEFINE waiting == Waiting(role, RecoveredUnits(0), RecoveredClaims(0), 0)
<1> DEFINE size == Smallest({limit, FreeSlots(RecoveredClaims(0), 0), Cardinality(waiting)})
<1>1. waiting \subseteq Units /\ live \subseteq Units
  BY DEF Waiting, UnitsOf, LiveUnits
<1>2. FreeSlots(RecoveredClaims(0), 0) = MaxAgents - Cardinality(live)
  BY DEF FreeSlots
<1>3. Proposed(role, limit) = {S \in SUBSET waiting : Cardinality(S) = size}
  BY DEF Proposed, Offers
<1> HIDE DEF live, waiting
<1>4. IsFiniteSet(waiting) /\ IsFiniteSet(live) /\ Cardinality(waiting) \in Nat /\ Cardinality(live) \in Nat
  BY <1>1, FiniteAssumption, FS_Subset, FS_CardinalityType
<1>5. waiting # {} => Cardinality(waiting) > 0
  BY <1>4, FS_EmptySet
<1>6. FreeSlots(RecoveredClaims(0), 0) \in Int /\ FreeSlots(RecoveredClaims(0), 0) > 0
  BY <1>2, <1>4, PolicyAssumption
<1>7. /\ size \in {limit, FreeSlots(RecoveredClaims(0), 0), Cardinality(waiting)}
      /\ size <= limit /\ size <= FreeSlots(RecoveredClaims(0), 0)
  <2> DEFINE free == FreeSlots(RecoveredClaims(0), 0)
  <2> DEFINE some == Cardinality(waiting)
  <2>1. limit \in Int /\ free \in Int /\ some \in Int
    BY <1>4, <1>6
  <2> HIDE DEF free, some
  <2>2. LET n == Smallest({limit, free, some}) IN n \in {limit, free, some} /\ n <= limit /\ n <= free
    BY <2>1, SmallestOfThree
  <2>3. QED
    BY <2>2 DEF free, some
<1> HIDE DEF size
<1>8. size \in Nat
  BY <1>4, <1>6, <1>7
<1>9. size + Cardinality(live) <= MaxAgents
  BY <1>2, <1>4, <1>7, <1>8, PolicyAssumption
<1>10. limit > 0 /\ waiting # {} => size > 0
  BY <1>5, <1>6, <1>7
<1>11. QED
  BY <1>3, <1>4, <1>7, <1>8, <1>9, <1>10 DEF live, waiting

\* next always proposes units that can be claimed one after the other, no more of
\* them than claim will let in (it shares claim's recovery, its stage and status
\* conditions and its count of live claims), whatever the operators and the clock.
THEOREM Proposals == Spec => []ProposalsHold
<1>1. ASSUME NEW role \in Roles, NEW S \in Proposed(role, MaxAgents)
      PROVE  LET cl == RecoveredClaims(0)
                 un == RecoveredUnits(0)
             IN
             /\ Cardinality(S) + Cardinality(LiveUnits(cl, 0)) <= MaxAgents \/ S = {}
             /\ \A u \in S :
                  /\ CategoryOf[u] = focus /\ cat[focus].status # "blocked"
                  /\ cat[focus].stage = RoleStage(role)
                  /\ Claimable(un[u], role) /\ ~Claimed(cl, u)
  <2>1. CASE \/ focus = NoOne
             \/ cat[focus].status = "blocked"
             \/ cat[focus].stage # RoleStage(role)
             \/ FreeSlots(RecoveredClaims(0), 0) <= 0
    <3>1. S = {}
      BY <1>1, <2>1 DEF Proposed, Offers
    <3>2. QED
      BY <3>1
  <2>2. CASE ~ \/ focus = NoOne
               \/ cat[focus].status = "blocked"
               \/ cat[focus].stage # RoleStage(role)
               \/ FreeSlots(RecoveredClaims(0), 0) <= 0
    <3> DEFINE waiting == Waiting(role, RecoveredUnits(0), RecoveredClaims(0), 0)
    <3>1. PICK size \in Nat :
            /\ size + Cardinality(LiveUnits(RecoveredClaims(0), 0)) <= MaxAgents
            /\ Proposed(role, MaxAgents) = {T \in SUBSET waiting : Cardinality(T) = size}
      BY <2>2, Printed, PolicyAssumption
    <3>2. S \subseteq waiting /\ Cardinality(S) = size
      BY <1>1, <3>1
    <3>3. ASSUME NEW u \in S
          PROVE  /\ CategoryOf[u] = focus /\ Claimable(RecoveredUnits(0)[u], role)
                 /\ ~Claimed(RecoveredClaims(0), u)
      BY <3>2, RecoveredLive DEF Waiting, UnitsOf
    <3>4. QED
      BY <2>2, <3>1, <3>2, <3>3
  <2>3. QED
    BY <2>1, <2>2
<1>2. ProposalsHold
  BY <1>1 DEF ProposalsHold
<1>3. QED
  BY <1>2, PTL

\* A category that has not completed its stage has a unit in that stage which is
\* claimed, or which one of the roles can claim.
LEMMA SomebodyCan ==
  ASSUME RowsInv, StagesInv, focus # NoOne,
         cat[focus].stage \in {"analysis", "translation", "review"},
         ~StageComplete(focus, RecoveredUnits(0)), UnitsOf(focus) # {}
  PROVE  \E u \in UnitsOf(focus) :
           \/ Claimed(RecoveredClaims(0), u)
           \/ \E role \in Roles : /\ Claimable(RecoveredUnits(0)[u], role)
                                  /\ cat[focus].stage = RoleStage(role)
<1> DEFINE un == RecoveredUnits(0)
<1> DEFINE cl == RecoveredClaims(0)
<1> DEFINE row == cat[focus]
<1>1. focus \in Categories /\ CategoryOK(row) /\ row.status # "blocked" /\ At(row) = row.stage
  BY DEF RowsInv, FocusOK, CategoriesOK, CategoryOK, At
<1>2. UnitsOK(un, cl) /\ AllStand(un, cat)
  BY RecoveredOK, RecoveredStand DEF RowsInv
<1>3. ASSUME NEW u \in UnitsOf(focus)
      PROVE  /\ un[u] \in UnitRow /\ PairedUnit(un[u]) /\ PlacedUnit(un[u])
             /\ un[u].status = "active" => Claimed(cl, u)
             /\ Fits(un[u], row.stage) /\ un[u].stage # "blocked"
             /\ u \in Units
  BY <1>1, <1>2 DEF UnitsOK, UnitOK, AllStand, Stands, Together, UnitsOf, ClaimMatches, Claimed, CategoryOK
<1> HIDE DEF un, cl
<1>4. CASE row.stage = "analysis"
  <2>1. PICK u \in UnitsOf(focus) : un[u].stage \in {"pending", "analyzing"}
    BY <1>4 DEF StageComplete, un
  <2>2. CASE un[u].stage = "pending"
    BY <1>4, <2>2 DEF Claimable, RoleStage, Roles, un
  <2>3. CASE un[u].stage = "analyzing"
    BY <1>3, <2>3 DEF PairedUnit, InProgress, cl
  <2>4. QED
    BY <2>1, <2>2, <2>3
<1>5. CASE row.stage = "translation"
  <2>1. PICK u \in UnitsOf(focus) : un[u].stage \in {"translation", "translating"}
    BY <1>5 DEF StageComplete, un
  <2>2. CASE un[u].stage = "translation"
    BY <1>3, <1>5, <2>2 DEF Claimable, RoleStage, Roles, PlacedUnit, un
  <2>3. CASE un[u].stage = "translating"
    BY <1>3, <2>3 DEF PairedUnit, InProgress, cl
  <2>4. QED
    BY <2>1, <2>2, <2>3
<1>6. CASE row.stage = "review"
  <2>1. PICK u \in UnitsOf(focus) : ~(un[u].stage = "done" /\ un[u].status = "done")
    BY <1>6 DEF StageComplete, un
  <2>2. un[u].stage \in {"review", "reviewing", "fixing"}
    BY <1>3, <1>6, <2>1, Origins DEF Fits, PairedUnit, UnitRow, UnitStages
  <2>3. CASE un[u].stage = "review"
    <3>1. un[u].status = "pending" \/ un[u].status = "needs_fix"
      BY <1>3, <2>3 DEF PlacedUnit
    <3>2. Claimable(un[u], "reviewer") \/ Claimable(un[u], "fixer")
      BY <2>3, <3>1 DEF Claimable
    <3>3. QED
      BY <1>6, <3>2 DEF RoleStage, Roles, un
  <2>4. CASE un[u].stage \in {"reviewing", "fixing"}
    BY <1>3, <2>4 DEF PairedUnit, InProgress, cl
  <2>5. QED
    BY <2>2, <2>3, <2>4
<1>7. QED
  BY <1>4, <1>5, <1>6

\* Work never disappears: while the focus is not blocked and short of the end of
\* analysis, translation or review, somebody holds a lease or next has something
\* for one of the roles (next and advance read the same stages), for orderly
\* operators and a policy that lets anybody work, as validate requires.
THEOREM WorkVisible ==
  ASSUME OrderlyUnblock, MaxAgents > 0
  PROVE  Spec => []WorkInSight
<1>1. ASSUME RowsInv, StagesInv PROVE WorkInSight
  <2> SUFFICES ASSUME focus # NoOne, cat[focus].stage \in {"analysis", "translation", "review"},
                      ~StageComplete(focus, RecoveredUnits(0)),
                      LiveUnits(claim, 0) = {}, UnitsOf(focus) # {}
               PROVE  \E role \in Roles : {} \notin Proposed(role, 1)
    BY DEF WorkInSight
  <2> DEFINE cl == RecoveredClaims(0)
  <2>1. \A u \in Units : ~Claimed(cl, u) /\ ~Live(cl, u, 0)
    BY RecoveredLive DEF LiveUnits
  <2>2. PICK u \in UnitsOf(focus), role \in Roles :
          Claimable(RecoveredUnits(0)[u], role) /\ cat[focus].stage = RoleStage(role)
    BY <1>1, <2>1, SomebodyCan DEF UnitsOf
  <2>3. u \in Waiting(role, RecoveredUnits(0), cl, 0)
    BY <2>1, <2>2 DEF Waiting, UnitsOf
  <2>4. LiveUnits(cl, 0) = {}
    BY <2>1 DEF LiveUnits
  <2>5. FreeSlots(cl, 0) = MaxAgents /\ ~(MaxAgents <= 0)
    <3>1. Cardinality(LiveUnits(cl, 0)) = 0
      BY <2>4, FS_EmptySet
    <3>2. FreeSlots(cl, 0) = MaxAgents - Cardinality(LiveUnits(cl, 0))
      BY DEF FreeSlots
    <3>3. QED
      BY <3>1, <3>2, PolicyAssumption
  <2>6. cat[focus].status # "blocked"
    BY <1>1 DEF RowsInv, FocusOK, CategoriesOK, CategoryOK
  <2> HIDE DEF cl
  <2>7. PICK size \in Nat :
          /\ size > 0
          /\ Proposed(role, 1) = {S \in SUBSET Waiting(role, RecoveredUnits(0), cl, 0) : Cardinality(S) = size}
    <3>1. ~(FreeSlots(cl, 0) <= 0)
      BY <2>5
    <3>2. QED
      BY <2>2, <2>3, <2>6, <3>1, Printed DEF cl
  <2>8. {} \notin Proposed(role, 1)
    BY <2>7, FS_EmptySet
  <2>9. QED
    BY <2>8
<1>2. QED
  BY <1>1, Rows, Standing, PTL
=============================================================================
