------------------------------ MODULE I18nQueue ------------------------------
(***************************************************************************)
(* The translation queue of jx_i18n (store.rs): a SQLite database shared   *)
(* by the orchestrator and its agents, each of them a separate `jx         *)
(* i18n-queue' process.  A category goes through analysis, translation,    *)
(* review, consistency and verification; agents claim its units under a    *)
(* lease, one role per stage.                                              *)
(*                                                                         *)
(* Every operation of the store is one database transaction, so it is one  *)
(* action here; an operation that returns an error rolls back and is no    *)
(* step at all.  What is not atomic is the clock: an operation reads it    *)
(* before it waits for the database (`let now_ms = self.clock.now_ms()'    *)
(* precedes every transaction), so the transaction may run with an instant *)
(* that is already in the past.  Each action therefore takes `d', how many *)
(* ticks ago the operation sampled its clock.  A claim stores how many     *)
(* ticks its lease has left instead of an absolute instant: only the       *)
(* difference to the clock is ever compared.                               *)
(***************************************************************************)
EXTENDS Integers, FiniteSets

CONSTANTS
  Categories,      \* rows of table categories
  Units,           \* rows of table units
  Owners,          \* names the agents claim with
  CategoryOf,      \* units.category
  Ord,             \* categories.ord, the order of execution
  RequiredGates,   \* policy.required_gates
  MaxAgents,       \* policy.max_agents
  MaxRounds,       \* policy.max_rounds
  Leases,          \* lengths of lease the agents ask for, in ticks
  MaxDelay,        \* bound: ticks between sampling the clock and the transaction
  Forces,          \* values of --force the operators use
  OrderlyUnblock,  \* operators unblock no unit to a stage ahead of its category
  NoOne            \* NULL, for owners and for the focus

ASSUME CategoryAssumption ==
  /\ IsFiniteSet(Categories) /\ Categories # {}
  /\ Ord \in [Categories -> Nat]
  /\ CategoryOf \in [Units -> Categories]
ASSUME FiniteAssumption == IsFiniteSet(Units)
ASSUME NoOneAssumption == NoOne \notin Owners /\ NoOne \notin Categories
ASSUME PolicyAssumption == MaxAgents \in Nat /\ MaxRounds \in Nat \ {0}
ASSUME TimeAssumption == Leases \subseteq Nat \ {0} /\ MaxDelay \in Nat
ASSUME OperatorAssumption == Forces \subseteq BOOLEAN /\ OrderlyUnblock \in BOOLEAN

VARIABLES
  focus,   \* meta.active_category
  cat,     \* table categories
  gates,   \* table gates: verdict of each required gate of each category
  unit,    \* table units
  claim    \* table claims, by unit

vars == <<focus, cat, gates, unit, claim>>

-----------------------------------------------------------------------------
(* Vocabulary *)

Roles == {"analyst", "translator", "reviewer", "fixer"}
Delays == 0..MaxDelay

\* Scores are told apart only as far as the code does: NULL, below the pass
\* score, the pass score.
Scores == {"none", "low", "ten"}
Verdicts == {"pass", "fail", "skip"}

Stages == {"analysis", "translation", "review", "consistency", "verification"}
StageOrder(s) ==
  CASE s = "analysis"     -> 0
    [] s = "translation"  -> 1
    [] s = "review"       -> 2
    [] s = "consistency"  -> 3
    [] s = "verification" -> 4
NextStage(s) ==
  CASE s = "analysis"    -> "translation"
    [] s = "translation" -> "review"
    [] s = "review"      -> "consistency"
    [] s = "consistency" -> "verification"
RoleStage(role) ==
  CASE role = "analyst"            -> "analysis"
    [] role = "translator"         -> "translation"
    [] role \in {"reviewer", "fixer"} -> "review"
ClaimingStage(role) ==
  CASE role = "analyst"    -> "analyzing"
    [] role = "translator" -> "translating"
    [] role = "reviewer"   -> "reviewing"
    [] role = "fixer"      -> "fixing"

\* revert_target: the stage and the status a unit falls back to.
RevertStage(role) ==
  CASE role = "analyst"              -> "pending"
    [] role = "translator"           -> "translation"
    [] role \in {"reviewer", "fixer"} -> "review"
RevertStatus(role) == IF role = "fixer" THEN "needs_fix" ELSE "pending"

NormalizeStage(s) ==
  CASE s \in {"pending", "analyzing", "analysis"} -> "analysis"
    [] s \in {"translating", "translation"}       -> "translation"
    [] s \in {"reviewing", "fixing", "review"}    -> "review"
    [] OTHER                                      -> s

UnitsOf(c) == {u \in Units : CategoryOf[u] = c}

-----------------------------------------------------------------------------
(* Claims and leases *)

NoClaim == [role |-> "none", owner |-> NoOne, left |-> 0]

Claimed(cl, u) == cl[u].role # "none"

\* An operation whose clock sample is d ticks old sees this lease as expired.
Expired(k, d) == k.left + d <= 0
Live(cl, u, d) == Claimed(cl, u) /\ ~Expired(cl[u], d)
LiveUnits(cl, d) == {u \in Units : Live(cl, u, d)}

\* Bug: a revert forgets the rounds.
RevertedAfresh(r, role) ==
  [r EXCEPT !.stage = RevertStage(role), !.status = RevertStatus(role),
            !.attempts = 0]
Reverted(r, role) ==
  [r EXCEPT !.stage = RevertStage(role), !.status = RevertStatus(role)]

\* revert_unit_tx over a set of claimed units.
RevertAll(un, cl, S) == [u \in Units |-> IF u \in S THEN Reverted(un[u], cl[u].role) ELSE un[u]]
DropAll(cl, S) == [u \in Units |-> IF u \in S THEN NoClaim ELSE cl[u]]

\* recover_expired_tx, which opens most transactions.
Due(d) == {u \in Units : Claimed(claim, u) /\ Expired(claim[u], d)}
\* Bug: the second half of the recovery looks at the clock again.
RecoveredUnitsLater(d) == RevertAll(unit, claim, Due(0))
RecoveredUnits(d) == RevertAll(unit, claim, Due(d))
RecoveredClaims(d) == DropAll(claim, Due(d))

-----------------------------------------------------------------------------
(* Rows *)

NewUnit ==
  [stage |-> "pending", status |-> "pending", blocked_stage |-> "none", score |-> "none",
   attempts |-> 0, translated_by |-> NoOne, fixed_by |-> NoOne, last_reviewer |-> NoOne]

NewCategory ==
  [stage |-> "pending", status |-> "pending", blocked_stage |-> "none",
   consistency |-> "none", round |-> 0, gate_status |-> "none"]

NoGates == [g \in RequiredGates |-> "none"]

\* Blocking keeps the stage the row came from; it serves units and categories.
BlockedRow(r) ==
  [r EXCEPT !.stage = "blocked", !.status = "blocked",
            !.blocked_stage = IF r.stage = "blocked" THEN @ ELSE NormalizeStage(r.stage)]

\* What unblock and reopen do to a unit sent back to analysis or translation,
\* and to one that is only to be reviewed again.
ResetUnit(stage) == [NewUnit EXCEPT !.stage = IF stage = "analysis" THEN "pending" ELSE stage]
\* Bug: the unit is reviewed again with its rounds used up.
ReviewAgainSameRounds(r) ==
  [r EXCEPT !.stage = "review", !.status = "pending", !.blocked_stage = "none", !.score = "none"]
ReviewAgain(r) ==
  [r EXCEPT !.stage = "review", !.status = "pending", !.blocked_stage = "none",
            !.score = "none", !.attempts = 0]

Restarted(r, stage) == [r EXCEPT !.stage = stage, !.status = "active", !.blocked_stage = "none"]
\* Bug: the score is cleared, the rounds spent on it are not.
WipedScoreOnly(r) == [r EXCEPT !.consistency = "none", !.gate_status = "none"]
Wiped(r) == [r EXCEPT !.consistency = "none", !.round = 0, !.gate_status = "none"]

-----------------------------------------------------------------------------
(* Blocking a category and moving the focus *)

\* block_category_tx: the category's live claims are reverted, its expired ones
\* stay.  `row' is the category's row, `un' and `cl' the tables so far.
Halt(c, row, un, cl, d) ==
  LET live == UnitsOf(c) \cap LiveUnits(cl, d) IN
  /\ cat' = [cat EXCEPT ![c] = BlockedRow(row)]
  /\ unit' = RevertAll(un, cl, live)
  /\ claim' = DropAll(cl, live)
  /\ focus' = IF focus \in {c, NoOne} THEN c ELSE focus

Others(c) == {p \in Categories \ {c} : cat[p].status \in {"active", "needs_fix"}}

\* Bug: force skips the pause.
PausableByForce(c, force, cl, d) == IF Others(c) = {} \/ force THEN {NoOne} ELSE {}
\* ensure_only_active_tx: another active category is paused, with force and
\* only if no claim of it is live; then the focus moves to c.
Pausable(c, force, cl, d) ==
  IF Others(c) = {} THEN {NoOne}
  ELSE {p \in Others(c) : force /\ UnitsOf(p) \cap LiveUnits(cl, d) = {}}

Activate(c, row, force, cl, d) ==
  \E p \in Pausable(c, force, cl, d) :
    /\ cat' = [k \in Categories |->
                 IF k = c THEN row ELSE IF k = p THEN BlockedRow(cat[k]) ELSE cat[k]]
    /\ focus' = c

-----------------------------------------------------------------------------
(* Agents *)

Claimable(r, role) ==
  CASE role = "analyst"    -> r.stage = "pending"
    [] role = "translator" -> r.stage = "translation" /\ r.status = "pending"
    [] role = "reviewer"   -> r.stage = "review" /\ r.status = "pending"
    [] role = "fixer"      -> r.stage = "review" /\ r.status = "needs_fix"

\* Bug: whoever fixed the unit may review the fix.
IndependentOfTranslator(r, role, o) ==
  /\ role = "reviewer" => o # r.translated_by
  /\ role = "fixer" => o # r.last_reviewer
Independent(r, role, o) ==
  /\ role = "reviewer" => o \notin {r.translated_by, r.fixed_by}
  /\ role = "fixer" => o # r.last_reviewer

Occupied(r, role) == [r EXCEPT !.stage = ClaimingStage(role), !.status = "active"]

\* Bug: one claim over the limit.
AdmitsOneMore(cl, d) == Cardinality(LiveUnits(cl, d)) <= MaxAgents
Admits(cl, d) == Cardinality(LiveUnits(cl, d)) < MaxAgents

Claim(u, role, o, lease, d) ==
  LET c  == CategoryOf[u]
      un == RecoveredUnits(d)
      cl == RecoveredClaims(d)
  IN
  /\ cat[c].status # "blocked"
  /\ focus = c
  /\ cat[c].stage = RoleStage(role)
  /\ Claimable(un[u], role)
  /\ ~Live(cl, u, d)
  /\ Admits(cl, d)
  /\ Independent(un[u], role, o)
  /\ claim' = [cl EXCEPT ![u] = [role |-> role, owner |-> o, left |-> lease - d]]
  /\ unit' = [un EXCEPT ![u] = Occupied(@, role)]
  /\ UNCHANGED <<focus, cat, gates>>

\* What every completion checks of the claim and of the category.
Holds(u, role, o, d) ==
  LET k == RecoveredClaims(d)[u] IN
  /\ k.role = role
  /\ k.owner = o
  /\ focus = CategoryOf[u]
  /\ cat[CategoryOf[u]].status # "blocked"

\* The unit's row becomes r and its claim is gone.
Deliver(u, r, d) ==
  /\ unit' = [RecoveredUnits(d) EXCEPT ![u] = r]
  /\ claim' = [RecoveredClaims(d) EXCEPT ![u] = NoClaim]
  /\ UNCHANGED <<focus, cat, gates>>

Analyzed(r) == [r EXCEPT !.stage = "translation", !.status = "pending"]
Translated(r, o) == [r EXCEPT !.stage = "review", !.status = "pending", !.translated_by = o]
\* Bug: a fixed unit goes back to the fixers.
FixedAgain(r, o) == [r EXCEPT !.stage = "review", !.status = "needs_fix", !.fixed_by = o]
Fixed(r, o) == [r EXCEPT !.stage = "review", !.status = "pending", !.fixed_by = o]
Reviewed(r, o, score) ==
  [r EXCEPT !.attempts = @ + 1, !.score = score, !.last_reviewer = o]
Passed(r) == [r EXCEPT !.stage = "done", !.status = "done"]
Failed(r) == [r EXCEPT !.stage = "review", !.status = "needs_fix"]

CompleteAnalysis(u, o, d) ==
  /\ Holds(u, "analyst", o, d)
  /\ Deliver(u, Analyzed(unit[u]), d)

CompleteTranslation(u, o, d) ==
  /\ Holds(u, "translator", o, d)
  /\ Deliver(u, Translated(unit[u], o), d)

CompleteFix(u, o, d) ==
  /\ Holds(u, "fixer", o, d)
  /\ Deliver(u, Fixed(unit[u], o), d)

ReviewPass(u, o, d) ==
  /\ Holds(u, "reviewer", o, d)
  /\ Deliver(u, Passed(Reviewed(unit[u], o, "ten")), d)

\* Bug: the round being recorded is not counted.
LastRoundLate(r) == r.attempts >= MaxRounds
LastRound(r) == r.attempts + 1 >= MaxRounds

ReviewFail(u, o, d) ==
  /\ Holds(u, "reviewer", o, d)
  /\ ~LastRound(unit[u])
  /\ Deliver(u, Failed(Reviewed(unit[u], o, "low")), d)

\* The last allowed round below the pass score blocks the unit and its category.
ReviewStrikeOut(u, o, d) ==
  LET c == CategoryOf[u]
      r == BlockedRow(Failed(Reviewed(unit[u], o, "low")))
  IN
  /\ Holds(u, "reviewer", o, d)
  /\ LastRound(unit[u])
  /\ Halt(c, cat[c], [RecoveredUnits(d) EXCEPT ![u] = r],
          [RecoveredClaims(d) EXCEPT ![u] = NoClaim], d)
  /\ UNCHANGED gates

\* release and heartbeat do not recover first, and refuse an expired claim.
HoldsLive(u, o, d) == Live(claim, u, d) /\ claim[u].owner = o

Release(u, o, d) ==
  /\ HoldsLive(u, o, d)
  /\ unit' = RevertAll(unit, claim, {u})
  /\ claim' = DropAll(claim, {u})
  /\ UNCHANGED <<focus, cat, gates>>

Heartbeat(u, o, lease, d) ==
  /\ HoldsLive(u, o, d)
  /\ claim' = [claim EXCEPT ![u].left = lease - d]
  /\ UNCHANGED <<focus, cat, gates, unit>>

Recover(d) ==
  /\ Due(d) # {}
  /\ unit' = RecoveredUnits(d)
  /\ claim' = RecoveredClaims(d)
  /\ UNCHANGED <<focus, cat, gates>>

-----------------------------------------------------------------------------
(* The orchestrator: advance, record-consistency, gate *)

StageComplete(c, un) ==
  LET stages == {un[u].stage : u \in UnitsOf(c)} IN
  CASE cat[c].stage = "analysis"    -> stages \cap {"pending", "analyzing"} = {}
    [] cat[c].stage = "translation" -> stages \cap {"translation", "translating"} = {}
    [] cat[c].stage = "review"      -> /\ UnitsOf(c) # {}
                                       /\ \A u \in UnitsOf(c) : un[u].stage = "done" /\ un[u].status = "done"
    [] cat[c].stage = "consistency" -> cat[c].consistency = "ten"
    [] OTHER                        -> FALSE

Advance(c, d) ==
  /\ cat[c].status # "blocked"
  /\ StageComplete(c, RecoveredUnits(d))
  /\ cat' = [cat EXCEPT ![c].stage = NextStage(@)]
  /\ unit' = RecoveredUnits(d)
  /\ claim' = RecoveredClaims(d)
  /\ UNCHANGED <<focus, gates>>

\* Bug: a gate nobody ran passes.
GatesNotFailed(c, allow) ==
  \A g \in RequiredGates : gates[c][g] # "fail" /\ (gates[c][g] = "skip" => allow)
GatesAccepted(c, allow) ==
  \A g \in RequiredGates : gates[c][g] = "pass" \/ (allow /\ gates[c][g] = "skip")

Verdict(c) == IF \A g \in RequiredGates : gates[c][g] = "pass" THEN "pass" ELSE "unverified"

\* Bug: done categories are not filtered out.
FirstOfAll(rows) == {k \in Categories : \A j \in Categories : Ord[k] <= Ord[j]}
\* `SELECT ... WHERE status != 'done' ORDER BY ord LIMIT 1'.
FirstOpen(rows) ==
  LET open == {k \in Categories : rows[k].status # "done"} IN
  {k \in open : \A j \in open : Ord[k] <= Ord[j]}

Activated(r) == [r EXCEPT !.stage = "analysis", !.status = "active"]

\* advance out of verification: the category is done and the first category
\* that is not becomes the focus, whatever its status.
Finish(c, allow, d) ==
  LET rows == [cat EXCEPT ![c] = [@ EXCEPT !.stage = "done", !.status = "done",
                                           !.gate_status = Verdict(c)]]
  IN
  /\ cat[c].status # "blocked"
  /\ cat[c].stage = "verification"
  /\ GatesAccepted(c, allow)
  /\ \/ /\ FirstOpen(rows) = {}
        /\ focus' = NoOne
        /\ cat' = rows
     \/ \E n \in FirstOpen(rows) :
          /\ focus' = n
          /\ cat' = IF rows[n].status = "pending" THEN [rows EXCEPT ![n] = Activated(@)] ELSE rows
  /\ unit' = RecoveredUnits(d)
  /\ claim' = RecoveredClaims(d)
  /\ UNCHANGED gates

RecordConsistency(c, score, d) ==
  LET row == [cat[c] EXCEPT !.round = @ + 1, !.consistency = score] IN
  /\ focus = c
  /\ cat[c].stage = "consistency"
  /\ cat[c].status # "blocked"
  /\ cat[c].consistency # "ten"
  /\ cat[c].round < MaxRounds
  /\ IF score # "ten" /\ row.round >= MaxRounds
     THEN Halt(c, row, RecoveredUnits(d), RecoveredClaims(d), d)
     ELSE /\ cat' = [cat EXCEPT ![c] =
                       [row EXCEPT !.status = IF score = "ten" THEN "active" ELSE "needs_fix"]]
          /\ unit' = RecoveredUnits(d)
          /\ claim' = RecoveredClaims(d)
          /\ UNCHANGED focus
  /\ UNCHANGED gates

RecordGate(c, g, verdict) ==
  /\ cat[c].stage = "verification"
  /\ gates' = [gates EXCEPT ![c][g] = verdict]
  /\ UNCHANGED <<focus, cat, unit, claim>>

-----------------------------------------------------------------------------
(* Operators: block, unblock, reopen *)

\* block is the one writer that neither recovers nor looks at the lease of the
\* unit it blocks.
BlockUnit(u, d) ==
  /\ unit[u].status # "done"
  /\ Halt(CategoryOf[u], cat[CategoryOf[u]], [unit EXCEPT ![u] = BlockedRow(@)],
          DropAll(claim, {u}), d)
  /\ UNCHANGED gates

BlockCategory(c, d) ==
  /\ cat[c].status # "done"
  /\ Halt(c, cat[c], unit, claim, d)
  /\ UNCHANGED gates

\* Bug: only the blocked units start over.
ResetBlocked(un, c, stage) ==
  [u \in Units |-> IF u \in UnitsOf(c) /\ un[u].status = "blocked" THEN ResetUnit(stage) ELSE un[u]]
ResetAll(un, c, stage) == [u \in Units |-> IF u \in UnitsOf(c) THEN ResetUnit(stage) ELSE un[u]]
ReviewAll(un, S) == [u \in Units |-> IF u \in S THEN ReviewAgain(un[u]) ELSE un[u]]
BlockedUnits(c, un) == {u \in UnitsOf(c) : un[u].status = "blocked"}

\* The stage a blocked row came from; unblock goes no further than that.
Origin(r) == IF r.blocked_stage # "none" THEN r.blocked_stage ELSE NormalizeStage(r.stage)
UnitOrigin(r) == IF r.status = "done" THEN "review" ELSE Origin(r)
\* Bug: any stage will do.
NotAheadOfAny(stage, origin) == origin \in Stages
NotAhead(stage, origin) ==
  origin \in Stages /\ StageOrder(stage) <= StageOrder(origin)

\* unblock <unit> --stage analysis|translation: the whole category starts over.
UnblockUnitReset(u, stage, force, d) ==
  LET c  == CategoryOf[u]
      un == RecoveredUnits(d)
      cl == DropAll(RecoveredClaims(d), UnitsOf(c))
  IN
  /\ un[u].status # "blocked" => force
  /\ un[u].status # "done"
  /\ NotAhead(stage, UnitOrigin(un[u]))
  /\ unit' = ResetAll(un, c, stage)
  /\ claim' = cl
  /\ Activate(c, Wiped(Restarted(cat[c], stage)), force, cl, d)
  /\ gates' = [gates EXCEPT ![c] = NoGates]

\* unblock <unit> --stage review: only that unit is reviewed again.
UnblockUnitReview(u, force, d) ==
  LET c  == CategoryOf[u]
      un == RecoveredUnits(d)
      cl == DropAll(RecoveredClaims(d), {u})
  IN
  /\ un[u].status # "blocked" => force
  /\ NotAhead("review", UnitOrigin(un[u]))
  /\ un[u].translated_by # NoOne
  /\ BlockedUnits(c, un) \subseteq {u}
  /\ unit' = ReviewAll(un, {u})
  /\ claim' = cl
  /\ Activate(c, Restarted(cat[c], "review"), force, cl, d)
  /\ UNCHANGED gates

UnblockCategory(c, stage, force, d) ==
  LET un     == RecoveredUnits(d)
      struck == BlockedUnits(c, un)
      freed  == IF stage = "review" THEN struck ELSE UnitsOf(c)
      cl     == DropAll(RecoveredClaims(d), freed)
      row    == Restarted(cat[c], stage)
  IN
  /\ cat[c].status # "blocked" => force
  /\ NotAhead(stage, Origin(cat[c]))
  /\ stage \in {"consistency", "verification"} =>
       \A u \in UnitsOf(c) : un[u].status = "done" /\ un[u].score = "ten"
  /\ stage = "verification" => cat[c].consistency = "ten"
  /\ stage = "review" => \A u \in struck : un[u].translated_by # NoOne
  /\ unit' = CASE stage \in {"analysis", "translation"} -> ResetAll(un, c, stage)
               [] stage = "review" -> ReviewAll(un, struck)
               [] OTHER -> un
  /\ claim' = cl
  /\ Activate(c, IF stage = "verification" THEN row ELSE Wiped(row), force, cl, d)
  /\ gates' = [gates EXCEPT ![c] = NoGates]

Reopen(c, force, d) ==
  LET un    == RecoveredUnits(d)
      cl    == RecoveredClaims(d)
      from  == cat[c].blocked_stage
      stage == IF cat[c].status = "blocked" /\ from \in {"analysis", "translation"}
               THEN from ELSE "review"
  IN
  /\ cat[c].status \in {"done", "blocked"}
  /\ cat[c].status = "blocked" => force
  /\ Activate(c, Wiped(Restarted(cat[c], stage)), force, cl, d)
  /\ unit' = IF stage = "review" THEN ReviewAll(un, UnitsOf(c)) ELSE ResetAll(un, c, stage)
  /\ claim' = DropAll(cl, UnitsOf(c))
  /\ gates' = [gates EXCEPT ![c] = NoGates]

-----------------------------------------------------------------------------
(* The specification *)

\* How far a category is; a blocked one is where it was blocked.
Rank(s) ==
  CASE s = "pending" -> 0
    [] s = "done"    -> 5
    [] OTHER         -> StageOrder(s)
Progress(c) == Rank(IF cat[c].stage = "blocked" THEN cat[c].blocked_stage ELSE cat[c].stage)

Orderly(c, stage) == OrderlyUnblock => StageOrder(stage) <= Progress(c)

\* init_from_catalog: the first category by ord is active, in analysis.
Init ==
  \E c \in {k \in Categories : \A j \in Categories : Ord[k] <= Ord[j]} :
    /\ focus = c
    /\ cat = [k \in Categories |-> IF k = c THEN Activated(NewCategory) ELSE NewCategory]
    /\ gates = [k \in Categories |-> NoGates]
    /\ unit = [u \in Units |-> NewUnit]
    /\ claim = [u \in Units |-> NoClaim]

\* One tick of the clock.  Below -MaxDelay a lease is expired for every sample
\* of the clock, so it need not be counted further down.
Tick ==
  /\ \E u \in Units : Claimed(claim, u) /\ claim[u].left > -MaxDelay
  /\ claim' = [u \in Units |->
                 IF Claimed(claim, u) /\ claim[u].left > -MaxDelay
                 THEN [claim[u] EXCEPT !.left = @ - 1] ELSE claim[u]]
  /\ UNCHANGED <<focus, cat, gates, unit>>

Complete(u, o, d) ==
  \/ CompleteAnalysis(u, o, d)
  \/ CompleteTranslation(u, o, d)
  \/ CompleteFix(u, o, d)
  \/ ReviewPass(u, o, d)
  \/ ReviewFail(u, o, d)
  \/ ReviewStrikeOut(u, o, d)

Agent ==
  \E u \in Units, o \in Owners, d \in Delays :
    \/ \E role \in Roles, lease \in Leases : Claim(u, role, o, lease, d)
    \/ Complete(u, o, d)
    \/ Release(u, o, d)
    \/ \E lease \in Leases : Heartbeat(u, o, lease, d)

Orchestrator ==
  \E c \in Categories, d \in Delays :
    \/ Advance(c, d)
    \/ \E allow \in BOOLEAN : Finish(c, allow, d)
    \/ \E score \in {"low", "ten"} : RecordConsistency(c, score, d)
    \/ \E g \in RequiredGates, verdict \in Verdicts : RecordGate(c, g, verdict)
    \/ Recover(d)

OperatorOnUnit ==
  \E u \in Units, d \in Delays :
    \/ BlockUnit(u, d)
    \/ \E force \in Forces :
         \/ \E stage \in {"analysis", "translation"} :
              Orderly(CategoryOf[u], stage) /\ UnblockUnitReset(u, stage, force, d)
         \/ Orderly(CategoryOf[u], "review") /\ UnblockUnitReview(u, force, d)

OperatorOnCategory ==
  \E c \in Categories, d \in Delays :
    \/ BlockCategory(c, d)
    \/ \E force \in Forces :
         \/ \E stage \in Stages : UnblockCategory(c, stage, force, d)
         \/ Reopen(c, force, d)

Next == Agent \/ Orchestrator \/ OperatorOnUnit \/ OperatorOnCategory \/ Tick

Spec == Init /\ [][Next]_vars

\* The queue left to itself: no operator interferes.  Agents keep claiming what
\* can be claimed and deliver again and again what they could, so that leases
\* may expire, be released or be renewed any number of times but not for ever;
\* the orchestrator advances what is complete, has the consistency reviewed,
\* and repeats a gate until it passes.
Unattended == Agent \/ Orchestrator \/ Tick

Fairness ==
  /\ WF_vars(\E u \in Units, o \in Owners, role \in Roles, lease \in Leases, d \in Delays :
               Claim(u, role, o, lease, d))
  /\ SF_vars(\E u \in Units, o \in Owners, d \in Delays : Complete(u, o, d))
  /\ WF_vars(\E c \in Categories, d \in Delays : Advance(c, d))
  /\ WF_vars(\E c \in Categories, score \in {"low", "ten"}, d \in Delays :
               RecordConsistency(c, score, d))
  /\ \A c \in Categories, g \in RequiredGates : SF_vars(RecordGate(c, g, "pass"))
  /\ SF_vars(\E c \in Categories, d \in Delays : Finish(c, FALSE, d))

UnattendedSpec == Init /\ [][Unattended]_vars /\ Fairness

-----------------------------------------------------------------------------
(* Invariants *)

UnitStages ==
  {"pending", "analyzing", "translation", "translating", "review", "reviewing",
   "fixing", "done", "blocked"}
UnitRow ==
  [stage : UnitStages, status : {"pending", "active", "needs_fix", "done", "blocked"},
   blocked_stage : {"none", "analysis", "translation", "review"},
   score : Scores, attempts : 0..MaxRounds,
   translated_by : Owners \cup {NoOne}, fixed_by : Owners \cup {NoOne},
   last_reviewer : Owners \cup {NoOne}]
CategoryRow ==
  [stage : Stages \cup {"pending", "done", "blocked"},
   status : {"pending", "active", "needs_fix", "done", "blocked"},
   blocked_stage : Stages \cup {"none"},
   consistency : Scores, round : 0..MaxRounds, gate_status : {"none", "pass", "unverified"}]
ClaimRow == [role : Roles \cup {"none"}, owner : Owners \cup {NoOne}, left : Int]

\* Every table holds rows of its type (the stages, statuses and ranges that
\* Store::validate accepts); attempts and rounds never pass max_rounds.
TypeOK ==
  /\ focus \in Categories \cup {NoOne}
  /\ cat \in [Categories -> CategoryRow]
  /\ gates \in [Categories -> [RequiredGates -> Verdicts \cup {"none"}]]
  /\ unit \in [Units -> UnitRow]
  /\ claim \in [Units -> ClaimRow]

Working(c) == cat[c].status \in {"active", "needs_fix"}

\* One category at a time: a category that is being worked on is the focus, the
\* focus is never a pending or finished category, and there is no focus exactly
\* when everything is done (validate, "expected at most one active category").
SingleFocus ==
  /\ \A c \in Categories : Working(c) => focus = c
  /\ focus # NoOne => Working(focus) \/ cat[focus].status = "blocked"
  /\ focus = NoOne <=> \A c \in Categories : cat[c].status = "done"

\* The claims table and the units agree: a unit is in progress exactly when a
\* claim row exists, in the stage of the claim's role.  recover, release,
\* block, unblock and reopen each rewrite one of the two tables and delete from
\* the other.
ClaimMatches(r, k) ==
  /\ k.role # "none" => r.stage = ClaimingStage(k.role) /\ r.status = "active"
  /\ k.role = "none" => r.status # "active"
ClaimsMatchUnits == \A u \in Units : ClaimMatches(unit[u], claim[u])

\* max_agents is global: at no time more claim rows than agents, expired ones
\* included, whichever clock the claims were admitted with.
ConcurrencyLimit == Cardinality({u \in Units : Claimed(claim, u)}) <= MaxAgents

\* Who translated or fixed a unit is neither reviewing it nor the reviewer who
\* passed it, and nobody fixes what they reviewed, through every unblock,
\* reopen, revert and reclaim.
IndependentRow(r, k) ==
  /\ k.role = "reviewer" => k.owner \notin {r.translated_by, r.fixed_by, NoOne}
  /\ k.role = "fixer" => k.owner \notin {r.last_reviewer, NoOne}
  /\ r.status = "done" => r.last_reviewer # NoOne /\ r.last_reviewer \notin {r.translated_by, r.fixed_by}
ReviewerIndependence == \A u \in Units : IndependentRow(unit[u], claim[u])

\* Where validate allows a unit to be, by the stage of its category.
AllowedUnits ==
  [pending      |-> {"pending", "analyzing"},
   analysis     |-> {"pending", "analyzing", "translation"},
   translation  |-> {"translation", "translating", "review"},
   review       |-> {"review", "reviewing", "fixing", "done"},
   consistency  |-> {"done"},
   verification |-> {"done"},
   done         |-> {"done"},
   blocked      |-> {"blocked", "pending", "translation", "review", "done"}]

\* Every reachable database passes the stage table of Store::validate, except
\* that block leaves a unit in progress when its lease has already run out.
\* Assumes orderly unblocking and instantaneous clock samples.
UnitsFitStage ==
  \A u \in Units :
    LET s == cat[CategoryOf[u]].stage IN
    \/ unit[u].stage \in AllowedUnits[s]
    \/ s = "blocked" /\ Claimed(claim, u) /\ ~Live(claim, u, 0)

\* Under review or later, every unit of the category has been analysed and
\* translated by somebody: no path of unblocks and reopens brings an untouched
\* unit there.  Assumes orderly unblocking.
TranslatedBeforeReview ==
  \A u \in Units : LET c == CategoryOf[u] IN
    /\ Progress(c) >= 1 => UnitOrigin(unit[u]) # "analysis"
    /\ Progress(c) >= 2 => unit[u].translated_by # NoOne

\* Past review every unit is done with the pass score; past consistency the
\* category has its verdict; a done category has its gates, and says
\* `unverified' exactly when one of them was skipped.
VerifiedAfterReview ==
  \A c \in Categories :
    /\ Progress(c) >= 3 => \A u \in UnitsOf(c) : unit[u].status = "done" /\ unit[u].score = "ten"
    /\ Progress(c) >= 4 => cat[c].consistency = "ten"
    /\ Progress(c) = 5 =>
         /\ \A g \in RequiredGates : gates[c][g] \in {"pass", "skip"}
         /\ cat[c].gate_status =
              IF \E g \in RequiredGates : gates[c][g] = "skip" THEN "unverified" ELSE "pass"

\* Verdicts are about the work as it stands: a category that is back before
\* consistency has no consistency score or rounds, before verification no gate
\* results, and before done no gate status.
VerdictFresh ==
  \A c \in Categories :
    /\ Progress(c) < 3 => cat[c].consistency = "none" /\ cat[c].round = 0
    /\ Progress(c) < 4 => gates[c] = NoGates
    /\ Progress(c) < 5 => cat[c].gate_status = "none"

\* Three strikes: a unit that used its rounds is done or blocked, and then
\* nothing but an operator's decision lets anybody work on it.
StruckOut(r) == r.attempts >= MaxRounds => r.status \in {"done", "blocked"}
ThreeStrikes == \A u \in Units : StruckOut(unit[u])

-----------------------------------------------------------------------------
(* Action properties *)

\* Rounds are given back by an operator's decision about a blocked or finished
\* category only: not by an expiry, a release, a block or a recovery, however
\* often a unit changes hands.  Assumes no --force.
RoundsKept ==
  [][\A u \in Units : unit'[u].attempts < unit[u].attempts =>
       cat[CategoryOf[u]].status \in {"blocked", "done"}]_vars

-----------------------------------------------------------------------------
(* Liveness and refinement *)

\* Left to itself the queue comes to rest: everything is done, or it waits for
\* the user at a category that used up its rounds.  No set of expiries, reverts
\* and independence rules leaves the focus category stuck in the middle.
Settles == <>[](focus = NoOne \/ cat[focus].status = "blocked")

\* The categories behave as CategoryPipeline says.  Assumes orderly unblocking.
Pipeline ==
  INSTANCE CategoryPipeline WITH
    progress <- [c \in Categories |-> Progress(c)],
    halted   <- [c \in Categories |-> cat[c].status = "blocked"]

ImplementsPipeline == Pipeline!Spec
=============================================================================
