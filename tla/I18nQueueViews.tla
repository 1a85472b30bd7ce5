--------------------------- MODULE I18nQueueViews ---------------------------
(***************************************************************************)
(* What the queue tells its users (store.rs and the `i18n-queue' commands  *)
(* of main.rs): the work `next' proposes, the findings of `validate', the  *)
(* summary of `status'.  None of them changes a table, except that `next'  *)
(* and `status' give back expired leases first.                            *)
(*                                                                         *)
(* The reads of one command are taken at one instant here; in the code     *)
(* they are separate statements, and a writer may commit between two.      *)
(***************************************************************************)
EXTENDS I18nQueue

-----------------------------------------------------------------------------
(* next: what a role could claim *)

Smallest(S) == CHOOSE n \in S : \A m \in S : n <= m

\* Bug: the leases in force are not taken off the slots.
AllSlots(cl, d) == MaxAgents
FreeSlots(cl, d) == MaxAgents - Cardinality(LiveUnits(cl, d))

\* Bug: a rejected unit is the translator's again.
WaitingAsPending(role, un, cl, d) ==
  {u \in UnitsOf(focus) : ~Live(cl, u, d) /\ Claimable(un[u], role) /\ un[u].status = "pending"}
Waiting(role, un, cl, d) ==
  {u \in UnitsOf(focus) : ~Live(cl, u, d) /\ Claimable(un[u], role)}

\* The units `next --role role --limit limit' may print.  It sorts by id; here
\* any choice of that many will do.
Offers(role, limit, un, cl, d) ==
  IF \/ focus = NoOne
     \/ cat[focus].status = "blocked"
     \/ cat[focus].stage # RoleStage(role)
     \/ FreeSlots(cl, d) <= 0
  THEN {{}}
  ELSE LET waiting == Waiting(role, un, cl, d)
           size == Smallest({limit, FreeSlots(cl, d), Cardinality(waiting)})
       IN {S \in SUBSET waiting : Cardinality(S) = size}

\* The command recovers the expired leases before it looks.
Proposed(role, limit) == Offers(role, limit, RecoveredUnits(0), RecoveredClaims(0), 0)

-----------------------------------------------------------------------------
(* validate *)

FocusValid ==
  IF focus = NoOne THEN \A c \in Categories : cat[c].status = "done"
  ELSE /\ cat[focus].status \in {"active", "blocked", "needs_fix"}
       /\ cat[focus].status = "needs_fix" => cat[focus].stage = "consistency"
       /\ cat[focus].status = "blocked" => cat[focus].stage = "blocked"
       /\ \A c \in Categories : cat[c].status \in {"active", "needs_fix"} => c = focus

StageStatusPairs ==
  {<<s, s>> : s \in {"pending", "done", "blocked"}} \cup (Stages \X {"active", "needs_fix"})

CategoryValid(c) ==
  LET r == cat[c] IN
  /\ <<r.stage, r.status>> \in StageStatusPairs
  /\ IF r.status = "blocked" THEN r.blocked_stage \in Stages ELSE r.blocked_stage = "none"
  /\ r.round <= MaxRounds
  /\ r.status = "done" =>
       /\ r.consistency = "ten"
       /\ \A u \in UnitsOf(c) : unit[u].status = "done"
       /\ \A g \in RequiredGates : gates[c][g] \in {"pass", "skip"}

UnitPairs ==
  {<<"pending", "pending">>, <<"translation", "pending">>, <<"review", "pending">>,
   <<"review", "needs_fix">>, <<"done", "done">>, <<"blocked", "blocked">>}
  \cup ({"analyzing", "translating", "reviewing", "fixing"} \X {"active"})

UnitValid(u) ==
  LET r == unit[u] IN
  /\ <<r.stage, r.status>> \in UnitPairs
  /\ r.attempts > MaxRounds => r.status = "blocked"
  /\ r.status = "done" =>
       /\ r.score = "ten"
       /\ r.translated_by # NoOne
       /\ r.last_reviewer # NoOne
       /\ r.last_reviewer \notin {r.translated_by, r.fixed_by}
  /\ IF r.status = "blocked" THEN r.blocked_stage \in Stages ELSE r.blocked_stage = "none"
  /\ r.status = "active" => Claimed(claim, u)

\* A lease that has run out is a finding too (`expired claim not recovered'), and
\* so is the unit in progress that a block leaves with one: whoever recovers
\* first has neither, so they are left out.
ClaimValid(u) ==
  Claimed(claim, u) =>
    /\ claim[u].owner # NoOne
    /\ unit[u].status = "active"
    /\ unit[u].stage = ClaimingStage(claim[u].role)
    /\ Live(claim, u, 0) => focus = CategoryOf[u]

ClaimsWithinLimit == Cardinality(LiveUnits(claim, 0)) <= MaxAgents

-----------------------------------------------------------------------------
(* status *)

\* What a snapshot of these tables says of the categories and of the units.
SnapshotCategories ==
  [c \in Categories |-> [stage |-> cat[c].stage, status |-> cat[c].status, units |-> UnitsOf(c)]]
SnapshotUnits(un, cl) ==
  [u \in Units |-> [status |-> un[u].status, stage |-> un[u].stage, claim |-> cl[u]]]

\* The summary: the active category and its stage, the units of that category,
\* the units with a claim, and for every category how many of its units are done.
Summary(categories, units) ==
  [active |-> focus,
   active_stage |-> IF focus = NoOne THEN "none" ELSE categories[focus].stage,
   active_units |-> IF focus = NoOne THEN {} ELSE categories[focus].units,
   claims |-> {u \in Units : units[u].claim # NoClaim},
   done |-> [c \in Categories |->
               Cardinality({u \in categories[c].units : units[u].status = "done"})],
   total |-> [c \in Categories |-> Cardinality(categories[c].units)]]

\* Bug: status forgets to give back the expired leases first.
StatusAsIs == Summary(SnapshotCategories, SnapshotUnits(unit, claim))
Status == Summary(SnapshotCategories, SnapshotUnits(RecoveredUnits(0), RecoveredClaims(0)))

-----------------------------------------------------------------------------
(* Properties *)

\* Every reachable database passes validate, apart from leases that have run
\* out: no order of claims, completions, blocks, unblocks and reopens leads to a
\* table it would report.  Assumes orderly unblocking and instantaneous clock
\* samples.
ValidateAccepts ==
  /\ FocusValid
  /\ \A c \in Categories : CategoryValid(c)
  /\ UnitsFitStage
  /\ \A u \in Units : UnitValid(u) /\ ClaimValid(u)
  /\ ClaimsWithinLimit

\* All the units that next proposes can be claimed, one after the other, by
\* anybody the rules of independence admit: it never sends more agents to work
\* than claim will let in.
ProposalsHold ==
  \A role \in Roles : \A S \in Proposed(role, MaxAgents) :
    LET cl == RecoveredClaims(0)
        un == RecoveredUnits(0)
    IN
    /\ Cardinality(S) + Cardinality(LiveUnits(cl, 0)) <= MaxAgents \/ S = {}
    /\ \A u \in S :
         /\ CategoryOf[u] = focus /\ cat[focus].status # "blocked"
         /\ cat[focus].stage = RoleStage(role)
         /\ Claimable(un[u], role) /\ ~Claimed(cl, u)

\* Work never disappears: while the category in focus is not blocked and is
\* short of the end of analysis, translation or review, either somebody holds a
\* lease or next has something for one of the roles.
WorkInSight ==
  focus # NoOne /\ cat[focus].stage \in {"analysis", "translation", "review"} =>
    \/ StageComplete(focus, RecoveredUnits(0))
    \/ LiveUnits(claim, 0) # {}
    \/ UnitsOf(focus) = {}
    \/ \E role \in Roles : {} \notin Proposed(role, 1)

\* status shows the claims of the active category only, none while it is
\* blocked and never more than agents, and a category past review as done to the
\* last unit.  Assumes instantaneous clock samples.
StatusTruthful ==
  /\ Status.claims \subseteq Status.active_units
  /\ Status.active_stage = "blocked" => Status.claims = {}
  /\ Cardinality(Status.claims) <= MaxAgents
  /\ \A c \in Categories : Progress(c) >= 3 => Status.done[c] = Status.total[c]
=============================================================================
