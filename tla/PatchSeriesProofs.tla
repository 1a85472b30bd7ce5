------------------------- MODULE PatchSeriesProofs -------------------------
(***************************************************************************)
(* Proofs about PatchSeries, for every set of spots, bases, patches and    *)
(* edits: the types, that "applied" means applied, that no command drops   *)
(* an edit when it begins, that what lints sets up, that the history is    *)
(* the series, and that what a dump or a refresh found is committed.       *)
(***************************************************************************)
EXTENDS PatchSeries, SequenceTheorems, WellFoundedInduction, TLAPS

-----------------------------------------------------------------------------
(* Induction, for sets of naturals: a hypothesis that is a set, and not an     *)
(* operator, can be instantiated by the provers.                              *)

\* Every nonempty set of naturals has a least element.
LEMMA Least ==
  ASSUME NEW S \in SUBSET Nat, S # {}
  PROVE  \E m \in S : \A k \in S : m <= k
<1> DEFINE R == OpToRel(<, Nat)
<1>1. IsWellFoundedOn(R, Nat)
  BY NatLessThanWellFounded
<1>2. \A y, z \in Nat : y < z => <<y, z>> \in R
  BY DEF OpToRel
<1> HIDE DEF R
<1>3. PICK m \in S : \A y \in S : ~(<<y, m>> \in R)
  BY <1>1, WFMin
<1>4. m \in Nat /\ \A k \in S : k \in Nat /\ ~(k < m)
  BY <1>2, <1>3
<1> QED BY <1>4

\* A set that holds 0, and with a number its successor, holds them all.
LEMMA Induct ==
  ASSUME NEW S, 0 \in S, \A n \in Nat : n \in S => n + 1 \in S
  PROVE  Nat \subseteq S
<1> SUFFICES ASSUME Nat \ S # {} PROVE FALSE
  OBVIOUS
<1>1. PICK m \in Nat \ S : \A k \in Nat \ S : m <= k
  BY Least
<1>2. m # 0 /\ m - 1 \in Nat
  BY <1>1
<1>3. m - 1 \in S
  BY <1>1, <1>2
<1> QED BY <1>1, <1>3

-----------------------------------------------------------------------------
(* Trees and patches *)

\* A patch is a function from some spots to edits.
LEMMA PatchDomain ==
  ASSUME NEW p \in Patches
  PROVE  /\ DOMAIN p \subseteq Spots
         /\ \A s \in DOMAIN p : p[s].old \in Values /\ p[s].new \in Values
BY DEF Patches, Edits

\* Every way to apply a patch to a tree gives a tree.
LEMMA PatchedType ==
  ASSUME NEW p \in Patches, NEW t \in Trees
  PROVE  Patched(p, t) \in Trees /\ Unpatched(p, t) \in Trees /\ WithMarkers(p, t) \in Trees
BY PatchDomain, ContentAssumption DEF Patched, Unpatched, WithMarkers, Trees

\* The difference of two trees is a patch.
LEMMA DiffType ==
  ASSUME NEW h \in Trees, NEW t \in Trees
  PROVE  Diff(h, t) \in Patches
<1> DEFINE D == {x \in Spots : h[x] # t[x]}
<1>1. D \in SUBSET Spots
  OBVIOUS
<1>2. Diff(h, t) \in [D -> Edits]
  BY DEF Diff, Trees, Edits
<1> QED BY <1>1, <1>2 DEF Patches

LEMMA NoPatchType == NoPatch \in Patches
<1>1. NoPatch \in [{} -> Edits]
  BY DEF NoPatch
<1> QED BY <1>1 DEF Patches

LEMMA EmptyTreeType == EmptyTree \in Trees
BY ContentAssumption DEF EmptyTree, Trees

-----------------------------------------------------------------------------
(* The types.  What keeps them: a command works on a workspace that exists,   *)
(* and the log is never shorter than the point to roll back to.               *)

Structure ==
  /\ op.pre <= Len(log)
  /\ op.pc \notin {"idle", "checkout"} => root \in Bases
  /\ op.pc = "checkout" => op.base \in Bases /\ op.pre = 0
  /\ op.pc = "reapply" => log # <<>> /\ op.pre = 0
  /\ op.pc = "commit" => op.at \in Numbers
  /\ op.pc \in {"reapply", "write", "record", "register"} => op.n \in Numbers
TypeInv == TypeOK /\ Structure

LEMMA IdleType == Idle \in Operations /\ Idle.pre = 0 /\ Idle.pc = "idle"
BY NoPatchType, EmptyTreeType DEF Idle, Operations, Kinds, Points

LEMMA LogType ==
  ASSUME TypeInv
  PROVE  /\ Len(log) \in Nat
         /\ \A by \in Numbers \cup {User, Overlays}, tree \in Trees :
              LET longer == Append(log, [by |-> by, tree |-> tree])
              IN longer \in Seq(Commits) /\ Len(longer) = Len(log) + 1 /\ longer # <<>>
         /\ \A c \in 0..Len(log) :
              SubSeq(log, 1, c) \in Seq(Commits) /\ Len(SubSeq(log, 1, c)) = c
         /\ \A i \in 1..Len(log) : log[i].tree \in Trees
<1>1. log \in Seq(Commits) /\ Len(log) \in Nat
  BY LenProperties DEF TypeInv, TypeOK
<1>2. ASSUME NEW by \in Numbers \cup {User, Overlays}, NEW tree \in Trees
      PROVE  LET longer == Append(log, [by |-> by, tree |-> tree])
             IN longer \in Seq(Commits) /\ Len(longer) = Len(log) + 1 /\ longer # <<>>
  <2>1. [by |-> by, tree |-> tree] \in Commits
    BY DEF Commits
  <2> QED BY <1>1, <2>1, AppendProperties
<1>3. ASSUME NEW c \in 0..Len(log)
      PROVE  SubSeq(log, 1, c) \in Seq(Commits) /\ Len(SubSeq(log, 1, c)) = c
  BY <1>1, SubSeqProperties
<1>4. ASSUME NEW i \in 1..Len(log)
      PROVE  log[i].tree \in Trees
  <2>1. log[i] \in Commits
    BY <1>1, ElementOfSeq
  <2> QED BY <2>1 DEF Commits
<1> QED BY <1>1, <1>2, <1>3, <1>4

LEMMA HeadType ==
  ASSUME TypeInv, root \in Bases
  PROVE  /\ \A i \in 0..Len(log) : TreeOf(i) \in Trees
         /\ HeadTree \in Trees
         /\ Staged \in Trees
<1>1. \A i \in 0..Len(log) : TreeOf(i) \in Trees
  BY LogType, BaseAssumption DEF TreeOf
<1>2. HeadTree \in Trees
  BY <1>1, LogType DEF HeadTree
<1>3. Staged \in Trees
  BY <1>2, SpotAssumption DEF Staged, Trees, TypeInv, TypeOK
<1> QED BY <1>1, <1>2, <1>3

LEMMA InitTypes == Init => TypeInv
BY NoPatchType, EmptyTreeType, IdleType, BaseAssumption, RepositoryAssumption
   DEF Init, TypeInv, TypeOK, Structure, Outcomes, Stories

-----------------------------------------------------------------------------
(* Each action keeps the types. *)

\* A command begins within the bound.
LEMMA TurnType ==
  ASSUME TypeInv, Turn
  PROVE  spent' \in 0..MaxCommands /\ outcome' = "none" /\ outcome' \in Outcomes /\ op.pc = "idle"
BY RepositoryAssumption DEF TypeInv, TypeOK, Turn, Outcomes

LEMMA NoBaseIsNone == NoBase \notin Bases
BY BaseAssumption DEF NoBase

LEMMA EmptyLog == <<>> \in Seq(Commits) /\ Len(<<>>) = 0
OBVIOUS

LEMMA LogNotEmpty ==
  ASSUME TypeInv, log # <<>>
  PROVE  Len(log) # 0
BY EmptySeq DEF TypeInv, TypeOK

LEMMA ApplyTypes == ASSUME TypeInv, Apply PROVE TypeInv'
<1>1. Turn
  BY DEF Apply
<1>2. spent' \in 0..MaxCommands /\ outcome' \in Outcomes /\ op.pc = "idle"
  BY <1>1, TurnType
<1>4. log' = log /\ Len(log) \in Nat
  BY LogType DEF Apply, workspace
<1>3. op' \in Operations /\ op'.pc = "begin" /\ op'.pre = Len(log)
  <2>1. PICK skip \in Numbers \cup {0} :
          op' = [Idle EXCEPT !.kind = "apply", !.pc = "begin", !.skip = skip,
               !.pre = Len(log)]
    BY DEF Apply
  <2> QED BY <2>1, <1>4, IdleType DEF Operations, Kinds, Points
<1>5. work' = work
  BY DEF Apply, workspace
<1> QED BY <1>2, <1>3, <1>4, <1>5
   DEF Apply, TypeInv, TypeOK, Structure, Outcomes, Stories, repository, workspace, Exists,
       NoBase

LEMMA ReverseTypes == ASSUME TypeInv, Reverse PROVE TypeInv'
<1>1. Turn
  BY DEF Reverse
<1>2. spent' \in 0..MaxCommands /\ outcome' \in Outcomes /\ op.pc = "idle"
  BY <1>1, TurnType
<1>4. log' = log /\ Len(log) \in Nat
  BY LogType DEF Reverse, workspace
<1>3. op' \in Operations /\ op'.pc = "begin" /\ op'.pre = Len(log)
  BY <1>4, IdleType DEF Reverse, Operations, Kinds, Points
<1>5. work' = work
  BY DEF Reverse, workspace
<1> QED BY <1>2, <1>3, <1>4, <1>5
   DEF Reverse, TypeInv, TypeOK, Structure, Outcomes, Stories, repository, workspace,
       Exists, NoBase

LEMMA SetupTypes == ASSUME TypeInv, Setup PROVE TypeInv'
<1>1. Turn
  BY DEF Setup
<1>2. spent' \in 0..MaxCommands /\ outcome' \in Outcomes /\ op.pc = "idle"
  BY <1>1, TurnType
<1>4. log' = <<>> /\ log' \in Seq(Commits) /\ Len(log') = 0
  BY EmptyLog DEF Setup, CheckedOut
<1>3. op' \in Operations /\ op'.pc = "begin" /\ op'.pre = 0
  BY IdleType DEF Setup, TypeInv, TypeOK, Operations, Kinds, Points
<1>5. work' \in Trees /\ root' \in Bases
  BY BaseAssumption DEF Setup, CheckedOut
<1> QED BY <1>2, <1>3, <1>4, <1>5
   DEF Setup, TypeInv, TypeOK, Structure, Outcomes, Stories, repository, workspace

LEMMA SetupForceTypes == ASSUME TypeInv, SetupForce PROVE TypeInv'
<1>1. Turn
  BY DEF SetupForce
<1>2. spent' \in 0..MaxCommands /\ outcome' \in Outcomes /\ op.pc = "idle"
  BY <1>1, TurnType
<1>4. log' = <<>> /\ log' \in Seq(Commits) /\ Len(log') = 0
  BY EmptyLog DEF SetupForce, Removed, CheckedOut
<1>3. op' \in Operations /\ op'.pc = "checkout" /\ op'.pre = 0 /\ op'.base \in Bases
  BY IdleType DEF SetupForce, TypeInv, TypeOK, Operations, Kinds, Points
<1>5. work' \in Trees /\ root' = NoBase
  BY EmptyTreeType DEF SetupForce, Removed
<1> QED BY <1>2, <1>3, <1>4, <1>5
   DEF SetupForce, Removed, TypeInv, TypeOK, Structure, Outcomes, Stories, repository, workspace

LEMMA RebaseTypes == ASSUME TypeInv, Rebase PROVE TypeInv'
<1>1. Turn
  BY DEF Rebase
<1>2. spent' \in 0..MaxCommands /\ outcome' \in Outcomes /\ op.pc = "idle"
  BY <1>1, TurnType
<1>4. log' = <<>> /\ log' \in Seq(Commits) /\ Len(log') = 0
  BY EmptyLog DEF Rebase, CheckedOut
<1>3. op' \in Operations /\ op'.pc = "begin" /\ op'.pre = 0
  BY IdleType DEF Rebase, TypeInv, TypeOK, Operations, Kinds, Points
<1>5. work' \in Trees /\ root' \in Bases
  BY BaseAssumption DEF Rebase, CheckedOut
<1> QED BY <1>2, <1>3, <1>4, <1>5
   DEF Rebase, TypeInv, TypeOK, Structure, Outcomes, Stories, repository, workspace

LEMMA RebaseForceTypes == ASSUME TypeInv, RebaseForce PROVE TypeInv'
<1>1. Turn
  BY DEF RebaseForce
<1>2. spent' \in 0..MaxCommands /\ outcome' \in Outcomes /\ op.pc = "idle"
  BY <1>1, TurnType
<1>0. root \in Bases
  BY DEF RebaseForce, Refreshable, Exists, TypeInv, TypeOK
<1>4. log' = log /\ Len(log) \in Nat
  BY LogType DEF RebaseForce
<1>3. op' \in Operations /\ op'.pc = "checkout" /\ op'.pre = 0 /\ op'.base \in Bases
  BY IdleType DEF RebaseForce, TypeInv, TypeOK, Operations, Kinds, Points
<1>5. work' \in Trees
  BY <1>0, HeadType DEF RebaseForce
<1> QED BY <1>2, <1>3, <1>4, <1>5, <1>0
   DEF RebaseForce, TypeInv, TypeOK, Structure, Outcomes, Stories, repository, workspace

LEMMA CheckoutTypes == ASSUME TypeInv, Checkout PROVE TypeInv'
<1>1. op' \in Operations /\ op'.pc = "begin" /\ op'.pre = op.pre
  BY DEF Checkout, Proceed, TypeInv, TypeOK, Operations, Points
<1>2. log' = <<>> /\ log' \in Seq(Commits) /\ Len(log') = 0
  BY EmptyLog DEF Checkout, CheckedOut
<1>3. work' \in Trees /\ root' \in Bases /\ op.pre = 0
  BY BaseAssumption DEF Checkout, CheckedOut, TypeInv, TypeOK, Structure
<1> QED BY <1>1, <1>2, <1>3
   DEF Checkout, TypeInv, TypeOK, Structure, Outcomes, Stories, repository, workspace,
       Proceed

LEMMA RebaseNowhereTypes == ASSUME TypeInv, RebaseNowhere PROVE TypeInv'
BY IdleType
   DEF TypeInv, TypeOK, Structure, Operations, Kinds, Points, Outcomes, Stories,
       repository, workspace, RebaseNowhere, Finish

LEMMA RefuseCollisionTypes == ASSUME TypeInv, RefuseCollision PROVE TypeInv'
BY IdleType
   DEF TypeInv, TypeOK, Structure, Operations, Kinds, Points, Outcomes, Stories,
       repository, workspace, RefuseCollision, Finish, Untouched

LEMMA NothingToApplyTypes == ASSUME TypeInv, NothingToApply PROVE TypeInv'
BY IdleType
   DEF TypeInv, TypeOK, Structure, Operations, Kinds, Points, Outcomes, Stories,
       repository, workspace, NothingToApply, Replayed, Finish, Untouched

LEMMA RefuseMissingTypes == ASSUME TypeInv, RefuseMissing PROVE TypeInv'
BY IdleType
   DEF TypeInv, TypeOK, Structure, Operations, Kinds, Points, Outcomes, Stories,
       repository, workspace, RefuseMissing, Finish, Untouched

LEMMA AlreadyAppliedTypes == ASSUME TypeInv, AlreadyApplied PROVE TypeInv'
BY IdleType
   DEF TypeInv, TypeOK, Structure, Operations, Kinds, Points, Outcomes, Stories,
       repository, workspace, AlreadyApplied, Replayable, Replayed, Finish, Untouched

LEMMA NotAppliedTypes == ASSUME TypeInv, NotApplied PROVE TypeInv'
BY IdleType
   DEF TypeInv, TypeOK, Structure, Operations, Kinds, Points, Outcomes, Stories,
       repository, workspace, NotApplied, Replayable, Finish

LEMMA StartReplayTypes == ASSUME TypeInv, StartReplay PROVE TypeInv'
BY
   DEF TypeInv, TypeOK, Structure, Operations, Kinds, Points, Outcomes, Stories,
       repository, workspace, StartReplay, Replayable, Proceed

LEMMA StartReverseTypes == ASSUME TypeInv, StartReverse PROVE TypeInv'
BY
   DEF TypeInv, TypeOK, Structure, Operations, Kinds, Points, Outcomes, Stories,
       repository, workspace, StartReverse, Replayable, Proceed

LEMMA ApplyNextTypes == ASSUME TypeInv, NEW n \in Numbers, ApplyNext(n) PROVE TypeInv'
<1>1. work' \in Trees
  BY PatchedType DEF ApplyNext, TypeInv, TypeOK
<1>2. op' \in Operations /\ op'.pre = op.pre /\ op'.at \in Numbers /\ op'.pc \in {"patch",
     "commit"}
  BY DEF ApplyNext, Applying, Proceed, TypeInv, TypeOK, Operations, Points
<1>3. op.pc = "patch"
  BY DEF ApplyNext, Applying
<1> QED BY <1>1, <1>2, <1>3
   DEF ApplyNext, TypeInv, TypeOK, Structure, Outcomes, Stories, repository, workspace,
       Proceed

LEMMA ConflictTypes == ASSUME TypeInv, NEW n \in Numbers, Conflict(n) PROVE TypeInv'
BY PatchedType, IdleType
   DEF TypeInv, TypeOK, Structure, Operations, Kinds, Points, Outcomes, Stories,
       repository, workspace, Conflict, Applying, Finish

LEMMA MismatchTypes == ASSUME TypeInv, NEW n \in Numbers, Mismatch(n) PROVE TypeInv'
BY IdleType, LogType, HeadType
   DEF TypeInv, TypeOK, Structure, Operations, Kinds, Points, Outcomes, Stories,
       repository, workspace, Mismatch, Applying, Finish

LEMMA RefreshStuckTypes == ASSUME TypeInv, NEW n \in Numbers, RefreshStuck(n) PROVE TypeInv'
BY IdleType
   DEF TypeInv, TypeOK, Structure, Operations, Kinds, Points, Outcomes, Stories,
       repository, workspace, RefreshStuck, Applying, Finish

LEMMA RevertNextTypes == ASSUME TypeInv, NEW n \in Numbers, RevertNext(n) PROVE TypeInv'
BY PatchedType
   DEF TypeInv, TypeOK, Structure, Operations, Kinds, Points, Outcomes, Stories,
       repository, workspace, RevertNext, Reverting, Proceed

LEMMA RevertFailedTypes == ASSUME TypeInv, NEW n \in Numbers, RevertFailed(n) PROVE TypeInv'
BY IdleType, HeadType
   DEF TypeInv, TypeOK, Structure, Operations, Kinds, Points, Outcomes, Stories,
       repository, workspace, RevertFailed, Reverting, Finish

LEMMA RevertedTypes == ASSUME TypeInv, Reverted PROVE TypeInv'
BY IdleType, BaseAssumption
   DEF TypeInv, TypeOK, Structure, Operations, Kinds, Points, Outcomes, Stories,
       repository, workspace, Reverted, CheckedOut, Finish

LEMMA CommitPatchTypes == ASSUME TypeInv, CommitPatch PROVE TypeInv'
<1>1. log' \in Seq(Commits) /\ Len(log') = Len(log) + 1 /\ Len(log) \in Nat /\ root \in Bases
  BY LogType DEF CommitPatch, TypeInv, TypeOK, Structure
<1>2. op' \in Operations /\ op'.pre = op.pre /\ op.pre \in Nat /\ op'.pc = "patch"
  BY DEF CommitPatch, Proceed, TypeInv, TypeOK, Operations, Points
<1>9. UNCHANGED <<files, series, overlay, pin, root, work, outcome, story, spent>>
  BY DEF CommitPatch, Proceed, Replayed, Finish, repository, workspace
<1> QED BY <1>1, <1>2, <1>9, NoBaseIsNone DEF TypeInv, TypeOK, Structure

LEMMA CopyOverlaysTypes == ASSUME TypeInv, CopyOverlays PROVE TypeInv'
BY SpotAssumption
   DEF TypeInv, TypeOK, Structure, Operations, Kinds, Points, Outcomes, Stories,
       repository, workspace, CopyOverlays, PatchesDone, Proceed, Trees

LEMMA OverlayModifiedTypes == ASSUME TypeInv, OverlayModified PROVE TypeInv'
BY IdleType
   DEF TypeInv, TypeOK, Structure, Operations, Kinds, Points, Outcomes, Stories,
       repository, workspace, OverlayModified, PatchesDone, Finish

LEMMA SealReplayTypes == ASSUME TypeInv, SealReplay PROVE TypeInv'
<1>1. Len(log) \in Nat /\ work \in Trees /\ root \in Bases
  BY LogType DEF SealReplay, TypeInv, TypeOK, Structure
<1>2. Sealed \in Seq(Commits) /\ Len(Sealed) = Len(log) + 1
  BY <1>1, LogType DEF Sealed
<1>3. log' \in Seq(Commits) /\ Len(log') \in Nat /\ Len(log) <= Len(log')
  BY <1>1, <1>2 DEF SealReplay, TypeInv, TypeOK
<1>4. /\ op' \in Operations
      /\ op'.pre \in {0, op.pre} /\ op.pre \in Nat
      /\ op'.pc \in {"ref", "idle"}
  BY IdleType DEF SealReplay, Replayed, Finish, TypeInv, TypeOK, Operations, Points
<1>5. outcome' \in Outcomes /\ story' \in Stories /\ spent' = spent
  BY DEF SealReplay, Replayed, Finish, Outcomes, Stories
<1>9. UNCHANGED <<files, series, overlay, pin, root, work>>
  BY DEF SealReplay, Proceed, Replayed, Finish, repository, workspace
<1> QED BY <1>1, <1>3, <1>4, <1>5, <1>9, NoBaseIsNone DEF TypeInv, TypeOK, Structure

LEMMA PinRefTypes == ASSUME TypeInv, PinRef PROVE TypeInv'
BY
   DEF TypeInv, TypeOK, Structure, Operations, Kinds, Points, Outcomes, Stories,
       repository, workspace, PinRef, Proceed

LEMMA PinShaTypes == ASSUME TypeInv, PinSha PROVE TypeInv'
BY IdleType
   DEF TypeInv, TypeOK, Structure, Operations, Kinds, Points, Outcomes, Stories,
       repository, workspace, PinSha, Proceed

LEMMA DumpTypes == ASSUME TypeInv, Dump PROVE TypeInv'
<1>1. Turn
  BY DEF Dump
<1>2. spent' \in 0..MaxCommands /\ outcome' \in Outcomes /\ op.pc = "idle"
  BY <1>1, TurnType
<1>3. root \in Bases
  BY DEF Dump, Exists, TypeInv, TypeOK
<1>4. Diff(HeadTree, Staged) \in Patches
  BY <1>3, HeadType, DiffType
<1>5. NextNumber \in Numbers
  BY DEF Dump
<1>6. files' \in [Numbers -> Patches]
  BY <1>4, <1>5 DEF Dump, TypeInv, TypeOK
<1>7. work \in Trees
  BY DEF TypeInv, TypeOK
<1>8. op' \in Operations /\ op'.pc = "record" /\ op'.n \in Numbers /\ op'.pre = 0
  BY <1>5, <1>7, IdleType DEF Dump, Operations, Kinds, Points
<1>9. Len(log) \in Nat
  BY LogType
<1> QED BY <1>2, <1>3, <1>6, <1>8, <1>9
   DEF Dump, Onward, TypeInv, TypeOK, Structure, Outcomes, Stories, repository, workspace

LEMMA RegisterTypes == ASSUME TypeInv, Register PROVE TypeInv'
BY IdleType
   DEF TypeInv, TypeOK, Structure, Operations, Kinds, Points, Outcomes, Stories,
       repository, workspace, Register, Finish

LEMMA RefreshTopTypes ==
  ASSUME TypeInv, NEW n \in Numbers, NEW c \in 1..Len(log), RefreshTop(n, c)
  PROVE  TypeInv'
<1>1. Turn /\ Exists
  BY DEF RefreshTop, Refreshable
<1>2. spent' \in 0..MaxCommands /\ outcome' \in Outcomes /\ op.pc = "idle"
  BY <1>1, TurnType
<1>3. root \in Bases
  BY <1>1 DEF Exists, TypeInv, TypeOK
<1>4. log' \in Seq(Commits) /\ Len(log') \in Nat
  BY c - 1 \in 0..Len(log), LogType DEF RefreshTop
<1>5. work' = work
  BY DEF RefreshTop
<1>6. After(n) \in SUBSET Numbers /\ work \in Trees
  BY DEF After, TypeInv, TypeOK
<1>7. op' \in Operations /\ op'.pc = "write" /\ op'.n \in Numbers /\ op'.pre = 0
  <2> DEFINE Begun(flag) == [Idle EXCEPT !.kind = "refresh", !.pc = "write", !.n = n,
       !.saw = work,
                                         !.todo = After(n), !.flag = flag]
  <2>1. CASE c # Len(log)
    <3>1. op' = Begun(TRUE)
      BY <2>1, Zenon DEF RefreshTop
    <3> QED BY <3>1, <1>6, IdleType DEF Operations, Kinds, Points
  <2>2. CASE ~(c # Len(log))
    <3>1. op' = Begun(FALSE)
      BY <2>2, Zenon DEF RefreshTop
    <3> QED BY <3>1, <1>6, IdleType DEF Operations, Kinds, Points
  <2> QED BY <2>1, <2>2
<1> QED BY <1>2, <1>3, <1>4, <1>5, <1>7
   DEF RefreshTop, Onward, TypeInv, TypeOK, Structure, Outcomes, Stories, repository, workspace

LEMMA RefreshWithinTypes ==
  ASSUME TypeInv, NEW n \in Numbers, NEW c \in 1..Len(log), RefreshWithin(n, c)
  PROVE  TypeInv'
<1>1. Turn /\ Exists
  BY DEF RefreshWithin, Refreshable
<1>2. spent' \in 0..MaxCommands /\ outcome' \in Outcomes /\ op.pc = "idle"
  BY <1>1, TurnType
<1>3. root \in Bases
  BY <1>1 DEF Exists, TypeInv, TypeOK
<1>4. log' \in Seq(Commits) /\ Len(log') \in Nat /\ log' # <<>>
  BY c \in 0..Len(log), c # 0, LogType DEF RefreshWithin
<1>5. work' \in Trees
  BY LogType DEF RefreshWithin
<1>6. After(n) \in SUBSET Numbers /\ work \in Trees
  BY DEF After, TypeInv, TypeOK
<1>8. Diff(HeadTree, Staged) \in Patches
  BY <1>3, HeadType, DiffType
<1>7. op' \in Operations /\ op'.pc = "reapply" /\ op'.n \in Numbers /\ op'.pre = 0
  <2> DEFINE Begun(flag) == [Idle EXCEPT !.kind = "refresh", !.pc = "reapply", !.n = n,
       !.saw = work,
                                         !.todo = After(n), !.flag = flag,
                                              !.pend = Diff(HeadTree, Staged)]
  <2>1. CASE HeadBy = Overlays
    <3>1. op' = Begun(TRUE)
      BY <2>1, Zenon DEF RefreshWithin
    <3> QED BY <3>1, <1>6, <1>8, IdleType DEF Operations, Kinds, Points
  <2>2. CASE ~(HeadBy = Overlays)
    <3>1. op' = Begun(FALSE)
      BY <2>2, Zenon DEF RefreshWithin
    <3> QED BY <3>1, <1>6, <1>8, IdleType DEF Operations, Kinds, Points
  <2> QED BY <2>1, <2>2
<1> QED BY <1>2, <1>3, <1>4, <1>5, <1>7
   DEF RefreshWithin, Onward, TypeInv, TypeOK, Structure, Outcomes, Stories, repository, workspace

LEMMA RefreshUnrecordedTypes ==
  ASSUME TypeInv, NEW n \in Numbers, RefreshUnrecorded(n)
  PROVE  TypeInv'
<1>1. Turn /\ Exists
  BY DEF RefreshUnrecorded, Refreshable
<1>2. spent' \in 0..MaxCommands /\ outcome' \in Outcomes /\ op.pc = "idle"
  BY <1>1, TurnType
<1>3. root \in Bases
  BY <1>1 DEF Exists, TypeInv, TypeOK
<1>4. log' = log /\ Len(log) \in Nat
  BY LogType DEF RefreshUnrecorded, workspace
<1>5. work' = work
  BY DEF RefreshUnrecorded, workspace
<1>6. After(n) \in SUBSET Numbers /\ work \in Trees
  BY DEF After, TypeInv, TypeOK
<1>7. op' \in Operations /\ op'.pc = "write" /\ op'.n \in Numbers /\ op'.pre = 0
  BY <1>6, IdleType DEF RefreshUnrecorded, Operations, Kinds, Points
<1> QED BY <1>2, <1>3, <1>4, <1>5, <1>7
   DEF RefreshUnrecorded, TypeInv, TypeOK, Structure, Outcomes, Stories, repository,
       workspace

LEMMA ReapplyTypes == ASSUME TypeInv, Reapply PROVE TypeInv'
<1>1. work' \in Trees
  BY PatchedType DEF Reapply, TypeInv, TypeOK, Operations
<1> DEFINE m == Len(log) - 1
<1>2. Len(log) \in Nat /\ m \in 0..Len(log)
  BY LogType, LogNotEmpty DEF Reapply, TypeInv, Structure
<1>3. log' \in Seq(Commits) /\ Len(log') \in Nat
  <2>1. log' = SubSeq(log, 1, m)
    BY DEF Reapply
  <2> HIDE DEF m
  <2> QED BY <1>2, <2>1, LogType
<1>4. op' \in Operations /\ op'.pre = op.pre /\ op'.n = op.n /\ op'.pc = "write"
  BY NoPatchType DEF Reapply, Proceed, TypeInv, TypeOK, Operations, Points
<1>5. root \in Bases /\ op.pre \in Nat /\ op.pre = 0 /\ op.n \in Numbers
  BY DEF Reapply, TypeInv, TypeOK, Structure, Operations
<1>9. UNCHANGED <<files, series, overlay, pin, root, outcome, story, spent>>
  BY DEF Reapply, Proceed, Replayed, Finish, repository, workspace
<1> QED BY <1>1, <1>2, <1>3, <1>4, <1>5, <1>9, NoBaseIsNone DEF TypeInv, TypeOK, Structure

LEMMA ReapplyConflictTypes == ASSUME TypeInv, ReapplyConflict PROVE TypeInv'
BY PatchedType, IdleType
   DEF TypeInv, TypeOK, Structure, Operations, Kinds, Points, Outcomes, Stories,
       repository, workspace, ReapplyConflict, Finish

LEMMA ReapplyFailedTypes == ASSUME TypeInv, ReapplyFailed PROVE TypeInv'
BY IdleType
   DEF TypeInv, TypeOK, Structure, Operations, Kinds, Points, Outcomes, Stories,
       repository, workspace, ReapplyFailed, Finish

LEMMA WriteRefreshedTypes == ASSUME TypeInv, WriteRefreshed PROVE TypeInv'
BY DiffType, HeadType
   DEF TypeInv, TypeOK, Structure, Operations, Kinds, Points, Outcomes, Stories,
       repository, workspace, WriteRefreshed, Proceed

LEMMA NothingToRefreshTypes == ASSUME TypeInv, NothingToRefresh PROVE TypeInv'
BY IdleType
   DEF TypeInv, TypeOK, Structure, Operations, Kinds, Points, Outcomes, Stories,
       repository, workspace, NothingToRefresh, Finish

LEMMA RecordDumpedTypes == ASSUME TypeInv, RecordDumped PROVE TypeInv'
<1>1. root \in Bases /\ op.n \in Numbers
  BY DEF RecordDumped, TypeInv, Structure
<1>2. Recorded \in Seq(Commits) /\ Len(Recorded) = Len(log) + 1 /\ Len(log) \in Nat
  BY <1>1, LogType, HeadType DEF Recorded
<1>5. log' = Recorded
  BY DEF RecordDumped
<1>3. op' \in Operations /\ op'.pre \in {0, op.pre} /\ op.pre \in Nat
      /\ (op'.pc = "idle" \/ (op'.pc = "register" /\ op'.n = op.n))
  BY IdleType DEF RecordDumped, Proceed, Finish, TypeInv, TypeOK, Operations, Points
<1>4. outcome' \in Outcomes /\ story' \in Stories /\ spent' = spent
  BY DEF RecordDumped, Proceed, Finish, Outcomes, Stories, TypeInv, TypeOK
<1>9. UNCHANGED <<files, series, overlay, pin, root, work>>
  BY DEF RecordDumped, Proceed, Replayed, Finish, repository, workspace
<1> QED BY <1>1, <1>2, <1>3, <1>4, <1>5, <1>9, NoBaseIsNone DEF TypeInv, TypeOK, Structure

LEMMA RecordRefreshedTypes == ASSUME TypeInv, RecordRefreshed PROVE TypeInv'
<1>1. root \in Bases /\ op.n \in Numbers
  BY DEF RecordRefreshed, TypeInv, Structure
<1>2. Recorded \in Seq(Commits) /\ Len(Recorded) = Len(log) + 1 /\ Len(log) \in Nat
  BY <1>1, LogType, HeadType DEF Recorded
<1>5. log' = Recorded
  BY DEF RecordRefreshed
<1>3. op' \in Operations /\ op'.pre = op.pre /\ op.pre \in Nat /\ op'.pc \in {"seal",
     "patch"}
  <2>1. CASE op.todo = {}
    BY <2>1 DEF RecordRefreshed, Proceed, TypeInv, TypeOK, Operations, Points
  <2>2. CASE op.todo # {} /\ (op.flag \/ overlay # Absent)
    <3>1. op' = [op EXCEPT !.pc = "patch", !.flag = TRUE]
      BY <2>2, Zenon DEF RecordRefreshed, Proceed
    <3> QED BY <3>1 DEF TypeInv, TypeOK, Operations, Points
  <2>3. CASE op.todo # {} /\ ~(op.flag \/ overlay # Absent)
    <3>1. op' = [op EXCEPT !.pc = "patch", !.flag = FALSE]
      BY <2>3, Zenon DEF RecordRefreshed, Proceed
    <3> QED BY <3>1 DEF TypeInv, TypeOK, Operations, Points
  <2> QED BY <2>1, <2>2, <2>3
<1>9. UNCHANGED <<files, series, overlay, pin, root, work, outcome, story, spent>>
  BY DEF RecordRefreshed, Proceed, Replayed, Finish, repository, workspace
<1> QED BY <1>1, <1>2, <1>3, <1>5, <1>9, NoBaseIsNone DEF TypeInv, TypeOK, Structure

LEMMA SealRefreshTypes == ASSUME TypeInv, SealRefresh PROVE TypeInv'
<1>1. Len(log) \in Nat /\ work \in Trees /\ root \in Bases
  BY LogType DEF SealRefresh, TypeInv, TypeOK, Structure
<1>2. Sealed \in Seq(Commits) /\ Len(Sealed) = Len(log) + 1
  BY <1>1, LogType DEF Sealed
<1>3. log' \in Seq(Commits) /\ Len(log') \in Nat /\ Len(log) <= Len(log')
  BY <1>1, <1>2 DEF SealRefresh, TypeInv, TypeOK
<1>4. op' = Idle /\ outcome' \in Outcomes /\ story' \in Stories /\ spent' = spent
  BY DEF SealRefresh, Finish, Outcomes, Stories, TypeInv, TypeOK
<1>9. UNCHANGED <<files, series, overlay, pin, root, work>>
  BY DEF SealRefresh, Proceed, Replayed, Finish, repository, workspace
<1> QED BY <1>1, <1>3, <1>4, IdleType, <1>9, NoBaseIsNone DEF TypeInv, TypeOK, Structure

LEMMA EditTypes == ASSUME TypeInv, Edit PROVE TypeInv'
BY RepositoryAssumption
   DEF TypeInv, TypeOK, Structure, Operations, Kinds, Points, Outcomes, Stories,
       repository, workspace, Turn, Edit, Trees

LEMMA CommitByHandTypes == ASSUME TypeInv, CommitByHand PROVE TypeInv'
<1>1. Turn
  BY DEF CommitByHand
<1>2. spent' \in 0..MaxCommands /\ outcome' \in Outcomes /\ op.pc = "idle"
  BY <1>1, TurnType
<1>3. work \in Trees /\ root # NoBase
  BY DEF CommitByHand, Exists, TypeInv, TypeOK
<1>4. log' \in Seq(Commits) /\ Len(log') = Len(log) + 1 /\ Len(log) \in Nat
  BY <1>3, LogType DEF CommitByHand
<1>5. UNCHANGED <<files, series, overlay, pin, root, work,
     op>> /\ story' \in Stories /\ op.pre \in Nat
  BY DEF CommitByHand, repository, Stories, TypeInv, TypeOK, Operations
<1> QED BY <1>2, <1>3, <1>4, <1>5 DEF TypeInv, TypeOK, Structure

LEMMA PullFileTypes == ASSUME TypeInv, PullFile PROVE TypeInv'
BY RepositoryAssumption
   DEF TypeInv, TypeOK, Structure, Operations, Kinds, Points, Outcomes, Stories,
       repository, workspace, Turn, PullFile

LEMMA PullOverlayTypes == ASSUME TypeInv, PullOverlay PROVE TypeInv'
BY RepositoryAssumption
   DEF TypeInv, TypeOK, Structure, Operations, Kinds, Points, Outcomes, Stories,
       repository, workspace, Turn, PullOverlay

LEMMA CrashTypes == ASSUME TypeInv, Crash PROVE TypeInv'
BY IdleType
   DEF TypeInv, TypeOK, Structure, Operations, Kinds, Points, Outcomes, Stories,
       repository, workspace, Crash, Finish

-----------------------------------------------------------------------------
(* Applied means applied.  While a replay is under way, the patches it has    *)
(* taken come before those it has still to take, and each of them is in place *)
(* but for what a later one of them has changed; the overlay joins them last. *)

Replaying == op.kind # "refresh" /\ op.pc \in {"patch", "commit", "seal"}
Taken(n) == n \in series /\ n \notin op.todo /\ n # op.skip
TakenInPlace ==
  \A n \in Numbers : Taken(n) =>
    \A s \in DOMAIN files[n] \ Covered :
      (\A m \in Numbers : Taken(m) /\ m > n => s \notin DOMAIN files[m])
        => work[s] = files[n][s].new
ReplayInv ==
  Replaying =>
    /\ op.todo \subseteq series \ {op.skip}
    /\ \A n \in Numbers, m \in op.todo : Taken(n) => n < m
    /\ TakenInPlace
    /\ op.pc = "seal" => op.todo = {} /\ OverlayInPlace
\* A command in progress has reported nothing, except a rebase that still pins.
SilentInv == op.pc \notin {"idle", "ref", "sha"} => outcome = "none"
IInv == TypeInv /\ SilentInv /\ ReplayInv /\ AppliedInFull

\* A step that neither replays nor reports the series applied.
Quiet == SilentInv' /\ ~Replaying' /\ outcome' # "applied"

LEMMA IdleIsQuiet ==
  ASSUME op' = Idle, outcome' # "applied"
  PROVE  Quiet
BY IdleType DEF Quiet, SilentInv, Replaying

\* A command that begins reports nothing and replays nothing yet.
LEMMA BegunIsQuiet ==
  ASSUME TypeInv, Turn, op' = op \/ op'.pc \in {"checkout", "begin", "write", "reapply",
       "record"}
  PROVE  Quiet
BY DEF Turn, Quiet, SilentInv, Replaying

LEMMA ApplyIsQuiet == ASSUME TypeInv, SilentInv, Apply PROVE Quiet
<1>1. op'.pc \in {"checkout", "begin", "write", "reapply", "record"}
  BY IdleType DEF Apply, Operations
<1> QED BY <1>1, BegunIsQuiet DEF Apply

LEMMA ReverseIsQuiet == ASSUME TypeInv, SilentInv, Reverse PROVE Quiet
<1>1. op'.pc \in {"checkout", "begin", "write", "reapply", "record"}
  BY IdleType DEF Reverse, Operations
<1> QED BY <1>1, BegunIsQuiet DEF Reverse

LEMMA SetupIsQuiet == ASSUME TypeInv, SilentInv, Setup PROVE Quiet
<1>1. op'.pc \in {"checkout", "begin", "write", "reapply", "record"}
  BY IdleType DEF Setup, Operations
<1> QED BY <1>1, BegunIsQuiet DEF Setup

LEMMA SetupForceIsQuiet == ASSUME TypeInv, SilentInv, SetupForce PROVE Quiet
<1>1. op'.pc \in {"checkout", "begin", "write", "reapply", "record"}
  BY IdleType DEF SetupForce, Operations
<1> QED BY <1>1, BegunIsQuiet DEF SetupForce

LEMMA RebaseIsQuiet == ASSUME TypeInv, SilentInv, Rebase PROVE Quiet
<1>1. op'.pc \in {"checkout", "begin", "write", "reapply", "record"}
  BY IdleType DEF Rebase, Operations
<1> QED BY <1>1, BegunIsQuiet DEF Rebase

LEMMA RebaseForceIsQuiet == ASSUME TypeInv, SilentInv, RebaseForce PROVE Quiet
<1>1. op'.pc \in {"checkout", "begin", "write", "reapply", "record"}
  BY IdleType DEF RebaseForce, Operations
<1> QED BY <1>1, BegunIsQuiet DEF RebaseForce

LEMMA CheckoutIsQuiet == ASSUME TypeInv, SilentInv, Checkout PROVE Quiet
BY IdleIsQuiet
   DEF Checkout, CheckedOut, Proceed, NoBase, Quiet, SilentInv, Replaying, TypeInv, TypeOK,
       Operations

LEMMA RebaseNowhereIsQuiet == ASSUME TypeInv, SilentInv, RebaseNowhere PROVE Quiet
BY IdleIsQuiet DEF RebaseNowhere, Finish

LEMMA RefuseCollisionIsQuiet == ASSUME TypeInv, SilentInv, RefuseCollision PROVE Quiet
BY IdleIsQuiet DEF RefuseCollision, Finish

LEMMA NothingToApplyIsQuiet == ASSUME TypeInv, SilentInv, NothingToApply PROVE Quiet
BY IdleIsQuiet
   DEF NothingToApply, Replayable, Replayed, Finish, Quiet, SilentInv, Replaying, TypeInv,
       TypeOK, Operations

LEMMA RefuseMissingIsQuiet == ASSUME TypeInv, SilentInv, RefuseMissing PROVE Quiet
BY IdleIsQuiet DEF RefuseMissing, Finish

LEMMA AlreadyAppliedIsQuiet == ASSUME TypeInv, SilentInv, AlreadyApplied PROVE Quiet
BY IdleIsQuiet
   DEF AlreadyApplied, Replayable, Replayed, Finish, Quiet, SilentInv, Replaying, TypeInv,
       TypeOK, Operations

LEMMA NotAppliedIsQuiet == ASSUME TypeInv, SilentInv, NotApplied PROVE Quiet
BY IdleIsQuiet DEF NotApplied, Finish

LEMMA StartReverseIsQuiet == ASSUME TypeInv, SilentInv, StartReverse PROVE Quiet
BY IdleIsQuiet
   DEF StartReverse, Replayable, Proceed, Quiet, SilentInv, Replaying, TypeInv, TypeOK,
       Operations

LEMMA ConflictIsQuiet ==
  ASSUME TypeInv, SilentInv, NEW n \in Numbers, Conflict(n)
  PROVE  Quiet
BY IdleIsQuiet DEF Conflict, Finish

LEMMA MismatchIsQuiet ==
  ASSUME TypeInv, SilentInv, NEW n \in Numbers, Mismatch(n)
  PROVE  Quiet
BY IdleIsQuiet DEF Mismatch, Finish

LEMMA RefreshStuckIsQuiet ==
  ASSUME TypeInv, SilentInv, NEW n \in Numbers, RefreshStuck(n)
  PROVE  Quiet
BY IdleIsQuiet DEF RefreshStuck, Finish

LEMMA RevertNextIsQuiet ==
  ASSUME TypeInv, SilentInv, NEW n \in Numbers, RevertNext(n)
  PROVE  Quiet
BY IdleIsQuiet
   DEF RevertNext, Reverting, Proceed, Quiet, SilentInv, Replaying, TypeInv, TypeOK,
       Operations

LEMMA RevertFailedIsQuiet ==
  ASSUME TypeInv, SilentInv, NEW n \in Numbers, RevertFailed(n)
  PROVE  Quiet
BY IdleIsQuiet DEF RevertFailed, Finish

LEMMA RevertedIsQuiet == ASSUME TypeInv, SilentInv, Reverted PROVE Quiet
BY IdleIsQuiet DEF Reverted, Finish

LEMMA OverlayModifiedIsQuiet == ASSUME TypeInv, SilentInv, OverlayModified PROVE Quiet
BY IdleIsQuiet DEF OverlayModified, Finish

LEMMA DumpIsQuiet == ASSUME TypeInv, SilentInv, Dump PROVE Quiet
<1>1. op'.pc \in {"checkout", "begin", "write", "reapply", "record"}
  BY IdleType DEF Dump, Operations
<1> QED BY <1>1, BegunIsQuiet DEF Dump

LEMMA RegisterIsQuiet == ASSUME TypeInv, SilentInv, Register PROVE Quiet
BY IdleIsQuiet DEF Register, Finish

LEMMA RefreshTopIsQuiet ==
  ASSUME TypeInv, SilentInv, NEW n \in Numbers, NEW c \in 1..Len(log), RefreshTop(n, c)
  PROVE  Quiet
<1>1. op'.pc \in {"checkout", "begin", "write", "reapply", "record"}
  BY IdleType DEF RefreshTop, Operations
<1> QED BY <1>1, BegunIsQuiet DEF RefreshTop, Refreshable

LEMMA RefreshWithinIsQuiet ==
  ASSUME TypeInv, SilentInv, NEW n \in Numbers, NEW c \in 1..Len(log), RefreshWithin(n, c)
  PROVE  Quiet
<1>1. op'.pc \in {"checkout", "begin", "write", "reapply", "record"}
  BY IdleType DEF RefreshWithin, Operations
<1> QED BY <1>1, BegunIsQuiet DEF RefreshWithin, Refreshable

LEMMA RefreshUnrecordedIsQuiet ==
  ASSUME TypeInv, SilentInv, NEW n \in Numbers, RefreshUnrecorded(n)
  PROVE  Quiet
<1>1. op'.pc \in {"checkout", "begin", "write", "reapply", "record"}
  BY IdleType DEF RefreshUnrecorded, Operations
<1> QED BY <1>1, BegunIsQuiet DEF RefreshUnrecorded, Refreshable

LEMMA ReapplyIsQuiet == ASSUME TypeInv, SilentInv, Reapply PROVE Quiet
BY IdleIsQuiet
   DEF Reapply, Proceed, Quiet, SilentInv, Replaying, TypeInv, TypeOK, Operations

LEMMA ReapplyConflictIsQuiet == ASSUME TypeInv, SilentInv, ReapplyConflict PROVE Quiet
BY IdleIsQuiet DEF ReapplyConflict, Finish

LEMMA ReapplyFailedIsQuiet == ASSUME TypeInv, SilentInv, ReapplyFailed PROVE Quiet
BY IdleIsQuiet DEF ReapplyFailed, Finish

LEMMA WriteRefreshedIsQuiet == ASSUME TypeInv, SilentInv, WriteRefreshed PROVE Quiet
BY IdleIsQuiet
   DEF WriteRefreshed, Proceed, Quiet, SilentInv, Replaying, TypeInv, TypeOK, Operations

LEMMA NothingToRefreshIsQuiet == ASSUME TypeInv, SilentInv, NothingToRefresh PROVE Quiet
BY IdleIsQuiet DEF NothingToRefresh, Finish

LEMMA RecordDumpedIsQuiet == ASSUME TypeInv, SilentInv, RecordDumped PROVE Quiet
BY IdleIsQuiet
   DEF Overlays, User, RecordDumped, Recorded, Proceed, Finish, Quiet, SilentInv,
       Replaying, TypeInv, TypeOK, Operations

LEMMA RecordRefreshedIsQuiet == ASSUME TypeInv, SilentInv, RecordRefreshed PROVE Quiet
BY IdleIsQuiet
   DEF Overlays, User, RecordRefreshed, Recorded, Proceed, Quiet, SilentInv, Replaying,
       TypeInv, TypeOK, Operations

LEMMA SealRefreshIsQuiet == ASSUME TypeInv, SilentInv, SealRefresh PROVE Quiet
BY IdleIsQuiet DEF SealRefresh, Finish

LEMMA EditIsQuiet == ASSUME TypeInv, SilentInv, Edit PROVE Quiet
BY BegunIsQuiet DEF Edit

LEMMA CommitByHandIsQuiet == ASSUME TypeInv, SilentInv, CommitByHand PROVE Quiet
BY BegunIsQuiet DEF CommitByHand

LEMMA PullFileIsQuiet == ASSUME TypeInv, SilentInv, PullFile PROVE Quiet
BY BegunIsQuiet DEF PullFile

LEMMA PullOverlayIsQuiet == ASSUME TypeInv, SilentInv, PullOverlay PROVE Quiet
BY BegunIsQuiet DEF PullOverlay

LEMMA CrashIsQuiet == ASSUME TypeInv, SilentInv, Crash PROVE Quiet
BY IdleIsQuiet DEF Crash, Finish

\* The steps of a replay.
LEMMA StartReplayInv ==
  ASSUME TypeInv, SilentInv, StartReplay
  PROVE  SilentInv' /\ ReplayInv' /\ AppliedInFull'
<1>1. op.pc = "begin" /\ outcome = "none" /\ outcome' = "none"
  BY DEF StartReplay, Replayable, Proceed, SilentInv
<1>2. op'.todo = series \ {op.skip} /\ op'.skip = op.skip /\ op'.pc = "patch" /\ series' = series
  BY DEF StartReplay, Proceed, TypeInv, TypeOK, Operations, repository
<1>3. \A n \in Numbers : ~Taken(n)'
  BY <1>2 DEF Taken
<1>4. op'.todo \subseteq series' \ {op'.skip}
  BY <1>2
<1> QED BY <1>1, <1>2, <1>3, <1>4 DEF SilentInv, ReplayInv, TakenInPlace, AppliedInFull

LEMMA ApplyNextInv ==
  ASSUME TypeInv, SilentInv, ReplayInv, NEW n \in Numbers, ApplyNext(n)
  PROVE  SilentInv' /\ ReplayInv' /\ AppliedInFull'
<1>1. op.pc = "patch" /\ outcome = "none" /\ outcome' = "none"
  BY DEF ApplyNext, Applying, Proceed, SilentInv
<1>2. /\ op'.kind = op.kind /\ op'.skip = op.skip /\ op'.todo = op.todo \ {n}
      /\ op'.pc \in {"patch", "commit"}
  BY DEF ApplyNext, Proceed, TypeInv, TypeOK, Operations
<1>3. UNCHANGED <<files, series, overlay, Covered>> /\ work' = Patched(files[n], work)
  BY DEF ApplyNext, repository, Covered
<1>4. n \in op.todo /\ \A m \in op.todo : n <= m
  BY DEF ApplyNext, Applying
<1>5. CASE ~Replaying
  BY <1>1, <1>2, <1>5 DEF Replaying, ReplayInv, SilentInv, AppliedInFull
<1>6. CASE Replaying
  <2>1. op.todo \subseteq series \ {op.skip} /\ op.todo \subseteq Numbers /\ n \in series /\ n # op.skip
    BY <1>4, <1>6 DEF ReplayInv, TypeInv, TypeOK, Operations
  <2>2. \A m \in Numbers : Taken(m) => m < n
    BY <1>4, <1>6 DEF ReplayInv
  <2>3. \A m \in Numbers : Taken(m)' => Taken(m) \/ m = n
    BY <1>2, <1>3 DEF Taken
  <2>4. \A m \in Numbers : Taken(m) => Taken(m)'
    BY <1>2, <1>3 DEF Taken
  <2>5. ASSUME NEW k \in Numbers, NEW m \in op'.todo, Taken(k)'
        PROVE  k < m
    <3>1. m \in op.todo /\ m # n /\ m \in Int /\ n \in Int /\ n <= m
      BY <1>2, <1>4, <2>1 DEF Numbers
    <3>2. CASE k = n
      BY <3>1, <3>2
    <3>3. CASE Taken(k)
      BY <3>1, <3>3, <1>6 DEF ReplayInv
    <3> QED BY <2>3, <2>5, <3>2, <3>3
  <2>8. Taken(n)'
    BY <1>2, <1>3, <2>1 DEF Taken
  <2>6. ASSUME NEW k \in Numbers, Taken(k)', NEW s \in DOMAIN files[k] \ Covered,
               \A m \in Numbers : Taken(m)' /\ m > k => s \notin DOMAIN files[m]
        PROVE  work'[s] = files[k][s].new
    <3>1. files[k] \in Patches /\ s \in Spots
      BY PatchDomain DEF TypeInv, TypeOK
    <3>2. CASE k = n
      BY <1>3, <3>1, <3>2, <2>6 DEF Patched
    <3>3. CASE Taken(k) /\ k # n
      <4>1. k < n /\ k \in Int /\ n \in Int
        BY <3>3, <2>2 DEF Numbers
      <4>2. s \notin DOMAIN files[n]
        BY <2>6, <2>8, <4>1
      <4>3. \A m \in Numbers : Taken(m) /\ m > k => s \notin DOMAIN files[m]
        BY <2>4, <2>6
      <4>4. work[s] = files[k][s].new
        BY <4>3, <3>3, <1>6, <2>6 DEF ReplayInv, TakenInPlace
      <4> QED BY <1>3, <3>1, <4>2, <4>4 DEF Patched
    <3> QED BY <2>3, <2>6, <3>2, <3>3
  <2>7. op'.todo \subseteq series' \ {op'.skip} /\ op'.pc # "seal"
    BY <1>2, <1>3, <2>1
  <2> QED BY <1>1, <1>2, <1>3, <2>5, <2>6, <2>7
     DEF ReplayInv, TakenInPlace, SilentInv, AppliedInFull
<1> QED BY <1>5, <1>6

LEMMA CommitPatchInv ==
  ASSUME TypeInv, SilentInv, ReplayInv, CommitPatch
  PROVE  SilentInv' /\ ReplayInv' /\ AppliedInFull'
<1>1. /\ op.pc = "commit" /\ op'.pc = "patch" /\ outcome = "none" /\ outcome' = "none"
      /\ op'.kind = op.kind /\ op'.skip = op.skip /\ op'.todo = op.todo
  BY DEF CommitPatch, Proceed, SilentInv, TypeInv, TypeOK, Operations
<1>2. UNCHANGED <<files, series, overlay, work>>
  BY DEF CommitPatch, repository
<1>3. Replaying' = Replaying /\ \A n \in Numbers : Taken(n)' = Taken(n)
  BY <1>1, <1>2 DEF Replaying, Taken
<1>4. UNCHANGED Covered
  BY <1>2 DEF Covered
<1> QED BY <1>1, <1>2, <1>3, <1>4 DEF ReplayInv, TakenInPlace, SilentInv, AppliedInFull

LEMMA CopyOverlaysInv ==
  ASSUME TypeInv, SilentInv, ReplayInv, CopyOverlays
  PROVE  SilentInv' /\ ReplayInv' /\ AppliedInFull'
<1>1. /\ op.pc = "patch" /\ op.todo = {} /\ op'.pc = "seal"
      /\ outcome = "none" /\ outcome' = "none"
      /\ op'.kind = op.kind /\ op'.skip = op.skip /\ op'.todo = op.todo
  BY DEF CopyOverlays, PatchesDone, Proceed, SilentInv, TypeInv, TypeOK, Operations
<1>2. UNCHANGED <<files, series, overlay>>
  BY DEF CopyOverlays, repository
<1>3. UNCHANGED Covered /\ \A n \in Numbers : Taken(n)' = Taken(n)
  BY <1>1, <1>2 DEF Covered, Taken
<1>4. CASE op.kind = "refresh"
  BY <1>1, <1>4 DEF Replaying, ReplayInv, SilentInv, AppliedInFull
<1>5. CASE op.kind # "refresh"
  <2>1. Replaying /\ TakenInPlace
    BY <1>1, <1>5 DEF Replaying, ReplayInv
  <2>2. \A s \in Spots \ Covered : work'[s] = work[s]
    BY DEF CopyOverlays, Covered, TypeInv, TypeOK, Trees
  <2>3. OverlayInPlace'
    BY <1>2, <1>5, SpotAssumption
       DEF CopyOverlays, OverlayInWay, PassesOver, OverlayInPlace, TypeInv, TypeOK, Trees
  <2>4. \A n \in Numbers : DOMAIN files[n] \subseteq Spots
    BY PatchDomain DEF TypeInv, TypeOK
  <2>5. TakenInPlace'
    BY <1>2, <1>3, <2>1, <2>2, <2>4 DEF TakenInPlace
  <2> QED BY <1>1, <2>3, <2>5 DEF ReplayInv, SilentInv, AppliedInFull
<1> QED BY <1>4, <1>5

LEMMA SealReplayInv ==
  ASSUME TypeInv, SilentInv, ReplayInv, SealReplay
  PROVE  SilentInv' /\ ReplayInv' /\ AppliedInFull'
<1>1. /\ op.pc = "seal" /\ op.kind # "refresh"
      /\ UNCHANGED <<files, series, overlay, work>>
  BY DEF SealReplay, repository
<1>2. op'.pc \in {"ref", "idle"}
  BY IdleType DEF SealReplay, Replayed, Finish, TypeInv, TypeOK, Operations
<1>3. ASSUME outcome' = "applied"
      PROVE  PatchesInPlace /\ OverlayInPlace
  <2>1. op.skip \notin series
    BY <1>3 DEF SealReplay, Replayed, Finish
  <2>2. TakenInPlace /\ op.todo = {} /\ OverlayInPlace
    BY <1>1 DEF ReplayInv, Replaying
  <2>3. \A n \in series : Taken(n) /\ n \in Numbers
    BY <2>1, <2>2 DEF Taken, TypeInv, TypeOK
  <2>4. \A n \in series, s \in Spots : Lasting(s, n) =>
          \A m \in Numbers : Taken(m) /\ m > n => s \notin DOMAIN files[m]
    BY DEF Lasting, After, Taken
  <2>5. \A n \in series : DOMAIN files[n] \subseteq Spots
    BY PatchDomain DEF TypeInv, TypeOK
  <2> QED BY <2>2, <2>3, <2>4, <2>5 DEF TakenInPlace, PatchesInPlace
<1>4. UNCHANGED <<PatchesInPlace, OverlayInPlace>>
  BY <1>1 DEF PatchesInPlace, OverlayInPlace, Lasting, After, Covered
<1> QED BY <1>2, <1>3, <1>4 DEF SilentInv, ReplayInv, Replaying, AppliedInFull

LEMMA PinInv ==
  ASSUME TypeInv, AppliedInFull, PinRef \/ PinSha
  PROVE  SilentInv' /\ ReplayInv' /\ AppliedInFull'
<1>1. op'.pc \in {"sha", "idle"}
  BY IdleType DEF PinRef, PinSha, Proceed, TypeInv, TypeOK, Operations
<1>2. UNCHANGED <<files, series, overlay, work, outcome>>
  BY DEF PinRef, PinSha, Proceed, workspace
<1>3. AppliedInFull'
  BY <1>2 DEF AppliedInFull, PatchesInPlace, OverlayInPlace, Lasting, After, Covered
<1> QED BY <1>1, <1>3 DEF SilentInv, ReplayInv, Replaying

LEMMA QuietInv ==
  ASSUME Quiet
  PROVE  SilentInv' /\ ReplayInv' /\ AppliedInFull'
BY DEF Quiet, ReplayInv, AppliedInFull

LEMMA StartCommandStep == ASSUME IInv, StartCommand PROVE IInv'
<1> USE DEF IInv
<1>1. CASE Apply
  BY <1>1, ApplyTypes, ApplyIsQuiet, QuietInv
<1>2. CASE Reverse
  BY <1>2, ReverseTypes, ReverseIsQuiet, QuietInv
<1>3. CASE Setup
  BY <1>3, SetupTypes, SetupIsQuiet, QuietInv
<1>4. CASE SetupForce
  BY <1>4, SetupForceTypes, SetupForceIsQuiet, QuietInv
<1>5. CASE Rebase
  BY <1>5, RebaseTypes, RebaseIsQuiet, QuietInv
<1>6. CASE RebaseForce
  BY <1>6, RebaseForceTypes, RebaseForceIsQuiet, QuietInv
<1>7. CASE Dump
  BY <1>7, DumpTypes, DumpIsQuiet, QuietInv
<1>8. CASE \E n \in Numbers : RefreshUnrecorded(n)
  BY <1>8, RefreshUnrecordedTypes, RefreshUnrecordedIsQuiet, QuietInv
<1>9. CASE \E n \in Numbers, c \in 1..Len(log) : RefreshTop(n, c)
  BY <1>9, RefreshTopTypes, RefreshTopIsQuiet, QuietInv
<1>10. CASE \E n \in Numbers, c \in 1..Len(log) : RefreshWithin(n, c)
  BY <1>10, RefreshWithinTypes, RefreshWithinIsQuiet, QuietInv
<1> QED BY <1>1, <1>2, <1>3, <1>4, <1>5, <1>6, <1>7, <1>8, <1>9, <1>10 DEF StartCommand

LEMMA ReplayStep == ASSUME IInv, Replay PROVE IInv'
<1> USE DEF IInv
<1>1. CASE Checkout
  BY <1>1, CheckoutTypes, CheckoutIsQuiet, QuietInv
<1>2. CASE RebaseNowhere
  BY <1>2, RebaseNowhereTypes, RebaseNowhereIsQuiet, QuietInv
<1>3. CASE RefuseCollision
  BY <1>3, RefuseCollisionTypes, RefuseCollisionIsQuiet, QuietInv
<1>4. CASE NothingToApply
  BY <1>4, NothingToApplyTypes, NothingToApplyIsQuiet, QuietInv
<1>5. CASE RefuseMissing
  BY <1>5, RefuseMissingTypes, RefuseMissingIsQuiet, QuietInv
<1>6. CASE AlreadyApplied
  BY <1>6, AlreadyAppliedTypes, AlreadyAppliedIsQuiet, QuietInv
<1>7. CASE NotApplied
  BY <1>7, NotAppliedTypes, NotAppliedIsQuiet, QuietInv
<1>8. CASE StartReplay
  BY <1>8, StartReplayTypes, StartReplayInv
<1>9. CASE StartReverse
  BY <1>9, StartReverseTypes, StartReverseIsQuiet, QuietInv
<1>10. CASE \E n \in Numbers : ApplyNext(n)
  BY <1>10, ApplyNextTypes, ApplyNextInv
<1>11. CASE \E n \in Numbers : Conflict(n)
  BY <1>11, ConflictTypes, ConflictIsQuiet, QuietInv
<1>12. CASE \E n \in Numbers : Mismatch(n)
  BY <1>12, MismatchTypes, MismatchIsQuiet, QuietInv
<1>13. CASE \E n \in Numbers : RevertNext(n)
  BY <1>13, RevertNextTypes, RevertNextIsQuiet, QuietInv
<1>14. CASE \E n \in Numbers : RevertFailed(n)
  BY <1>14, RevertFailedTypes, RevertFailedIsQuiet, QuietInv
<1>15. CASE CommitPatch
  BY <1>15, CommitPatchTypes, CommitPatchInv
<1>16. CASE CopyOverlays
  BY <1>16, CopyOverlaysTypes, CopyOverlaysInv
<1>17. CASE OverlayModified
  BY <1>17, OverlayModifiedTypes, OverlayModifiedIsQuiet, QuietInv
<1>18. CASE SealReplay
  BY <1>18, SealReplayTypes, SealReplayInv
<1>19. CASE PinRef
  BY <1>19, PinRefTypes, PinInv
<1>20. CASE PinSha
  BY <1>20, PinShaTypes, PinInv
<1>21. CASE Reverted
  BY <1>21, RevertedTypes, RevertedIsQuiet, QuietInv
<1> QED BY <1>1, <1>2, <1>3, <1>4, <1>5, <1>6, <1>7, <1>8, <1>9, <1>10, <1>11, <1>12,
     <1>13, <1>14, <1>15, <1>16, <1>17, <1>18, <1>19, <1>20, <1>21 DEF Replay

LEMMA CaptureStep == ASSUME IInv, Capture PROVE IInv'
<1> USE DEF IInv
<1>1. CASE Register
  BY <1>1, RegisterTypes, RegisterIsQuiet, QuietInv
<1>2. CASE Reapply
  BY <1>2, ReapplyTypes, ReapplyIsQuiet, QuietInv
<1>3. CASE ReapplyConflict
  BY <1>3, ReapplyConflictTypes, ReapplyConflictIsQuiet, QuietInv
<1>4. CASE ReapplyFailed
  BY <1>4, ReapplyFailedTypes, ReapplyFailedIsQuiet, QuietInv
<1>5. CASE WriteRefreshed
  BY <1>5, WriteRefreshedTypes, WriteRefreshedIsQuiet, QuietInv
<1>6. CASE NothingToRefresh
  BY <1>6, NothingToRefreshTypes, NothingToRefreshIsQuiet, QuietInv
<1>7. CASE RecordDumped
  BY <1>7, RecordDumpedTypes, RecordDumpedIsQuiet, QuietInv
<1>8. CASE RecordRefreshed
  BY <1>8, RecordRefreshedTypes, RecordRefreshedIsQuiet, QuietInv
<1>9. CASE SealRefresh
  BY <1>9, SealRefreshTypes, SealRefreshIsQuiet, QuietInv
<1>10. CASE \E n \in Numbers : RefreshStuck(n)
  BY <1>10, RefreshStuckTypes, RefreshStuckIsQuiet, QuietInv
<1> QED BY <1>1, <1>2, <1>3, <1>4, <1>5, <1>6, <1>7, <1>8, <1>9, <1>10 DEF Capture

LEMMA EnvironmentStep == ASSUME IInv, Environment PROVE IInv'
<1> USE DEF IInv
<1>1. CASE Edit
  BY <1>1, EditTypes, EditIsQuiet, QuietInv
<1>2. CASE CommitByHand
  BY <1>2, CommitByHandTypes, CommitByHandIsQuiet, QuietInv
<1>3. CASE PullFile
  BY <1>3, PullFileTypes, PullFileIsQuiet, QuietInv
<1>4. CASE PullOverlay
  BY <1>4, PullOverlayTypes, PullOverlayIsQuiet, QuietInv
<1>5. CASE Crash
  BY <1>5, CrashTypes, CrashIsQuiet, QuietInv
<1> QED BY <1>1, <1>2, <1>3, <1>4, <1>5 DEF Environment

LEMMA StutterStep == ASSUME IInv, UNCHANGED vars PROVE IInv'
<1>1. UNCHANGED <<files, series, overlay, pin, root, log, work, op, outcome, story, spent>>
  BY DEF vars
<1>2. TypeInv' /\ SilentInv'
  BY <1>1 DEF IInv, TypeInv, TypeOK, Structure, SilentInv
<1>3. UNCHANGED Covered /\ \A n \in Numbers : Taken(n)' = Taken(n)
  BY <1>1 DEF Covered, Taken
<1>4. ReplayInv'
  BY <1>1, <1>3 DEF IInv, ReplayInv, Replaying, TakenInPlace, OverlayInPlace
<1>5. AppliedInFull'
  BY <1>1 DEF IInv, AppliedInFull, PatchesInPlace, OverlayInPlace, Lasting, After, Covered
<1> QED BY <1>2, <1>4, <1>5 DEF IInv

LEMMA InitIInv == Init => IInv
<1> SUFFICES ASSUME Init PROVE IInv
  OBVIOUS
<1>1. TypeInv
  BY InitTypes
<1>2. op.pc = "idle" /\ outcome = "none"
  BY IdleType DEF Init
<1> QED BY <1>1, <1>2 DEF IInv, SilentInv, ReplayInv, Replaying, AppliedInFull

LEMMA Inductive == Spec => []IInv
<1>1. IInv /\ [Next]_vars => IInv'
  BY StartCommandStep, ReplayStep, CaptureStep, EnvironmentStep, StutterStep DEF Next
<1> QED BY InitIInv, <1>1, PTL DEF Spec

-----------------------------------------------------------------------------
(* The theorems *)

\* Types: whatever is typed, and wherever a command stops, the repository, the
\* workspace and the command in progress stay well formed.
THEOREM TypesKept == Spec => []TypeOK
<1>1. IInv => TypeOK
  BY DEF IInv, TypeInv
<1> QED BY Inductive, <1>1, PTL

\* Safety: a reported "applied" has put every registered patch and the overlay
\* in the workspace, for every series, every base and every mixture of direct
\* applications, merges and patches that upstream has taken over.
THEOREM AppliedMeansApplied == Spec => []AppliedInFull
<1>1. IInv => AppliedInFull
  BY DEF IInv
<1> QED BY Inductive, <1>1, PTL

-----------------------------------------------------------------------------
(* The tree after each patch of a series *)

\* What Stack says of the tree after patch k.
StackRule(base, fs, se, top, g) ==
  g = [k \in 0..top |-> IF k = 0 THEN base
                        ELSE IF k \in se THEN Patched(fs[k], g[k - 1])
                        ELSE g[k - 1]]

\* There is a function that obeys the rule, by induction over the highest number.
LEMMA StackExists ==
  ASSUME NEW base, NEW fs, NEW se, NEW top \in Nat
  PROVE  \E g : StackRule(base, fs, se, top, g)
<1> DEFINE E == {n \in Nat : \E g : StackRule(base, fs, se, n, g)}
<1>1. 0 \in E
  <2>1. StackRule(base, fs, se, 0, [k \in 0..0 |-> base])
    BY DEF StackRule
  <2> QED BY <2>1
<1>2. ASSUME NEW n \in Nat, n \in E PROVE n + 1 \in E
  <2>1. PICK g : StackRule(base, fs, se, n, g)
    BY <1>2
  <2> DEFINE next(f) == [k \in 0..(n + 1) |-> IF k = 0 THEN base
                                               ELSE IF k \in se THEN Patched(fs[k], f[k - 1])
                                               ELSE f[k - 1]]
  <2> DEFINE h == next(g)
  <2>2. ASSUME NEW k \in 0..n PROVE h[k] = g[k]
    <3>1. k \in 0..(n + 1)
      OBVIOUS
    <3> QED BY <2>1, <3>1, Zenon DEF StackRule
  <2>3. ASSUME NEW k \in 0..(n + 1), k # 0 PROVE h[k - 1] = g[k - 1]
    <3>1. k - 1 \in 0..n
      BY <2>3
    <3> HIDE DEF h
    <3> QED BY <2>2, <3>1
  <2>4. next(h) = h
    <3> DEFINE Of(k, f) == IF k = 0 THEN base ELSE IF k \in se THEN Patched(fs[k], f[k - 1]) ELSE f[k - 1]
    <3>1. \A k \in 0..(n + 1) : Of(k, h) = Of(k, g)
      <4> HIDE DEF h
      <4> QED BY <2>3
    <3>2. next(h) = [k \in 0..(n + 1) |-> Of(k, h)] /\ h = [k \in 0..(n + 1) |-> Of(k, g)]
      OBVIOUS
    <3> HIDE DEF h, next, Of
    <3> QED BY <3>1, <3>2
  <2>5. StackRule(base, fs, se, n + 1, h)
    BY <2>4, Zenon DEF StackRule
  <2> HIDE DEF h
  <2> QED BY <2>5
<1>3. Nat \subseteq E
  <2> HIDE DEF E
  <2> QED BY <1>1, <1>2, Induct
<1> QED BY <1>3

\* So Stack obeys it: patch by patch, a registered one is applied.
LEMMA StackSteps ==
  ASSUME NEW base, NEW fs, NEW se, NEW top \in Nat
  PROVE  LET built == Stack(base, fs, se, top)
         IN /\ built[0] = base
            /\ \A k \in 1..top : built[k] = IF k \in se THEN Patched(fs[k], built[k - 1])
                                            ELSE built[k - 1]
<1> DEFINE built == Stack(base, fs, se, top)
<1>1. \E g : StackRule(base, fs, se, top, g)
  BY StackExists
<1>2. StackRule(base, fs, se, top, built)
  BY <1>1, Zenon DEF Stack, StackRule
<1> HIDE DEF built
<1>3. 0 \in 0..top /\ \A k \in 1..top : k \in 0..top /\ k # 0
  OBVIOUS
<1>4. built[0] = base
  BY <1>2, <1>3, Zenon DEF StackRule
<1>5. ASSUME NEW k \in 1..top
      PROVE  built[k] = IF k \in se THEN Patched(fs[k], built[k - 1]) ELSE built[k - 1]
  <2>1. k \in 0..top /\ k # 0
    OBVIOUS
  <2> QED BY <1>2, <2>1, Zenon DEF StackRule
<1> QED BY <1>4, <1>5 DEF built

\* Trees built of trees are trees.
LEMMA StackType ==
  ASSUME NEW base \in Trees, NEW fs \in [Numbers -> Patches], NEW se \in SUBSET Numbers
  PROVE  \A k \in 0..MaxNumber : Stack(base, fs, se, MaxNumber)[k] \in Trees
<1> DEFINE built == Stack(base, fs, se, MaxNumber)
           E == {n \in Nat : n \in 0..MaxNumber => built[n] \in Trees}
<1>0. MaxNumber \in Nat
  BY RepositoryAssumption
<1>1. /\ built[0] = base
      /\ \A k \in 1..MaxNumber : built[k] = IF k \in se THEN Patched(fs[k], built[k - 1])
                                            ELSE built[k - 1]
  BY <1>0, StackSteps
<1> HIDE DEF built
<1>2. 0 \in E
  BY <1>1
<1>3. ASSUME NEW n \in Nat, n \in E PROVE n + 1 \in E
  <2> SUFFICES ASSUME n + 1 \in 0..MaxNumber PROVE built[n + 1] \in Trees
    OBVIOUS
  <2>1. n \in 0..MaxNumber /\ n + 1 \in 1..MaxNumber /\ (n + 1) - 1 = n
    BY <1>0
  <2>2. built[n] \in Trees
    BY <1>3, <2>1
  <2>3. n + 1 \in se => fs[n + 1] \in Patches
    BY DEF Numbers
  <2> QED BY <1>1, <2>1, <2>2, <2>3, PatchedType
<1>4. Nat \subseteq E
  <2> HIDE DEF E
  <2> QED BY <1>2, <1>3, Induct
<1> QED BY <1>4 DEF built

\* Between two registered numbers nothing changes.
LEMMA StackFlat ==
  ASSUME NEW base, NEW fs, NEW se, NEW j \in 0..MaxNumber, NEW k \in 0..MaxNumber, j <= k,
         \A m \in se : ~(j < m /\ m <= k)
  PROVE  Stack(base, fs, se, MaxNumber)[k] = Stack(base, fs, se, MaxNumber)[j]
<1> DEFINE built == Stack(base, fs, se, MaxNumber)
           E == {d \in Nat : j + d <= k => built[j + d] = built[j]}
<1>0. MaxNumber \in Nat
  BY RepositoryAssumption
<1>1. \A i \in 1..MaxNumber : built[i] = IF i \in se THEN Patched(fs[i], built[i - 1])
                                         ELSE built[i - 1]
  BY <1>0, StackSteps
<1> HIDE DEF built
<1>2. 0 \in E
  OBVIOUS
<1>3. ASSUME NEW d \in Nat, d \in E PROVE d + 1 \in E
  <2> SUFFICES ASSUME j + (d + 1) <= k PROVE built[j + (d + 1)] = built[j]
    OBVIOUS
  <2>1. j + (d + 1) \in 1..MaxNumber /\ (j + (d + 1)) - 1 = j + d /\ j + d <= k
    BY <1>0
  <2>2. j + (d + 1) \notin se
    OBVIOUS
  <2>3. built[j + (d + 1)] = built[j + d]
    BY <1>1, <2>1, <2>2
  <2> QED BY <1>3, <2>1, <2>3
<1>4. Nat \subseteq E
  <2> HIDE DEF E
  <2> QED BY <1>2, <1>3, Induct
<1>5. k - j \in E /\ j + (k - j) = k
  BY <1>4
<1> QED BY <1>5 DEF built

\* What no patch touches stays what it is in the base.
LEMMA StackUntouched ==
  ASSUME NEW base, NEW fs, NEW se, NEW s \in Spots, \A n \in se : s \notin DOMAIN fs[n]
  PROVE  \A k \in 0..MaxNumber : Stack(base, fs, se, MaxNumber)[k][s] = base[s]
<1> DEFINE built == Stack(base, fs, se, MaxNumber)
           E == {n \in Nat : n \in 0..MaxNumber => built[n][s] = base[s]}
<1>0. MaxNumber \in Nat
  BY RepositoryAssumption
<1>1. /\ built[0] = base
      /\ \A i \in 1..MaxNumber : built[i] = IF i \in se THEN Patched(fs[i], built[i - 1])
                                            ELSE built[i - 1]
  BY <1>0, StackSteps
<1> HIDE DEF built
<1>2. 0 \in E
  BY <1>1
<1>3. ASSUME NEW n \in Nat, n \in E PROVE n + 1 \in E
  <2> SUFFICES ASSUME n + 1 \in 0..MaxNumber PROVE built[n + 1][s] = base[s]
    OBVIOUS
  <2>1. n \in 0..MaxNumber /\ n + 1 \in 1..MaxNumber /\ (n + 1) - 1 = n
    BY <1>0
  <2>2. built[n][s] = base[s]
    BY <1>3, <2>1
  <2>3. n + 1 \in se => Patched(fs[n + 1], built[n])[s] = built[n][s]
    BY DEF Patched
  <2> QED BY <1>1, <2>1, <2>2, <2>3
<1>4. Nat \subseteq E
  <2> HIDE DEF E
  <2> QED BY <1>2, <1>3, Induct
<1> QED BY <1>4 DEF built

-----------------------------------------------------------------------------
(* Edits are held *)

\* A command begins, in a workspace that is there: what it does to a spot that is
\* not as HEAD has it.
LEMMA StartHolds ==
  ASSUME TypeInv, StartCommand, op'.pc # "checkout", NEW s \in Spots, Exists, work[s] # HeadTree[s]
  PROVE  work'[s] = work[s] \/ s \in DOMAIN op'.pend \/ (s = OverlaySpot /\ overlay # Absent)
<1>1. Dirty
  BY DEF Dirty
<1>2. ~Apply /\ ~Reverse /\ ~Setup /\ ~Rebase
  BY <1>1 DEF Apply, Reverse, Setup, Rebase
<1>3. ~SetupForce /\ ~RebaseForce
  <2>1. ASSUME NEW base, op' = [Idle EXCEPT !.kind = "setup", !.pc = "checkout", !.base = base]
        PROVE  FALSE
    BY <2>1, IdleType DEF Operations
  <2>2. ASSUME NEW base, NEW pins,
               op' = [Idle EXCEPT !.kind = "rebase", !.pc = "checkout", !.base = base, !.flag = pins]
        PROVE  FALSE
    BY <2>2, IdleType DEF Operations
  <2> QED BY <2>1, <2>2, Zenon DEF SetupForce, RebaseForce
<1>4. CASE Dump
  BY <1>4 DEF Dump, workspace
<1>5. CASE \E n \in Numbers : RefreshUnrecorded(n)
  BY <1>5 DEF RefreshUnrecorded, workspace
<1>6. CASE \E n \in Numbers, c \in 1..Len(log) : RefreshTop(n, c)
  BY <1>6 DEF RefreshTop
<1>7. ASSUME NEW n \in Numbers, NEW c \in 1..Len(log), RefreshWithin(n, c)
      PROVE  s \in DOMAIN op'.pend \/ (s = OverlaySpot /\ overlay # Absent)
  <2>1. op'.pend = Diff(HeadTree, Staged)
    <3> DEFINE flag == (HeadBy = Overlays)
    <3>1. op' = [Idle EXCEPT !.kind = "refresh", !.pc = "reapply", !.n = n, !.saw = work,
                             !.todo = After(n), !.flag = flag, !.pend = Diff(HeadTree, Staged)]
      BY <1>7 DEF RefreshWithin
    <3> HIDE DEF flag
    <3> QED BY <3>1, IdleType DEF Operations
  <2>2. root \in Bases
    BY DEF Exists, TypeInv, TypeOK
  <2>3. HeadTree \in Trees /\ work \in Trees
    BY <2>2, HeadType DEF TypeInv, TypeOK
  <2>4. s # OverlaySpot \/ overlay = Absent => Staged[s] = work[s]
    BY <2>3 DEF Staged, Trees
  <2> QED BY <2>1, <2>4 DEF Diff
<1> QED BY <1>2, <1>3, <1>4, <1>5, <1>6, <1>7 DEF StartCommand

\* Every other step of a command finds one in progress.
LEMMA Underway ==
  ASSUME Replay \/ Capture \/ Crash
  PROVE  op.pc # "idle"
<1>1. CASE Replay
  <2>1. ASSUME NEW n \in Numbers,
               ApplyNext(n) \/ Conflict(n) \/ Mismatch(n) \/ RevertNext(n) \/ RevertFailed(n)
        PROVE  op.pc \in {"patch", "revert"}
    BY <2>1 DEF ApplyNext, Conflict, Mismatch, Applying, RevertNext, RevertFailed, Reverting
  <2>2. CASE Checkout \/ RebaseNowhere \/ RefuseCollision \/ NothingToApply \/ RefuseMissing
             \/ AlreadyApplied \/ NotApplied \/ StartReplay \/ StartReverse
    BY <2>2 DEF Checkout, RebaseNowhere, RefuseCollision, NothingToApply, RefuseMissing,
         AlreadyApplied, NotApplied, StartReplay, StartReverse, Replayable
  <2>3. CASE CommitPatch \/ CopyOverlays \/ OverlayModified \/ SealReplay \/ PinRef \/ PinSha
             \/ Reverted
    BY <2>3 DEF CommitPatch, CopyOverlays, OverlayModified, PatchesDone, SealReplay, PinRef,
         PinSha, Reverted
  <2> QED BY <1>1, <2>1, <2>2, <2>3 DEF Replay
<1>2. CASE Capture
  BY <1>2 DEF Capture, Register, Reapply, ReapplyConflict, ReapplyFailed, WriteRefreshed,
       NothingToRefresh, RecordDumped, RecordRefreshed, SealRefresh, RefreshStuck, Applying
<1>3. CASE Crash
  BY <1>3 DEF Crash
<1> QED BY <1>1, <1>2, <1>3

\* Action property: no command but the forced ones takes an edit out of the
\* workspace when it begins, unless it holds it in memory (head_state and the clean
\* checks of run_apply and run_setup; the pending diff of dump_refresh).
THEOREM NoEditDropped == Spec => EditsHeld
<1>1. ASSUME TypeInv, [Next]_vars, op.pc = "idle", op' # op, op'.pc # "checkout",
             NEW s \in Spots, Exists, work[s] # HeadTree[s]
      PROVE  work'[s] = work[s] \/ s \in DOMAIN op'.pend \/ (s = OverlaySpot /\ overlay # Absent)
  <2>1. CASE StartCommand
    BY <1>1, <2>1, StartHolds
  <2>2. ~Replay /\ ~Capture /\ ~Crash
    BY <1>1, Underway
  <2>3. ~Edit /\ ~CommitByHand /\ ~PullFile /\ ~PullOverlay /\ ~UNCHANGED vars
    BY <1>1 DEF Edit, CommitByHand, PullFile, PullOverlay, vars
  <2> QED BY <1>1, <2>1, <2>2, <2>3 DEF Next, Environment
<1>2. IInv => TypeInv
  BY DEF IInv
<1>3. TypeInv /\ [Next]_vars =>
        [op.pc = "idle" /\ op' # op /\ op'.pc # "checkout" =>
           \A s \in Spots : Exists /\ work[s] # HeadTree[s] =>
             \/ work'[s] = work[s]
             \/ s \in DOMAIN op'.pend
             \/ s = OverlaySpot /\ overlay # Absent]_vars
  BY <1>1
<1> QED BY <1>2, <1>3, Inductive, PTL DEF Spec, EditsHeld

-----------------------------------------------------------------------------
(* What lint accepts sets up *)

Built(k) == Stack(BaseTree[root], files, series, MaxNumber)[k]
\* The replay has taken the patches up to number k.
Upto(k) == \A m \in series : m \in op.todo <=> m > k
Touched == \E n \in series : OverlaySpot \in DOMAIN files[n]

\* A setup checks out a base and replays the series on it; if lint accepts the
\* series, what it has at each patch is what the patches before it give.
SetupInv ==
  /\ op.pc = "idle" => op = Idle
  /\ op.kind = "setup" =>
       /\ op.pc \in {"checkout", "begin", "patch", "commit", "seal"}
       /\ op.skip = 0
       /\ op.pc = "begin" => work = BaseTree[root]
       /\ root = pin.sha /\ Lints =>
            /\ op.pc \in {"patch", "commit"} =>
                 \E k \in 0..MaxNumber : Upto(k) /\ work = Built(k)
            /\ op.pc = "seal" => work = PackageTree

\* The lowest and highest of a set of patch numbers.
LEMMA LowestIs ==
  ASSUME NEW S \in SUBSET Numbers, S # {}
  PROVE  Lowest(S) \in S /\ \A m \in S : Lowest(S) <= m
<1>1. S \in SUBSET Nat
  BY DEF Numbers
<1>2. \E n \in S : \A m \in S : n <= m
  BY <1>1, Least
<1> QED BY <1>2 DEF Lowest

\* An edit changes something: a patch that applies does not revert.
LEMMA FitsOrReverses ==
  ASSUME NEW p \in Patches, p # NoPatch, NEW t, Fits(p, t)
  PROVE  ~Reverses(p, t)
<1>1. PICK D \in SUBSET Spots : p \in [D -> Edits]
  BY DEF Patches
<1>2. D # {}
  <2> SUFFICES ASSUME D = {} PROVE FALSE
    OBVIOUS
  <2>1. p = [s \in {} |-> s]
    BY <1>1
  <2> QED BY <2>1 DEF NoPatch
<1>3. PICK s \in D : TRUE
  BY <1>2
<1>4. p[s].old # p[s].new
  BY <1>1, <1>3 DEF Edits
<1> QED BY <1>1, <1>3, <1>4 DEF Fits, Reverses

\* What lint says of the series, on the base it is applied to.
LEMMA LintSays ==
  ASSUME TypeInv, root \in Bases, root = pin.sha, Lints
  PROVE  /\ series # {} /\ ~Missing
         /\ ~Collides(root)
         /\ \A n \in series : n \in 1..MaxNumber /\ files[n] \in Patches /\ Fits(files[n], Built(n - 1))
         /\ Built(0) = BaseTree[root]
         /\ \A n \in series : Built(n) = Patched(files[n], Built(n - 1))
<1>1. series # {} /\ series = {n \in Numbers : files[n] # NoPatch}
  BY DEF Lints
<1>2. ~Missing
  BY <1>1 DEF Missing
<1>3. ~Collides(root)
  BY DEF Lints
<1>4. \A n \in series : n \in 1..MaxNumber /\ files[n] \in Patches
  BY DEF TypeInv, TypeOK, Numbers
<1>5. \A n \in series : Fits(files[n], Built(n - 1))
  BY DEF Lints, StackFits, Built
<1>6. Built(0) = BaseTree[root] /\ \A n \in series : Built(n) = Patched(files[n], Built(n - 1))
  BY <1>4, RepositoryAssumption, StackSteps DEF Built
<1> QED BY <1>1, <1>2, <1>3, <1>4, <1>5, <1>6

\* When the next patch of a replay is n, all before it are taken.
LEMMA NextInLine ==
  ASSUME TypeInv, NEW n \in series, n \in op.todo, \A m \in op.todo : n <= m,
         NEW k \in 0..MaxNumber, Upto(k)
  PROVE  /\ Built(k) = Built(n - 1)
         /\ \A m \in series : m \in op.todo \ {n} <=> m > n
<1>1. /\ n \in Int /\ k \in Int /\ k < n /\ n - 1 \in 0..MaxNumber /\ k <= n - 1
      /\ series \subseteq Int
  BY RepositoryAssumption DEF TypeInv, TypeOK, Numbers, Upto
<1>2. \A m \in series : ~(k < m /\ m <= n - 1)
  BY <1>1 DEF Upto
<1>3. Built(n - 1) = Built(k)
  <2>1. \A j \in 0..MaxNumber :
          k <= j /\ (\A m \in series : ~(k < m /\ m <= j)) => Built(j) = Built(k)
    BY StackFlat DEF Built
  <2> QED BY <1>1, <1>2, <2>1
<1>4. \A m \in series : m \in op.todo \ {n} <=> m > n
  BY <1>1 DEF Upto
<1> QED BY <1>3, <1>4

\* When none is left, all of the series is built.
LEMMA NoneLeft ==
  ASSUME TypeInv, op.todo = {}, NEW k \in 0..MaxNumber, Upto(k)
  PROVE  Built(k) = Built(MaxNumber)
<1>1. MaxNumber \in 0..MaxNumber /\ k <= MaxNumber
  BY RepositoryAssumption
<1>2. \A m \in series : ~(k < m /\ m <= MaxNumber)
  BY DEF Upto, TypeInv, TypeOK, Numbers
<1> QED BY <1>1, <1>2, StackFlat DEF Built

\* Nothing a setup depends on changes while it runs.
LEMMA SetupFrame ==
  ASSUME UNCHANGED <<files, series, overlay, pin, root>>
  PROVE  /\ (root = pin.sha /\ Lints)' <=> (root = pin.sha /\ Lints)
         /\ PackageTree' = PackageTree
         /\ \A k \in 0..MaxNumber : Built(k)' = Built(k)
<1>1. Lints' <=> Lints
  BY DEF Lints, Collides
<1>2. PackageTree' = PackageTree
  BY DEF PackageTree
<1>3. \A k \in 0..MaxNumber : Built(k)' = Built(k)
  BY DEF Built
<1> QED BY <1>1, <1>2, <1>3

\* The steps of a setup, but for those that end it.
LEMMA SetupGoesOn ==
  ASSUME IInv, SetupInv, op.kind = "setup", Replay, op'.pc # "idle"
  PROVE  SetupInv'
<1>0. op.pc \in {"checkout", "begin", "patch", "commit", "seal"} /\ op \in Operations /\ TypeInv
  BY DEF SetupInv, IInv, TypeInv, TypeOK
<1>1. CASE Checkout
  <2>1. op' = [op EXCEPT !.pc = "begin", !.base = NoBase] /\ work' = BaseTree[root']
    BY <1>1 DEF Checkout, CheckedOut, Proceed
  <2> QED BY <1>0, <2>1 DEF SetupInv, Operations
<1>2. CASE StartReplay
  <2>1. op' = [op EXCEPT !.pc = "patch", !.todo = series \ {op.skip}]
        /\ UNCHANGED <<files, series, overlay, pin, root, work>> /\ op.pc = "begin"
    BY <1>2 DEF StartReplay, Replayable, Proceed, repository, workspace
  <2>2. op'.todo = series /\ op'.kind = "setup" /\ op'.skip = 0 /\ op'.pc = "patch"
    <3>1. 0 \notin series
      BY <1>0 DEF TypeInv, TypeOK, Numbers
    <3> QED BY <1>0, <2>1, <3>1 DEF SetupInv, Operations
  <2>3. Upto(0)'
    BY <1>0, <2>1, <2>2 DEF Upto, TypeInv, TypeOK, Numbers
  <2>4. work' = Built(0)'
    BY <2>1, RepositoryAssumption, StackSteps DEF SetupInv, Built
  <2>5. 0 \in 0..MaxNumber
    BY RepositoryAssumption
  <2> QED BY <2>2, <2>3, <2>4, <2>5 DEF SetupInv
<1>3. ASSUME NEW n \in Numbers, ApplyNext(n)
      PROVE  SetupInv'
  <2>1. /\ op'.kind = op.kind /\ op'.skip = op.skip /\ op'.todo = op.todo \ {n}
        /\ op'.pc \in {"patch", "commit"}
        /\ op.pc = "patch" /\ n \in op.todo /\ \A m \in op.todo : n <= m
        /\ work' = Patched(files[n], work) /\ UNCHANGED <<files, series, overlay, pin, root>>
    BY <1>0, <1>3 DEF ApplyNext, Applying, Proceed, Operations, repository
  <2>2. ASSUME root = pin.sha, Lints
        PROVE  \E k \in 0..MaxNumber : Upto(k)' /\ work' = Built(k)'
    <3>1. PICK k \in 0..MaxNumber : Upto(k) /\ work = Built(k)
      BY <2>1, <2>2 DEF SetupInv
    <3>2. n \in series
      BY <1>0, <2>1 DEF IInv, ReplayInv, Replaying
    <3>3. Built(k) = Built(n - 1) /\ \A m \in series : m \in op.todo \ {n} <=> m > n
      BY <1>0, <2>1, <3>1, <3>2, NextInLine
    <3>4. root \in Bases
      BY <1>0, <2>1 DEF TypeInv, Structure
    <3>5. Built(n) = Patched(files[n], Built(n - 1)) /\ n \in 0..MaxNumber
      BY <1>0, <2>2, <3>2, <3>4, LintSays
    <3>6. Upto(n)' /\ work' = Built(n)'
      BY <2>1, <3>1, <3>3, <3>5, SetupFrame DEF Upto
    <3> QED BY <3>5, <3>6
  <2> QED BY <2>1, <2>2, SetupFrame DEF SetupInv
<1>4. CASE CommitPatch
  <2>1. /\ op'.kind = op.kind /\ op'.skip = op.skip /\ op'.todo = op.todo /\ op'.pc = "patch"
        /\ op.pc = "commit" /\ UNCHANGED <<files, series, overlay, pin, root, work>>
    BY <1>0, <1>4 DEF CommitPatch, Proceed, Operations, repository
  <2>2. \A k \in 0..MaxNumber : Upto(k)' <=> Upto(k)
    BY <2>1 DEF Upto
  <2> QED BY <2>1, <2>2, SetupFrame DEF SetupInv
<1>5. CASE CopyOverlays
  <2>1. /\ op'.kind = op.kind /\ op'.skip = op.skip /\ op'.pc = "seal"
        /\ op.pc = "patch" /\ op.todo = {} /\ UNCHANGED <<files, series, overlay, pin, root>>
        /\ work' = IF overlay = Absent THEN work ELSE [work EXCEPT ![OverlaySpot] = overlay]
    BY <1>0, <1>5 DEF CopyOverlays, PatchesDone, PassesOver, Proceed, Operations, repository
  <2>2. ASSUME root = pin.sha, Lints
        PROVE  work' = PackageTree
    <3>1. PICK k \in 0..MaxNumber : Upto(k) /\ work = Built(k)
      BY <2>1, <2>2 DEF SetupInv
    <3>2. work = Built(MaxNumber)
      BY <1>0, <2>1, <3>1, NoneLeft
    <3> QED BY <2>1, <2>2, <3>2 DEF PackageTree, Built
  <2> QED BY <2>1, <2>2, SetupFrame DEF SetupInv
<1>6. ~SealReplay
  <2> SUFFICES ASSUME SealReplay PROVE FALSE
    OBVIOUS
  <2>1. op' = Idle
    BY DEF SealReplay, Replayed, Finish
  <2> QED BY <2>1, IdleType
<1>7. ~NothingToApply /\ ~AlreadyApplied
  <2>1. Replayed("noop", Untouched) \/ Replayed("already", Untouched) => op' = Idle
    BY DEF Replayed, Finish
  <2> QED BY <2>1, IdleType DEF NothingToApply, AlreadyApplied
<1>8. ~RebaseNowhere /\ ~RefuseCollision /\ ~RefuseMissing /\ ~NotApplied /\ ~OverlayModified /\ ~Reverted
  BY IdleType DEF RebaseNowhere, RefuseCollision, RefuseMissing, NotApplied, OverlayModified,
     Reverted, Finish
<1>9. ~StartReverse /\ ~PinRef /\ ~PinSha
  BY <1>0 DEF StartReverse, PinRef, PinSha
<1>10. \A n \in Numbers : ~Conflict(n) /\ ~Mismatch(n) /\ ~RevertNext(n) /\ ~RevertFailed(n)
  BY <1>0, IdleType DEF Conflict, Mismatch, RevertNext, RevertFailed, Reverting, Finish
<1> QED BY <1>1, <1>2, <1>3, <1>4, <1>5, <1>6, <1>7, <1>8, <1>9, <1>10 DEF Replay

\* A setup that ends, for a series lint accepts, and does not die.
LEMMA SetupEnds ==
  ASSUME IInv, SetupInv, op.kind = "setup", Replay, op'.pc = "idle", root = pin.sha, Lints
  PROVE  (outcome' = "applied" /\ work' = PackageTree) \/ Touched
<1>0. op.pc \in {"checkout", "begin", "patch", "commit", "seal"} /\ op \in Operations /\ TypeInv
  BY DEF SetupInv, IInv, TypeInv, TypeOK
<1>1. ~Checkout /\ ~StartReplay /\ ~CommitPatch /\ ~CopyOverlays /\ \A n \in Numbers : ~ApplyNext(n)
  <2>1. Checkout => op'.pc = "begin"
    BY <1>0 DEF Checkout, Proceed, Operations
  <2>2. StartReplay \/ CommitPatch => op'.pc = "patch"
    BY <1>0 DEF StartReplay, CommitPatch, Proceed, Operations
  <2>3. CopyOverlays => op'.pc = "seal"
    BY <1>0 DEF CopyOverlays, Proceed, Operations
  <2>4. ASSUME NEW n \in Numbers, ApplyNext(n) PROVE op'.pc \in {"patch", "commit"}
    BY <1>0, <2>4 DEF ApplyNext, Proceed, Operations
  <2> QED BY <2>1, <2>2, <2>3, <2>4
<1>2. ~RebaseNowhere /\ ~NotApplied /\ ~Reverted /\ ~StartReverse /\ ~PinRef /\ ~PinSha
  BY <1>0 DEF RebaseNowhere, NotApplied, Reverted, StartReverse, PinRef, PinSha
<1>3. \A n \in Numbers : ~RevertNext(n) /\ ~RevertFailed(n)
  BY <1>0 DEF RevertNext, RevertFailed, Reverting
<1>4. root \in Bases \/ op.pc = "checkout"
  BY <1>0, IdleType DEF TypeInv, Structure
<1>5. ~RefuseCollision /\ ~NothingToApply /\ ~RefuseMissing
  <2> SUFFICES ASSUME op.pc = "begin" PROVE ~Collides(OverlayBase) /\ series # {} /\ ~Missing
    BY DEF RefuseCollision, NothingToApply, RefuseMissing
  <2> QED BY <1>0, <1>4, LintSays DEF OverlayBase
<1>6. ~AlreadyApplied
  <2> SUFFICES ASSUME op.pc = "begin" PROVE ~SeemsApplied
    BY DEF AlreadyApplied, Replayable
  <2> DEFINE n == Lowest(series)
  <2>1. /\ series # {} /\ ~Missing
        /\ \A i \in series : i \in 1..MaxNumber /\ files[i] \in Patches /\ Fits(files[i], Built(i - 1))
        /\ Built(0) = BaseTree[root] /\ work = BaseTree[root]
    BY <1>0, <1>4, LintSays DEF SetupInv
  <2>2. n \in series /\ \A m \in series : n <= m
    BY <1>0, <2>1, LowestIs DEF TypeInv, TypeOK
  <2>3. Built(n - 1) = Built(0)
    <3>1. \A j \in 0..MaxNumber : (\A m \in series : ~(0 < m /\ m <= j)) => Built(j) = Built(0)
      BY RepositoryAssumption, StackFlat DEF Built
    <3> HIDE DEF n
    <3>2. n - 1 \in 0..MaxNumber /\ \A m \in series : ~(0 < m /\ m <= n - 1)
      BY <2>1, <2>2, RepositoryAssumption
    <3> QED BY <3>1, <3>2
  <2>4. files[n] \in Patches /\ files[n] # NoPatch /\ Fits(files[n], work)
    BY <2>1, <2>2, <2>3 DEF Missing
  <2>5. ~Reverses(files[n], work)
    BY <2>4, FitsOrReverses
  <2> QED BY <2>5 DEF SeemsApplied
<1>7. ASSUME NEW n \in Numbers, Conflict(n) \/ Mismatch(n)
      PROVE  FALSE
  <2>1. op.pc = "patch" /\ n \in op.todo /\ (\A m \in op.todo : n <= m) /\ ~Fits(files[n], work)
    BY <1>7 DEF Conflict, Mismatch, Applying
  <2>2. PICK k \in 0..MaxNumber : Upto(k) /\ work = Built(k)
    BY <2>1 DEF SetupInv
  <2>3. n \in series
    BY <2>1 DEF IInv, ReplayInv, Replaying
  <2>4. work = Built(n - 1)
    BY <1>0, <2>1, <2>2, <2>3, NextInLine
  <2> QED BY <1>0, <1>4, <2>1, <2>3, <2>4, LintSays
<1>8. CASE OverlayModified
  <2>1. op.pc = "patch" /\ op.todo = {} /\ overlay # Absent /\ work[OverlaySpot] # Absent
    BY <1>8 DEF OverlayModified, PatchesDone, OverlayInWay
  <2>2. PICK k \in 0..MaxNumber : Upto(k) /\ work = Built(k)
    BY <2>1 DEF SetupInv
  <2>3. BaseTree[root][OverlaySpot] = Absent
    BY <1>0, <1>4, <2>1, LintSays DEF Collides
  <2>4. ASSUME ~Touched PROVE \A j \in 0..MaxNumber : Built(j)[OverlaySpot] = BaseTree[root][OverlaySpot]
    <3>1. \A n \in series : OverlaySpot \notin DOMAIN files[n]
      BY <2>4 DEF Touched
    <3>2. \A j \in 0..MaxNumber :
            Stack(BaseTree[root], files, series, MaxNumber)[j][OverlaySpot]
              = BaseTree[root][OverlaySpot]
      <4> DEFINE base == BaseTree[root]
      <4> HIDE DEF base
      <4>1. \A j \in 0..MaxNumber :
              Stack(base, files, series, MaxNumber)[j][OverlaySpot] = base[OverlaySpot]
        BY <3>1, SpotAssumption, StackUntouched
      <4> QED BY <4>1 DEF base
    <3> QED BY <3>2 DEF Built
  <2> QED BY <2>1, <2>2, <2>3, <2>4
<1>9. CASE SealReplay
  <2>1. op.pc = "seal" /\ op.skip \notin series /\ work' = work
    BY <1>0, <1>9 DEF SealReplay, SetupInv, TypeInv, TypeOK, Numbers
  <2>2. outcome' = "applied"
    BY <2>1, <1>9 DEF SealReplay, Replayed, Finish
  <2> QED BY <2>1, <2>2 DEF SetupInv
<1> QED BY <1>1, <1>2, <1>3, <1>5, <1>6, <1>7, <1>8, <1>9 DEF Replay

\* A command that begins, one that is no setup, what the user does and a crash.
LEMMA SetupStarts ==
  ASSUME TypeInv, StartCommand
  PROVE  SetupInv'
<1>1. CASE Setup
  <2>1. op' = [Idle EXCEPT !.kind = "setup", !.pc = "begin"] /\ work' = BaseTree[root']
    BY <1>1 DEF Setup, CheckedOut
  <2>2. op'.kind = "setup" /\ op'.pc = "begin" /\ op'.skip = 0
    BY <2>1, IdleType DEF Operations, Idle
  <2> QED BY <2>1, <2>2 DEF SetupInv
<1>2. CASE SetupForce
  <2>1. PICK base \in Bases :
          op' = [Idle EXCEPT !.kind = "setup", !.pc = "checkout", !.base = base]
    BY <1>2, Zenon DEF SetupForce
  <2>2. op'.kind = "setup" /\ op'.pc = "checkout" /\ op'.skip = 0
    BY <2>1, IdleType DEF Operations, Idle
  <2> QED BY <2>2 DEF SetupInv
<1>3. ASSUME op'.kind # "setup", op'.pc # "idle" PROVE SetupInv'
  BY <1>3 DEF SetupInv
<1>4. CASE Apply
  BY <1>3, <1>4, IdleType DEF Apply, Operations
<1>5. CASE Reverse
  BY <1>3, <1>5, IdleType DEF Reverse, Operations
<1>6. CASE Rebase
  BY <1>3, <1>6, IdleType DEF Rebase, Operations
<1>7. CASE RebaseForce
  BY <1>3, <1>7, IdleType DEF RebaseForce, Operations
<1>8. CASE Dump
  BY <1>3, <1>8, IdleType DEF Dump, Operations
<1>9. ASSUME NEW n \in Numbers, RefreshUnrecorded(n)
      PROVE  SetupInv'
  BY <1>3, <1>9, IdleType DEF RefreshUnrecorded, Operations
<1>10. ASSUME NEW n \in Numbers, NEW c \in 1..Len(log), RefreshTop(n, c)
       PROVE  SetupInv'
  <2> DEFINE flag == (c # Len(log))
  <2>1. op' = [Idle EXCEPT !.kind = "refresh", !.pc = "write", !.n = n, !.saw = work,
                           !.todo = After(n), !.flag = flag]
    BY <1>10 DEF RefreshTop
  <2> HIDE DEF flag
  <2> QED BY <1>3, <2>1, IdleType DEF Operations
<1>11. ASSUME NEW n \in Numbers, NEW c \in 1..Len(log), RefreshWithin(n, c)
       PROVE  SetupInv'
  <2> DEFINE flag == (HeadBy = Overlays)
  <2>1. op' = [Idle EXCEPT !.kind = "refresh", !.pc = "reapply", !.n = n, !.saw = work,
                           !.todo = After(n), !.flag = flag, !.pend = Diff(HeadTree, Staged)]
    BY <1>11 DEF RefreshWithin
  <2> HIDE DEF flag
  <2> QED BY <1>3, <2>1, IdleType DEF Operations
<1> QED BY <1>1, <1>2, <1>4, <1>5, <1>6, <1>7, <1>8, <1>9, <1>10, <1>11 DEF StartCommand

LEMMA IdleIsOver == ASSUME op' = Idle PROVE SetupInv'
BY IdleType DEF SetupInv, Idle

\* A step of a replay ends in another point or, unless a pin is written, idle.
LEMMA ReplayEnds ==
  ASSUME TypeInv, Replay, op'.pc = "idle"
  PROVE  op' = Idle
<1>0. op \in Operations
  BY DEF TypeInv, TypeOK
<1>1. ~Checkout /\ ~StartReplay /\ ~StartReverse /\ ~CommitPatch /\ ~CopyOverlays /\ ~PinRef
  BY <1>0 DEF Checkout, StartReplay, StartReverse, CommitPatch, CopyOverlays, PinRef, Proceed,
     Operations
<1>2. ASSUME NEW n \in Numbers, ApplyNext(n) \/ RevertNext(n)
      PROVE  FALSE
  <2>1. ~ApplyNext(n)
    <3>1. ApplyNext(n) => op'.pc \in {"patch", "commit"}
      BY <1>0 DEF ApplyNext, Proceed, Operations
    <3> QED BY <3>1
  <2>2. ~RevertNext(n)
    <3>1. RevertNext(n) => op'.pc = "revert"
      BY <1>0 DEF RevertNext, Reverting, Proceed, Operations
    <3> QED BY <3>1
  <2> QED BY <1>2, <2>1, <2>2
<1>3. RebaseNowhere \/ RefuseCollision \/ RefuseMissing \/ NotApplied \/ OverlayModified
        \/ Reverted \/ PinSha => op' = Idle
  BY DEF RebaseNowhere, RefuseCollision, RefuseMissing, NotApplied, OverlayModified, Reverted,
     PinSha, Proceed, Finish
<1>4. ASSUME NEW how, NEW then, Replayed(how, then) PROVE op' = Idle
  <2>1. op' = [op EXCEPT !.pc = "ref"] => op'.pc = "ref"
    BY <1>0 DEF Operations
  <2> QED BY <1>4, <2>1 DEF Replayed, Finish
<1>5. NothingToApply \/ AlreadyApplied => op' = Idle
  BY <1>4 DEF NothingToApply, AlreadyApplied
<1>6. SealReplay => op' = Idle
  BY <1>4 DEF SealReplay
<1>7. \A n \in Numbers : Conflict(n) \/ Mismatch(n) \/ RevertFailed(n) => op' = Idle
  BY DEF Conflict, Mismatch, RevertFailed, Finish
<1> QED BY <1>1, <1>2, <1>3, <1>5, <1>6, <1>7 DEF Replay

\* No step of a command changes what it is, but for those that end it.
LEMMA KindStays ==
  ASSUME TypeInv, Replay \/ Capture
  PROVE  op'.kind = op.kind \/ op' = Idle
<1>0. op \in Operations
  BY DEF TypeInv, TypeOK
<1>1. CASE Replay
  <2>1. Checkout \/ StartReplay \/ StartReverse \/ CommitPatch \/ CopyOverlays \/ PinRef
          => op'.kind = op.kind
    BY <1>0 DEF Checkout, StartReplay, StartReverse, CommitPatch, CopyOverlays, PinRef, Proceed,
       Operations
  <2>2. \A n \in Numbers : ApplyNext(n) \/ RevertNext(n) => op'.kind = op.kind
    <3>1. \A n \in Numbers : ApplyNext(n) => op'.kind = op.kind
      BY <1>0 DEF ApplyNext, Proceed, Operations
    <3>2. \A n \in Numbers : RevertNext(n) => op'.kind = op.kind
      BY <1>0 DEF RevertNext, Proceed, Operations
    <3> QED BY <3>1, <3>2
  <2>3. RebaseNowhere \/ RefuseCollision \/ RefuseMissing \/ NotApplied \/ OverlayModified
          \/ Reverted \/ PinSha => op' = Idle
    BY DEF RebaseNowhere, RefuseCollision, RefuseMissing, NotApplied, OverlayModified, Reverted,
       PinSha, Proceed, Finish
  <2>4. ASSUME NEW how, NEW then, Replayed(how, then) PROVE op'.kind = op.kind \/ op' = Idle
    <3>1. op' = [op EXCEPT !.pc = "ref"] => op'.kind = op.kind
      BY <1>0 DEF Operations
    <3> QED BY <2>4, <3>1 DEF Replayed, Finish
  <2>5. NothingToApply \/ AlreadyApplied \/ SealReplay => op'.kind = op.kind \/ op' = Idle
    BY <2>4 DEF NothingToApply, AlreadyApplied, SealReplay
  <2>6. \A n \in Numbers : Conflict(n) \/ Mismatch(n) \/ RevertFailed(n) => op' = Idle
    BY DEF Conflict, Mismatch, RevertFailed, Finish
  <2> QED BY <1>1, <2>1, <2>2, <2>3, <2>5, <2>6 DEF Replay
<1>2. CASE Capture
  <2>1. Reapply \/ WriteRefreshed => op'.kind = op.kind
    BY <1>0 DEF Reapply, WriteRefreshed, Proceed, Operations
  <2>2. RecordDumped => op'.kind = op.kind \/ op' = Idle
    BY <1>0 DEF RecordDumped, Proceed, Finish, Operations
  <2>3. RecordRefreshed => op'.kind = op.kind
    <3> DEFINE flag == (op.flag \/ overlay # Absent)
    <3>1. RecordRefreshed =>
            op' = [op EXCEPT !.pc = "seal"] \/ op' = [op EXCEPT !.pc = "patch", !.flag = flag]
      BY DEF RecordRefreshed, Proceed
    <3> HIDE DEF flag
    <3> QED BY <1>0, <3>1 DEF Operations
  <2>4. Register \/ ReapplyConflict \/ ReapplyFailed \/ NothingToRefresh \/ SealRefresh
          \/ (\E n \in Numbers : RefreshStuck(n)) => op' = Idle
    BY DEF Register, ReapplyConflict, ReapplyFailed, NothingToRefresh, SealRefresh, RefreshStuck,
       Finish
  <2> QED BY <1>2, <2>1, <2>2, <2>3, <2>4 DEF Capture
<1> QED BY <1>1, <1>2

\* A capture that ends idle is over, and no setup is a capture.
LEMMA CaptureEnds ==
  ASSUME TypeInv, Capture
  PROVE  op'.pc = "idle" => op' = Idle
<1>0. op \in Operations
  BY DEF TypeInv, TypeOK
<1>1. Reapply => op'.pc = "write"
  BY <1>0 DEF Reapply, Proceed, Operations
<1>2. WriteRefreshed => op'.pc = "record"
  BY <1>0 DEF WriteRefreshed, Proceed, Operations
<1>3. RecordDumped => op'.pc = "register" \/ op' = Idle
  BY <1>0 DEF RecordDumped, Proceed, Finish, Operations
<1>4. RecordRefreshed => op'.pc \in {"seal", "patch"}
  <2> DEFINE flag == (op.flag \/ overlay # Absent)
  <2>1. RecordRefreshed =>
          op' = [op EXCEPT !.pc = "seal"] \/ op' = [op EXCEPT !.pc = "patch", !.flag = flag]
    BY DEF RecordRefreshed, Proceed
  <2> HIDE DEF flag
  <2> QED BY <1>0, <2>1 DEF Operations
<1>5. Register \/ ReapplyConflict \/ ReapplyFailed \/ NothingToRefresh \/ SealRefresh
        \/ (\E n \in Numbers : RefreshStuck(n)) => op' = Idle
  BY DEF Register, ReapplyConflict, ReapplyFailed, NothingToRefresh, SealRefresh, RefreshStuck,
     Finish
<1> QED BY <1>1, <1>2, <1>3, <1>4, <1>5 DEF Capture

\* No setup is at a point of a capture.
LEMMA NoSetupCaptures ==
  ASSUME SetupInv, Capture
  PROVE  op.kind # "setup"
<1> SUFFICES ASSUME op.kind = "setup" PROVE FALSE
  OBVIOUS
<1>1. op.pc \in {"checkout", "begin", "patch", "commit", "seal"}
  BY DEF SetupInv
<1>2. ~(\E n \in Numbers : RefreshStuck(n))
  BY DEF RefreshStuck
<1> QED BY <1>1, <1>2 DEF Capture, Register, Reapply, ReapplyConflict, ReapplyFailed,
       WriteRefreshed, NothingToRefresh, RecordDumped, RecordRefreshed, SealRefresh

\* SetupInv is inductive.
LEMMA SetupStep ==
  ASSUME IInv, SetupInv, [Next]_vars
  PROVE  SetupInv'
<1>0. TypeInv
  BY DEF IInv
<1>1. CASE StartCommand
  BY <1>0, <1>1, SetupStarts
<1>2. CASE Replay
  <2>1. CASE op'.pc = "idle"
    BY <1>0, <1>2, <2>1, ReplayEnds, IdleIsOver
  <2>2. CASE op.kind = "setup" /\ op'.pc # "idle"
    BY <1>2, <2>2, SetupGoesOn
  <2>3. CASE op.kind # "setup" /\ op'.pc # "idle"
    <3>1. op'.kind # "setup"
      BY <1>0, <1>2, <2>3, KindStays, IdleType
    <3> QED BY <2>3, <3>1 DEF SetupInv
  <2> QED BY <2>1, <2>2, <2>3
<1>3. CASE Capture
  <2>1. CASE op'.pc = "idle"
    BY <1>0, <1>3, <2>1, CaptureEnds, IdleIsOver
  <2>2. CASE op'.pc # "idle"
    <3>1. op'.kind # "setup"
      BY <1>0, <1>3, <2>2, NoSetupCaptures, KindStays, IdleType
    <3> QED BY <2>2, <3>1 DEF SetupInv
  <2> QED BY <2>1, <2>2
<1>4. CASE Edit \/ CommitByHand \/ PullFile \/ PullOverlay
  <2>1. op.pc = "idle" /\ op' = op
    BY <1>4 DEF Edit, CommitByHand, PullFile, PullOverlay, Turn
  <2> QED BY <2>1, IdleIsOver DEF SetupInv
<1>5. CASE Crash
  BY <1>5, IdleIsOver DEF Crash, Finish
<1>6. CASE UNCHANGED vars
  <2>1. UNCHANGED <<files, series, overlay, pin, root, work, op>>
    BY <1>6 DEF vars
  <2>2. \A k \in 0..MaxNumber : Upto(k)' <=> Upto(k)
    BY <2>1 DEF Upto
  <2> QED BY <2>1, <2>2, SetupFrame DEF SetupInv
<1> QED BY <1>1, <1>2, <1>3, <1>4, <1>5, <1>6 DEF Next, Environment

\* Action property: a series that lint accepts sets up (run_setup, and run_apply on
\* what it has checked out, dies of nothing else than the file the overlay holds),
\* and gives the tree that run_package_stage packages.
THEOREM LintedSetsUp == Spec => LintMeansSetup
<1>1. Init => SetupInv
  BY IdleType DEF Init, SetupInv, Idle
<1>2. IInv /\ SetupInv /\ [Next]_vars => SetupInv'
  BY SetupStep
<1>3. Spec => []SetupInv
  BY <1>1, <1>2, Inductive, PTL DEF Spec
<1>4. ASSUME IInv, SetupInv, [Next]_vars,
             op.kind = "setup", op'.pc = "idle", outcome' # "crashed", root = pin.sha, Lints,
             ~UNCHANGED vars
      PROVE  (outcome' = "applied" /\ work' = PackageTree) \/ Touched
  <2>1. op.pc # "idle"
    BY <1>4 DEF SetupInv
  <2>2. ~StartCommand
    <3>1. ~Turn
      BY <2>1 DEF Turn
    <3>2. StartCommand => Turn
      BY Zenon DEF StartCommand, Apply, Reverse, Setup, SetupForce, Rebase, RebaseForce, Dump,
         RefreshUnrecorded, RefreshTop, RefreshWithin, Refreshable
    <3> QED BY <3>1, <3>2
  <2>3. ~Capture
    BY <1>4, NoSetupCaptures
  <2>4. ~Environment
    BY <1>4, <2>1 DEF Environment, Edit, CommitByHand, PullFile, PullOverlay, Turn, Crash, Finish
  <2> QED BY <1>4, <2>2, <2>3, <2>4, SetupEnds DEF Next
<1>5. IInv /\ SetupInv /\ [Next]_vars =>
        [op.kind = "setup" /\ op'.pc = "idle" /\ outcome' # "crashed" /\ root = pin.sha /\ Lints
           => \/ outcome' = "applied" /\ work' = PackageTree
              \/ \E n \in series : OverlaySpot \in DOMAIN files[n]]_vars
  BY <1>4 DEF Touched
<1> QED BY <1>3, <1>5, Inductive, PTL DEF Spec, LintMeansSetup

-----------------------------------------------------------------------------
(* What a log tells of a series: g is the tree after each number, cov the spots *)
(* that belong to overlays/, and the log has come up to patch k.                *)

TreeAt(base, l, i) == IF i = 0 THEN base ELSE l[i].tree
Agree(t, u, cov) == \A s \in Spots \ cov : t[s] = u[s]
IsPatch(l, i) == l[i].by # Overlays
\* The commits up to i, and no others, are of patches up to m.
Split(l, i, m) == \A j \in 1..Len(l) : IsPatch(l, j) => (j <= i <=> l[j].by <= m)

Tells(g, base, S, cov, l, k) ==
  /\ \A i \in 1..Len(l) : IsPatch(l, i) => l[i].by \in S /\ l[i].by <= k
  /\ \A i, j \in 1..Len(l) : i < j /\ IsPatch(l, i) /\ IsPatch(l, j) => l[i].by < l[j].by
  /\ \A m \in S : m <= k => (g[m] # g[m - 1] <=> \E i \in 1..Len(l) : l[i].by = m)
  /\ \A i \in 0..Len(l), m \in 0..k : Split(l, i, m) => Agree(TreeAt(base, l, i), g[m], cov)
  /\ \A i \in 1..Len(l) : IsPatch(l, i) => \A s \in cov : l[i].tree[s] = TreeAt(base, l, i - 1)[s]

LEMMA NumberIs == ASSUME NEW n \in Numbers PROVE n \in Nat /\ n # 0 /\ n # Overlays /\ n <= MaxNumber
BY RepositoryAssumption DEF Numbers, Overlays

\* A log that is cut where the patches up to m end tells of the series up to m.
LEMMA TellsCut ==
  ASSUME NEW g, NEW base, NEW S \in SUBSET Numbers, NEW cov, NEW l \in Seq(Commits),
         NEW k \in Nat, Tells(g, base, S, cov, l, k),
         NEW c \in 0..Len(l), NEW m \in 0..k, Split(l, c, m)
  PROVE  Tells(g, base, S, cov, SubSeq(l, 1, c), m)
<1> DEFINE r == SubSeq(l, 1, c)
<1>1. Len(l) \in Nat /\ Len(r) = c /\ \A i \in 1..c : r[i] = l[i]
  BY SubSeqProperties, LenProperties
<1> HIDE DEF r
<1>2. c \in Nat /\ c <= Len(l) /\ m \in Nat /\ m <= k /\ \A i \in 1..c : i \in 1..Len(l)
  BY <1>1
<1>3. ASSUME NEW i \in 1..Len(l) PROVE l[i].by \in Int
  <2>1. l[i] \in Commits
    BY ElementOfSeq
  <2> QED BY <2>1, RepositoryAssumption DEF Commits, Numbers, User, Overlays
<1>4. \A i \in 1..c : IsPatch(r, i) <=> IsPatch(l, i)
  BY <1>1 DEF IsPatch
<1>5. \A i \in 0..c : TreeAt(base, r, i) = TreeAt(base, l, i)
  BY <1>1 DEF TreeAt
<1>6. \A i \in 1..Len(r) : IsPatch(r, i) => r[i].by \in S /\ r[i].by <= m
  BY <1>1, <1>2, <1>4 DEF Tells, Split
<1>7. \A i, j \in 1..Len(r) : i < j /\ IsPatch(r, i) /\ IsPatch(r, j) => r[i].by < r[j].by
  BY <1>1, <1>2, <1>4 DEF Tells
<1>8. ASSUME NEW n \in S, n <= m
      PROVE  g[n] # g[n - 1] <=> \E i \in 1..Len(r) : r[i].by = n
  <2>1. n \in Nat /\ n <= k /\ n # Overlays
    BY <1>2, <1>8 DEF Numbers, Overlays
  <2>2. g[n] # g[n - 1] <=> \E i \in 1..Len(l) : l[i].by = n
    BY <2>1 DEF Tells
  <2>3. ASSUME NEW i \in 1..Len(l), l[i].by = n PROVE i \in 1..c
    BY <1>1, <1>2, <1>8, <2>1, <2>3 DEF Split, IsPatch
  <2> QED BY <1>1, <1>2, <2>2, <2>3
<1>9. ASSUME NEW i \in 0..Len(r), NEW n \in 0..m, Split(r, i, n)
      PROVE  Agree(TreeAt(base, r, i), g[n], cov)
  <2>1. i \in 0..Len(l) /\ n \in 0..k
    BY <1>1, <1>2
  <2>2. Split(l, i, n)
    <3> SUFFICES ASSUME NEW j \in 1..Len(l), IsPatch(l, j) PROVE j <= i <=> l[j].by <= n
      BY DEF Split
    <3>1. CASE j <= c
      <4>1. j \in 1..c
        BY <1>1, <1>2, <3>1
      <4> QED BY <1>1, <1>4, <1>9, <4>1 DEF Split
    <3>2. CASE c < j
      <4>1. ~(l[j].by <= m)
        BY <1>1, <1>2, <3>2 DEF Split
      <4> QED BY <1>1, <1>2, <1>3, <3>2, <4>1
    <3> QED BY <1>1, <1>2, <3>1, <3>2
  <2>3. Agree(TreeAt(base, l, i), g[n], cov)
    BY <2>1, <2>2 DEF Tells
  <2> QED BY <1>1, <1>5, <2>3
<1>10. ASSUME NEW i \in 1..Len(r), IsPatch(r, i), NEW s \in cov
       PROVE  r[i].tree[s] = TreeAt(base, r, i - 1)[s]
  <2>1. i \in 1..c /\ i \in 1..Len(l) /\ i - 1 \in 0..c
    BY <1>1, <1>2
  <2>2. l[i].tree[s] = TreeAt(base, l, i - 1)[s]
    BY <1>4, <1>10, <2>1 DEF Tells
  <2> QED BY <1>1, <1>5, <2>1, <2>2
<1>11. Tells(g, base, S, cov, r, m)
  BY <1>6, <1>7, <1>8, <1>9, <1>10 DEF Tells
<1> QED BY <1>11 DEF r

\* The commit of the next patch, with the tree it gives.
LEMMA TellsPatch ==
  ASSUME NEW g, NEW base, NEW S \in SUBSET Numbers, NEW cov, NEW l \in Seq(Commits),
         NEW n \in S, Tells(g, base, S, cov, l, n - 1), g[n] # g[n - 1],
         NEW t, Agree(t, g[n], cov), \A s \in cov : t[s] = TreeAt(base, l, Len(l))[s]
  PROVE  Tells(g, base, S, cov, Append(l, [by |-> n, tree |-> t]), n)
<1> DEFINE e == [by |-> n, tree |-> t]
           r == Append(l, e)
<1>0. e.by = n /\ e.tree = t
  OBVIOUS
<1> HIDE DEF e
<1>1. Len(l) \in Nat /\ Len(r) = Len(l) + 1 /\ r[Len(l) + 1] = e /\ \A i \in 1..Len(l) : r[i] = l[i]
  BY LenProperties
<1> HIDE DEF r
<1>2. n \in Nat /\ n # 0 /\ n # Overlays /\ Len(l) + 1 \in 1..Len(r) /\ \A i \in 1..Len(l) : i \in 1..Len(r)
  BY <1>1 DEF Numbers, Overlays
<1>3. \A i \in 1..Len(r) : i = Len(l) + 1 \/ i \in 1..Len(l)
  BY <1>1
<1>4. IsPatch(r, Len(l) + 1) /\ \A i \in 1..Len(l) : IsPatch(r, i) <=> IsPatch(l, i)
  BY <1>0, <1>1, <1>2 DEF IsPatch
<1>5. TreeAt(base, r, Len(l) + 1) = t /\ \A i \in 0..Len(l) : TreeAt(base, r, i) = TreeAt(base, l, i)
  BY <1>0, <1>1 DEF TreeAt
<1>6. ASSUME NEW i \in 1..Len(l), IsPatch(l, i)
      PROVE  l[i].by \in S /\ l[i].by \in Nat /\ l[i].by <= n - 1
  <2>1. l[i].by \in S /\ l[i].by <= n - 1
    BY <1>6 DEF Tells
  <2> QED BY <2>1, NumberIs
<1>7. \A i \in 1..Len(r) : IsPatch(r, i) => r[i].by \in S /\ r[i].by <= n
  BY <1>0, <1>1, <1>2, <1>3, <1>4, <1>6
<1>8. ASSUME NEW i \in 1..Len(r), NEW j \in 1..Len(r), i < j, IsPatch(r, i), IsPatch(r, j)
      PROVE  r[i].by < r[j].by
  <2>1. i \in 1..Len(l) /\ IsPatch(l, i)
    BY <1>1, <1>3, <1>4, <1>8
  <2>2. CASE j \in 1..Len(l)
    BY <1>1, <1>4, <1>8, <2>1, <2>2 DEF Tells
  <2>3. CASE j = Len(l) + 1
    BY <1>0, <1>1, <1>2, <1>6, <2>1, <2>3
  <2> QED BY <1>3, <2>2, <2>3
<1>9. ASSUME NEW m \in S, m <= n
      PROVE  g[m] # g[m - 1] <=> \E i \in 1..Len(r) : r[i].by = m
  <2>1. CASE m = n
    BY <1>0, <1>1, <1>2, <2>1
  <2>2. CASE m # n
    <3>1. m \in Nat /\ m <= n - 1
      <4>1. m \in Nat
        BY <1>9, NumberIs
      <4> QED BY <1>2, <1>9, <2>2, <4>1
    <3>2. g[m] # g[m - 1] <=> \E i \in 1..Len(l) : l[i].by = m
      BY <3>1 DEF Tells
    <3> QED BY <1>0, <1>1, <1>2, <1>3, <2>2, <3>2
  <2> QED BY <2>1, <2>2
<1>10. ASSUME NEW i \in 0..Len(r), NEW m \in 0..n, Split(r, i, m)
       PROVE  Agree(TreeAt(base, r, i), g[m], cov)
  <2>1. Len(l) + 1 <= i <=> n <= m
    BY <1>0, <1>1, <1>2, <1>4, <1>10 DEF Split
  <2>2. CASE i = Len(l) + 1
    <3>1. m = n
      BY <1>1, <1>2, <2>1, <2>2
    <3> QED BY <1>5, <2>2, <3>1
  <2>3. CASE i # Len(l) + 1
    <3>1. i \in 0..Len(l) /\ m \in 0..(n - 1)
      BY <1>1, <1>2, <2>1, <2>3
    <3>2. Split(l, i, m)
      BY <1>1, <1>2, <1>4, <1>10 DEF Split
    <3>3. Agree(TreeAt(base, l, i), g[m], cov)
      BY <3>1, <3>2 DEF Tells
    <3> QED BY <1>5, <3>1, <3>3
  <2> QED BY <2>2, <2>3
<1>11. ASSUME NEW i \in 1..Len(r), IsPatch(r, i), NEW s \in cov
       PROVE  r[i].tree[s] = TreeAt(base, r, i - 1)[s]
  <2>1. CASE i = Len(l) + 1
    <3>1. i - 1 = Len(l) /\ Len(l) \in 0..Len(l)
      BY <1>1, <2>1
    <3>2. r[i].tree = t
      BY <1>0, <1>1, <2>1
    <3> QED BY <1>5, <3>1, <3>2
  <2>2. CASE i \in 1..Len(l)
    <3>1. i - 1 \in 0..Len(l)
      BY <1>1, <2>2
    <3>2. l[i].tree[s] = TreeAt(base, l, i - 1)[s]
      BY <1>4, <1>11, <2>2 DEF Tells
    <3> QED BY <1>1, <1>5, <2>2, <3>1, <3>2
  <2> QED BY <1>3, <2>1, <2>2
<1>12. Tells(g, base, S, cov, r, n)
  BY <1>7, <1>8, <1>9, <1>10, <1>11 DEF Tells
<1> QED BY <1>12 DEF r, e

\* A commit of the overlays tells nothing.
LEMMA TellsOverlays ==
  ASSUME NEW g, NEW base, NEW S \in SUBSET Numbers, NEW cov, NEW l \in Seq(Commits),
         NEW k \in Nat, Tells(g, base, S, cov, l, k), NEW t, Agree(t, TreeAt(base, l, Len(l)), cov)
  PROVE  Tells(g, base, S, cov, Append(l, [by |-> Overlays, tree |-> t]), k)
<1> DEFINE e == [by |-> Overlays, tree |-> t]
           r == Append(l, e)
<1>0. e.by = Overlays /\ e.tree = t
  OBVIOUS
<1> HIDE DEF e
<1>1. Len(l) \in Nat /\ Len(r) = Len(l) + 1 /\ r[Len(l) + 1] = e /\ \A i \in 1..Len(l) : r[i] = l[i]
  BY LenProperties
<1> HIDE DEF r
<1>2. Len(l) + 1 \in 1..Len(r) /\ \A i \in 1..Len(l) : i \in 1..Len(r)
  BY <1>1
<1>3. \A i \in 1..Len(r) : i = Len(l) + 1 \/ i \in 1..Len(l)
  BY <1>1
<1>4. ~IsPatch(r, Len(l) + 1) /\ \A i \in 1..Len(l) : IsPatch(r, i) <=> IsPatch(l, i)
  BY <1>0, <1>1, <1>2 DEF IsPatch
<1>5. TreeAt(base, r, Len(l) + 1) = t /\ \A i \in 0..Len(l) : TreeAt(base, r, i) = TreeAt(base, l, i)
  BY <1>0, <1>1 DEF TreeAt
<1>6. ASSUME NEW i \in 1..Len(r), IsPatch(r, i) PROVE i \in 1..Len(l) /\ IsPatch(l, i) /\ r[i] = l[i]
  BY <1>1, <1>3, <1>4, <1>6
<1>7. \A i \in 1..Len(r) : IsPatch(r, i) => r[i].by \in S /\ r[i].by <= k
  BY <1>6 DEF Tells
<1>8. \A i, j \in 1..Len(r) : i < j /\ IsPatch(r, i) /\ IsPatch(r, j) => r[i].by < r[j].by
  BY <1>6 DEF Tells
<1>9. ASSUME NEW m \in S, m <= k
      PROVE  g[m] # g[m - 1] <=> \E i \in 1..Len(r) : r[i].by = m
  <2>1. m # Overlays
    BY RepositoryAssumption DEF Numbers, Overlays
  <2>2. g[m] # g[m - 1] <=> \E i \in 1..Len(l) : l[i].by = m
    BY <1>9 DEF Tells
  <2> QED BY <1>0, <1>1, <1>2, <1>3, <2>1, <2>2
<1>10. ASSUME NEW i \in 0..Len(r), NEW m \in 0..k, Split(r, i, m)
       PROVE  Agree(TreeAt(base, r, i), g[m], cov)
  <2>1. CASE i = Len(l) + 1
    <3>1. Split(l, Len(l), m)
      BY <1>1, <1>2, <1>4, <1>10, <2>1 DEF Split
    <3>2. Agree(TreeAt(base, l, Len(l)), g[m], cov)
      BY <1>1, <3>1 DEF Tells
    <3> QED BY <1>5, <2>1, <3>2 DEF Agree
  <2>2. CASE i # Len(l) + 1
    <3>1. i \in 0..Len(l)
      BY <1>1, <2>2
    <3>2. Split(l, i, m)
      BY <1>1, <1>2, <1>4, <1>10 DEF Split
    <3>3. Agree(TreeAt(base, l, i), g[m], cov)
      BY <3>1, <3>2 DEF Tells
    <3> QED BY <1>5, <3>1, <3>3
  <2> QED BY <2>1, <2>2
<1>11. ASSUME NEW i \in 1..Len(r), IsPatch(r, i), NEW s \in cov
       PROVE  r[i].tree[s] = TreeAt(base, r, i - 1)[s]
  <2>1. i \in 1..Len(l) /\ IsPatch(l, i) /\ r[i] = l[i] /\ i - 1 \in 0..Len(l)
    BY <1>1, <1>6, <1>11
  <2>2. l[i].tree[s] = TreeAt(base, l, i - 1)[s]
    BY <2>1 DEF Tells
  <2> QED BY <1>5, <2>1, <2>2
<1>12. Tells(g, base, S, cov, r, k)
  BY <1>7, <1>8, <1>9, <1>10, <1>11 DEF Tells
<1> QED BY <1>12 DEF r, e

\* Where the series changes nothing, a log that tells of it up to k tells more.
LEMMA TellsOn ==
  ASSUME NEW g, NEW base, NEW S \in SUBSET Numbers, NEW cov, NEW l \in Seq(Commits),
         NEW k \in Nat, NEW n \in Nat, k <= n, Tells(g, base, S, cov, l, k),
         \A m \in k..n : g[m] = g[k]
  PROVE  Tells(g, base, S, cov, l, n)
<1>0. /\ S \subseteq Nat
      /\ \A i \in 1..Len(l) : IsPatch(l, i) => l[i].by \in S /\ l[i].by \in Nat /\ l[i].by <= k
  BY RepositoryAssumption DEF Tells, Numbers
<1>1. \A i \in 1..Len(l) : IsPatch(l, i) => l[i].by \in S /\ l[i].by <= n
  BY <1>0
<1>2. ASSUME NEW m \in S, m <= n
      PROVE  g[m] # g[m - 1] <=> \E i \in 1..Len(l) : l[i].by = m
  <2>1. CASE m <= k
    BY <2>1 DEF Tells
  <2>2. CASE k < m
    <3>1. m \in k..n /\ m - 1 \in k..n
      BY <1>0, <1>2, <2>2
    <3>2. m # Overlays /\ \A i \in 1..Len(l) : IsPatch(l, i) => l[i].by # m
      BY <1>0, <2>2 DEF Overlays
    <3> QED BY <3>1, <3>2 DEF IsPatch
  <2> QED BY <1>0, <2>1, <2>2
<1>3. ASSUME NEW i \in 0..Len(l), NEW m \in 0..n, Split(l, i, m)
      PROVE  Agree(TreeAt(base, l, i), g[m], cov)
  <2>1. CASE m <= k
    BY <1>3, <2>1 DEF Tells
  <2>2. CASE k < m
    <3>1. Split(l, i, k)
      BY <1>0, <1>3, <2>2 DEF Split
    <3>2. Agree(TreeAt(base, l, i), g[k], cov)
      BY <3>1 DEF Tells
    <3> QED BY <2>2, <3>2
  <2> QED BY <2>1, <2>2
<1> QED BY <1>1, <1>2, <1>3 DEF Tells

\* It tells the same of a series that is the same up to k.
LEMMA TellsSame ==
  ASSUME NEW g, NEW h, NEW base, NEW S \in SUBSET Numbers, NEW T \in SUBSET Numbers, NEW cov,
         NEW l \in Seq(Commits), NEW k \in Nat, Tells(g, base, S, cov, l, k),
         \A m \in 0..k : h[m] = g[m] /\ (m \in S <=> m \in T)
  PROVE  Tells(h, base, T, cov, l, k)
<1>0. /\ S \subseteq Nat \ {0} /\ T \subseteq Nat \ {0}
      /\ \A i \in 1..Len(l) : IsPatch(l, i) => l[i].by \in S /\ l[i].by \in Nat /\ l[i].by <= k
  BY RepositoryAssumption DEF Tells, Numbers
<1>1. \A i \in 1..Len(l) : IsPatch(l, i) => l[i].by \in T /\ l[i].by <= k
  BY <1>0
<1>2. ASSUME NEW m \in T, m <= k
      PROVE  h[m] # h[m - 1] <=> \E i \in 1..Len(l) : l[i].by = m
  <2>1. m \in 0..k /\ m - 1 \in 0..k /\ m \in S
    BY <1>0, <1>2
  <2> QED BY <1>2, <2>1 DEF Tells
<1>3. ASSUME NEW i \in 0..Len(l), NEW m \in 0..k, Split(l, i, m)
      PROVE  Agree(TreeAt(base, l, i), h[m], cov)
  BY <1>3 DEF Tells
<1> QED BY <1>1, <1>2, <1>3 DEF Tells

\* The last tree is what the series gives up to k.
LEMMA TellsHead ==
  ASSUME NEW g, NEW base, NEW S \in SUBSET Numbers, NEW cov, NEW l \in Seq(Commits),
         NEW k \in Nat, Tells(g, base, S, cov, l, k)
  PROVE  Agree(TreeAt(base, l, Len(l)), g[k], cov)
<1>1. Len(l) \in 0..Len(l) /\ k \in 0..k
  BY LenProperties
<1>2. Split(l, Len(l), k)
  BY <1>1 DEF Tells, Split
<1> QED BY <1>1, <1>2 DEF Tells

\* Without a commit nothing is told of any patch.
LEMMA TellsNothing ==
  ASSUME NEW g, NEW base, NEW S \in SUBSET Numbers, NEW cov, g[0] = base
  PROVE  Tells(g, base, S, cov, <<>>, 0)
<1>1. \A m \in S : ~(m <= 0)
  BY RepositoryAssumption DEF Numbers
<1>2. \A i \in 0..Len(<<>>), m \in 0..0 : TreeAt(base, <<>>, i) = g[m]
  BY DEF TreeAt
<1> QED BY <1>1, <1>2 DEF Tells, Agree

\* The commit of patch n is where the patches up to n, and up to n - 1, end.
LEMMA TellsWhere ==
  ASSUME NEW g, NEW base, NEW S \in SUBSET Numbers, NEW cov, NEW l \in Seq(Commits),
         NEW k \in Nat, Tells(g, base, S, cov, l, k), NEW n \in Numbers,
         NEW c \in 1..Len(l), l[c].by = n
  PROVE  Split(l, c, n) /\ Split(l, c - 1, n - 1) /\ n <= k
<1>1. n \in Nat /\ n # 0 /\ IsPatch(l, c) /\ Len(l) \in Nat
  BY LenProperties, RepositoryAssumption DEF Numbers, IsPatch, Overlays
<1>2. ASSUME NEW i \in 1..Len(l), IsPatch(l, i) PROVE l[i].by \in Nat /\ l[i].by <= k
  <2>1. l[i].by \in S /\ l[i].by <= k
    BY <1>2 DEF Tells
  <2> QED BY <2>1, NumberIs
<1>3. ASSUME NEW j \in 1..Len(l), IsPatch(l, j)
      PROVE  (j <= c <=> l[j].by <= n) /\ (j <= c - 1 <=> l[j].by <= n - 1)
  <2>1. (j < c => l[j].by < n) /\ (c < j => n < l[j].by)
    BY <1>1, <1>3 DEF Tells
  <2>2. CASE j < c
    BY <1>1, <1>2, <1>3, <2>1, <2>2
  <2>3. CASE j = c
    BY <1>1, <2>3
  <2>4. CASE c < j
    BY <1>1, <1>2, <1>3, <2>1, <2>4
  <2> QED BY <1>1, <2>2, <2>3, <2>4
<1> QED BY <1>1, <1>2, <1>3 DEF Split

-----------------------------------------------------------------------------
(* Stacks and differences *)

\* Two series that are the same up to k give the same trees up to k.
LEMMA StackSame ==
  ASSUME NEW base, NEW fs, NEW gs, NEW S, NEW T, NEW k \in 0..MaxNumber,
         \A m \in 1..k : (m \in S <=> m \in T) /\ (m \in S => fs[m] = gs[m])
  PROVE  \A j \in 0..k : Stack(base, fs, S, MaxNumber)[j] = Stack(base, gs, T, MaxNumber)[j]
<1> DEFINE f == Stack(base, fs, S, MaxNumber)
           g == Stack(base, gs, T, MaxNumber)
           E == {n \in Nat : n <= k => f[n] = g[n]}
<1>0. MaxNumber \in Nat /\ k \in Nat /\ k <= MaxNumber
  BY RepositoryAssumption
<1>1. /\ f[0] = base
      /\ \A i \in 1..MaxNumber : f[i] = IF i \in S THEN Patched(fs[i], f[i - 1]) ELSE f[i - 1]
  BY <1>0, StackSteps
<1>2. /\ g[0] = base
      /\ \A i \in 1..MaxNumber : g[i] = IF i \in T THEN Patched(gs[i], g[i - 1]) ELSE g[i - 1]
  BY <1>0, StackSteps
<1> HIDE DEF f, g
<1>3. 0 \in E
  BY <1>1, <1>2
<1>4. ASSUME NEW n \in Nat, n \in E PROVE n + 1 \in E
  <2> SUFFICES ASSUME n + 1 <= k PROVE f[n + 1] = g[n + 1]
    OBVIOUS
  <2>1. n + 1 \in 1..MaxNumber /\ n + 1 \in 1..k /\ (n + 1) - 1 = n /\ f[n] = g[n]
    BY <1>0, <1>4
  <2> QED BY <1>1, <1>2, <2>1
<1>5. Nat \subseteq E
  <2> HIDE DEF E
  <2> QED BY <1>3, <1>4, Induct
<1> QED BY <1>0, <1>5 DEF f, g

\* A patch that applies changes something.
LEMMA PatchChanges ==
  ASSUME NEW p \in Patches, p # NoPatch, NEW t, Fits(p, t)
  PROVE  Patched(p, t) # t
<1>1. ~Reverses(p, t)
  BY FitsOrReverses
<1>2. PICK s \in DOMAIN p : t[s] # p[s].new
  BY <1>1 DEF Reverses
<1>3. s \in Spots
  BY PatchDomain
<1> QED BY <1>2, <1>3 DEF Patched

\* The difference of two trees, put on a third that is as the first where it counts.
LEMMA DiffApplies ==
  ASSUME NEW h, NEW t, NEW u, NEW cov, Agree(u, h, cov), \A s \in cov : h[s] = t[s]
  PROVE  /\ DOMAIN Diff(h, t) \cap cov = {}
         /\ Fits(Diff(h, t), u)
         /\ Agree(Patched(Diff(h, t), u), t, cov)
         /\ \A s \in cov \cap Spots : Patched(Diff(h, t), u)[s] = u[s]
<1> DEFINE D == {x \in Spots : h[x] # t[x]}
           d == Diff(h, t)
<1>1. DOMAIN d = D /\ \A s \in D : d[s].old = h[s] /\ d[s].new = t[s]
  BY DEF Diff
<1>2. D \cap cov = {}
  OBVIOUS
<1>3. \A s \in D : u[s] = h[s]
  BY <1>2 DEF Agree
<1> HIDE DEF d
<1>4. Fits(d, u)
  BY <1>1, <1>3 DEF Fits
<1>5. \A s \in Spots : Patched(d, u)[s] = IF s \in D THEN t[s] ELSE u[s]
  BY <1>1 DEF Patched
<1>6. \A s \in Spots \ cov : Patched(d, u)[s] = t[s]
  BY <1>5 DEF Agree
<1> QED BY <1>1, <1>2, <1>4, <1>5, <1>6 DEF d, Agree

-----------------------------------------------------------------------------
(* The history is the series, when nobody but jx has written it *)

Stacked(S) == Stack(BaseTree[root], files, S, MaxNumber)
Done(S, k) == Tells(Stacked(S), BaseTree[root], S, Covered, log, k)
Fitted(S, k) == \A n \in S : n <= k => Fits(files[n], Stacked(S)[n - 1])
Clear(S) == \A n \in S : files[n] # NoPatch /\ DOMAIN files[n] \cap Covered = {}
Unmoved == \A s \in Covered : work[s] = HeadTree[s]
\* The file of overlays/ is not there or as overlays/ has it, in every commit.
Clean == \A s \in Covered, i \in 0..Len(log) : TreeOf(i)[s] \in {Absent, overlay}
Good == story \in {"exact", "recovered"}

\* Where a command can be.
AtPoint(kind, pc) ==
  \/ kind = "none" /\ pc = "idle"
  \/ kind = "apply" /\ pc \in {"begin", "patch", "commit", "seal"}
  \/ kind = "reverse" /\ pc \in {"begin", "revert"}
  \/ kind = "setup" /\ pc \in {"checkout", "begin", "patch", "commit", "seal"}
  \/ kind = "rebase" /\ pc \in {"checkout", "begin", "patch", "commit", "seal", "ref", "sha"}
  \/ kind = "dump" /\ pc \in {"record", "register"}
  \/ kind = "refresh" /\ pc \in {"reapply", "write", "record", "patch", "commit", "seal"}

PlaceInv ==
  /\ AtPoint(op.kind, op.pc)
  /\ op.kind \in {"setup", "rebase"} => op.pre = 0 /\ op.skip = 0
  /\ op.kind \in {"dump", "refresh"} => story # "conflict"
  /\ op.pc = "begin" /\ op.pre = 0 /\ op.kind # "reverse" => log = <<>> /\ work = BaseTree[root]

\* Nothing has begun that changes the history.
Resting ==
  \/ op.pc \in {"idle", "ref", "sha"}
  \/ op.pc = "begin" /\ op.kind \in {"apply", "reverse"}
  \/ op.pc = "checkout" /\ op.kind = "rebase"
Whole(S) == root \in Bases /\ Clear(S) /\ Unmoved /\ Done(S, MaxNumber)
Exactly(S) == Fitted(S, MaxNumber) /\ Clean /\ \A s \in Covered : HeadTree[s] = overlay

RestInv ==
  Resting =>
    /\ story = "conflict" =>
         root \in Bases /\ Clear(series) /\ Unmoved /\ \E k \in 0..MaxNumber : Done(series, k)
    /\ Good => Whole(series)
    /\ story = "exact" => Exactly(series) /\ (root = pin.sha \/ op.pc \in {"ref", "sha"})

\* A dump has recorded its commit before it registers the patch.
Registered == IF op.pc = "register" THEN series \cup {op.n} ELSE series
DumpInv ==
  op.kind = "dump" /\ Good =>
    /\ Whole(Registered)
    /\ op.pc = "record" => /\ \A m \in series : m < op.n
                           /\ files[op.n] = Diff(HeadTree, Staged) /\ files[op.n] # NoPatch
    /\ story = "exact" => /\ Exactly(Registered) /\ root = pin.sha /\ work = op.saw
                          /\ op.pc = "register" => Agree(work, HeadTree, Covered)

\* A replay from the base, or of the patches after a refreshed one.
Trusted ==
  IF op.kind = "refresh" THEN Good
  ELSE op.kind \in {"apply", "setup", "rebase"} /\ op.pre = 0 /\ op.skip \notin series /\ Apart
Exactable ==
  IF op.kind = "refresh" THEN story = "exact" ELSE root = pin.sha \/ (op.kind = "rebase" /\ op.flag)
Straight == op.direct /\ (op.kind = "refresh" => story = "exact")

BuildInv ==
  Trusted /\ op.pc \in {"patch", "commit", "seal"} =>
    /\ root \in Bases /\ Clear(series)
    /\ op.pc = "patch" =>
         /\ work = HeadTree
         /\ \E k \in 0..MaxNumber :
              op.todo = After(k) /\ Done(series, k) /\ (Straight => Fitted(series, k))
    /\ op.pc = "commit" =>
         /\ op.at \in series /\ op.todo = After(op.at) /\ Done(series, op.at - 1)
         /\ work = Patched(files[op.at], HeadTree) /\ work # HeadTree
         /\ Straight => Fitted(series, op.at)
    /\ op.pc = "seal" =>
         /\ Done(series, MaxNumber) /\ (Straight => Fitted(series, MaxNumber))
         /\ Agree(work, HeadTree, Covered)
         /\ op.kind = "refresh" => op.flag \/ work = HeadTree
         /\ Exactable => \A s \in Covered : work[s] = overlay
    /\ Exactable => Clean
    /\ op.kind = "refresh" => /\ op.pc # "seal" /\ Covered # {} => op.flag
                              /\ story = "exact" => root = pin.sha

CaptureInv ==
  op.kind = "refresh" /\ op.pc \in {"reapply", "write", "record"} /\ Good =>
    /\ root \in Bases /\ Clear(series)
    /\ op.n \in series /\ op.todo = After(op.n) /\ op.direct
    /\ op.pc = "reapply" =>
         /\ Done(series, op.n) /\ log # <<>> /\ log[Len(log)].by = op.n /\ work = HeadTree
         /\ op.todo # {} /\ DOMAIN op.pend \cap Covered = {}
    /\ op.pc # "reapply" =>
         /\ Done(series, op.n - 1)
         /\ op.todo # {} \/ ~op.flag => Unmoved
    /\ op.pc = "record" => files[op.n] = Diff(HeadTree, Staged) /\ files[op.n] # NoPatch
    /\ story = "exact" =>
         /\ Fitted(series, op.n - 1) /\ Clean /\ root = pin.sha
         /\ op.todo = {} => \A s \in Covered : work[s] = overlay

KeptInv ==
  op.kind = "refresh" /\ story = "exact" =>
    /\ op.todo \subseteq After(op.n)
    /\ \A s \in Spots \ {OverlaySpot} : Lasting(s, op.n) =>
         (IF op.pc = "reapply" THEN Patched(op.pend, work)[s] ELSE work[s]) = op.saw[s]

HistInv == PlaceInv /\ RestInv /\ DumpInv /\ BuildInv /\ CaptureInv

-----------------------------------------------------------------------------
(* Where a command is, before and after a step *)

Ready == TypeInv /\ SetupInv /\ HistInv

\* What a step leaves alone, the history tells of as before.
LEMMA HistFrame ==
  ASSUME UNCHANGED <<files, series, overlay, root, log>>
  PROVE  /\ HeadTree' = HeadTree /\ Covered' = Covered
         /\ Clear(series)' <=> Clear(series)
         /\ Clean' <=> Clean
         /\ Apart' <=> Apart
         /\ \A k : Done(series, k)' <=> Done(series, k)
         /\ \A k : Fitted(series, k)' <=> Fitted(series, k)
<1>1. HeadTree' = HeadTree /\ Covered' = Covered
  BY DEF HeadTree, TreeOf, Covered
<1>2. Clear(series)' <=> Clear(series)
  BY DEF Clear, Covered
<1>3. Clean' <=> Clean
  BY DEF Clean, Covered, TreeOf
<1>4. Apart' <=> Apart
  BY DEF Apart, Covered
<1>5. \A k : Done(series, k)' <=> Done(series, k)
  BY DEF Done, Stacked, Covered
<1>6. \A k : Fitted(series, k)' <=> Fitted(series, k)
  BY DEF Fitted, Stacked
<1> QED BY <1>1, <1>2, <1>3, <1>4, <1>5, <1>6

\* A command that ended without a history to speak of.
LEMMA OverHolds == ASSUME op' = Idle, story' = "other" PROVE HistInv'
<1>1. op'.kind = "none" /\ op'.pc = "idle"
  BY DEF Idle
<1> QED BY <1>1 DEF HistInv, PlaceInv, AtPoint, RestInv, Good, DumpInv, BuildInv, Trusted, CaptureInv

LEMMA OnlyRest ==
  ASSUME PlaceInv', Resting', RestInv'
  PROVE  HistInv'
<1>1. op'.kind \notin {"dump", "refresh"} /\ op'.pc \notin {"patch", "commit", "seal"}
  BY DEF PlaceInv, AtPoint, Resting
<1> QED BY <1>1 DEF HistInv, DumpInv, BuildInv, CaptureInv

LEMMA OnlyDump ==
  ASSUME PlaceInv', op'.kind = "dump", DumpInv'
  PROVE  HistInv'
<1>1. op'.pc \in {"record", "register"}
  BY DEF PlaceInv, AtPoint
<1> QED BY <1>1 DEF HistInv, RestInv, Resting, BuildInv, CaptureInv

LEMMA OnlyBuild ==
  ASSUME PlaceInv', op'.pc \in {"patch", "commit", "seal"}, BuildInv'
  PROVE  HistInv'
<1>1. op'.kind # "dump" /\ op'.pc \notin {"reapply", "write", "record"}
  BY DEF PlaceInv, AtPoint
<1> QED BY <1>1 DEF HistInv, RestInv, Resting, DumpInv, CaptureInv

LEMMA OnlyCapture ==
  ASSUME PlaceInv', op'.kind = "refresh", op'.pc \in {"reapply", "write", "record"}, CaptureInv'
  PROVE  HistInv'
BY DEF HistInv, RestInv, Resting, DumpInv, BuildInv

LEMMA OnlyPlace ==
  ASSUME PlaceInv', ~Resting', op'.kind \notin {"dump", "refresh"},
         op'.pc \notin {"patch", "commit", "seal"}
  PROVE  HistInv'
BY DEF HistInv, RestInv, DumpInv, BuildInv, CaptureInv

\* Commands that leave the history to itself.
LEMMA RestStays ==
  ASSUME RestInv, Resting, UNCHANGED <<files, series, overlay, root, log, story>>,
         Unmoved => Unmoved',
         root = pin.sha \/ op.pc \in {"ref", "sha"} => root = pin'.sha \/ op'.pc \in {"ref", "sha"}
  PROVE  RestInv'
<1>1. /\ Clear(series)' <=> Clear(series)
      /\ Clean' <=> Clean
      /\ \A k : Done(series, k)' <=> Done(series, k)
      /\ \A k : Fitted(series, k)' <=> Fitted(series, k)
      /\ HeadTree' = HeadTree /\ Covered' = Covered
  BY HistFrame
<1>2. story = "conflict" =>
        (root \in Bases /\ Clear(series) /\ Unmoved /\ \E k \in 0..MaxNumber : Done(series, k))'
  BY <1>1 DEF RestInv
<1>3. Good => Whole(series)'
  BY <1>1 DEF RestInv, Whole
<1>4. story = "exact" => Exactly(series)' /\ (root' = pin'.sha \/ op'.pc \in {"ref", "sha"})
  BY <1>1 DEF RestInv, Exactly
<1>5. Good' <=> Good
  BY DEF Good
<1> QED BY <1>2, <1>3, <1>4, <1>5 DEF RestInv

LEMMA RestOther ==
  ASSUME PlaceInv', Resting', story' = "other"
  PROVE  HistInv'
BY OnlyRest DEF RestInv, Good

\* A command that ends with the history as it found it.
LEMMA IdlePlace == ASSUME op' = Idle PROVE PlaceInv' /\ Resting'
BY DEF PlaceInv, AtPoint, Resting, Idle

LEMMA RestEnds ==
  ASSUME Ready, Resting, op' = Idle, story' = story,
         UNCHANGED <<repository, workspace>>, op.pc \notin {"ref", "sha"}
  PROVE  HistInv'
<1>1. UNCHANGED <<files, series, overlay, pin, root, log, work>>
  BY DEF repository, workspace
<1>2. Unmoved => Unmoved'
  BY <1>1, HistFrame DEF Unmoved
<1>3. RestInv'
  BY <1>1, <1>2, RestStays DEF Ready, HistInv
<1> QED BY <1>3, IdlePlace, OnlyRest

-----------------------------------------------------------------------------
(* Commands that leave the history to itself, discard it or begin another *)

LEMMA TurnIs == ASSUME Ready, Turn PROVE op.pc = "idle" /\ op = Idle /\ Resting /\ TypeInv /\ RestInv
BY DEF Ready, Turn, SetupInv, Resting, HistInv

LEMMA ApplyHist == ASSUME Ready, Apply PROVE HistInv'
<1>1. op.pc = "idle" /\ Resting /\ TypeInv /\ RestInv /\ Exists /\ ~Dirty
  BY TurnIs DEF Apply
<1>2. UNCHANGED <<files, series, overlay, pin, root, log, work, story>>
  BY DEF Apply, repository, workspace
<1>3. op'.kind = "apply" /\ op'.pc = "begin" /\ op'.pre = Len(log)
  BY IdleType DEF Apply, Operations
<1>4. Len(log) = 0 => log = <<>> /\ work = BaseTree[root]
  BY <1>1, LogNotEmpty DEF Dirty, HeadTree, TreeOf
<1>5. PlaceInv' /\ Resting'
  BY <1>2, <1>3, <1>4 DEF PlaceInv, AtPoint, Resting
<1>6. RestInv'
  <2>1. Unmoved => Unmoved'
    BY <1>2, HistFrame DEF Unmoved
  <2> QED BY <1>1, <1>2, <2>1, RestStays
<1> QED BY <1>5, <1>6, OnlyRest

LEMMA ReverseHist == ASSUME Ready, Reverse PROVE HistInv'
<1>1. op.pc = "idle" /\ Resting /\ TypeInv /\ RestInv
  BY TurnIs DEF Reverse
<1>2. UNCHANGED <<files, series, overlay, pin, root, log, work, story>>
  BY DEF Reverse, repository, workspace
<1>3. op'.kind = "reverse" /\ op'.pc = "begin"
  BY IdleType DEF Reverse, Operations
<1>5. PlaceInv' /\ Resting'
  BY <1>2, <1>3 DEF PlaceInv, AtPoint, Resting
<1>6. RestInv'
  <2>1. Unmoved => Unmoved'
    BY <1>2, HistFrame DEF Unmoved
  <2> QED BY <1>1, <1>2, <2>1, RestStays
<1> QED BY <1>5, <1>6, OnlyRest

LEMMA RebaseForceHist == ASSUME Ready, RebaseForce PROVE HistInv'
<1>1. op.pc = "idle" /\ Resting /\ TypeInv /\ RestInv
  BY TurnIs DEF RebaseForce
<1>2. UNCHANGED <<files, series, overlay, pin, root, log, story>> /\ work' = HeadTree
  BY DEF RebaseForce, repository
<1>3. op'.kind = "rebase" /\ op'.pc = "checkout" /\ op'.pre = 0 /\ op'.skip = 0
  BY IdleType DEF RebaseForce, Operations, Idle
<1>5. PlaceInv' /\ Resting'
  BY <1>3 DEF PlaceInv, AtPoint, Resting
<1>6. RestInv'
  <2>1. Unmoved'
    BY <1>2, HistFrame DEF Unmoved
  <2> QED BY <1>1, <1>2, <2>1, RestStays
<1> QED BY <1>5, <1>6, OnlyRest

LEMMA SetupHist == ASSUME Ready, Setup PROVE HistInv'
<1>1. op'.kind = "setup" /\ op'.pc = "begin" /\ op'.pre = 0 /\ op'.skip = 0
  BY IdleType DEF Setup, Operations, Idle
<1>2. log' = <<>> /\ work' = BaseTree[root']
  BY DEF Setup, CheckedOut
<1>3. PlaceInv'
  BY <1>1, <1>2 DEF PlaceInv, AtPoint
<1> QED BY <1>1, <1>3, OnlyPlace DEF Resting

LEMMA SetupForceHist == ASSUME Ready, SetupForce PROVE HistInv'
<1>1. op'.kind = "setup" /\ op'.pc = "checkout" /\ op'.pre = 0 /\ op'.skip = 0
  BY IdleType DEF SetupForce, Operations, Idle
<1>2. PlaceInv'
  BY <1>1 DEF PlaceInv, AtPoint
<1> QED BY <1>1, <1>2, OnlyPlace DEF Resting

LEMMA RebaseHist == ASSUME Ready, Rebase PROVE HistInv'
<1>1. op'.kind = "rebase" /\ op'.pc = "begin" /\ op'.pre = 0 /\ op'.skip = 0
  BY IdleType DEF Rebase, Operations, Idle
<1>2. log' = <<>> /\ work' = BaseTree[root']
  BY DEF Rebase, CheckedOut
<1>3. PlaceInv'
  BY <1>1, <1>2 DEF PlaceInv, AtPoint
<1> QED BY <1>1, <1>3, OnlyPlace DEF Resting

LEMMA CheckoutHist == ASSUME Ready, Checkout PROVE HistInv'
<1>1. op.kind \in {"setup", "rebase"} /\ op.pre = 0 /\ op.skip = 0 /\ op \in Operations
  BY DEF Checkout, Ready, HistInv, PlaceInv, AtPoint, TypeInv, TypeOK
<1>2. op'.kind = op.kind /\ op'.pc = "begin" /\ op'.pre = 0 /\ op'.skip = 0
  BY <1>1 DEF Checkout, Proceed, Operations
<1>3. log' = <<>> /\ work' = BaseTree[root']
  BY DEF Checkout, CheckedOut
<1>4. PlaceInv'
  BY <1>1, <1>2, <1>3 DEF PlaceInv, AtPoint
<1> QED BY <1>1, <1>2, <1>4, OnlyPlace DEF Resting

LEMMA RebaseNowhereHist == ASSUME Ready, RebaseNowhere PROVE HistInv'
<1>1. Resting /\ op' = Idle /\ story' = story /\ UNCHANGED <<repository, workspace>>
      /\ op.pc \notin {"ref", "sha"}
  BY DEF RebaseNowhere, Finish, Resting
<1> QED BY <1>1, RestEnds

LEMMA NotAppliedHist == ASSUME Ready, NotApplied PROVE HistInv'
<1>1. Resting /\ op' = Idle /\ story' = story /\ UNCHANGED <<repository, workspace>>
      /\ op.pc \notin {"ref", "sha"}
  BY DEF NotApplied, Replayable, Finish, Resting
<1> QED BY <1>1, RestEnds

\* run_apply has nothing to do.
LEMMA UntouchedHist ==
  ASSUME Ready, op.pc = "begin", NEW how, Finish(how, Untouched) \/ Replayed(how, Untouched),
         UNCHANGED <<repository, workspace>>
  PROVE  HistInv'
<1>0. op \in Operations /\ PlaceInv
  BY DEF Ready, HistInv, TypeInv, TypeOK
<1>1. CASE op.kind \in {"apply", "reverse"}
  <2>1. op' = Idle /\ story' = story /\ Resting
    BY <1>1 DEF Replayed, Finish, Untouched, Resting
  <2> QED BY <2>1, RestEnds
<1>2. CASE op.kind \notin {"apply", "reverse"} /\ op' = Idle
  <2>1. story' = "other"
    BY <1>2 DEF Replayed, Finish, Untouched
  <2> QED BY <1>2, <2>1, OverHolds
<1>3. CASE op.kind \notin {"apply", "reverse"} /\ op' # Idle
  <2>1. story' = "other" /\ op' = [op EXCEPT !.pc = "ref"] /\ op.kind = "rebase"
    BY <1>3 DEF Replayed, Finish, Untouched
  <2>2. op'.pc = "ref" /\ op'.kind = "rebase" /\ op'.pre = op.pre /\ op'.skip = op.skip
    BY <1>0, <2>1 DEF Operations
  <2>3. PlaceInv' /\ Resting'
    BY <1>0, <2>1, <2>2 DEF PlaceInv, AtPoint, Resting
  <2> QED BY <2>1, <2>3, RestOther
<1> QED BY <1>1, <1>2, <1>3

LEMMA NothingDone ==
  ASSUME Ready, RefuseCollision \/ NothingToApply \/ RefuseMissing \/ AlreadyApplied
  PROVE  HistInv'
BY UntouchedHist DEF RefuseCollision, NothingToApply, RefuseMissing, AlreadyApplied, Replayable

LEMMA StartReverseHist == ASSUME Ready, StartReverse PROVE HistInv'
<1>0. op \in Operations /\ op.kind = "reverse"
  BY DEF StartReverse, Ready, TypeInv, TypeOK
<1>1. op'.kind = "reverse" /\ op'.pc = "revert"
  BY <1>0 DEF StartReverse, Proceed, Operations
<1>2. PlaceInv'
  BY <1>1 DEF PlaceInv, AtPoint
<1> QED BY <1>1, <1>2, OnlyPlace DEF Resting

LEMMA RevertNextHist == ASSUME Ready, NEW n \in Numbers, RevertNext(n) PROVE HistInv'
<1>0. op \in Operations /\ op.kind = "reverse" /\ op.pc = "revert"
  BY DEF RevertNext, Reverting, Ready, HistInv, PlaceInv, AtPoint, TypeInv, TypeOK
<1>1. op'.kind = "reverse" /\ op'.pc = "revert"
  BY <1>0 DEF RevertNext, Proceed, Operations
<1>2. PlaceInv'
  BY <1>1 DEF PlaceInv, AtPoint
<1> QED BY <1>1, <1>2, OnlyPlace DEF Resting

LEMMA PinRefHist == ASSUME Ready, PinRef PROVE HistInv'
<1>0. op \in Operations /\ op.kind = "rebase" /\ op.pc = "ref" /\ PlaceInv /\ RestInv /\ Resting
      /\ op.pre = 0 /\ op.skip = 0
  BY DEF PinRef, Ready, HistInv, PlaceInv, AtPoint, TypeInv, TypeOK, Resting
<1>1. op'.kind = "rebase" /\ op'.pc = "sha" /\ op'.pre = 0 /\ op'.skip = 0
  BY <1>0 DEF PinRef, Proceed, Operations
<1>2. UNCHANGED <<files, series, overlay, root, log, work, story>>
  BY DEF PinRef, Proceed, workspace
<1>3. PlaceInv' /\ Resting'
  BY <1>1 DEF PlaceInv, AtPoint, Resting
<1>4. Unmoved => Unmoved'
  BY <1>2, HistFrame DEF Unmoved
<1>5. RestInv'
  BY <1>0, <1>1, <1>2, <1>4, RestStays
<1> QED BY <1>3, <1>5, OnlyRest

LEMMA PinShaHist == ASSUME Ready, PinSha PROVE HistInv'
<1>0. op.pc = "sha" /\ RestInv /\ Resting /\ op' = Idle /\ pin \in [ref : Bases, sha : Bases]
  BY DEF PinSha, Proceed, Ready, HistInv, Resting, TypeInv, TypeOK
<1>1. UNCHANGED <<files, series, overlay, root, log, work, story>> /\ pin'.sha = root
  BY <1>0 DEF PinSha, Proceed, workspace
<1>2. Unmoved => Unmoved'
  BY <1>1, HistFrame DEF Unmoved
<1>3. RestInv'
  BY <1>0, <1>1, <1>2, RestStays
<1> QED BY <1>0, <1>3, IdlePlace, OnlyRest

LEMMA EditHist == ASSUME Ready, Edit PROVE HistInv'
<1>1. op.pc = "idle" /\ op = Idle /\ op' = Idle /\ Resting /\ TypeInv /\ RestInv
  BY TurnIs DEF Edit
<1>2. UNCHANGED <<files, series, overlay, pin, root, log>>
  BY DEF Edit, repository
<1>3. PICK e \in UserEdits :
        /\ work' = [work EXCEPT ![e[1]] = e[2]]
        /\ story' = IF e[1] = OverlaySpot /\ overlay # Absent THEN "other" ELSE story
  BY DEF Edit
<1>4. CASE e[1] = OverlaySpot /\ overlay # Absent
  BY <1>1, <1>3, <1>4, IdlePlace, RestOther
<1>5. CASE ~(e[1] = OverlaySpot /\ overlay # Absent)
  <2>1. story' = story
    BY <1>3, <1>5
  <2>2. \A s \in Covered : work'[s] = work[s]
    BY <1>1, <1>3, <1>5, SpotAssumption DEF Covered, TypeInv, TypeOK, Trees
  <2>3. Unmoved => Unmoved'
    BY <1>2, <2>2, HistFrame DEF Unmoved
  <2>4. RestInv'
    BY <1>1, <1>2, <2>1, <2>3, RestStays
  <2> QED BY <1>1, <2>4, IdlePlace, OnlyRest
<1> QED BY <1>4, <1>5

\* What ends without a history to speak of.
LEMMA OtherHist ==
  ASSUME Ready, \/ CommitByHand \/ PullFile \/ PullOverlay \/ Crash \/ Reverted \/ OverlayModified
                \/ ReapplyConflict \/ ReapplyFailed \/ NothingToRefresh
                \/ \E n \in Numbers : Mismatch(n) \/ RevertFailed(n) \/ RefreshStuck(n)
  PROVE  HistInv'
<1>1. CASE CommitByHand \/ PullFile \/ PullOverlay
  <2>1. op = Idle /\ op' = op /\ story' = "other"
    BY <1>1, TurnIs DEF CommitByHand, PullFile, PullOverlay
  <2> QED BY <2>1, OverHolds
<1>2. CASE Crash \/ Reverted \/ OverlayModified \/ ReapplyConflict \/ ReapplyFailed \/ NothingToRefresh
  BY <1>2, OverHolds DEF Crash, Reverted, OverlayModified, ReapplyConflict, ReapplyFailed,
     NothingToRefresh, Finish
<1>3. CASE \E n \in Numbers : Mismatch(n) \/ RevertFailed(n) \/ RefreshStuck(n)
  BY <1>3, OverHolds DEF Mismatch, RevertFailed, RefreshStuck, Finish
<1> QED BY <1>1, <1>2, <1>3

-----------------------------------------------------------------------------
(* A replay *)

\* The trees of the series are trees, and patch n is put on what precedes it.
LEMMA StackedSteps ==
  ASSUME TypeInv, root \in Bases, NEW S \in SUBSET Numbers
  PROVE  /\ Stacked(S)[0] = BaseTree[root]
         /\ \A k \in 0..MaxNumber : Stacked(S)[k] \in Trees
         /\ \A n \in S : n - 1 \in 0..MaxNumber /\ n \in 0..MaxNumber
         /\ \A n \in S : files[n] \in Patches /\ Stacked(S)[n] = Patched(files[n], Stacked(S)[n - 1])
<1>1. files \in [Numbers -> Patches] /\ BaseTree[root] \in Trees /\ MaxNumber \in Nat
  BY BaseAssumption, RepositoryAssumption DEF TypeInv, TypeOK
<1>2. /\ Stacked(S)[0] = BaseTree[root]
      /\ \A k \in 1..MaxNumber :
           Stacked(S)[k] = IF k \in S THEN Patched(files[k], Stacked(S)[k - 1]) ELSE Stacked(S)[k - 1]
  BY <1>1, StackSteps DEF Stacked
<1>3. \A k \in 0..MaxNumber : Stacked(S)[k] \in Trees
  BY <1>1, StackType DEF Stacked
<1>4. \A n \in S : n \in 1..MaxNumber /\ n - 1 \in 0..MaxNumber /\ n \in 0..MaxNumber
  BY <1>1 DEF Numbers
<1>5. \A n \in S : files[n] \in Patches
  BY <1>1
<1> HIDE DEF Stacked
<1> QED BY <1>2, <1>3, <1>4, <1>5

\* Done up to k is done up to any number with no patch in between.
LEMMA DoneOn ==
  ASSUME TypeInv, NEW S \in SUBSET Numbers, NEW j \in 0..MaxNumber, NEW k \in 0..MaxNumber, j <= k,
         \A m \in S : ~(j < m /\ m <= k), Done(S, j)
  PROVE  Done(S, k) /\ Stacked(S)[k] = Stacked(S)[j] /\ (Fitted(S, j) => Fitted(S, k))
<1>1. \A i \in j..k : Stacked(S)[i] = Stacked(S)[j]
  <2> SUFFICES ASSUME NEW i \in j..k PROVE Stacked(S)[i] = Stacked(S)[j]
    OBVIOUS
  <2>1. i \in 0..MaxNumber /\ j <= i /\ \A m \in S : ~(j < m /\ m <= i)
    BY RepositoryAssumption DEF Numbers
  <2> QED BY <2>1, StackFlat DEF Stacked
<1>2. j \in Nat /\ k \in Nat /\ k \in j..k /\ log \in Seq(Commits)
  BY RepositoryAssumption DEF TypeInv, TypeOK
<1>3. Tells(Stacked(S), BaseTree[root], S, Covered, log, k)
  <2> HIDE DEF Stacked
  <2>1. Tells(Stacked(S), BaseTree[root], S, Covered, log, j)
    BY DEF Done
  <2> QED BY <1>1, <1>2, <2>1, TellsOn
<1>4. Fitted(S, j) => Fitted(S, k)
  <2>1. \A m \in S : m <= k => m <= j
    BY RepositoryAssumption DEF Numbers
  <2> QED BY <2>1 DEF Fitted
<1> QED BY <1>1, <1>2, <1>3, <1>4 DEF Done

LEMMA DoneHead ==
  ASSUME TypeInv, NEW S \in SUBSET Numbers, NEW k \in 0..MaxNumber, Done(S, k)
  PROVE  Agree(HeadTree, Stacked(S)[k], Covered)
<1>1. log \in Seq(Commits) /\ k \in Nat
  BY DEF TypeInv, TypeOK
<1>2. Tells(Stacked(S), BaseTree[root], S, Covered, log, k)
  BY DEF Done
<1>3. Agree(TreeAt(BaseTree[root], log, Len(log)), Stacked(S)[k], Covered)
  <2> HIDE DEF Stacked
  <2> QED BY <1>1, <1>2, TellsHead
<1> QED BY <1>3 DEF TreeAt, HeadTree, TreeOf

\* When the next patch of a replay is n, the history is done up to n - 1.
LEMMA NextToDo ==
  ASSUME TypeInv, root \in Bases, NEW k \in 0..MaxNumber, op.todo = After(k), Done(series, k),
         NEW n \in Numbers, Applying(n)
  PROVE  /\ n \in series /\ op.todo \ {n} = After(n) /\ n \in 0..MaxNumber /\ n - 1 \in 0..MaxNumber
         /\ Done(series, n - 1)
         /\ Agree(HeadTree, Stacked(series)[n - 1], Covered)
         /\ Fitted(series, k) => Fitted(series, n - 1)
<1>1. /\ series \in SUBSET Numbers /\ series \subseteq Int /\ n \in series /\ k < n
      /\ \A m \in series : k < m => n <= m
  BY DEF TypeInv, TypeOK, After, Applying, Numbers
<1>2. n \in 0..MaxNumber /\ n - 1 \in 0..MaxNumber /\ k <= n - 1 /\ n \in Int
  BY <1>1, RepositoryAssumption DEF Numbers
<1>3. \A m \in series : ~(k < m /\ m <= n - 1)
  BY <1>1, <1>2
<1>4. Done(series, n - 1) /\ (Fitted(series, k) => Fitted(series, n - 1))
  BY <1>1, <1>2, <1>3, DoneOn
<1>5. Agree(HeadTree, Stacked(series)[n - 1], Covered)
  BY <1>1, <1>2, <1>4, DoneHead
<1>6. op.todo \ {n} = After(n)
  <2>1. ASSUME NEW m PROVE m \in op.todo \ {n} <=> m \in series /\ n < m
    <3>1. m \in op.todo <=> m \in series /\ k < m
      BY DEF After
    <3>2. CASE m \in series
      <4>1. m \in Int /\ k \in Int /\ n \in Int
        BY <1>1, <1>2, <3>2
      <4>2. k < m => n <= m
        BY <1>1, <3>2
      <4> QED BY <1>1, <3>1, <3>2, <4>1, <4>2
    <3>3. CASE m \notin series
      BY <3>1, <3>3
    <3> QED BY <3>2, <3>3
  <2>2. ASSUME NEW m PROVE m \in After(n) <=> m \in series /\ n < m
    BY <1>1, <1>2 DEF After
  <2> QED BY <2>1, <2>2
<1> QED BY <1>1, <1>2, <1>4, <1>5, <1>6

\* What the next patch makes of the tree, it makes of the series.
LEMMA PatchTells ==
  ASSUME TypeInv, root \in Bases, NEW S \in SUBSET Numbers, NEW n \in S, NEW t \in Trees,
         DOMAIN files[n] \cap Covered = {}, Agree(t, Stacked(S)[n - 1], Covered)
  PROVE  /\ Patched(files[n], t) = t <=> Stacked(S)[n] = Stacked(S)[n - 1]
         /\ Fits(files[n], t) <=> Fits(files[n], Stacked(S)[n - 1])
         /\ Agree(Patched(files[n], t), Stacked(S)[n], Covered)
         /\ \A s \in Covered : Patched(files[n], t)[s] = t[s]
<1> DEFINE p == files[n]
           u == Stacked(S)[n - 1]
<1>1. p \in Patches /\ u \in Trees /\ Stacked(S)[n] = Patched(p, u)
  BY StackedSteps
<1> HIDE DEF u, p
<1>2. Agree(t, u, Covered) /\ DOMAIN p \cap Covered = {}
  BY DEF u, p
<1>3. DOMAIN p \subseteq Spots \ Covered
  BY <1>1, <1>2, PatchDomain
<1>4. \A s \in DOMAIN p : t[s] = u[s]
  BY <1>2, <1>3 DEF Agree
<1>5. Patched(p, t) = t <=> Reverses(p, t)
  <2>1. Reverses(p, t) => Patched(p, t) = t
    BY DEF Reverses, Patched, Trees
  <2>2. Patched(p, t) = t => Reverses(p, t)
    <3> SUFFICES ASSUME Patched(p, t) = t, NEW s \in DOMAIN p PROVE t[s] = p[s].new
      BY DEF Reverses
    <3>1. s \in Spots
      BY <1>3
    <3>2. Patched(p, t)[s] = p[s].new
      BY <3>1 DEF Patched
    <3> QED BY <3>2
  <2> QED BY <2>1, <2>2
<1>6. Patched(p, u) = u <=> Reverses(p, u)
  <2>1. Reverses(p, u) => Patched(p, u) = u
    BY <1>1 DEF Reverses, Patched, Trees
  <2>2. Patched(p, u) = u => Reverses(p, u)
    <3> SUFFICES ASSUME Patched(p, u) = u, NEW s \in DOMAIN p PROVE u[s] = p[s].new
      BY DEF Reverses
    <3>1. s \in Spots
      BY <1>3
    <3>2. Patched(p, u)[s] = p[s].new
      BY <3>1 DEF Patched
    <3> QED BY <3>2
  <2> QED BY <2>1, <2>2
<1>7. Reverses(p, t) <=> Reverses(p, u)
  BY <1>4 DEF Reverses
<1>8. Fits(p, t) <=> Fits(p, u)
  BY <1>4 DEF Fits
<1>9. Agree(Patched(p, t), Patched(p, u), Covered)
  BY <1>2 DEF Agree, Patched
<1>10. \A s \in Covered : Patched(p, t)[s] = t[s]
  BY <1>2, SpotAssumption DEF Patched, Covered
<1> QED BY <1>1, <1>5, <1>6, <1>7, <1>8, <1>9, <1>10 DEF u, p

LEMMA BuildKinds ==
  ASSUME Ready, op.pc \in {"patch", "commit", "seal"}
  PROVE  /\ TypeInv /\ PlaceInv /\ BuildInv /\ op \in Operations /\ series \in SUBSET Numbers
         /\ op.kind \in {"apply", "setup", "rebase", "refresh"} /\ root \in Bases
         /\ HeadTree \in Trees /\ Staged \in Trees /\ work \in Trees /\ log \in Seq(Commits)
<1>1. TypeInv /\ PlaceInv /\ BuildInv /\ op \in Operations /\ series \in SUBSET Numbers
  BY DEF Ready, HistInv, TypeInv, TypeOK
<1>2. op.kind \in {"apply", "setup", "rebase", "refresh"}
  BY <1>1 DEF PlaceInv, AtPoint
<1>3. root \in Bases /\ work \in Trees /\ log \in Seq(Commits)
  BY <1>1 DEF TypeInv, Structure, TypeOK
<1> QED BY <1>1, <1>2, <1>3, HeadType

LEMMA StartReplayHist == ASSUME Ready, StartReplay PROVE HistInv'
<1>0. op \in Operations /\ PlaceInv /\ TypeInv /\ op.pc = "begin" /\ op.kind # "reverse" /\ ~Missing
      /\ ~Collides(OverlayBase) /\ root \in Bases /\ series \in SUBSET Numbers
  BY DEF StartReplay, Replayable, Ready, HistInv, TypeInv, TypeOK, Structure
<1>1. /\ op'.kind = op.kind /\ op'.pc = "patch" /\ op'.pre = op.pre /\ op'.skip = op.skip
      /\ op'.flag = op.flag /\ op'.todo = series \ {op.skip}
  BY <1>0 DEF StartReplay, Proceed, Operations
<1>2. UNCHANGED <<files, series, overlay, pin, root, log, work, story>>
  BY DEF StartReplay, Proceed, repository, workspace
<1>3. op.kind \in {"apply", "setup", "rebase"}
  BY <1>0 DEF PlaceInv, AtPoint
<1>4. PlaceInv'
  BY <1>0, <1>1, <1>3 DEF PlaceInv, AtPoint
<1>5. ASSUME Trusted' PROVE BuildInv'
  <2>1. op.pre = 0 /\ op.skip \notin series /\ Apart
    BY <1>1, <1>2, <1>3, <1>5, HistFrame DEF Trusted
  <2>2. log = <<>> /\ work = BaseTree[root]
    BY <1>0, <2>1 DEF PlaceInv
  <2>3. HeadTree = BaseTree[root] /\ Len(log) = 0
    BY <2>2, EmptyLog DEF HeadTree, TreeOf
  <2>4. Clear(series)
    BY <1>0, <2>1 DEF Clear, Apart, Missing
  <2>5. 0 \in 0..MaxNumber
    BY RepositoryAssumption
  <2>6. op'.todo = After(0)
    <3>1. \A m \in series : m > 0
      BY <1>0 DEF Numbers
    <3> QED BY <1>1, <2>1, <3>1 DEF After
  <2>7. Done(series, 0)
    <3>1. Stacked(series)[0] = BaseTree[root]
      BY <1>0, StackedSteps
    <3>2. Tells(Stacked(series), BaseTree[root], series, Covered, <<>>, 0)
      <4> HIDE DEF Stacked
      <4> QED BY <1>0, <3>1, TellsNothing
    <3> QED BY <2>2, <3>2 DEF Done
  <2>8. Fitted(series, 0)
    BY <1>0 DEF Fitted, Numbers
  <2>9. (root = pin.sha \/ (op.kind = "rebase" /\ op.flag)) => Clean
    <3> SUFFICES ASSUME root = pin.sha \/ op.kind = "rebase",
                        NEW s \in Covered, NEW i \in 0..Len(log)
                 PROVE  TreeOf(i)[s] \in {Absent, overlay}
      BY DEF Clean
    <3>1. s = OverlaySpot /\ overlay # Absent /\ i = 0
      BY <2>3 DEF Covered
    <3>2. ~Collides(root)
      BY <1>0 DEF OverlayBase
    <3> QED BY <3>1, <3>2 DEF Collides, TreeOf
  <2>10. (root' = pin'.sha \/ (op'.kind = "rebase" /\ op'.flag)) => Clean'
    BY <1>1, <1>2, <2>9, HistFrame
  <2>11. \E k \in 0..MaxNumber : (op.todo = After(k) /\ Done(series, k) /\ (Straight => Fitted(series, k)))'
    <3>1. (op.todo = After(0))'
      BY <1>2, <2>6 DEF After
    <3>2. Done(series, 0)' /\ Fitted(series, 0)'
      BY <1>2, <2>7, <2>8, HistFrame
    <3> QED BY <2>5, <3>1, <3>2
  <2>12. (root \in Bases /\ Clear(series) /\ work = HeadTree)'
    BY <1>0, <1>2, <2>2, <2>3, <2>4, HistFrame
  <2>13. Exactable' => Clean'
    BY <1>1, <1>3, <2>10 DEF Exactable
  <2> QED BY <1>1, <1>3, <2>11, <2>12, <2>13 DEF BuildInv
<1>6. BuildInv'
  BY <1>5 DEF BuildInv
<1> QED BY <1>1, <1>4, <1>6, OnlyBuild

\* The steps of a replay that change neither the series nor the story.
LEMMA BuildFrame ==
  ASSUME Ready, op.pc \in {"patch", "commit", "seal"}, UNCHANGED <<repository, root, story>>,
         op'.kind = op.kind, op'.pre = op.pre, op'.skip = op.skip, op'.flag = op.flag
  PROVE  /\ Trusted' <=> Trusted
         /\ Exactable' <=> Exactable
         /\ UNCHANGED <<files, series, overlay, pin, root>>
         /\ Covered' = Covered
         /\ Clear(series)' <=> Clear(series)
         /\ \A k : Fitted(series, k)' <=> Fitted(series, k)
         /\ \A n : After(n)' = After(n)
<1>1. UNCHANGED <<files, series, overlay, pin, root>>
  BY DEF repository
<1>2. Covered' = Covered
  BY <1>1 DEF Covered
<1>3. Apart' <=> Apart
  BY <1>1, <1>2 DEF Apart
<1>4. Trusted' <=> Trusted
  BY <1>1, <1>3 DEF Trusted, Good
<1>5. Exactable' <=> Exactable
  BY <1>1 DEF Exactable
<1>6. Clear(series)' <=> Clear(series)
  BY <1>1, <1>2 DEF Clear
<1>7. \A k : Fitted(series, k)' <=> Fitted(series, k)
  BY <1>1 DEF Fitted, Stacked
<1>8. \A n : After(n)' = After(n)
  BY <1>1 DEF After
<1> QED BY <1>1, <1>2, <1>4, <1>5, <1>6, <1>7, <1>8

LEMMA ApplyNextHist == ASSUME Ready, NEW n \in Numbers, ApplyNext(n) PROVE HistInv'
<1>0. op.pc = "patch" /\ n \in op.todo
  BY DEF ApplyNext, Applying
<1>1. /\ TypeInv /\ PlaceInv /\ BuildInv /\ op \in Operations /\ series \in SUBSET Numbers
      /\ op.kind \in {"apply", "setup", "rebase", "refresh"} /\ root \in Bases
      /\ work \in Trees
  BY <1>0, BuildKinds
<1> DEFINE d == op.direct /\ Fits(files[n], work)
           next == IF work' = HeadTree THEN "patch" ELSE "commit"
<1>2. op' = [op EXCEPT !.pc = next, !.todo = op.todo \ {n}, !.at = n, !.direct = d]
  BY DEF ApplyNext, Proceed
<1>3. next \in {"patch", "commit"} /\ (next = "patch" <=> work' = HeadTree)
  OBVIOUS
<1> HIDE DEF d, next
<1>4. /\ op'.kind = op.kind /\ op'.pc = next /\ op'.pre = op.pre /\ op'.skip = op.skip
      /\ op'.flag = op.flag /\ op'.todo = op.todo \ {n} /\ op'.at = n /\ op'.direct = d
  BY <1>1, <1>2 DEF Operations
<1>5. UNCHANGED <<files, series, overlay, pin, root, log, story>> /\ UNCHANGED repository
  BY DEF ApplyNext, Proceed, repository
<1>6. work' = Patched(files[n], work)
  BY DEF ApplyNext
<1>7. PlaceInv'
  BY <1>1, <1>3, <1>4, <1>5 DEF PlaceInv, AtPoint
<1>8. ASSUME Trusted' PROVE BuildInv'
  <2>1. /\ Trusted /\ (Exactable' <=> Exactable) /\ Covered' = Covered
        /\ (Clear(series)' <=> Clear(series))
        /\ (\A k : Fitted(series, k)' <=> Fitted(series, k))
        /\ (\A m : After(m)' = After(m))
        /\ HeadTree' = HeadTree
        /\ (\A k : Done(series, k)' <=> Done(series, k))
        /\ (Clean' <=> Clean)
    BY <1>0, <1>4, <1>5, <1>8, BuildFrame, HistFrame
  <2>0. Trusted /\ BuildInv
    BY <1>1, <2>1
  <2>2. Clear(series) /\ work = HeadTree /\ (Exactable => Clean)
        /\ (op.kind = "refresh" => (Covered # {} => op.flag) /\ (story = "exact" => root = pin.sha))
    BY <1>0, <2>0 DEF BuildInv
  <2>3. PICK k \in 0..MaxNumber :
          op.todo = After(k) /\ Done(series, k) /\ (Straight => Fitted(series, k))
    BY <1>0, <2>0 DEF BuildInv
  <2>4. Applying(n)
    BY DEF ApplyNext
  <2>5. /\ n \in series /\ op.todo \ {n} = After(n) /\ n \in 0..MaxNumber /\ n - 1 \in 0..MaxNumber
        /\ Done(series, n - 1)
        /\ Agree(HeadTree, Stacked(series)[n - 1], Covered)
        /\ Fitted(series, k) => Fitted(series, n - 1)
    BY <1>1, <2>3, <2>4, NextToDo
  <2>6. DOMAIN files[n] \cap Covered = {}
    BY <2>2, <2>5 DEF Clear
  <2>7. /\ work' = work <=> Stacked(series)[n] = Stacked(series)[n - 1]
        /\ Fits(files[n], work) <=> Fits(files[n], Stacked(series)[n - 1])
    BY <1>1, <1>6, <2>2, <2>5, <2>6, PatchTells
  <2>8. Straight' => Fitted(series, n)
    <3>1. Straight' => Straight /\ Fits(files[n], work)
      <4>1. op'.direct => op.direct /\ Fits(files[n], work)
        BY <1>4 DEF d
      <4> QED BY <1>4, <1>5, <4>1 DEF Straight
    <3>2. ASSUME Fitted(series, n - 1), Fits(files[n], Stacked(series)[n - 1]) PROVE Fitted(series, n)
      <4>1. \A m \in series : m <= n => m = n \/ m <= n - 1
        BY <1>1, NumberIs
      <4> QED BY <3>2, <4>1 DEF Fitted
    <3> QED BY <2>3, <2>5, <2>7, <3>1, <3>2
  <2>9. CASE next = "patch"
    <3>1. work' = HeadTree /\ Stacked(series)[n] = Stacked(series)[n - 1]
      BY <1>3, <2>2, <2>7, <2>9
    <3>2. Done(series, n)
      <4> DEFINE k1 == n - 1
      <4>1. k1 \in Nat /\ n \in Nat /\ k1 <= n /\ log \in Seq(Commits)
        BY <1>1, NumberIs, RepositoryAssumption DEF TypeInv, TypeOK
      <4>2. \A m \in k1..n : Stacked(series)[m] = Stacked(series)[k1]
        <5>1. \A m \in k1..n : m = k1 \/ m = n
          BY <4>1
        <5> HIDE DEF Stacked
        <5> QED BY <3>1, <5>1
      <4>3. Tells(Stacked(series), BaseTree[root], series, Covered, log, k1)
        BY <2>5 DEF Done
      <4> HIDE DEF k1, Stacked
      <4> QED BY <1>1, <4>1, <4>2, <4>3, TellsOn DEF Done
    <3>3. (work = HeadTree)'
      BY <2>1, <3>1
    <3>4. \E j \in 0..MaxNumber : (op.todo = After(j) /\ Done(series, j) /\ (Straight => Fitted(series, j)))'
      <4>1. (op.todo = After(n))' /\ Done(series, n)' /\ (Straight => Fitted(series, n))'
        BY <1>4, <2>1, <2>5, <2>8, <3>2
      <4> QED BY <2>5, <4>1
    <3> QED BY <1>1, <1>4, <1>5, <2>1, <2>2, <2>9, <3>3, <3>4 DEF BuildInv
  <2>10. CASE next = "commit"
    <3>1. (work = Patched(files[n], HeadTree))' /\ (work # HeadTree)'
      BY <1>3, <1>5, <1>6, <2>1, <2>2, <2>10
    <3>2. (Straight => Fitted(series, n))'
      BY <2>1, <2>8
    <3> QED BY <1>1, <1>4, <1>5, <2>1, <2>2, <2>5, <2>10, <3>1, <3>2 DEF BuildInv
  <2> QED BY <1>3, <2>9, <2>10
<1>9. BuildInv'
  BY <1>8 DEF BuildInv
<1> QED BY <1>3, <1>4, <1>7, <1>9, OnlyBuild

\* A commit that leaves what overlays/ holds as it was keeps the history clean.
LEMMA CleanOn ==
  ASSUME TypeInv, Clean, UNCHANGED <<overlay, root>>, NEW c, NEW t,
         log' = Append(log, [by |-> c, tree |-> t]), \A s \in Covered : t[s] \in {Absent, overlay}
  PROVE  Clean' /\ HeadTree' = t
<1>1. /\ Len(log) \in Nat /\ Len(log') = Len(log) + 1 /\ log'[Len(log) + 1] = [by |-> c, tree |-> t]
      /\ \A i \in 1..Len(log) : log'[i] = log[i]
  BY LenProperties DEF TypeInv, TypeOK
<1>2. TreeOf(Len(log))' = t
  <2>1. log'[Len(log')].tree = t /\ Len(log') # 0
    BY <1>1
  <2> QED BY <2>1 DEF TreeOf
<1>3. ASSUME NEW i \in 0..Len(log) PROVE TreeOf(i)' = TreeOf(i)
  <2>1. i = 0 \/ log'[i] = log[i]
    BY <1>1
  <2> QED BY <2>1 DEF TreeOf
<1>4. \A i \in 0..Len(log') : i \in 0..Len(log) \/ i = Len(log')
  BY <1>1
<1>5. Covered' = Covered
  BY DEF Covered
<1>6. HeadTree' = t
  BY <1>2 DEF HeadTree
<1>7. ASSUME NEW s \in Covered, NEW i \in 0..Len(log') PROVE TreeOf(i)'[s] \in {Absent, overlay}
  <2>1. CASE i \in 0..Len(log)
    BY <1>3, <2>1 DEF Clean
  <2>2. CASE i = Len(log')
    BY <1>2, <2>2 DEF TreeOf
  <2> QED BY <1>4, <2>1, <2>2
<1> QED BY <1>5, <1>6, <1>7 DEF Clean

LEMMA CommitHead ==
  ASSUME TypeInv, UNCHANGED root, NEW c, NEW t, log' = Append(log, [by |-> c, tree |-> t])
  PROVE  HeadTree' = t
<1>1. Len(log) \in Nat /\ Len(log') = Len(log) + 1 /\ log'[Len(log) + 1] = [by |-> c, tree |-> t]
  BY LenProperties DEF TypeInv, TypeOK
<1> QED BY <1>1 DEF HeadTree, TreeOf

\* The commit of patch n, whose difference to HEAD is what the patch does.
LEMMA DoneNext ==
  ASSUME TypeInv, root \in Bases, NEW S \in SUBSET Numbers, NEW n \in S, Done(S, n - 1),
         NEW t, log' = Append(log, [by |-> n, tree |-> t]), UNCHANGED <<files, overlay, root>>,
         Stacked(S)[n] # Stacked(S)[n - 1], Agree(t, Stacked(S)[n], Covered),
         \A s \in Covered : t[s] = HeadTree[s]
  PROVE  Tells(Stacked(S), BaseTree[root], S, Covered, log', n)
<1>1. Tells(Stacked(S), BaseTree[root], S, Covered, log, n - 1) /\ log \in Seq(Commits)
  BY DEF Done, TypeInv, TypeOK
<1>2. \A s \in Covered : t[s] = TreeAt(BaseTree[root], log, Len(log))[s]
  BY DEF HeadTree, TreeOf, TreeAt
<1> HIDE DEF Stacked
<1> QED BY <1>1, <1>2, TellsPatch

LEMMA CommitPatchHist == ASSUME Ready, CommitPatch PROVE HistInv'
<1>0. op.pc = "commit" /\ op.pc \in {"patch", "commit", "seal"}
  BY DEF CommitPatch
<1>1. /\ TypeInv /\ PlaceInv /\ BuildInv /\ op \in Operations /\ series \in SUBSET Numbers
      /\ op.kind \in {"apply", "setup", "rebase", "refresh"} /\ root \in Bases
      /\ HeadTree \in Trees
  BY <1>0, BuildKinds
<1>2. op' = [op EXCEPT !.pc = "patch"] /\ log' = Append(log, [by |-> op.at, tree |-> work])
  BY DEF CommitPatch, Proceed
<1>4. /\ op'.kind = op.kind /\ op'.pc = "patch" /\ op'.pre = op.pre /\ op'.skip = op.skip
      /\ op'.flag = op.flag /\ op'.todo = op.todo /\ op'.direct = op.direct
  BY <1>1, <1>2 DEF Operations
<1>5. UNCHANGED <<files, series, overlay, pin, root, work, story>> /\ UNCHANGED repository
  BY DEF CommitPatch, Proceed, repository
<1>7. PlaceInv'
  BY <1>1, <1>4, <1>5 DEF PlaceInv, AtPoint
<1>8. ASSUME Trusted' PROVE BuildInv'
  <2>0. Trusted
    BY <1>0, <1>4, <1>5, <1>8, BuildFrame
  <2>1. /\ Exactable' <=> Exactable
        /\ Covered' = Covered
        /\ Clear(series)' <=> Clear(series)
        /\ \A k : Fitted(series, k)' <=> Fitted(series, k)
        /\ \A m : After(m)' = After(m)
    BY <1>0, <1>4, <1>5, BuildFrame
  <2>2. Clear(series) /\ (Exactable => Clean)
        /\ (op.kind = "refresh" => (Covered # {} => op.flag) /\ (story = "exact" => root = pin.sha))
    BY <1>0, <1>1, <2>0 DEF BuildInv
  <2>3. /\ op.at \in series /\ op.todo = After(op.at) /\ Done(series, op.at - 1)
        /\ work = Patched(files[op.at], HeadTree) /\ work # HeadTree
        /\ Straight => Fitted(series, op.at)
    BY <1>0, <1>1, <2>0 DEF BuildInv
  <2>4. PICK n \in series : n = op.at
    BY <2>3
  <2>5. n \in 0..MaxNumber /\ n - 1 \in 0..MaxNumber
    BY <1>1, StackedSteps
  <2>6. Agree(HeadTree, Stacked(series)[n - 1], Covered)
    BY <1>1, <2>3, <2>4, <2>5, DoneHead
  <2>7. DOMAIN files[n] \cap Covered = {}
    BY <2>2 DEF Clear
  <2>8. /\ Stacked(series)[n] # Stacked(series)[n - 1]
        /\ Agree(work, Stacked(series)[n], Covered)
        /\ \A s \in Covered : work[s] = HeadTree[s]
    BY <1>1, <2>3, <2>4, <2>6, <2>7, PatchTells
  <2>9. Tells(Stacked(series), BaseTree[root], series, Covered, log', n)
    <3>1. log' = Append(log, [by |-> n, tree |-> work]) /\ Done(series, n - 1)
      BY <1>2, <2>3, <2>4
    <3> QED BY <1>1, <1>5, <2>8, <3>1, DoneNext
  <2>10. Done(series, n)'
    BY <1>5, <2>9 DEF Done, Stacked, Covered
  <2>11. (work = HeadTree)'
    BY <1>1, <1>2, <1>5, CommitHead
  <2>12. Exactable' => Clean'
    <3> SUFFICES ASSUME Exactable PROVE Clean'
      BY <2>1
    <3>1. \A s \in Covered : work[s] \in {Absent, overlay}
      <4>1. \A s \in Covered : HeadTree[s] \in {Absent, overlay}
        <5>1. Len(log) \in 0..Len(log)
          BY <1>1, LogType
        <5> QED BY <2>2, <5>1 DEF Clean, HeadTree
      <4> QED BY <2>8, <4>1
    <3> QED BY <1>1, <1>2, <1>5, <2>2, <3>1, CleanOn
  <2>13. \E j \in 0..MaxNumber : (op.todo = After(j) /\ Done(series, j) /\ (Straight => Fitted(series, j)))'
    <3>1. Straight' => Straight
      BY <1>4, <1>5 DEF Straight
    <3>2. (op.todo = After(n))' /\ Done(series, n)' /\ (Straight => Fitted(series, n))'
      BY <1>4, <2>1, <2>3, <2>4, <2>10, <3>1
    <3> QED BY <2>5, <3>2
  <2> QED BY <1>1, <1>4, <1>5, <2>1, <2>2, <2>11, <2>12, <2>13 DEF BuildInv
<1>9. BuildInv'
  BY <1>8 DEF BuildInv
<1> QED BY <1>4, <1>7, <1>9, OnlyBuild

LEMMA HeadClean ==
  ASSUME TypeInv, Clean
  PROVE  \A s \in Covered : HeadTree[s] \in {Absent, overlay}
<1>1. Len(log) \in 0..Len(log)
  BY LogType
<1> QED BY <1>1 DEF Clean, HeadTree

LEMMA CopyOverlaysHist == ASSUME Ready, CopyOverlays PROVE HistInv'
<1>0. op.pc = "patch" /\ op.pc \in {"patch", "commit", "seal"} /\ op.todo = {}
  BY DEF CopyOverlays, PatchesDone
<1>1. /\ TypeInv /\ PlaceInv /\ BuildInv /\ op \in Operations /\ series \in SUBSET Numbers
      /\ op.kind \in {"apply", "setup", "rebase", "refresh"} /\ root \in Bases /\ work \in Trees
  BY <1>0, BuildKinds
<1>2. op' = [op EXCEPT !.pc = "seal"]
  BY DEF CopyOverlays, Proceed
<1>3. work' = IF overlay = Absent \/ OverlayInWay THEN work ELSE [work EXCEPT ![OverlaySpot] = overlay]
  BY DEF CopyOverlays
<1>4. /\ op'.kind = op.kind /\ op'.pc = "seal" /\ op'.pre = op.pre /\ op'.skip = op.skip
      /\ op'.flag = op.flag /\ op'.todo = op.todo /\ op'.direct = op.direct
  BY <1>1, <1>2 DEF Operations
<1>5. UNCHANGED <<files, series, overlay, pin, root, log, story>> /\ UNCHANGED repository
  BY DEF CopyOverlays, Proceed, repository
<1>7. PlaceInv'
  BY <1>1, <1>4, <1>5 DEF PlaceInv, AtPoint
<1>8. ASSUME Trusted' PROVE BuildInv'
  <2>0. Trusted
    BY <1>0, <1>4, <1>5, <1>8, BuildFrame
  <2>1. /\ Exactable' <=> Exactable
        /\ Covered' = Covered
        /\ Clear(series)' <=> Clear(series)
        /\ \A k : Fitted(series, k)' <=> Fitted(series, k)
        /\ \A m : After(m)' = After(m)
        /\ HeadTree' = HeadTree
        /\ \A k : Done(series, k)' <=> Done(series, k)
        /\ Clean' <=> Clean
    BY <1>0, <1>4, <1>5, BuildFrame, HistFrame
  <2>2. Clear(series) /\ work = HeadTree /\ (Exactable => Clean)
        /\ (op.kind = "refresh" => (Covered # {} => op.flag) /\ (story = "exact" => root = pin.sha))
    BY <1>0, <1>1, <2>0 DEF BuildInv
  <2>3. PICK k \in 0..MaxNumber :
          op.todo = After(k) /\ Done(series, k) /\ (Straight => Fitted(series, k))
    BY <1>0, <1>1, <2>0 DEF BuildInv
  <2>4. MaxNumber \in 0..MaxNumber /\ k <= MaxNumber
    BY RepositoryAssumption
  <2>5. \A m \in series : ~(k < m /\ m <= MaxNumber)
    BY <1>0, <1>1, <2>3 DEF After, Numbers
  <2>6. Done(series, MaxNumber) /\ (Fitted(series, k) => Fitted(series, MaxNumber))
    BY <1>1, <2>3, <2>4, <2>5, DoneOn
  <2>7. Straight' => Straight
    BY <1>4, <1>5 DEF Straight
  <2>8. Agree(work', HeadTree, Covered)
    BY <1>3, <2>2 DEF Agree, Covered
  <2>9. Covered = {} => work' = work
    BY <1>3 DEF Covered
  <2>10. Exactable => \A s \in Covered : work'[s] = overlay
    <3> SUFFICES ASSUME Exactable, NEW s \in Covered PROVE work'[s] = overlay
      OBVIOUS
    <3>1. s = OverlaySpot /\ overlay # Absent /\ HeadTree[s] \in {Absent, overlay}
      BY <1>1, <2>2, HeadClean DEF Covered
    <3>2. ~OverlayInWay
      BY <2>2, <3>1 DEF OverlayInWay
    <3> QED BY <1>1, <1>3, <3>1, <3>2, SpotAssumption DEF Trees
  <2>11. (/\ Done(series, MaxNumber) /\ (Straight => Fitted(series, MaxNumber))
          /\ Agree(work, HeadTree, Covered)
          /\ op.kind = "refresh" => op.flag \/ work = HeadTree
          /\ Exactable => \A s \in Covered : work[s] = overlay)'
    BY <1>4, <1>5, <2>1, <2>2, <2>3, <2>6, <2>7, <2>8, <2>9, <2>10
  <2> QED BY <1>1, <1>4, <1>5, <2>1, <2>2, <2>11 DEF BuildInv
<1>9. BuildInv'
  BY <1>8 DEF BuildInv
<1> QED BY <1>4, <1>7, <1>9, OnlyBuild

\* The commit of the overlays, if there is anything to commit.
LEMMA SealTells ==
  ASSUME TypeInv, root \in Bases, series \in SUBSET Numbers, Clear(series),
         Done(series, MaxNumber), Agree(work, HeadTree, Covered),
         log' = Sealed \/ (log' = log /\ work = HeadTree),
         UNCHANGED <<files, series, overlay, root, work>>
  PROVE  /\ Whole(series)'
         /\ Clean /\ (\A s \in Covered : work[s] = overlay) =>
              Clean' /\ (\A s \in Covered : HeadTree[s] = overlay)'
         /\ \A k : Fitted(series, k)' <=> Fitted(series, k)
<1>1. (\A k : Fitted(series, k)' <=> Fitted(series, k)) /\ Clear(series)' /\ Covered' = Covered
  BY DEF Fitted, Stacked, Clear, Covered
<1>2. CASE log' = Sealed
  <2>1. log' = Append(log, [by |-> Overlays, tree |-> work])
    BY <1>2 DEF Sealed
  <2>2. HeadTree' = work
    BY <2>1, CommitHead
  <2>3. Tells(Stacked(series), BaseTree[root], series, Covered, log', MaxNumber)
    <3>1. Tells(Stacked(series), BaseTree[root], series, Covered, log, MaxNumber)
      BY DEF Done
    <3>2. log \in Seq(Commits) /\ MaxNumber \in Nat
      BY RepositoryAssumption DEF TypeInv, TypeOK
    <3>3. Agree(work, TreeAt(BaseTree[root], log, Len(log)), Covered)
      BY DEF HeadTree, TreeOf, TreeAt
    <3> HIDE DEF Stacked
    <3> QED BY <2>1, <3>1, <3>2, <3>3, TellsOverlays
  <2>4. Done(series, MaxNumber)'
    BY <2>3 DEF Done, Stacked, Covered
  <2>5. Clean /\ (\A s \in Covered : work[s] = overlay) => Clean'
    BY <2>1, CleanOn
  <2> QED BY <1>1, <2>2, <2>4, <2>5 DEF Whole, Unmoved
<1>3. CASE log' = log /\ work = HeadTree
  <2>1. HeadTree' = HeadTree /\ (Clean' <=> Clean) /\ (Done(series, MaxNumber)' <=> Done(series, MaxNumber))
    BY <1>3, HistFrame
  <2> QED BY <1>1, <1>3, <2>1 DEF Whole, Unmoved
<1> QED BY <1>2, <1>3

LEMMA SealReplayHist == ASSUME Ready, SealReplay PROVE HistInv'
<1>0. op.pc = "seal" /\ op.pc \in {"patch", "commit", "seal"} /\ op.kind # "refresh"
  BY DEF SealReplay
<1>1. /\ TypeInv /\ PlaceInv /\ BuildInv /\ op \in Operations /\ series \in SUBSET Numbers
      /\ op.kind \in {"apply", "setup", "rebase"} /\ root \in Bases
  BY <1>0, BuildKinds
<1> DEFINE exact == op.pre = 0 /\ op.direct /\ op.skip \notin series /\ Apart
                    /\ (root = pin.sha \/ (op.kind = "rebase" /\ op.flag))
           how == IF op.skip \in series THEN "partly" ELSE "applied"
           then == IF exact THEN "exact" ELSE "other"
<1>2. Replayed(how, then)
  BY DEF SealReplay
<1>3. UNCHANGED <<files, series, overlay, pin, root, work>>
      /\ (log' = Sealed \/ (log' = log /\ work = HeadTree))
  BY DEF SealReplay, repository, Dirty
<1>4. /\ story' = then
      /\ \/ op' = Idle /\ ~(op.kind = "rebase" /\ op.flag)
         \/ op' = [op EXCEPT !.pc = "ref"] /\ op.kind = "rebase"
  <2> HIDE DEF how, then
  <2> QED BY <1>2 DEF Replayed, Finish
<1>5. PlaceInv' /\ Resting' /\ ((op.kind = "rebase" /\ op.flag) => op'.pc = "ref")
  <2>1. CASE op' = Idle /\ ~(op.kind = "rebase" /\ op.flag)
    BY <2>1, IdlePlace
  <2>2. CASE op' = [op EXCEPT !.pc = "ref"] /\ op.kind = "rebase"
    <3>1. op'.pc = "ref" /\ op'.kind = "rebase" /\ op'.pre = op.pre /\ op'.skip = op.skip
      BY <1>1, <2>2 DEF Operations
    <3> QED BY <1>1, <2>2, <3>1 DEF PlaceInv, AtPoint, Resting
  <2> QED BY <1>4, <2>1, <2>2
<1>6. CASE ~exact
  BY <1>4, <1>5, <1>6, RestOther
<1>7. CASE exact
  <2>1. Trusted /\ Straight /\ Exactable
    BY <1>0, <1>1, <1>7 DEF Trusted, Straight, Exactable
  <2>2. /\ Clear(series) /\ Clean /\ Done(series, MaxNumber) /\ Fitted(series, MaxNumber)
        /\ Agree(work, HeadTree, Covered) /\ \A s \in Covered : work[s] = overlay
    BY <1>0, <1>1, <2>1 DEF BuildInv
  <2>3. /\ Whole(series)'
        /\ Clean' /\ (\A s \in Covered : HeadTree[s] = overlay)'
        /\ Fitted(series, MaxNumber)'
    BY <1>1, <1>3, <2>2, SealTells
  <2>4. story' = "exact"
    BY <1>4, <1>7
  <2>5. root' = pin'.sha \/ op'.pc \in {"ref", "sha"}
    BY <1>3, <1>5, <1>7
  <2>6. RestInv'
    BY <2>3, <2>4, <2>5 DEF RestInv, Exactly
  <2> QED BY <1>5, <2>6, OnlyRest
<1> QED BY <1>6, <1>7

LEMMA ConflictHist == ASSUME Ready, NEW n \in Numbers, Conflict(n) PROVE HistInv'
<1>0. op.pc = "patch" /\ op.pc \in {"patch", "commit", "seal"} /\ Applying(n)
  BY DEF Conflict, Applying
<1>1. /\ TypeInv /\ PlaceInv /\ BuildInv /\ op \in Operations /\ series \in SUBSET Numbers
      /\ root \in Bases /\ work \in Trees
  BY <1>0, BuildKinds
<1>2. /\ UNCHANGED <<files, series, overlay, pin, root, log>> /\ op' = Idle
      /\ work' = WithMarkers(files[n], work)
      /\ story' = IF op.kind = "rebase" /\ Apart THEN "conflict" ELSE "other"
  BY DEF Conflict, Finish, repository
<1>3. CASE ~(op.kind = "rebase" /\ Apart)
  BY <1>2, <1>3, OverHolds
<1>4. CASE op.kind = "rebase" /\ Apart
  <2>1. Trusted
    <3>1. op.pre = 0 /\ op.skip = 0
      BY <1>1, <1>4 DEF PlaceInv
    <3>2. 0 \notin series
      BY <1>1, NumberIs
    <3> QED BY <1>4, <3>1, <3>2 DEF Trusted
  <2>2. Clear(series) /\ work = HeadTree
    BY <1>0, <1>1, <2>1 DEF BuildInv
  <2>3. PICK k \in 0..MaxNumber : op.todo = After(k) /\ Done(series, k)
    BY <1>0, <1>1, <2>1 DEF BuildInv
  <2>4. n \in series
    BY <1>0, <2>3 DEF Applying, After
  <2>5. \A s \in Covered : work'[s] = work[s]
    BY <1>2, <2>2, <2>4, SpotAssumption DEF Clear, WithMarkers, Covered
  <2>6. (Clear(series) /\ Unmoved /\ Done(series, k))'
    BY <1>2, <2>2, <2>3, <2>5, HistFrame DEF Unmoved
  <2>7. story' = "conflict"
    BY <1>2, <1>4
  <2>8. RestInv'
    BY <1>1, <1>2, <2>6, <2>7 DEF RestInv, Good
  <2> QED BY <1>2, <2>8, IdlePlace, OnlyRest
<1> QED BY <1>3, <1>4

-----------------------------------------------------------------------------
(* What a dump or a refresh records *)

\* What is staged is as HEAD has it where overlays/ has a file, and as the working
\* tree has it elsewhere.
LEMMA StagedIs ==
  ASSUME TypeInv, root \in Bases
  PROVE  /\ Staged \in Trees /\ HeadTree \in Trees
         /\ \A s \in Covered : Staged[s] = HeadTree[s]
         /\ \A s \in Spots \ Covered : Staged[s] = work[s]
<1>1. Staged \in Trees /\ HeadTree \in Trees /\ work \in Trees
  BY HeadType DEF TypeInv, TypeOK
<1> QED BY <1>1, SpotAssumption DEF Staged, Covered, Trees

\* The commit of patch n, which is the difference that was staged.
LEMMA RecordTells ==
  ASSUME TypeInv, root \in Bases, NEW S \in SUBSET Numbers, NEW n \in S, Done(S, n - 1),
         files[n] = Diff(HeadTree, Staged), files[n] # NoPatch,
         log' = Append(log, [by |-> n, tree |-> Staged]), UNCHANGED <<files, overlay, root>>
  PROVE  /\ DOMAIN files[n] \cap Covered = {}
         /\ Fits(files[n], Stacked(S)[n - 1])
         /\ Tells(Stacked(S), BaseTree[root], S, Covered, log', n)
         /\ HeadTree' = Staged
         /\ Clean => Clean'
<1>1. n - 1 \in 0..MaxNumber /\ files[n] \in Patches /\ Stacked(S)[n] = Patched(files[n], Stacked(S)[n - 1])
  BY StackedSteps
<1>2. \A s \in Covered : HeadTree[s] = Staged[s]
  BY StagedIs
<1>3. Agree(Stacked(S)[n - 1], HeadTree, Covered)
  BY <1>1, DoneHead DEF Agree
<1> DEFINE u == Stacked(S)[n - 1]
           t == Staged
           h == HeadTree
           cov == Covered
<1>4. Agree(u, h, cov) /\ \A s \in cov : h[s] = t[s]
  BY <1>2, <1>3
<1>5. /\ DOMAIN Diff(h, t) \cap cov = {}
      /\ Fits(Diff(h, t), u)
      /\ Agree(Patched(Diff(h, t), u), t, cov)
  <2>1. Agree(u, h, cov)
    BY <1>4
  <2>2. \A s \in cov : h[s] = t[s]
    BY <1>4
  <2> HIDE DEF u, t, h, cov
  <2>3. DOMAIN Diff(h, t) \cap cov = {}
    BY <2>1, <2>2, DiffApplies
  <2>4. Fits(Diff(h, t), u)
    BY <2>1, <2>2 DEF Fits, Diff, Agree
  <2>5. Agree(Patched(Diff(h, t), u), t, cov)
    BY <2>1, <2>2, DiffApplies
  <2> QED BY <2>3, <2>4, <2>5
<1>6. Patched(files[n], u) # u
  <2> HIDE DEF u
  <2>1. Fits(files[n], u)
    BY <1>5
  <2> QED BY <1>1, <2>1, PatchChanges
<1>7. Stacked(S)[n] # Stacked(S)[n - 1] /\ Agree(Staged, Stacked(S)[n], Covered)
  BY <1>1, <1>5, <1>6 DEF Agree
<1>8. Tells(Stacked(S), BaseTree[root], S, Covered, log', n)
  BY <1>2, <1>7, DoneNext
<1>9. HeadTree' = Staged
  BY CommitHead
<1>10. Clean => Clean'
  <2> SUFFICES ASSUME Clean PROVE Clean'
    OBVIOUS
  <2>1. \A s \in Covered : Staged[s] \in {Absent, overlay}
    BY <1>2, HeadClean
  <2> QED BY <2>1, CleanOn
<1> QED BY <1>5, <1>8, <1>9, <1>10

\* The history up to a number above all of the series is that of a series with it.
LEMMA DoneJoin ==
  ASSUME TypeInv, NEW n \in Numbers, \A m \in series : m < n, Done(series, MaxNumber)
  PROVE  /\ Done(series \cup {n}, n - 1)
         /\ Fitted(series, MaxNumber) => Fitted(series \cup {n}, n - 1)
<1> DEFINE S == series
           T == series \cup {n}
           f == Stacked(S)
           g == Stacked(T)
           base == BaseTree[root]
           c == Len(log)
           k == n - 1
<1>0. /\ S \in SUBSET Numbers /\ T \in SUBSET Numbers /\ log \in Seq(Commits) /\ MaxNumber \in Nat
      /\ n \in Nat /\ k \in 0..MaxNumber /\ k \in Nat /\ n = k + 1
  BY NumberIs, RepositoryAssumption DEF TypeInv, TypeOK
<1>1. c \in 0..Len(log) /\ SubSeq(log, 1, c) = log
  BY <1>0, LenProperties, SubSeqProperties, SeqEqual
<1>2. \A m \in S : m \in Int /\ m <= k
  BY <1>0, NumberIs
<1>3. \A m \in 1..k : (m \in S <=> m \in T) /\ (m \in S => files[m] = files[m])
  BY <1>0
<1>4. \A j \in 0..k : f[j] = g[j]
  <2>1. \A j \in 0..k : Stack(base, files, S, MaxNumber)[j] = Stack(base, files, T, MaxNumber)[j]
    <3> HIDE DEF base, k, S, T
    <3> QED BY <1>0, <1>3, StackSame
  <2> QED BY <2>1 DEF Stacked
<1>5. Tells(f, base, S, Covered, log, MaxNumber)
  BY DEF Done
<1>6. Split(log, c, k)
  <2>1. \A j \in 1..Len(log) : IsPatch(log, j) => log[j].by \in S
    BY <1>5 DEF Tells
  <2>2. \A j \in 1..Len(log) : j <= c
    BY <1>1
  <2> HIDE DEF c, k, S
  <2> QED BY <1>2, <2>1, <2>2 DEF Split
<1>7. Tells(f, base, S, Covered, log, k)
  <2>1. Tells(f, base, S, Covered, SubSeq(log, 1, c), k)
    <3> HIDE DEF f, base, c, k, S
    <3> QED BY <1>0, <1>1, <1>5, <1>6, TellsCut
  <2> QED BY <1>1, <2>1
<1>8. Tells(g, base, T, Covered, log, k)
  <2>0. \A m \in 0..k : m \in S <=> m \in T
    BY <1>0
  <2>1. \A m \in 0..k : g[m] = f[m] /\ (m \in S <=> m \in T)
    <3> HIDE DEF f, g, k, S, T
    <3> QED BY <1>4, <2>0
  <2> HIDE DEF f, g, base, k, S, T
  <2> QED BY <1>0, <1>7, <2>1, TellsSame
<1>9. Fitted(S, MaxNumber) => Fitted(T, k)
  <2> SUFFICES ASSUME Fitted(S, MaxNumber), NEW m \in T, m <= k PROVE Fits(files[m], g[m - 1])
    BY DEF Fitted
  <2>1. m \in S /\ m - 1 \in 0..k /\ m <= MaxNumber
    BY <1>0, <1>2, NumberIs
  <2>2. Fits(files[m], f[m - 1])
    BY <2>1 DEF Fitted
  <2> HIDE DEF f, g, S, T
  <2> QED BY <1>4, <2>1, <2>2
<1> QED BY <1>8, <1>9 DEF Done

LEMMA HighestIs ==
  ASSUME NEW S \in SUBSET Numbers, S # {}
  PROVE  Highest(S) \in S /\ \A m \in S : m <= Highest(S)
<1> DEFINE R == {MaxNumber - m : m \in S}
<1>0. MaxNumber \in Nat /\ \A m \in S : m \in Nat /\ m <= MaxNumber
  BY NumberIs, RepositoryAssumption
<1>1. R \in SUBSET Nat /\ R # {}
  BY <1>0
<1>2. PICK r \in R : \A q \in R : r <= q
  <2> HIDE DEF R
  <2> QED BY <1>1, Least
<1>3. PICK n \in S : r = MaxNumber - n
  BY <1>2
<1>4. \A m \in S : m <= n
  <2> SUFFICES ASSUME NEW m \in S PROVE m <= n
    OBVIOUS
  <2>1. MaxNumber - n <= MaxNumber - m
    BY <1>2, <1>3
  <2> QED BY <1>0, <2>1
<1> QED BY <1>4 DEF Highest

\* The number of a new patch is above all of the series.
LEMMA NextIsNew ==
  ASSUME TypeInv, Clear(series), NextNumber \in Numbers
  PROVE  \A m \in series : m < NextNumber
<1> DEFINE taken == {n \in Numbers : files[n] # NoPatch}
<1>1. NextNumber = IF taken = {} THEN 1 ELSE Highest(taken) + 1
  BY DEF NextNumber
<1>2. series \subseteq taken
  BY DEF Clear, TypeInv, TypeOK
<1>3. taken \in SUBSET Numbers
  OBVIOUS
<1> HIDE DEF taken
<1> SUFFICES ASSUME NEW m \in series PROVE m < NextNumber
  OBVIOUS
<1>4. taken # {} /\ m \in taken /\ m <= Highest(taken) /\ Highest(taken) \in Numbers
  BY <1>2, <1>3, HighestIs
<1>5. m \in Nat /\ Highest(taken) \in Nat
  BY <1>3, <1>4, NumberIs
<1> QED BY <1>1, <1>4, <1>5

LEMMA GoodStays == ASSUME story' = Onward, Good' PROVE Good /\ story' = story
BY DEF Onward, Good

LEMMA DumpHist == ASSUME Ready, Dump PROVE HistInv'
<1>0. TypeInv /\ op.pc = "idle" /\ Resting /\ RestInv /\ series \in SUBSET Numbers
  BY TurnIs DEF Dump, TypeInv, TypeOK
<1>1. /\ UNCHANGED <<series, overlay, pin, root, log, work>>
      /\ files' = [files EXCEPT ![NextNumber] = Diff(HeadTree, Staged)]
      /\ Diff(HeadTree, Staged) # NoPatch /\ NextNumber \in Numbers /\ story' = Onward
  BY DEF Dump, workspace
<1>2. op'.kind = "dump" /\ op'.pc = "record" /\ op'.n = NextNumber /\ op'.saw = work
  <2>1. PICK register \in BOOLEAN :
          op' = [Idle EXCEPT !.kind = "dump", !.pc = "record", !.n = NextNumber,
                             !.flag = register, !.saw = work]
    BY DEF Dump
  <2> QED BY <2>1, IdleType DEF Operations
<1>3. PlaceInv'
  BY <1>1, <1>2 DEF PlaceInv, AtPoint, Onward
<1>4. ASSUME Good' PROVE DumpInv'
  <2>1. Good /\ story' = story
    BY <1>1, <1>4, GoodStays
  <2>2. /\ root \in Bases /\ Clear(series) /\ Unmoved /\ Done(series, MaxNumber)
        /\ story = "exact" => Exactly(series) /\ root = pin.sha
    BY <1>0, <2>1 DEF RestInv, Whole
  <2>3. \A m \in series : m < NextNumber /\ m # NextNumber
    <3>1. \A m \in series : m < NextNumber /\ m \in Int /\ NextNumber \in Int
      BY <1>0, <1>1, <2>2, NextIsNew, NumberIs
    <3> QED BY <3>1
  <2>4. files'[NextNumber] = Diff(HeadTree, Staged) /\ \A m \in series : files'[m] = files[m]
    BY <1>0, <1>1, <2>3 DEF TypeInv, TypeOK
  <2>5. Covered' = Covered /\ HeadTree' = HeadTree /\ Staged' = Staged
    BY <1>1 DEF Covered, HeadTree, TreeOf, Staged
  <2>6. \A j \in 0..MaxNumber : Stacked(series)'[j] = Stacked(series)[j]
    <3>1. MaxNumber \in 0..MaxNumber
      BY RepositoryAssumption
    <3>2. \A m \in 1..MaxNumber : (m \in series <=> m \in series) /\ (m \in series => files'[m] = files[m])
      BY <2>4
    <3>3. \A j \in 0..MaxNumber : Stack(BaseTree[root], files', series, MaxNumber)[j]
                                    = Stack(BaseTree[root], files, series, MaxNumber)[j]
      BY <3>1, <3>2, StackSame
    <3> QED BY <1>1, <3>3 DEF Stacked
  <2>7. Done(series, MaxNumber)'
    <3> DEFINE g == Stacked(series)
               h == Stacked(series)'
    <3>1. Tells(g, BaseTree[root], series, Covered, log, MaxNumber) /\ log \in Seq(Commits)
          /\ MaxNumber \in Nat
      BY <1>0, <2>2, RepositoryAssumption DEF Done, TypeInv, TypeOK
    <3>2. \A m \in 0..MaxNumber : h[m] = g[m] /\ (m \in series <=> m \in series)
      BY <2>6
    <3>3. Tells(h, BaseTree[root], series, Covered, log, MaxNumber)
      <4> HIDE DEF g, h
      <4> QED BY <1>0, <3>1, <3>2, TellsSame
    <3> QED BY <1>1, <2>5, <3>3 DEF Done
  <2>8. Clear(series)'
    BY <1>1, <2>2, <2>4, <2>5 DEF Clear
  <2>9. Unmoved'
    BY <1>1, <2>2, <2>5 DEF Unmoved
  <2>10. Registered' = series'
    BY <1>2 DEF Registered
  <2>11. Whole(Registered)'
    <3>1. Whole(series)'
      BY <1>1, <2>2, <2>7, <2>8, <2>9 DEF Whole
    <3> QED BY <2>10, <3>1
  <2>12. story = "exact" => Exactly(Registered)'
    <3> SUFFICES ASSUME story = "exact" PROVE Exactly(series)'
      BY <2>10
    <3>1. Fitted(series, MaxNumber) /\ Clean /\ \A s \in Covered : HeadTree[s] = overlay
      BY <2>2 DEF Exactly
    <3>2. \A m \in series : m - 1 \in 0..MaxNumber
      BY <1>0, <2>2, StackedSteps
    <3>3. Fitted(series, MaxNumber)'
      <4>1. ASSUME NEW m \in series, m <= MaxNumber
            PROVE  Fits(files'[m], Stacked(series)'[m - 1])
        BY <2>4, <2>6, <3>1, <3>2, <4>1 DEF Fitted
      <4> QED BY <1>1, <4>1 DEF Fitted
    <3>4. Clean'
      BY <1>1, <2>5, <3>1 DEF Clean, TreeOf
    <3> QED BY <1>1, <2>5, <3>1, <3>3, <3>4 DEF Exactly
  <2>13. (/\ \A m \in series : m < op.n
          /\ files[op.n] = Diff(HeadTree, Staged) /\ files[op.n] # NoPatch)'
    BY <1>1, <1>2, <2>3, <2>4, <2>5
  <2> QED BY <1>1, <1>2, <2>1, <2>2, <2>11, <2>12, <2>13 DEF DumpInv
<1>5. DumpInv'
  BY <1>4 DEF DumpInv
<1> QED BY <1>2, <1>3, <1>5, OnlyDump

LEMMA RecordDumpedHist == ASSUME Ready, RecordDumped PROVE HistInv'
<1>0. /\ TypeInv /\ DumpInv /\ op \in Operations /\ series \in SUBSET Numbers /\ root \in Bases
      /\ op.kind = "dump" /\ op.pc = "record" /\ op.n \in Numbers
  BY DEF RecordDumped, Ready, HistInv, TypeInv, TypeOK, Structure
<1>1. /\ UNCHANGED <<files, series, overlay, pin, root, work>>
      /\ log' = Append(log, [by |-> op.n, tree |-> Staged])
  BY DEF RecordDumped, Recorded, repository
<1>2. CASE ~op.flag
  BY <1>2, OverHolds DEF RecordDumped, Finish
<1>3. CASE op.flag
  <2>1. op' = [op EXCEPT !.pc = "register"] /\ story' = story
    BY <1>3 DEF RecordDumped, Proceed
  <2>2. op'.kind = "dump" /\ op'.pc = "register" /\ op'.n = op.n /\ op'.saw = op.saw
    BY <1>0, <2>1 DEF Operations
  <2>3. PlaceInv'
    BY <1>0, <2>1, <2>2 DEF PlaceInv, AtPoint, Ready, HistInv
  <2>4. ASSUME Good' PROVE DumpInv'
    <3>1. PICK n \in Numbers : n = op.n
      BY <1>0
    <3> DEFINE T == series \cup {n}
    <3>2. Good /\ Registered = series
      BY <1>0, <2>1, <2>4 DEF Good, Registered
    <3>3. /\ Clear(series) /\ Unmoved /\ Done(series, MaxNumber)
          /\ \A m \in series : m < n
          /\ files[n] = Diff(HeadTree, Staged) /\ files[n] # NoPatch
          /\ story = "exact" => Exactly(series) /\ root = pin.sha /\ work = op.saw
      BY <1>0, <3>1, <3>2 DEF DumpInv, Whole
    <3>4. T \in SUBSET Numbers /\ n \in T /\ n \in Int /\ (\A m \in T : m \in Int /\ m <= n)
      BY <1>0, <3>3, NumberIs
    <3>5. Done(T, n - 1) /\ (Fitted(series, MaxNumber) => Fitted(T, n - 1))
      BY <1>0, <3>3, DoneJoin
    <3> HIDE DEF T
    <3>6. /\ DOMAIN files[n] \cap Covered = {}
          /\ Fits(files[n], Stacked(T)[n - 1])
          /\ Tells(Stacked(T), BaseTree[root], T, Covered, log', n)
          /\ HeadTree' = Staged
          /\ Clean => Clean'
      BY <1>0, <1>1, <3>1, <3>3, <3>4, <3>5, RecordTells
    <3>7. TypeInv'
      BY <1>0, RecordDumpedTypes
    <3>8. Stacked(T)' = Stacked(T) /\ Covered' = Covered
      BY <1>1 DEF Stacked, Covered, T
    <3>9. Tells(Stacked(T), BaseTree[root], T, Covered, log', MaxNumber)
      <4>1. \A i \in n..MaxNumber : Stacked(T)[i] = Stacked(T)[n]
        <5> SUFFICES ASSUME NEW i \in n..MaxNumber PROVE Stacked(T)[i] = Stacked(T)[n]
          OBVIOUS
        <5>1. n \in 0..MaxNumber /\ i \in 0..MaxNumber /\ n <= i
          BY NumberIs, RepositoryAssumption
        <5>2. \A m \in T : ~(n < m /\ m <= i)
          BY <3>4
        <5> QED BY <5>1, <5>2, StackFlat DEF Stacked
      <4>2. n \in Nat /\ MaxNumber \in Nat /\ n <= MaxNumber /\ log' \in Seq(Commits)
        BY <3>7, NumberIs, RepositoryAssumption DEF TypeInv, TypeOK
      <4> HIDE DEF Stacked
      <4> QED BY <3>4, <3>6, <4>1, <4>2, TellsOn
    <3>10. Whole(T)'
      <4>1. Done(T, MaxNumber)'
        BY <1>1, <3>8, <3>9 DEF Done, T
      <4>2. Clear(T)'
        BY <1>1, <3>3, <3>6, <3>8 DEF Clear, T
      <4>3. Unmoved'
        BY <1>0, <1>1, <3>3, <3>6, <3>8, StagedIs DEF Unmoved
      <4> QED BY <1>0, <1>1, <4>1, <4>2, <4>3 DEF Whole, T
    <3>11. story = "exact" => Exactly(T)' /\ Agree(work, HeadTree, Covered)'
      <4> SUFFICES ASSUME story = "exact" PROVE Exactly(T)' /\ Agree(work, HeadTree, Covered)'
        OBVIOUS
      <4>1. Fitted(series, MaxNumber) /\ Clean /\ \A s \in Covered : HeadTree[s] = overlay
        BY <3>3 DEF Exactly
      <4>2. Fitted(T, MaxNumber)
        <5>1. \A m \in T : m = n \/ m <= n - 1
          BY <3>4
        <5> QED BY <3>5, <3>6, <4>1, <5>1 DEF Fitted
      <4>3. Fitted(T, MaxNumber)'
        BY <1>1, <3>8, <4>2 DEF Fitted, T
      <4>4. (\A s \in Covered : HeadTree[s] = overlay)'
        BY <1>0, <1>1, <3>6, <3>8, <4>1, StagedIs
      <4>5. Agree(work, HeadTree, Covered)'
        BY <1>0, <1>1, <3>6, <3>8, StagedIs DEF Agree
      <4> QED BY <3>6, <4>1, <4>3, <4>4, <4>5 DEF Exactly
    <3>12. Registered' = T /\ T' = T
      BY <1>1, <2>2, <3>1 DEF Registered, T
    <3>13. Whole(Registered)' /\ (story' = "exact" => Exactly(Registered)')
      BY <2>1, <3>10, <3>11, <3>12
    <3> QED BY <1>1, <2>1, <2>2, <3>3, <3>11, <3>13 DEF DumpInv
  <2>5. DumpInv'
    BY <2>4 DEF DumpInv
  <2> QED BY <2>2, <2>3, <2>5, OnlyDump
<1> QED BY <1>2, <1>3

LEMMA RegisterHist == ASSUME Ready, Register PROVE HistInv'
<1>0. TypeInv /\ PlaceInv /\ DumpInv /\ op.pc = "register" /\ op' = Idle /\ story' = story
  BY DEF Register, Ready, HistInv, Finish
<1>1. UNCHANGED <<files, overlay, pin, root, log, work>> /\ series' = series \cup {op.n}
  BY DEF Register, workspace
<1>2. op.kind = "dump" /\ story # "conflict"
  BY <1>0 DEF PlaceInv, AtPoint
<1>3. Good => Whole(Registered) /\ (story = "exact" => Exactly(Registered) /\ root = pin.sha)
  BY <1>0, <1>2 DEF DumpInv
<1>4. Registered = series'
  BY <1>0, <1>1 DEF Registered
<1>5. Good => Whole(series')
  BY <1>3, <1>4
<1>6. Good /\ story = "exact" => Exactly(series')
  BY <1>3, <1>4
<1>7. Covered' = Covered /\ HeadTree' = HeadTree
  BY <1>1 DEF Covered, HeadTree, TreeOf
<1>8. Good => Whole(series)'
  <2>1. Done(series', MaxNumber) => Done(series, MaxNumber)'
    BY <1>1, <1>7 DEF Done, Stacked
  <2>2. Clear(series') => Clear(series)'
    BY <1>1, <1>7 DEF Clear
  <2>3. Unmoved => Unmoved'
    BY <1>1, <1>7 DEF Unmoved
  <2> QED BY <1>1, <1>5, <2>1, <2>2, <2>3 DEF Whole
<1>9. Good /\ story = "exact" => Exactly(series)'
  <2>1. Fitted(series', MaxNumber) => Fitted(series, MaxNumber)'
    BY <1>1, <1>7 DEF Fitted, Stacked
  <2>2. Clean => Clean'
    BY <1>1, <1>7 DEF Clean, TreeOf
  <2> QED BY <1>1, <1>6, <1>7, <2>1, <2>2 DEF Exactly
<1>10. RestInv'
  BY <1>0, <1>1, <1>2, <1>3, <1>8, <1>9 DEF RestInv, Good
<1> QED BY <1>0, <1>10, IdlePlace, OnlyRest

\* The history is cut after commit c, where the patches up to m end.
LEMMA DoneCut ==
  ASSUME TypeInv, root \in Bases, series \in SUBSET Numbers, NEW k \in 0..MaxNumber, Done(series, k),
         NEW c \in 0..Len(log), NEW m \in 0..k, Split(log, c, m),
         log' = SubSeq(log, 1, c), UNCHANGED <<files, series, overlay, root>>
  PROVE  /\ Done(series, m)'
         /\ HeadTree' = TreeOf(c)
         /\ Clean => Clean'
         /\ Clear(series)' <=> Clear(series)
         /\ \A j : Fitted(series, j)' <=> Fitted(series, j)
         /\ Covered' = Covered
         /\ Len(log') = c /\ \A i \in 1..c : log'[i] = log[i]
<1>0. log \in Seq(Commits) /\ k \in Nat /\ c \in Nat /\ Len(log) \in Nat
  BY LenProperties DEF TypeInv, TypeOK
<1>1. Len(log') = c /\ \A i \in 1..c : log'[i] = log[i]
  BY <1>0, SubSeqProperties
<1>2. Covered' = Covered /\ (Clear(series)' <=> Clear(series))
      /\ (\A j : Fitted(series, j)' <=> Fitted(series, j))
  BY DEF Covered, Clear, Fitted, Stacked
<1>3. Tells(Stacked(series), BaseTree[root], series, Covered, log, k)
  BY DEF Done
<1>4. Tells(Stacked(series), BaseTree[root], series, Covered, log', m)
  <2> HIDE DEF Stacked
  <2> QED BY <1>0, <1>3, TellsCut
<1>5. Done(series, m)'
  BY <1>4, <1>2 DEF Done, Stacked
<1>6. ASSUME NEW i \in 0..c PROVE TreeOf(i)' = TreeOf(i)
  <2>1. i = 0 \/ log'[i] = log[i]
    BY <1>0, <1>1
  <2> QED BY <2>1 DEF TreeOf
<1>7. HeadTree' = TreeOf(c)
  <2>1. c = 0 \/ log'[c] = log[c]
    BY <1>0, <1>1
  <2> QED BY <1>1, <2>1 DEF HeadTree, TreeOf
<1>8. Clean => Clean'
  <2>1. \A i \in 0..c : i \in 0..Len(log)
    BY <1>0
  <2> QED BY <1>1, <1>2, <1>6, <2>1 DEF Clean
<1> QED BY <1>1, <1>2, <1>5, <1>7, <1>8

\* What the commit of a patch leaves of the files of overlays/: what was there.
LEMMA DoneKeeps ==
  ASSUME TypeInv, NEW S \in SUBSET Numbers, NEW k \in 0..MaxNumber, Done(S, k),
         NEW c \in 1..Len(log), log[c].by \in Numbers
  PROVE  /\ \A s \in Covered : TreeOf(c)[s] = TreeOf(c - 1)[s]
         /\ Split(log, c, log[c].by) /\ Split(log, c - 1, log[c].by - 1) /\ log[c].by <= k
         /\ log[c].by \in S
<1> DEFINE n == log[c].by
           cov == Covered
           base == BaseTree[root]
           g == Stacked(S)
<1>1. Tells(g, base, S, cov, log, k) /\ log \in Seq(Commits) /\ k \in Nat
  BY DEF Done, TypeInv, TypeOK
<1>2. IsPatch(log, c) /\ n \in Numbers
  BY NumberIs DEF IsPatch
<1>3. Split(log, c, n) /\ Split(log, c - 1, n - 1) /\ n <= k
  <2>1. log[c].by = n
    OBVIOUS
  <2> HIDE DEF n, g, base, cov
  <2> QED BY <1>1, <1>2, <2>1, TellsWhere
<1>4. (\A s \in cov : log[c].tree[s] = TreeAt(base, log, c - 1)[s]) /\ n \in S
  <2> HIDE DEF g, base, cov
  <2> QED BY <1>1, <1>2 DEF Tells
<1>5. c # 0
  OBVIOUS
<1> QED BY <1>3, <1>4, <1>5 DEF TreeOf, TreeAt

LEMMA RefreshTopHist ==
  ASSUME Ready, NEW n \in Numbers, NEW c \in 1..Len(log), RefreshTop(n, c)
  PROVE  HistInv'
<1>0. TypeInv /\ op.pc = "idle" /\ Resting /\ RestInv /\ series \in SUBSET Numbers /\ n \in series
      /\ IsCommitOf(c, n) /\ AtTop(c, n)
  BY TurnIs DEF RefreshTop, Refreshable, TypeInv, TypeOK
<1>1. /\ UNCHANGED <<files, series, overlay, pin, root, work>> /\ story' = Onward
      /\ log' = SubSeq(log, 1, c - 1)
  BY DEF RefreshTop, repository
<1> DEFINE flag == (c # Len(log))
<1>2. op' = [Idle EXCEPT !.kind = "refresh", !.pc = "write", !.n = n, !.saw = work,
                         !.todo = After(n), !.flag = flag]
  BY DEF RefreshTop
<1>3. flag = FALSE \/ flag = TRUE
  OBVIOUS
<1> HIDE DEF flag
<1>4. /\ op'.kind = "refresh" /\ op'.pc = "write" /\ op'.n = n /\ op'.saw = work
      /\ op'.todo = After(n) /\ op'.flag = flag /\ op'.direct = TRUE
  BY <1>2, IdleType DEF Operations, Idle
<1>5. PlaceInv'
  BY <1>1, <1>4 DEF PlaceInv, AtPoint, Onward
<1>6. ASSUME Good' PROVE CaptureInv'
  <2>1. Good /\ story' = story
    BY <1>1, <1>6, GoodStays
  <2>2. /\ root \in Bases /\ Clear(series) /\ Unmoved /\ Done(series, MaxNumber)
        /\ story = "exact" => Exactly(series) /\ root = pin.sha
    BY <1>0, <2>1 DEF RestInv, Whole
  <2>3. log[c].by = n /\ MaxNumber \in 0..MaxNumber
    BY <1>0, RepositoryAssumption DEF IsCommitOf, CommitsOf
  <2>4. /\ \A s \in Covered : TreeOf(c)[s] = TreeOf(c - 1)[s]
        /\ Split(log, c - 1, n - 1)
    BY <1>0, <2>2, <2>3, DoneKeeps
  <2>5. c - 1 \in 0..Len(log) /\ n - 1 \in 0..MaxNumber
    <3>1. Len(log) \in Nat
      BY <1>0, LogType
    <3> QED BY <3>1, NumberIs, RepositoryAssumption
  <2>6. /\ Done(series, n - 1)'
        /\ HeadTree' = TreeOf(c - 1)
        /\ Clean => Clean'
        /\ Clear(series)' <=> Clear(series)
        /\ \A j : Fitted(series, j)' <=> Fitted(series, j)
        /\ Covered' = Covered
    BY <1>0, <1>1, <2>2, <2>3, <2>4, <2>5, DoneCut
  <2>7. After(n) # {} => c = Len(log)
    <3> SUFFICES ASSUME c # Len(log) PROVE After(n) = {}
      OBVIOUS
    <3>1. n = Highest(series)
      BY <1>0 DEF AtTop
    <3>2. \A m \in series : m <= n /\ m \in Int /\ n \in Int
      BY <1>0, <3>1, HighestIs, NumberIs
    <3> QED BY <3>2 DEF After
  <2>8. c = Len(log) => Unmoved'
    BY <1>1, <2>2, <2>4, <2>6 DEF Unmoved, HeadTree
  <2>9. op'.todo # {} \/ ~op'.flag => Unmoved'
    BY <1>4, <2>7, <2>8 DEF flag
  <2>10. After(n)' = After(n)
    BY <1>1 DEF After
  <2>11. story = "exact" =>
           Fitted(series, n - 1) /\ Clean /\ root = pin.sha /\ \A s \in Covered : work[s] = overlay
    <3> SUFFICES ASSUME story = "exact"
                 PROVE Fitted(series, n - 1) /\ Clean /\ root = pin.sha /\ \A s \in Covered : work[s] = overlay
      OBVIOUS
    <3>1. Fitted(series, MaxNumber) /\ Clean /\ \A s \in Covered : HeadTree[s] = overlay
      BY <2>2 DEF Exactly
    <3>2. Fitted(series, n - 1)
      BY <1>0, <3>1, NumberIs DEF Fitted
    <3> QED BY <2>2, <3>1, <3>2 DEF Unmoved
  <2>12. op'.direct
    BY <1>4
  <2> QED BY <1>0, <1>1, <1>4, <2>1, <2>2, <2>6, <2>9, <2>10, <2>11, <2>12 DEF CaptureInv
<1>7. CaptureInv'
  BY <1>6 DEF CaptureInv
<1> QED BY <1>4, <1>5, <1>7, OnlyCapture

LEMMA RefreshWithinHist ==
  ASSUME Ready, NEW n \in Numbers, NEW c \in 1..Len(log), RefreshWithin(n, c)
  PROVE  HistInv'
<1>0. TypeInv /\ op.pc = "idle" /\ Resting /\ RestInv /\ series \in SUBSET Numbers /\ n \in series
      /\ IsCommitOf(c, n) /\ n # Highest(series)
  BY TurnIs DEF RefreshWithin, Refreshable, TypeInv, TypeOK
<1>1. /\ UNCHANGED <<files, series, overlay, pin, root>> /\ story' = Onward
      /\ log' = SubSeq(log, 1, c) /\ work' = log[c].tree
  BY DEF RefreshWithin, repository
<1> DEFINE flag == (HeadBy = Overlays)
           pend == Diff(HeadTree, Staged)
<1>2. op' = [Idle EXCEPT !.kind = "refresh", !.pc = "reapply", !.n = n, !.saw = work,
                         !.todo = After(n), !.flag = flag, !.pend = pend]
  BY DEF RefreshWithin
<1> HIDE DEF flag, pend
<1>4. /\ op'.kind = "refresh" /\ op'.pc = "reapply" /\ op'.n = n /\ op'.saw = work
      /\ op'.todo = After(n) /\ op'.pend = pend /\ op'.direct = TRUE
  BY <1>2, IdleType DEF Operations, Idle
<1>5. PlaceInv'
  BY <1>1, <1>4 DEF PlaceInv, AtPoint, Onward
<1>6. ASSUME Good' PROVE CaptureInv'
  <2>1. Good /\ story' = story
    BY <1>1, <1>6, GoodStays
  <2>2. /\ root \in Bases /\ Clear(series) /\ Unmoved /\ Done(series, MaxNumber)
        /\ story = "exact" => Exactly(series) /\ root = pin.sha
    BY <1>0, <2>1 DEF RestInv, Whole
  <2>3. log[c].by = n /\ MaxNumber \in 0..MaxNumber /\ c \in 0..Len(log) /\ n \in 0..MaxNumber
        /\ Len(log) \in Nat
    BY <1>0, LogType, NumberIs, RepositoryAssumption DEF IsCommitOf, CommitsOf
  <2>4. Split(log, c, n)
    BY <1>0, <2>2, <2>3, DoneKeeps
  <2>6. /\ Done(series, n)'
        /\ HeadTree' = TreeOf(c)
        /\ Clean => Clean'
        /\ Clear(series)' <=> Clear(series)
        /\ \A j : Fitted(series, j)' <=> Fitted(series, j)
        /\ Covered' = Covered
        /\ Len(log') = c /\ \A i \in 1..c : log'[i] = log[i]
    BY <1>0, <1>1, <2>2, <2>3, <2>4, DoneCut
  <2>7. log' # <<>> /\ log'[Len(log')].by = n
    BY <2>3, <2>6, EmptyLog
  <2>8. work' = HeadTree'
    BY <1>1, <2>3, <2>6 DEF TreeOf
  <2>9. After(n) # {}
    <3>1. Highest(series) \in series /\ n <= Highest(series)
      BY <1>0, HighestIs
    <3>2. Highest(series) \in Int /\ n \in Int
      BY <1>0, <3>1, NumberIs
    <3>3. Highest(series) \in After(n)
      BY <1>0, <3>1, <3>2 DEF After
    <3> QED BY <3>3
  <2>10. DOMAIN pend \cap Covered = {}
    BY <1>0, <2>2, StagedIs DEF pend, Diff
  <2>11. story = "exact" => Fitted(series, n - 1) /\ Clean /\ root = pin.sha
    <3> SUFFICES ASSUME story = "exact" PROVE Fitted(series, n - 1) /\ Clean /\ root = pin.sha
      OBVIOUS
    <3>1. Fitted(series, MaxNumber) /\ Clean
      BY <2>2 DEF Exactly
    <3>2. Fitted(series, n - 1)
      BY <1>0, <3>1, NumberIs DEF Fitted
    <3> QED BY <2>2, <3>1, <3>2
  <2>12. op'.direct /\ After(n)' = After(n)
    BY <1>1, <1>4 DEF After
  <2> QED BY <1>0, <1>1, <1>4, <2>1, <2>2, <2>6, <2>7, <2>8, <2>9, <2>10, <2>11, <2>12 DEF CaptureInv
<1>7. CaptureInv'
  BY <1>6 DEF CaptureInv
<1> QED BY <1>4, <1>5, <1>7, OnlyCapture

LEMMA RefreshUnrecordedHist ==
  ASSUME Ready, NEW n \in Numbers, RefreshUnrecorded(n)
  PROVE  HistInv'
<1>0. TypeInv /\ op.pc = "idle" /\ Resting /\ RestInv /\ series \in SUBSET Numbers /\ n \in series
      /\ (Before(n) # {} => HeadBy = Highest(Before(n)))
  BY TurnIs DEF RefreshUnrecorded, Refreshable, TypeInv, TypeOK
<1>1. /\ UNCHANGED <<files, series, overlay, pin, root, log, work>>
      /\ story' = IF story = "conflict" /\ (Before(n) = {} => log = <<>>) THEN "recovered" ELSE "other"
  BY DEF RefreshUnrecorded, repository, workspace
<1>2. op' = [Idle EXCEPT !.kind = "refresh", !.pc = "write", !.n = n, !.saw = work, !.todo = After(n)]
  BY DEF RefreshUnrecorded
<1>4. /\ op'.kind = "refresh" /\ op'.pc = "write" /\ op'.n = n /\ op'.saw = work
      /\ op'.todo = After(n) /\ op'.direct = TRUE
  BY <1>2, IdleType DEF Operations, Idle
<1>5. PlaceInv'
  BY <1>1, <1>4 DEF PlaceInv, AtPoint
<1>6. ASSUME Good' PROVE CaptureInv'
  <2>1. story = "conflict" /\ (Before(n) = {} => log = <<>>) /\ story' = "recovered"
    BY <1>1, <1>6 DEF Good
  <2>2. root \in Bases /\ Clear(series) /\ Unmoved
    BY <1>0, <2>1 DEF RestInv
  <2>3. PICK k \in 0..MaxNumber : Done(series, k)
    BY <1>0, <2>1 DEF RestInv
  <2>4. n - 1 \in 0..MaxNumber /\ 0 \in 0..MaxNumber /\ n \in Nat /\ n # 0
    BY <1>0, NumberIs, RepositoryAssumption
  <2>5. Done(series, n - 1)
    <3>1. CASE Before(n) = {}
      <4>1. log = <<>>
        BY <2>1, <3>1
      <4>2. Done(series, 0)
        <5>1. Stacked(series)[0] = BaseTree[root]
          BY <1>0, <2>2, StackedSteps
        <5>2. Tells(Stacked(series), BaseTree[root], series, Covered, <<>>, 0)
          <6> HIDE DEF Stacked
          <6> QED BY <1>0, <5>1, TellsNothing
        <5> QED BY <4>1, <5>2 DEF Done
      <4>3. \A m \in series : ~(0 < m /\ m <= n - 1)
        BY <1>0, <2>4, <3>1, NumberIs DEF Before
      <4>4. 0 <= n - 1
        BY <2>4
      <4> QED BY <1>0, <2>4, <4>2, <4>3, <4>4, DoneOn
    <3>2. CASE Before(n) # {}
      <4> DEFINE b == Highest(Before(n))
      <4>1. Before(n) \in SUBSET Numbers
        BY <1>0 DEF Before
      <4>2. b \in Before(n) /\ \A m \in Before(n) : m <= b
        BY <3>2, <4>1, HighestIs
      <4>3. b \in series /\ b < n /\ b \in Numbers /\ b \in Nat /\ b \in 0..MaxNumber
        BY <1>0, <4>2, NumberIs, RepositoryAssumption DEF Before
      <4>4. HeadBy = b /\ b # User
        BY <1>0, <3>2, <4>3, NumberIs DEF User
      <4> HIDE DEF b
      <4>5. log # <<>> /\ log[Len(log)].by = b
        BY <4>4 DEF HeadBy
      <4>6. Len(log) \in 1..Len(log) /\ Len(log) \in 0..Len(log)
        BY <1>0, <4>5, LogNotEmpty, LogType
      <4>7. Split(log, Len(log), b) /\ b <= k
        BY <1>0, <2>3, <4>3, <4>5, <4>6, DoneKeeps
      <4>8. Done(series, b)
        <5> DEFINE g == Stacked(series)
                   base == BaseTree[root]
                   c == Len(log)
        <5>1. Tells(g, base, series, Covered, log, k) /\ log \in Seq(Commits) /\ k \in Nat /\ b \in 0..k
          BY <1>0, <2>3, <4>3, <4>7 DEF Done, TypeInv, TypeOK
        <5>2. SubSeq(log, 1, c) = log
          BY <5>1, SubSeqFull
        <5>3. Tells(g, base, series, Covered, SubSeq(log, 1, c), b)
          <6>1. c \in 0..Len(log) /\ Split(log, c, b)
            BY <4>6, <4>7
          <6> HIDE DEF g, base, c
          <6> QED BY <1>0, <5>1, <6>1, TellsCut
        <5> QED BY <5>2, <5>3 DEF Done
      <4>9. \A m \in series : ~(b < m /\ m <= n - 1)
        BY <1>0, <2>4, <4>2, <4>3, NumberIs DEF Before
      <4>10. b <= n - 1
        BY <2>4, <4>3
      <4> QED BY <1>0, <2>4, <4>3, <4>8, <4>9, <4>10, DoneOn
    <3> QED BY <3>1, <3>2
  <2>6. (Clear(series) /\ Done(series, n - 1) /\ Unmoved)' /\ After(n)' = After(n)
    BY <1>1, <2>2, <2>5, HistFrame DEF Unmoved, After
  <2>7. op'.direct
    BY <1>4
  <2> QED BY <1>0, <1>1, <1>4, <2>1, <2>2, <2>6, <2>7 DEF CaptureInv
<1>7. CaptureInv'
  BY <1>6 DEF CaptureInv
<1> QED BY <1>4, <1>5, <1>7, OnlyCapture

LEMMA ReapplyHist == ASSUME Ready, Reapply PROVE HistInv'
<1>0. /\ TypeInv /\ PlaceInv /\ CaptureInv /\ op \in Operations /\ series \in SUBSET Numbers
      /\ op.pc = "reapply"
  BY DEF Reapply, Ready, HistInv, TypeInv, TypeOK
<1>1. /\ UNCHANGED <<files, series, overlay, pin, root, story>>
      /\ work' = Patched(op.pend, work) /\ log' = SubSeq(log, 1, Len(log) - 1)
      /\ op' = [op EXCEPT !.pc = "write", !.pend = NoPatch]
  BY DEF Reapply, Proceed, repository
<1>2. op.kind = "refresh" /\ op.n \in Numbers
  BY <1>0 DEF PlaceInv, AtPoint, TypeInv, Structure
<1>4. /\ op'.kind = "refresh" /\ op'.pc = "write" /\ op'.n = op.n /\ op'.todo = op.todo
      /\ op'.direct = op.direct
  BY <1>0, <1>1, <1>2 DEF Operations
<1>5. PlaceInv'
  BY <1>0, <1>1, <1>2, <1>4 DEF PlaceInv, AtPoint
<1>6. ASSUME Good' PROVE CaptureInv'
  <2>1. Good
    BY <1>1, <1>6 DEF Good
  <2>2. PICK n \in Numbers : n = op.n
    BY <1>2
  <2>3. /\ root \in Bases /\ Clear(series) /\ n \in series /\ op.todo = After(n) /\ op.direct
        /\ Done(series, n) /\ log # <<>> /\ log[Len(log)].by = n /\ work = HeadTree
        /\ op.todo # {} /\ DOMAIN op.pend \cap Covered = {}
        /\ story = "exact" => Fitted(series, n - 1) /\ Clean /\ root = pin.sha
    BY <1>0, <1>2, <2>1, <2>2 DEF CaptureInv
  <2>4. Len(log) \in 1..Len(log) /\ n \in 0..MaxNumber /\ Len(log) - 1 \in 0..Len(log) /\ n - 1 \in 0..n
    BY <1>0, <2>3, LogNotEmpty, LogType, NumberIs, RepositoryAssumption
  <2>5. /\ \A s \in Covered : TreeOf(Len(log))[s] = TreeOf(Len(log) - 1)[s]
        /\ Split(log, Len(log) - 1, n - 1)
    BY <1>0, <2>3, <2>4, DoneKeeps
  <2>6. /\ Done(series, n - 1)'
        /\ HeadTree' = TreeOf(Len(log) - 1)
        /\ Clean => Clean'
        /\ Clear(series)' <=> Clear(series)
        /\ \A j : Fitted(series, j)' <=> Fitted(series, j)
        /\ Covered' = Covered
    <3> DEFINE c == Len(log) - 1
               m == n - 1
    <3>1. c \in 0..Len(log) /\ m \in 0..n /\ Split(log, c, m) /\ log' = SubSeq(log, 1, c)
      BY <1>1, <2>4, <2>5
    <3>2. /\ Done(series, m)'
          /\ HeadTree' = TreeOf(c)
          /\ Clean => Clean'
          /\ Clear(series)' <=> Clear(series)
          /\ \A j : Fitted(series, j)' <=> Fitted(series, j)
          /\ Covered' = Covered
      <4> HIDE DEF c, m
      <4> QED BY <1>0, <1>1, <2>3, <2>4, <3>1, DoneCut
    <3> QED BY <3>2
  <2>7. Unmoved'
    <3>1. \A s \in Covered : work'[s] = HeadTree[s]
      BY <1>1, <2>3, SpotAssumption DEF Patched, Covered
    <3> QED BY <2>5, <2>6, <3>1 DEF Unmoved, HeadTree
  <2>8. op'.direct /\ After(n)' = After(n)
    BY <1>1, <1>4, <2>3 DEF After
  <2> QED BY <1>0, <1>1, <1>4, <2>1, <2>2, <2>3, <2>6, <2>7, <2>8 DEF CaptureInv
<1>7. CaptureInv'
  BY <1>6 DEF CaptureInv
<1> QED BY <1>4, <1>5, <1>7, OnlyCapture

LEMMA WriteRefreshedHist == ASSUME Ready, WriteRefreshed PROVE HistInv'
<1>0. /\ TypeInv /\ PlaceInv /\ CaptureInv /\ op \in Operations /\ series \in SUBSET Numbers
      /\ op.pc = "write"
  BY DEF WriteRefreshed, Ready, HistInv, TypeInv, TypeOK
<1>1. /\ UNCHANGED <<series, overlay, pin, root, log, work, story>>
      /\ files' = [files EXCEPT ![op.n] = Diff(HeadTree, Staged)]
      /\ Diff(HeadTree, Staged) # NoPatch
      /\ op' = [op EXCEPT !.pc = "record"]
  BY DEF WriteRefreshed, Proceed, workspace
<1>2. op.kind = "refresh" /\ op.n \in Numbers
  BY <1>0 DEF PlaceInv, AtPoint, TypeInv, Structure
<1>4. /\ op'.kind = "refresh" /\ op'.pc = "record" /\ op'.n = op.n /\ op'.todo = op.todo
      /\ op'.flag = op.flag /\ op'.direct = op.direct
  BY <1>0, <1>1, <1>2 DEF Operations
<1>5. PlaceInv'
  BY <1>0, <1>1, <1>2, <1>4 DEF PlaceInv, AtPoint
<1>6. ASSUME Good' PROVE CaptureInv'
  <2>1. Good
    BY <1>1, <1>6 DEF Good
  <2>2. PICK n \in Numbers : n = op.n
    BY <1>2
  <2>3. /\ root \in Bases /\ Clear(series) /\ n \in series /\ op.todo = After(n) /\ op.direct
        /\ Done(series, n - 1)
        /\ op.todo # {} \/ ~op.flag => Unmoved
        /\ story = "exact" =>
             /\ Fitted(series, n - 1) /\ Clean /\ root = pin.sha
             /\ op.todo = {} => \A s \in Covered : work[s] = overlay
    BY <1>0, <1>2, <2>1, <2>2 DEF CaptureInv
  <2>4. n \in Nat /\ n - 1 \in 0..MaxNumber /\ n # 0
    BY NumberIs, RepositoryAssumption
  <2>5. files'[n] = Diff(HeadTree, Staged) /\ \A m \in series : m # n => files'[m] = files[m]
    BY <1>0, <1>1, <2>2 DEF TypeInv, TypeOK
  <2>6. Covered' = Covered /\ HeadTree' = HeadTree /\ Staged' = Staged /\ After(n)' = After(n)
        /\ (Clean' <=> Clean) /\ (Unmoved' <=> Unmoved)
    BY <1>1 DEF Covered, HeadTree, TreeOf, Staged, After, Clean, Unmoved
  <2>7. Clear(series)'
    <3>1. files'[n] # NoPatch /\ DOMAIN files'[n] \cap Covered = {}
      BY <1>0, <1>1, <2>3, <2>5, StagedIs DEF Diff
    <3> QED BY <1>1, <2>3, <2>5, <2>6, <3>1 DEF Clear
  <2>8. \A j \in 0..(n - 1) : Stacked(series)'[j] = Stacked(series)[j]
    <3> DEFINE k == n - 1
               base == BaseTree[root]
               gs == files'
    <3>1. \A m \in 1..k : (m \in series <=> m \in series) /\ (m \in series => gs[m] = files[m])
      BY <2>4, <2>5
    <3>2. k \in 0..MaxNumber
      BY <2>4
    <3>3. \A j \in 0..k : Stack(base, gs, series, MaxNumber)[j] = Stack(base, files, series, MaxNumber)[j]
      <4> HIDE DEF k, base, gs
      <4> QED BY <3>1, <3>2, StackSame
    <3> QED BY <1>1, <3>3 DEF Stacked
  <2>9. Done(series, n - 1)'
    <3> DEFINE g == Stacked(series)
               h == Stacked(series)'
               base == BaseTree[root]
               k == n - 1
    <3>1. Tells(g, base, series, Covered, log, k) /\ log \in Seq(Commits) /\ k \in Nat
      BY <1>0, <2>3, <2>4 DEF Done, TypeInv, TypeOK
    <3>2. \A m \in 0..k : h[m] = g[m] /\ (m \in series <=> m \in series)
      BY <2>8
    <3>3. Tells(h, base, series, Covered, log, k)
      <4> HIDE DEF g, h, base, k
      <4> QED BY <1>0, <3>1, <3>2, TellsSame
    <3> QED BY <1>1, <2>6, <3>3 DEF Done
  <2>10. Fitted(series, n - 1) => Fitted(series, n - 1)'
    <3> SUFFICES ASSUME Fitted(series, n - 1), NEW m \in series, m <= n - 1
                 PROVE  Fits(files'[m], Stacked(series)'[m - 1])
      BY <1>1 DEF Fitted
    <3>1. m # n /\ m - 1 \in 0..(n - 1)
      BY <1>0, <2>4, NumberIs
    <3>2. Fits(files[m], Stacked(series)[m - 1])
      BY DEF Fitted
    <3> QED BY <2>5, <2>8, <3>1, <3>2
  <2>11. op'.direct /\ files'[n] # NoPatch
    BY <1>1, <1>4, <2>3, <2>5
  <2> QED BY <1>0, <1>1, <1>4, <2>1, <2>2, <2>3, <2>5, <2>6, <2>7, <2>9, <2>10, <2>11 DEF CaptureInv
<1>7. CaptureInv'
  BY <1>6 DEF CaptureInv
<1> QED BY <1>4, <1>5, <1>7, OnlyCapture

LEMMA RecordRefreshedHist == ASSUME Ready, RecordRefreshed PROVE HistInv'
<1>0. /\ TypeInv /\ PlaceInv /\ CaptureInv /\ op \in Operations /\ series \in SUBSET Numbers
      /\ op.pc = "record" /\ op.kind = "refresh" /\ op.n \in Numbers
  BY DEF RecordRefreshed, Ready, HistInv, TypeInv, TypeOK, Structure
<1> DEFINE flag == op.flag \/ overlay # Absent
<1>1. /\ UNCHANGED <<files, series, overlay, pin, root, work, story>>
      /\ log' = Append(log, [by |-> op.n, tree |-> Staged])
      /\ \/ op.todo = {} /\ op' = [op EXCEPT !.pc = "seal"]
         \/ op.todo # {} /\ op' = [op EXCEPT !.pc = "patch", !.flag = flag]
  BY DEF RecordRefreshed, Recorded, Proceed, repository
<1> HIDE DEF flag
<1>4. /\ op'.kind = "refresh" /\ op'.n = op.n /\ op'.todo = op.todo
      /\ op'.direct = op.direct
      /\ \/ op.todo = {} /\ op'.pc = "seal" /\ op'.flag = op.flag
         \/ op.todo # {} /\ op'.pc = "patch" /\ op'.flag = flag
  <2>1. CASE op.todo = {} /\ op' = [op EXCEPT !.pc = "seal"]
    BY <1>0, <2>1 DEF Operations
  <2>2. CASE op.todo # {} /\ op' = [op EXCEPT !.pc = "patch", !.flag = flag]
    BY <1>0, <2>2 DEF Operations
  <2> QED BY <1>1, <2>1, <2>2
<1>5. PlaceInv'
  BY <1>0, <1>1, <1>4 DEF PlaceInv, AtPoint
<1>6. ASSUME Trusted' PROVE BuildInv'
  <2>1. Good
    BY <1>1, <1>4, <1>6 DEF Good, Trusted
  <2>2. PICK n \in Numbers : n = op.n
    BY <1>0
  <2>3. /\ root \in Bases /\ Clear(series) /\ n \in series /\ op.todo = After(n) /\ op.direct
        /\ Done(series, n - 1)
        /\ op.todo # {} \/ ~op.flag => Unmoved
        /\ files[n] = Diff(HeadTree, Staged) /\ files[n] # NoPatch
        /\ story = "exact" =>
             /\ Fitted(series, n - 1) /\ Clean /\ root = pin.sha
             /\ op.todo = {} => \A s \in Covered : work[s] = overlay
    BY <1>0, <2>1, <2>2 DEF CaptureInv
  <2>4. n \in Nat /\ n \in 0..MaxNumber /\ MaxNumber \in 0..MaxNumber /\ n <= MaxNumber
    BY NumberIs, RepositoryAssumption
  <2>5. /\ Fits(files[n], Stacked(series)[n - 1])
        /\ Tells(Stacked(series), BaseTree[root], series, Covered, log', n)
        /\ HeadTree' = Staged
        /\ Clean => Clean'
    BY <1>0, <1>1, <2>2, <2>3, RecordTells
  <2>6. /\ Covered' = Covered /\ (Clear(series)' <=> Clear(series)) /\ After(n)' = After(n)
        /\ (\A k : Fitted(series, k)' <=> Fitted(series, k))
    BY <1>1 DEF Covered, Clear, After, Fitted, Stacked
  <2>7. Done(series, n)'
    BY <1>1, <2>5, <2>6 DEF Done, Stacked
  <2>8. Fitted(series, n - 1) => Fitted(series, n)
    <3>1. \A m \in series : m <= n => m = n \/ m <= n - 1
      BY <1>0, <2>4, NumberIs
    <3> QED BY <2>5, <3>1 DEF Fitted
  <2>9. Straight' => Fitted(series, n)'
    BY <1>1, <1>4, <2>3, <2>6, <2>8 DEF Straight
  <2>10. Unmoved => work = Staged
    <3> SUFFICES ASSUME Unmoved PROVE work = Staged
      OBVIOUS
    <3>1. \A s \in Spots : work[s] = Staged[s]
      BY <1>0, <2>3, StagedIs DEF Unmoved
    <3>2. work \in Trees /\ Staged \in Trees
      BY <1>0, <2>3, StagedIs DEF TypeInv, TypeOK
    <3> QED BY <3>1, <3>2 DEF Trees
  <2>11. Exactable' => Clean'
    BY <1>1, <1>4, <2>3, <2>5 DEF Exactable
  <2>12. CASE op.todo = {}
    <3>1. op'.pc = "seal" /\ op'.flag = op.flag
      BY <1>4, <2>12
    <3>2. Done(series, MaxNumber)' /\ (Straight' => Fitted(series, MaxNumber)')
      <4>1. TypeInv' /\ series' \in SUBSET Numbers
        BY <1>0, <1>1, RecordRefreshedTypes
      <4>2. \A m \in series : ~(n < m /\ m <= MaxNumber)
        BY <1>0, <2>3, <2>12 DEF After
      <4>3. \A i \in n..MaxNumber : Stacked(series)[i] = Stacked(series)[n]
        <5> SUFFICES ASSUME NEW i \in n..MaxNumber PROVE Stacked(series)[i] = Stacked(series)[n]
          OBVIOUS
        <5>1. i \in 0..MaxNumber /\ n <= i /\ \A m \in series : ~(n < m /\ m <= i)
          BY <1>0, <2>4, <4>2, NumberIs, RepositoryAssumption
        <5> QED BY <2>4, <5>1, StackFlat DEF Stacked
      <4>4. Tells(Stacked(series), BaseTree[root], series, Covered, log', MaxNumber)
        <5>1. log' \in Seq(Commits) /\ MaxNumber \in Nat
          BY <4>1, RepositoryAssumption DEF TypeInv, TypeOK
        <5> HIDE DEF Stacked
        <5> QED BY <1>0, <2>4, <2>5, <4>3, <5>1, TellsOn
      <4>5. Done(series, MaxNumber)'
        BY <1>1, <2>6, <4>4 DEF Done, Stacked
      <4>6. Fitted(series, n) => Fitted(series, MaxNumber)
        <5>1. \A m \in series : m <= n
          BY <1>0, <2>4, <4>2, NumberIs
        <5> QED BY <5>1 DEF Fitted
      <4> QED BY <2>6, <2>9, <4>5, <4>6
    <3>3. Agree(work, HeadTree, Covered)'
      BY <1>0, <1>1, <2>3, <2>5, <2>6, StagedIs DEF Agree
    <3>4. op'.flag \/ work' = HeadTree'
      BY <1>1, <2>3, <2>5, <2>10, <3>1
    <3>5. Exactable' => (\A s \in Covered : work[s] = overlay)'
      BY <1>1, <1>4, <2>3, <2>6, <2>12 DEF Exactable
    <3> QED BY <1>0, <1>1, <1>4, <2>3, <2>6, <2>11, <3>1, <3>2, <3>3, <3>4, <3>5 DEF BuildInv
  <2>13. CASE op.todo # {}
    <3>1. op'.pc = "patch" /\ op'.flag = flag
      BY <1>4, <2>13
    <3>2. work' = HeadTree'
      BY <1>1, <2>3, <2>5, <2>10, <2>13
    <3>3. Covered' # {} => op'.flag
      BY <2>6, <3>1 DEF flag, Covered
    <3>4. \E k \in 0..MaxNumber : (op.todo = After(k) /\ Done(series, k) /\ (Straight => Fitted(series, k)))'
      <4>1. (op.todo = After(n) /\ Done(series, n) /\ (Straight => Fitted(series, n)))'
        BY <1>4, <2>3, <2>6, <2>7, <2>9
      <4> QED BY <2>4, <4>1
    <3> QED BY <1>0, <1>1, <1>4, <2>3, <2>6, <2>11, <3>1, <3>2, <3>3, <3>4 DEF BuildInv
  <2> QED BY <2>12, <2>13
<1>7. BuildInv'
  BY <1>6 DEF BuildInv
<1>8. op'.pc \in {"patch", "commit", "seal"}
  BY <1>4
<1> QED BY <1>5, <1>7, <1>8, OnlyBuild

LEMMA SealRefreshHist == ASSUME Ready, SealRefresh PROVE HistInv'
<1>0. op.pc = "seal" /\ op.pc \in {"patch", "commit", "seal"} /\ op.kind = "refresh" /\ op' = Idle
  BY DEF SealRefresh, Finish
<1>1. /\ TypeInv /\ PlaceInv /\ BuildInv /\ op \in Operations /\ series \in SUBSET Numbers
      /\ root \in Bases
  BY <1>0, BuildKinds
<1>2. /\ UNCHANGED <<files, series, overlay, pin, root, work>>
      /\ log' = IF op.flag /\ Dirty THEN Sealed ELSE log
      /\ story' = IF story = "exact" /\ ~op.direct THEN "other" ELSE story
  BY DEF SealRefresh, Finish, repository
<1>3. story # "conflict"
  BY <1>0, <1>1 DEF PlaceInv
<1>4. CASE ~Good'
  <2>1. RestInv'
    BY <1>2, <1>3, <1>4 DEF RestInv, Good
  <2> QED BY <1>0, <2>1, IdlePlace, OnlyRest
<1>5. CASE Good'
  <2>1. Good /\ story' = story /\ (story = "exact" => op.direct)
    BY <1>2, <1>5 DEF Good
  <2>2. Trusted
    BY <1>0, <2>1 DEF Trusted
  <2>3. /\ Clear(series) /\ Done(series, MaxNumber) /\ (Straight => Fitted(series, MaxNumber))
        /\ Agree(work, HeadTree, Covered) /\ (op.flag \/ work = HeadTree)
        /\ Exactable => Clean /\ \A s \in Covered : work[s] = overlay
        /\ story = "exact" => root = pin.sha
    BY <1>0, <1>1, <2>2 DEF BuildInv
  <2>4. log' = Sealed \/ (log' = log /\ work = HeadTree)
    BY <1>2, <2>3 DEF Dirty
  <2>5. /\ Whole(series)'
        /\ Clean /\ (\A s \in Covered : work[s] = overlay) =>
             Clean' /\ (\A s \in Covered : HeadTree[s] = overlay)'
        /\ \A k : Fitted(series, k)' <=> Fitted(series, k)
    BY <1>1, <1>2, <2>3, <2>4, SealTells
  <2>6. story = "exact" => Exactly(series)' /\ root' = pin'.sha
    <3> SUFFICES ASSUME story = "exact" PROVE Exactly(series)' /\ root' = pin'.sha
      OBVIOUS
    <3>1. Exactable /\ Straight
      BY <1>0, <2>1 DEF Exactable, Straight
    <3> QED BY <1>2, <2>3, <2>5, <3>1 DEF Exactly
  <2>7. RestInv'
    BY <1>3, <2>1, <2>5, <2>6 DEF RestInv
  <2> QED BY <1>0, <2>7, IdlePlace, OnlyRest
<1> QED BY <1>4, <1>5

-----------------------------------------------------------------------------
(* The history invariant is inductive *)

LEMMA HistStarts == ASSUME Ready, StartCommand PROVE HistInv'
<1>1. CASE \E n \in Numbers : \/ RefreshUnrecorded(n)
                              \/ \E c \in 1..Len(log) : RefreshTop(n, c) \/ RefreshWithin(n, c)
  BY <1>1, RefreshUnrecordedHist, RefreshTopHist, RefreshWithinHist
<1> QED BY <1>1, ApplyHist, ReverseHist, SetupHist, SetupForceHist, RebaseHist, RebaseForceHist,
           DumpHist DEF StartCommand

LEMMA HistReplays == ASSUME Ready, Replay PROVE HistInv'
<1>1. ASSUME NEW n \in Numbers, ApplyNext(n) \/ Conflict(n) \/ Mismatch(n) \/ RevertNext(n) \/ RevertFailed(n)
      PROVE  HistInv'
  BY <1>1, ApplyNextHist, ConflictHist, RevertNextHist, OtherHist
<1> QED BY <1>1, CheckoutHist, RebaseNowhereHist, NothingDone, NotAppliedHist, StartReplayHist,
           StartReverseHist, CommitPatchHist, CopyOverlaysHist, SealReplayHist, PinRefHist,
           PinShaHist, OtherHist DEF Replay

LEMMA HistCaptures == ASSUME Ready, Capture PROVE HistInv'
BY RegisterHist, ReapplyHist, WriteRefreshedHist, RecordDumpedHist, RecordRefreshedHist,
   SealRefreshHist, OtherHist DEF Capture

LEMMA HistStutters == ASSUME HistInv, UNCHANGED vars PROVE HistInv'
<1>1. UNCHANGED <<files, series, overlay, pin, root, log, work, op, outcome, story, spent>>
  BY DEF vars
<1>2. PlaceInv'
  BY <1>1 DEF HistInv, PlaceInv
<1>3. RestInv'
  BY <1>1 DEF HistInv, RestInv, Resting, Good, Whole, Exactly, Clear, Unmoved, Clean, Done, Fitted,
     Stacked, Covered, HeadTree, TreeOf
<1>4. DumpInv'
  BY <1>1 DEF HistInv, DumpInv, Registered, Good, Whole, Exactly, Clear, Unmoved, Clean, Done, Fitted,
     Stacked, Covered, HeadTree, TreeOf, Staged
<1>5. BuildInv'
  BY <1>1 DEF HistInv, BuildInv, Trusted, Exactable, Straight, Apart, Good, Clear, Clean, Done, Fitted,
     Stacked, Covered, HeadTree, TreeOf, After
<1>6. CaptureInv'
  BY <1>1 DEF HistInv, CaptureInv, Good, Clear, Unmoved, Clean, Done, Fitted,
     Stacked, Covered, HeadTree, TreeOf, After, Staged
<1> QED BY <1>2, <1>3, <1>4, <1>5, <1>6 DEF HistInv

LEMMA HistStep ==
  ASSUME IInv, SetupInv, HistInv, [Next]_vars
  PROVE  HistInv'
<1>1. Ready
  BY DEF Ready, IInv
<1>2. CASE Environment
  BY <1>1, <1>2, EditHist, OtherHist DEF Environment
<1> QED BY <1>1, <1>2, HistStarts, HistReplays, HistCaptures, HistStutters DEF Next

LEMMA InitHist == ASSUME Init PROVE HistInv
<1>1. op = Idle /\ story = "other"
  BY DEF Init
<1>2. op.kind = "none" /\ op.pc = "idle"
  BY <1>1 DEF Idle
<1> QED BY <1>1, <1>2 DEF HistInv, PlaceInv, AtPoint, RestInv, Good, DumpInv, BuildInv, Trusted, CaptureInv

LEMMA HistHolds == Spec => [](IInv /\ SetupInv /\ HistInv)
<1>1. Init => SetupInv /\ HistInv
  BY InitHist, IdleType DEF Init, SetupInv, Idle
<1>2. IInv /\ SetupInv /\ HistInv /\ [Next]_vars => SetupInv' /\ HistInv'
  BY SetupStep, HistStep
<1> QED BY <1>1, <1>2, Inductive, PTL DEF Spec

\* At rest, a good history is the series, commit by commit.
LEMMA RestTells ==
  ASSUME TypeInv, PlaceInv, RestInv, op.pc = "idle"
  PROVE  HistoryIsSeries
<1>0. series \in SUBSET Numbers /\ log \in Seq(Commits) /\ MaxNumber \in 0..MaxNumber /\ Resting
  BY RepositoryAssumption DEF TypeInv, TypeOK, Resting
<1>1. ASSUME Good PROVE PatchHistory
  <2> DEFINE g == Stacked(series)
             base == BaseTree[root]
             cov == Covered
             patches == {i \in 1..Len(log) : log[i].by # Overlays}
  <2>1. Done(series, MaxNumber)
    BY <1>0, <1>1 DEF RestInv, Whole
  <2>2. Tells(g, base, series, cov, log, MaxNumber)
    BY <2>1 DEF Done
  <2>3. \A i \in patches : IsPatch(log, i) /\ log[i].by \in series /\ log[i].by <= MaxNumber
    <3> HIDE DEF g, base, cov
    <3> QED BY <2>2 DEF Tells, IsPatch
  <2>4. \A i, j \in patches : i < j => log[i].by < log[j].by
    <3> HIDE DEF g, base, cov
    <3> QED BY <2>2 DEF Tells, IsPatch
  <2>5. {log[i].by : i \in patches} = {k \in series : g[k] # g[k - 1]}
    <3>1. \A k \in series : k <= MaxNumber /\ k # Overlays
      BY <1>0, NumberIs
    <3>2. \A k \in series : g[k] # g[k - 1] <=> \E i \in 1..Len(log) : log[i].by = k
      <4> HIDE DEF g, base, cov
      <4> QED BY <2>2, <3>1 DEF Tells
    <3>3. \A k \in series : (\E i \in 1..Len(log) : log[i].by = k) <=> (\E i \in patches : log[i].by = k)
      BY <3>1
    <3> HIDE DEF g, patches
    <3> QED BY <2>3, <3>2, <3>3
  <2>6. ASSUME NEW i \in patches, NEW s \in Spots \ Covered
        PROVE  log[i].tree[s] = g[log[i].by][s]
    <3>1. PICK n \in Numbers : n = log[i].by
      BY <1>0, <2>3
    <3>2. Split(log, i, n) /\ n <= MaxNumber
      BY <1>0, <2>1, <3>1, DoneKeeps
    <3>3. i \in 0..Len(log) /\ i # 0 /\ n \in 0..MaxNumber
      BY <3>1, <3>2, NumberIs
    <3>4. Agree(TreeAt(base, log, i), g[n], cov)
      <4> HIDE DEF g, base, cov
      <4> QED BY <2>2, <3>2, <3>3 DEF Tells
    <3>5. TreeAt(base, log, i) = log[i].tree
      BY <3>3 DEF TreeAt
    <3> QED BY <3>1, <3>4, <3>5 DEF Agree
  <2> QED BY <2>4, <2>5, <2>6 DEF PatchHistory, Stacked
<1>2. ASSUME story = "exact"
      PROVE  /\ root = pin.sha
             /\ StackFits(BaseTree[root], files, series, MaxNumber)
             /\ overlay # Absent => HeadTree[OverlaySpot] = overlay
  <2>1. Exactly(series) /\ root = pin.sha
    BY <1>0, <1>2 DEF RestInv
  <2>2. \A n \in series : n <= MaxNumber
    BY <1>0, NumberIs
  <2>3. StackFits(BaseTree[root], files, series, MaxNumber)
    BY <2>1, <2>2 DEF Exactly, Fitted, Stacked, StackFits
  <2>4. overlay # Absent => HeadTree[OverlaySpot] = overlay
    BY <2>1 DEF Exactly, Covered
  <2> QED BY <2>1, <2>3, <2>4
<1> QED BY <1>1, <1>2 DEF HistoryIsSeries, Good

\* Safety: as long as only `jx' has written to the workspace, its history is the
\* series, patch by patch: what run_apply commits, dump_new and dump_refresh add,
\* rewrite and replay, is what the patch files say; and so it is again when the
\* conflict of a rebase is resolved by a refresh of its patch.
THEOREM HistoryKept == Spec => []HistoryIsSeries
<1>1. IInv /\ SetupInv /\ HistInv => HistoryIsSeries
  <2>1. ASSUME IInv, HistInv, op.pc = "idle" PROVE HistoryIsSeries
    BY <2>1, RestTells DEF IInv, HistInv
  <2> QED BY <2>1 DEF HistoryIsSeries
<1> QED BY HistHolds, <1>1, PTL

-----------------------------------------------------------------------------
(* What was in the workspace is captured *)

\* What no patch after n touches is, after all of them, what it is after n.
LEMMA StackLate ==
  ASSUME NEW base, NEW fs, NEW se, NEW s \in Spots, NEW n \in 0..MaxNumber,
         \A m \in se : m > n => s \notin DOMAIN fs[m]
  PROVE  Stack(base, fs, se, MaxNumber)[MaxNumber][s] = Stack(base, fs, se, MaxNumber)[n][s]
<1> DEFINE built == Stack(base, fs, se, MaxNumber)
           E == {d \in Nat : n + d \in 0..MaxNumber => built[n + d][s] = built[n][s]}
<1>0. MaxNumber \in Nat
  BY RepositoryAssumption
<1>1. \A i \in 1..MaxNumber : built[i] = IF i \in se THEN Patched(fs[i], built[i - 1])
                                         ELSE built[i - 1]
  BY <1>0, StackSteps
<1> HIDE DEF built
<1>2. 0 \in E
  OBVIOUS
<1>3. ASSUME NEW d \in Nat, d \in E PROVE d + 1 \in E
  <2> SUFFICES ASSUME n + (d + 1) \in 0..MaxNumber PROVE built[n + (d + 1)][s] = built[n][s]
    OBVIOUS
  <2> DEFINE i == n + (d + 1)
  <2>1. i \in 1..MaxNumber /\ i - 1 = n + d /\ n + d \in 0..MaxNumber /\ i > n
    BY <1>0
  <2>2. built[i - 1][s] = built[n][s]
    BY <1>3, <2>1
  <2>3. i \in se => Patched(fs[i], built[i - 1])[s] = built[i - 1][s]
    BY <2>1 DEF Patched
  <2>4. built[i][s] = built[i - 1][s]
    <3> HIDE DEF i
    <3> QED BY <1>1, <2>1, <2>3
  <2> QED BY <2>2, <2>4
<1>4. Nat \subseteq E
  <2> HIDE DEF E
  <2> QED BY <1>2, <1>3, Induct
<1>5. MaxNumber - n \in E /\ n + (MaxNumber - n) = MaxNumber
  BY <1>0, <1>4
<1> QED BY <1>0, <1>5 DEF built

\* Steps of a refresh after which the same spots hold what they held.
LEMMA KeptOn ==
  ASSUME KeptInv, op.kind = "refresh", story' = story, op'.n = op.n, op'.saw = op.saw,
         op.pc # "reapply", op'.pc # "reapply", UNCHANGED series,
         story = "exact" => op'.todo \subseteq op.todo,
         story = "exact" => \A m \in After(op.n) : files'[m] = files[m],
         story = "exact" => \A s \in Spots \ {OverlaySpot} : Lasting(s, op.n) => work'[s] = work[s]
  PROVE  KeptInv'
<1> SUFFICES ASSUME story = "exact"
             PROVE  /\ (op.todo \subseteq After(op.n))'
                    /\ \A s \in Spots \ {OverlaySpot} : Lasting(s, op.n)' => work'[s] = op'.saw[s]
  BY DEF KeptInv
<1>1. After(op.n)' = After(op.n)
  BY DEF After
<1>2. \A s \in Spots : Lasting(s, op.n)' => Lasting(s, op.n)
  BY <1>1 DEF Lasting
<1>3. /\ op.todo \subseteq After(op.n)
      /\ \A s \in Spots \ {OverlaySpot} : Lasting(s, op.n) => work[s] = op.saw[s]
  BY DEF KeptInv
<1> QED BY <1>1, <1>2, <1>3

LEMMA RefreshTopKept ==
  ASSUME Ready, NEW n \in Numbers, NEW c \in 1..Len(log), RefreshTop(n, c)
  PROVE  KeptInv'
<1> DEFINE flag == (c # Len(log))
<1>2. op' = [Idle EXCEPT !.kind = "refresh", !.pc = "write", !.n = n, !.saw = work,
                         !.todo = After(n), !.flag = flag]
  BY DEF RefreshTop
<1> HIDE DEF flag
<1>4. op'.pc = "write" /\ op'.n = n /\ op'.saw = work /\ op'.todo = After(n)
  BY <1>2, IdleType DEF Operations, Idle
<1>5. UNCHANGED <<series, work>>
  BY DEF RefreshTop, repository
<1>6. After(op.n)' = After(n)
  BY <1>4, <1>5 DEF After
<1> QED BY <1>4, <1>5, <1>6 DEF KeptInv

LEMMA RefreshWithinKept ==
  ASSUME Ready, NEW n \in Numbers, NEW c \in 1..Len(log), RefreshWithin(n, c)
  PROVE  KeptInv'
<1>0. TypeInv /\ op.pc = "idle" /\ Resting /\ RestInv /\ series \in SUBSET Numbers /\ IsCommitOf(c, n)
  BY TurnIs DEF RefreshWithin, Refreshable, TypeInv, TypeOK
<1>1. UNCHANGED <<files, series>> /\ story' = Onward /\ work' = log[c].tree
  BY DEF RefreshWithin, repository
<1> DEFINE flag == (HeadBy = Overlays)
           pend == Diff(HeadTree, Staged)
<1>2. op' = [Idle EXCEPT !.kind = "refresh", !.pc = "reapply", !.n = n, !.saw = work,
                         !.todo = After(n), !.flag = flag, !.pend = pend]
  BY DEF RefreshWithin
<1> HIDE DEF flag, pend
<1>4. op'.pc = "reapply" /\ op'.n = n /\ op'.saw = work /\ op'.todo = After(n) /\ op'.pend = pend
  BY <1>2, IdleType DEF Operations, Idle
<1>5. After(op.n)' = After(n) /\ \A s \in Spots : Lasting(s, op.n)' <=> Lasting(s, n)
  BY <1>1, <1>4 DEF After, Lasting
<1>6. ASSUME story' = "exact", NEW s \in Spots \ {OverlaySpot}, Lasting(s, n)
      PROVE  Patched(pend, work')[s] = work[s]
  <2>1. Good /\ story = "exact"
    BY <1>1, <1>6 DEF Onward, Good
  <2>2. root \in Bases /\ Done(series, MaxNumber)
    BY <1>0, <2>1 DEF RestInv, Whole
  <2>3. log[c].by = n /\ MaxNumber \in 0..MaxNumber /\ n \in 0..MaxNumber /\ c \in 0..Len(log) /\ c # 0
        /\ s \in Spots \ Covered
    BY <1>0, <1>6, NumberIs, RepositoryAssumption DEF IsCommitOf, CommitsOf, Covered
  <2>4. Split(log, c, n)
    BY <1>0, <2>2, <2>3, DoneKeeps
  <2>5. log[c].tree[s] = Stacked(series)[n][s]
    <3> DEFINE g == Stacked(series)
               base == BaseTree[root]
               cov == Covered
    <3>1. Tells(g, base, series, cov, log, MaxNumber)
      BY <2>2 DEF Done
    <3>2. Agree(TreeAt(base, log, c), g[n], cov)
      <4> HIDE DEF g, base, cov
      <4> QED BY <2>3, <2>4, <3>1 DEF Tells
    <3> QED BY <2>3, <3>2 DEF Agree, TreeAt
  <2>6. HeadTree[s] = Stacked(series)[MaxNumber][s]
    BY <1>0, <2>2, <2>3, DoneHead DEF Agree
  <2>7. Stacked(series)[MaxNumber][s] = Stacked(series)[n][s]
    <3>1. \A m \in series : m > n => s \notin DOMAIN files[m]
      BY <1>6 DEF Lasting, After
    <3> QED BY <2>3, <3>1, StackLate DEF Stacked
  <2>8. Staged[s] = work[s]
    BY <1>0, <2>2, <2>3, StagedIs
  <2>9. CASE HeadTree[s] = Staged[s]
    BY <1>1, <2>3, <2>5, <2>6, <2>7, <2>8, <2>9 DEF Patched, pend, Diff
  <2>10. CASE HeadTree[s] # Staged[s]
    BY <2>3, <2>8, <2>10 DEF Patched, pend, Diff
  <2> QED BY <2>9, <2>10
<1> QED BY <1>4, <1>5, <1>6 DEF KeptInv

LEMMA KeptStarts == ASSUME Ready, StartCommand PROVE KeptInv'
<1>1. ASSUME op'.kind # "refresh" \/ story' # "exact" PROVE KeptInv'
  BY <1>1 DEF KeptInv
<1>2. Apply \/ Reverse \/ Setup \/ SetupForce \/ Rebase \/ RebaseForce \/ Dump => op'.kind # "refresh"
  <2>1. Apply => op'.kind # "refresh"
    BY IdleType DEF Apply, Operations
  <2>2. Reverse => op'.kind # "refresh"
    BY IdleType DEF Reverse, Operations
  <2>3. Setup => op'.kind # "refresh"
    BY IdleType DEF Setup, Operations
  <2>4. SetupForce => op'.kind # "refresh"
    BY IdleType DEF SetupForce, Operations
  <2>5. Rebase => op'.kind # "refresh"
    BY IdleType DEF Rebase, Operations
  <2>6. RebaseForce => op'.kind # "refresh"
    BY IdleType DEF RebaseForce, Operations
  <2>7. Dump => op'.kind # "refresh"
    BY IdleType DEF Dump, Operations
  <2> QED BY <2>1, <2>2, <2>3, <2>4, <2>5, <2>6, <2>7
<1>3. \A n \in Numbers : RefreshUnrecorded(n) => story' # "exact"
  BY DEF RefreshUnrecorded
<1> QED BY <1>1, <1>2, <1>3, RefreshTopKept, RefreshWithinKept DEF StartCommand

\* A command that is no refresh keeps nothing.
LEMMA KeptNothing == ASSUME op'.kind # "refresh" PROVE KeptInv'
BY DEF KeptInv

LEMMA KeptReplays == ASSUME Ready, KeptInv, Replay PROVE KeptInv'
<1>0. TypeInv /\ PlaceInv /\ op \in Operations /\ Idle.kind # "refresh"
  BY DEF Ready, HistInv, TypeInv, TypeOK, Idle
<1> SUFFICES ASSUME op'.kind = "refresh" PROVE KeptInv'
  BY KeptNothing
<1>1. op.kind = "refresh" /\ op' # Idle
  BY <1>0, KindStays
<1>2. op.pc \in {"reapply", "write", "record", "patch", "commit", "seal"}
  BY <1>0, <1>1 DEF PlaceInv, AtPoint
<1>3. ASSUME NEW n \in Numbers, ApplyNext(n) PROVE KeptInv'
  <2> DEFINE d == op.direct /\ Fits(files[n], work)
             next == IF work' = HeadTree THEN "patch" ELSE "commit"
  <2>1. op' = [op EXCEPT !.pc = next, !.todo = op.todo \ {n}, !.at = n, !.direct = d]
    BY <1>3 DEF ApplyNext, Proceed
  <2>2. next # "reapply"
    OBVIOUS
  <2> HIDE DEF d, next
  <2>3. op'.pc = next /\ op'.n = op.n /\ op'.saw = op.saw /\ op'.todo = op.todo \ {n}
    BY <1>0, <2>1 DEF Operations
  <2>4. UNCHANGED <<files, series, story>> /\ op.pc = "patch" /\ n \in op.todo
        /\ work' = Patched(files[n], work)
    BY <1>3 DEF ApplyNext, Applying, Proceed, repository
  <2>5. ASSUME story = "exact", NEW s \in Spots \ {OverlaySpot}, Lasting(s, op.n)
        PROVE  work'[s] = work[s]
    <3>1. n \in After(op.n)
      BY <1>1, <2>4, <2>5 DEF KeptInv
    <3>2. s \notin DOMAIN files[n]
      BY <2>5, <3>1 DEF Lasting
    <3> QED BY <2>4, <3>2 DEF Patched
  <2> QED BY <1>1, <2>2, <2>3, <2>4, <2>5, KeptOn
<1>4. CASE CommitPatch
  <2>1. op' = [op EXCEPT !.pc = "patch"] /\ UNCHANGED <<files, series, work, story>> /\ op.pc = "commit"
    BY <1>4 DEF CommitPatch, Proceed, repository
  <2>2. op'.pc = "patch" /\ op'.n = op.n /\ op'.saw = op.saw /\ op'.todo = op.todo
    BY <1>0, <2>1 DEF Operations
  <2> QED BY <1>1, <2>1, <2>2, KeptOn
<1>5. CASE CopyOverlays
  <2>1. op' = [op EXCEPT !.pc = "seal"] /\ UNCHANGED <<files, series, story>> /\ op.pc = "patch"
    BY <1>5 DEF CopyOverlays, PatchesDone, Proceed, repository
  <2>2. op'.pc = "seal" /\ op'.n = op.n /\ op'.saw = op.saw /\ op'.todo = op.todo
    BY <1>0, <2>1 DEF Operations
  <2>3. \A s \in Spots \ {OverlaySpot} : work'[s] = work[s]
    <3>1. work \in [Spots -> Values]
      BY <1>0 DEF TypeInv, TypeOK, Trees
    <3> QED BY <1>5, <3>1 DEF CopyOverlays
  <2> QED BY <1>1, <2>1, <2>2, <2>3, KeptOn
<1>6. ~(Checkout \/ RebaseNowhere \/ RefuseCollision \/ NothingToApply \/ RefuseMissing
        \/ AlreadyApplied \/ NotApplied \/ StartReplay \/ StartReverse)
  BY <1>2 DEF Checkout, RebaseNowhere, RefuseCollision, NothingToApply, RefuseMissing,
     AlreadyApplied, NotApplied, StartReplay, StartReverse, Replayable
<1>7. ~(OverlayModified \/ SealReplay \/ PinRef \/ PinSha \/ Reverted)
  BY <1>1, <1>2 DEF OverlayModified, SealReplay, PinRef, PinSha, Reverted, Finish
<1>8. \A n \in Numbers : ~(Conflict(n) \/ Mismatch(n) \/ RevertNext(n) \/ RevertFailed(n))
  BY <1>1, <1>2 DEF Conflict, Mismatch, RevertNext, RevertFailed, Reverting, Finish
<1> QED BY <1>3, <1>4, <1>5, <1>6, <1>7, <1>8 DEF Replay

LEMMA KeptCaptures == ASSUME Ready, KeptInv, Capture PROVE KeptInv'
<1>0. TypeInv /\ PlaceInv /\ CaptureInv /\ op \in Operations /\ Idle.kind # "refresh"
  BY DEF Ready, HistInv, TypeInv, TypeOK, Idle
<1> SUFFICES ASSUME op'.kind = "refresh" PROVE KeptInv'
  BY KeptNothing
<1>1. op.kind = "refresh" /\ op' # Idle
  BY <1>0, KindStays
<1>2. CASE Reapply
  <2>1. op' = [op EXCEPT !.pc = "write", !.pend = NoPatch] /\ UNCHANGED <<files, series, story>>
        /\ op.pc = "reapply" /\ work' = Patched(op.pend, work)
    BY <1>2 DEF Reapply, Proceed, repository
  <2>2. op'.pc = "write" /\ op'.n = op.n /\ op'.saw = op.saw /\ op'.todo = op.todo
    BY <1>0, <2>1 DEF Operations
  <2>3. After(op.n)' = After(op.n) /\ \A s \in Spots : Lasting(s, op.n)' <=> Lasting(s, op.n)
    BY <2>1, <2>2 DEF After, Lasting
  <2> QED BY <1>1, <2>1, <2>2, <2>3 DEF KeptInv
<1>3. CASE WriteRefreshed
  <2>1. op' = [op EXCEPT !.pc = "record"] /\ UNCHANGED <<series, work, story>>
        /\ op.pc = "write" /\ files' = [files EXCEPT ![op.n] = Diff(HeadTree, Staged)]
    BY <1>3 DEF WriteRefreshed, Proceed, workspace
  <2>2. op'.pc = "record" /\ op'.n = op.n /\ op'.saw = op.saw /\ op'.todo = op.todo
    BY <1>0, <2>1 DEF Operations
  <2>3. ASSUME NEW m \in After(op.n) PROVE files'[m] = files[m]
    <3>1. m \in Numbers /\ op.n \in Numbers /\ m > op.n
      BY <1>0, <2>1 DEF After, TypeInv, TypeOK, Structure
    <3>2. m # op.n
      BY <3>1, NumberIs
    <3> QED BY <1>0, <2>1, <3>1, <3>2 DEF TypeInv, TypeOK
  <2> QED BY <1>1, <2>1, <2>2, <2>3, KeptOn
<1>4. CASE RecordRefreshed
  <2> DEFINE flag == op.flag \/ overlay # Absent
  <2>1. /\ UNCHANGED <<files, series, work, story>> /\ op.pc = "record"
        /\ op' = [op EXCEPT !.pc = "seal"] \/ op' = [op EXCEPT !.pc = "patch", !.flag = flag]
    BY <1>4 DEF RecordRefreshed, Proceed, repository
  <2> HIDE DEF flag
  <2>2. op'.pc \in {"seal", "patch"} /\ op'.n = op.n /\ op'.saw = op.saw /\ op'.todo = op.todo
    <3>1. CASE op' = [op EXCEPT !.pc = "seal"]
      BY <1>0, <3>1 DEF Operations
    <3>2. CASE op' = [op EXCEPT !.pc = "patch", !.flag = flag]
      BY <1>0, <3>2 DEF Operations
    <3> QED BY <2>1, <3>1, <3>2
  <2> QED BY <1>1, <2>1, <2>2, KeptOn
<1>5. ~RecordDumped
  BY <1>1 DEF RecordDumped
<1>6. ~(Register \/ ReapplyConflict \/ ReapplyFailed \/ NothingToRefresh \/ SealRefresh
        \/ \E n \in Numbers : RefreshStuck(n))
  BY <1>1 DEF Register, ReapplyConflict, ReapplyFailed, NothingToRefresh, SealRefresh, RefreshStuck,
     Finish
<1> QED BY <1>2, <1>3, <1>4, <1>5, <1>6 DEF Capture

\* A rebase that still has to pin has reported nothing of a dump or a refresh.
PinQuiet == op.pc \in {"ref", "sha"} => outcome \notin {"dumped", "refreshed"}

\* No replay reports a dump or a refresh.
LEMMA ReplayReports ==
  ASSUME IInv, PinQuiet, Replay
  PROVE  outcome' \notin {"dumped", "refreshed"}
<1>1. op.pc # "idle"
  BY Underway
<1>2. outcome' = outcome => outcome' \notin {"dumped", "refreshed"}
  BY <1>1 DEF IInv, SilentInv, PinQuiet
<1>3. ASSUME NEW how, NEW then, Replayed(how, then) PROVE outcome' = how
  BY <1>3 DEF Replayed, Finish
<1>4. NothingToApply \/ AlreadyApplied \/ SealReplay => outcome' \notin {"dumped", "refreshed"}
  <2>1. NothingToApply => outcome' = "noop"
    BY <1>3 DEF NothingToApply
  <2>2. AlreadyApplied => outcome' = "already"
    BY <1>3 DEF AlreadyApplied
  <2>3. SealReplay => outcome' = (IF op.skip \in series THEN "partly" ELSE "applied")
    BY <1>3 DEF SealReplay
  <2> QED BY <2>1, <2>2, <2>3
<1>5. Checkout \/ StartReplay \/ StartReverse \/ CommitPatch \/ CopyOverlays \/ PinRef \/ PinSha
        => outcome' = outcome
  BY DEF Checkout, StartReplay, StartReverse, CommitPatch, CopyOverlays, PinRef, PinSha, Proceed
<1>6. \A n \in Numbers : ApplyNext(n) \/ RevertNext(n) => outcome' = outcome
  BY DEF ApplyNext, RevertNext, Proceed
<1>7. RebaseNowhere \/ RefuseCollision \/ RefuseMissing \/ NotApplied \/ OverlayModified \/ Reverted
        => outcome' \notin {"dumped", "refreshed"}
  BY DEF RebaseNowhere, RefuseCollision, RefuseMissing, NotApplied, OverlayModified, Reverted, Finish
<1>8. \A n \in Numbers : Conflict(n) \/ Mismatch(n) \/ RevertFailed(n)
        => outcome' \notin {"dumped", "refreshed"}
  BY DEF Conflict, Mismatch, RevertFailed, Finish
<1> QED BY <1>2, <1>4, <1>5, <1>6, <1>7, <1>8 DEF Replay

LEMMA PinQuietStep ==
  ASSUME IInv, HistInv, PinQuiet, [Next]_vars, HistInv'
  PROVE  PinQuiet'
<1>0. TypeInv /\ PlaceInv /\ PlaceInv'
  BY DEF IInv, HistInv
<1>1. CASE StartCommand
  <2>1. Turn
    BY <1>1, Zenon DEF StartCommand, Apply, Reverse, Setup, SetupForce, Rebase, RebaseForce, Dump,
       RefreshUnrecorded, RefreshTop, RefreshWithin, Refreshable
  <2> QED BY <2>1 DEF Turn, PinQuiet
<1>2. CASE Replay
  BY <1>2, ReplayReports DEF PinQuiet
<1>3. CASE Capture
  <2> SUFFICES ASSUME op'.pc \in {"ref", "sha"} PROVE FALSE
    BY DEF PinQuiet
  <2>1. op'.kind = "rebase" /\ op' # Idle
    BY <1>0 DEF PlaceInv, AtPoint, Idle
  <2>2. op.kind = "rebase"
    BY <1>0, <1>3, <2>1, KindStays
  <2> QED BY <1>0, <1>3, <2>2 DEF PlaceInv, AtPoint, Capture, Register, Reapply, ReapplyConflict,
             ReapplyFailed, WriteRefreshed, NothingToRefresh, RecordDumped, RecordRefreshed,
             SealRefresh, RefreshStuck
<1>4. CASE Environment
  BY <1>4 DEF Environment, Edit, CommitByHand, PullFile, PullOverlay, Turn, Crash, Finish, PinQuiet
<1>5. CASE UNCHANGED vars
  BY <1>5 DEF vars, PinQuiet
<1> QED BY <1>1, <1>2, <1>3, <1>4, <1>5 DEF Next

LEMMA KeptStep ==
  ASSUME IInv, SetupInv, HistInv, KeptInv, [Next]_vars
  PROVE  KeptInv'
<1>1. Ready /\ PlaceInv
  BY DEF Ready, IInv, HistInv
<1>2. CASE Edit \/ CommitByHand \/ PullFile \/ PullOverlay
  <2>1. op.pc = "idle" /\ op' = op
    BY <1>2 DEF Edit, CommitByHand, PullFile, PullOverlay, Turn
  <2>2. op'.kind # "refresh"
    BY <1>1, <2>1 DEF PlaceInv, AtPoint
  <2> QED BY <2>2, KeptNothing
<1>3. CASE Crash
  <2>1. op'.kind # "refresh"
    BY <1>3 DEF Crash, Finish, Idle
  <2> QED BY <2>1, KeptNothing
<1>4. CASE UNCHANGED vars
  BY <1>4 DEF vars, KeptInv, After, Lasting
<1> QED BY <1>1, <1>2, <1>3, <1>4, KeptStarts, KeptReplays, KeptCaptures DEF Next, Environment

LEMMA KeptHolds == Spec => [](IInv /\ SetupInv /\ HistInv /\ KeptInv /\ PinQuiet)
<1>1. Init => KeptInv /\ PinQuiet
  <2>1. Init => op.kind = "none" /\ op.pc = "idle"
    BY DEF Init, Idle
  <2> QED BY <2>1 DEF KeptInv, PinQuiet
<1>2. IInv /\ SetupInv /\ HistInv /\ KeptInv /\ PinQuiet /\ [Next]_vars /\ HistInv' => KeptInv' /\ PinQuiet'
  BY KeptStep, PinQuietStep
<1> QED BY <1>1, <1>2, HistHolds, PTL DEF Spec

\* What a spot of the workspace held when the command began, its commit holds.
LEMMA CapturedByDump ==
  ASSUME Ready, story = "exact", RecordDumped \/ Register, outcome' = "dumped", op.kind = "dump"
  PROVE  \A s \in Spots \ {OverlaySpot} : work'[s] = op.saw[s] /\ HeadTree'[s] = op.saw[s]
<1>1. Good /\ TypeInv /\ DumpInv
  BY DEF Good, Ready, HistInv
<1>2. root \in Bases /\ work = op.saw /\ (op.pc = "register" => Agree(work, HeadTree, Covered))
  BY <1>1 DEF DumpInv, Whole
<1>3. \A s \in Spots \ {OverlaySpot} : s \in Spots \ Covered
  BY DEF Covered
<1>4. CASE RecordDumped
  <2>1. UNCHANGED <<root, work>> /\ log' = Append(log, [by |-> op.n, tree |-> Staged])
    BY <1>4 DEF RecordDumped, Recorded
  <2>2. HeadTree' = Staged
    BY <1>1, <2>1, CommitHead
  <2>3. \A s \in Spots \ Covered : Staged[s] = work[s]
    BY <1>1, <1>2, StagedIs
  <2> QED BY <1>2, <1>3, <2>1, <2>2, <2>3
<1>5. CASE Register
  <2>1. UNCHANGED <<root, log, work>> /\ op.pc = "register"
    BY <1>5 DEF Register, workspace
  <2>2. HeadTree' = HeadTree
    BY <2>1 DEF HeadTree, TreeOf
  <2> QED BY <1>2, <1>3, <2>1, <2>2 DEF Agree
<1> QED BY <1>4, <1>5

LEMMA CapturedByRefresh ==
  ASSUME Ready, KeptInv, story = "exact", SealRefresh,
         NEW s \in Spots \ {OverlaySpot}, Lasting(s, op.n)
  PROVE  work'[s] = op.saw[s] /\ HeadTree'[s] = op.saw[s]
<1>0. op.pc = "seal" /\ op.pc \in {"patch", "commit", "seal"} /\ op.kind = "refresh"
  BY DEF SealRefresh
<1>1. TypeInv /\ BuildInv /\ Trusted
  BY <1>0 DEF Ready, HistInv, Trusted, Good
<1>2. UNCHANGED <<root, work>> /\ log' = IF op.flag /\ Dirty THEN Sealed ELSE log
  BY DEF SealRefresh
<1>3. op.flag \/ work = HeadTree
  BY <1>0, <1>1 DEF BuildInv
<1>4. work[s] = op.saw[s]
  BY <1>0 DEF KeptInv
<1>5. HeadTree' = work
  <2>1. CASE log' = Sealed
    BY <1>1, <1>2, <2>1, CommitHead DEF Sealed
  <2>2. CASE log' = log /\ work = HeadTree
    BY <1>2, <2>2 DEF HeadTree, TreeOf
  <2> QED BY <1>2, <1>3, <2>1, <2>2 DEF Dirty
<1> QED BY <1>2, <1>4, <1>5

\* What else captures reports neither.
LEMMA CaptureReports ==
  ASSUME IInv, op.pc \notin {"idle", "ref", "sha"}, Capture, outcome' \in {"dumped", "refreshed"}
  PROVE  ((RecordDumped \/ Register) /\ outcome' = "dumped") \/ SealRefresh
<1>1. outcome = "none"
  BY DEF IInv, SilentInv
<1>2. ~(Reapply \/ WriteRefreshed \/ RecordRefreshed)
  BY <1>1 DEF Reapply, WriteRefreshed, RecordRefreshed, Proceed
<1>3. ~(ReapplyConflict \/ ReapplyFailed \/ NothingToRefresh \/ \E n \in Numbers : RefreshStuck(n))
  BY DEF ReapplyConflict, ReapplyFailed, NothingToRefresh, RefreshStuck, Finish
<1>4. RecordDumped \/ Register => outcome' # "refreshed"
  BY <1>1 DEF RecordDumped, Register, Finish, Proceed
<1> QED BY <1>2, <1>3, <1>4 DEF Capture

\* Action property: what a dump or a refresh found in the workspace is in its
\* commits when it reports success, wherever no later patch writes: what
\* dump_refresh keeps in memory, rewinds over and merges back is not lost.
THEOREM EditsKept == Spec => EditsCaptured
<1>1. ASSUME IInv, SetupInv, HistInv, KeptInv, PinQuiet, [Next]_vars, ~UNCHANGED vars,
             story = "exact", op.pc # "idle", outcome' \in {"dumped", "refreshed"},
             NEW s \in Spots \ {OverlaySpot}, Lasting(s, op.n)
      PROVE  work'[s] = op.saw[s] /\ HeadTree'[s] = op.saw[s]
  <2>1. Ready /\ PlaceInv
    BY <1>1 DEF Ready, IInv, HistInv
  <2>2. ~StartCommand
    <3>1. ~Turn
      BY <1>1 DEF Turn
    <3>2. StartCommand => Turn
      BY Zenon DEF StartCommand, Apply, Reverse, Setup, SetupForce, Rebase, RebaseForce, Dump,
         RefreshUnrecorded, RefreshTop, RefreshWithin, Refreshable
    <3> QED BY <3>1, <3>2
  <2>3. ~Replay
    BY <1>1, ReplayReports
  <2>4. ~Environment
    BY <1>1 DEF Environment, Edit, CommitByHand, PullFile, PullOverlay, Turn, Crash, Finish
  <2>5. Capture
    BY <1>1, <2>2, <2>3, <2>4 DEF Next
  <2>6. op.pc \notin {"idle", "ref", "sha"}
    BY <2>5 DEF Capture, Register, Reapply, ReapplyConflict, ReapplyFailed, WriteRefreshed,
       NothingToRefresh, RecordDumped, RecordRefreshed, SealRefresh, RefreshStuck, Applying
  <2>7. CASE (RecordDumped \/ Register) /\ outcome' = "dumped"
    <3>1. op.pc \in {"record", "register"}
      BY <2>7 DEF RecordDumped, Register
    <3>2. op.kind = "dump"
      BY <2>1, <2>7, <3>1 DEF PlaceInv, AtPoint, RecordDumped, Register
    <3> QED BY <1>1, <2>1, <2>7, <3>2, CapturedByDump
  <2>8. CASE SealRefresh
    BY <1>1, <2>1, <2>8, CapturedByRefresh
  <2> QED BY <1>1, <2>5, <2>6, <2>7, <2>8, CaptureReports
<1>2. IInv /\ SetupInv /\ HistInv /\ KeptInv /\ PinQuiet /\ [Next]_vars =>
        [story = "exact" /\ op.pc # "idle" /\ outcome' \in {"dumped", "refreshed"} =>
           \A s \in Spots \ {OverlaySpot} :
             Lasting(s, op.n) => work'[s] = op.saw[s] /\ HeadTree'[s] = op.saw[s]]_vars
  BY <1>1
<1> QED BY KeptHolds, <1>2, PTL DEF Spec, EditsCaptured
=============================================================================
