---------------------------- MODULE PatchSeries ----------------------------
(***************************************************************************)
(* The patch series of jx_ops and jx_workspace: `jx setup', `apply',       *)
(* `dump', `refresh' and `rebase' move the content of patches/ and         *)
(* overlays/ into the history of the workspace (.upstream/) and back.      *)
(*                                                                         *)
(* A command is a sequence of git calls and file writes, any of which may  *)
(* be its last: `op' is the command in progress, one action per stretch    *)
(* that leaves something on disk, and Crash may end it between two.  What  *)
(* only reads (lint, package, dry runs) is a state function.  Commands of  *)
(* one workspace run one after the other, as its user types them.          *)
(*                                                                         *)
(* Entries are their numbers and the series keeps them in order, which is  *)
(* what insert_into_text writes.  All of the workspace is tracked or       *)
(* untracked-not-ignored, so `status' is empty iff the tree is HEAD's.     *)
(***************************************************************************)
EXTENDS PatchTree

CONSTANTS
  OverlaySpot,    \* the file that overlays/ may hold
  Bases,          \* upstream commits, in the order of their ancestry
  BaseTree,       \* their trees
  MaxNumber,      \* bound: highest patch number
  InitFiles,      \* what patches/ may hold at first, all of it registered
  InitOverlay,    \* overlays/ at first, Absent if empty
  InitPin,        \* the pinned base at first
  UserEdits,      \* what the user may write: <<spot, value>>
  PulledFiles,    \* what `git pull' may bring: <<number, patch>>
  PulledOverlays, \* overlays `git pull' may bring
  MaxCommands     \* bound: commands and edits of the user

Numbers == 1..MaxNumber
NoBase == 0      \* root of a workspace that does not exist
User == 0        \* subject of a commit that is not ours
Overlays == -1   \* subject "br: overlays"

ASSUME SpotAssumption == OverlaySpot \in Spots
ASSUME BaseAssumption ==
  /\ Bases \subseteq Nat \ {0}
  /\ BaseTree \in [Bases -> Trees]
  /\ InitPin \in Bases
ASSUME RepositoryAssumption ==
  /\ MaxNumber \in Nat
  /\ InitFiles \subseteq [Numbers -> Patches]
  /\ InitOverlay \in Values
  /\ PulledOverlays \subseteq Values
  /\ \A c \in PulledFiles : c[1] \in Numbers /\ c[2] \in Patches
  /\ \A e \in UserEdits : e[1] \in Spots /\ e[2] \in Values
  /\ MaxCommands \in Nat

VARIABLES
  files,    \* patches/: the patch of each number, NoPatch if there is no file
  series,   \* patches/series: the registered numbers
  overlay,  \* overlays/: content of OverlaySpot, Absent if it has none
  pin,      \* upstream.ref and upstream.sha of config.toml
  root,     \* the base the workspace's history stands on, or NoBase
  log,      \* the commits on it: subject and tree
  work,     \* the working tree
  op,       \* the command in progress
  outcome,  \* how the last command ended
  story,    \* what the workspace has been through (history variable)
  spent     \* commands and edits so far (bound)

repository == <<files, series, overlay, pin>>
workspace == <<root, log, work>>
vars == <<files, series, overlay, pin, root, log, work, op, outcome, story, spent>>

Commits == [by : Numbers \cup {User, Overlays}, tree : Trees]
Kinds == {"none", "apply", "reverse", "setup", "rebase", "dump", "refresh"}
Points == {"idle", "checkout", "begin", "patch", "commit", "seal", "revert", "ref", "sha",
           "reapply", "write", "record", "register"}
Outcomes == {"none", "noop", "applied", "partly", "already", "collision", "missing",
             "conflict", "mismatch", "overlay", "reverted", "dumped", "refreshed",
             "empty", "lost", "stuck", "crashed"}
Stories == {"other", "exact", "conflict", "recovered"}

\* A command in progress: what it is and where, the patches still to apply (or
\* revert), the patch it is about, the one applied and not committed, the entry
\* it skips, the length of the log to roll back to, the base to check out, the
\* pending diff in memory, the tree it found, its option (rebase: write the pin,
\* dump: register, refresh: commit the overlays) and whether nothing was merged.
Operations ==
  [kind : Kinds, pc : Points, todo : SUBSET Numbers, n : Numbers \cup {0},
   at : Numbers \cup {0}, skip : Numbers \cup {0}, pre : Nat,
   base : Bases \cup {NoBase}, pend : Patches, saw : Trees,
   flag : BOOLEAN, direct : BOOLEAN]
Idle ==
  [kind |-> "none", pc |-> "idle", todo |-> {}, n |-> 0, at |-> 0, skip |-> 0, pre |-> 0,
   base |-> NoBase, pend |-> NoPatch, saw |-> EmptyTree, flag |-> FALSE, direct |-> TRUE]

TypeOK ==
  /\ files \in [Numbers -> Patches]
  /\ series \subseteq Numbers
  /\ overlay \in Values
  /\ pin \in [ref : Bases, sha : Bases]
  /\ root \in Bases \cup {NoBase}
  /\ root = NoBase => log = <<>>
  /\ log \in Seq(Commits)
  /\ work \in Trees
  /\ op \in Operations
  /\ outcome \in Outcomes
  /\ story \in Stories
  /\ spent \in 0..MaxCommands
-----------------------------------------------------------------------------
(* Reading the workspace *)

Lowest(S) == CHOOSE n \in S : \A m \in S : n <= m
Highest(S) == CHOOSE n \in S : \A m \in S : m <= n

Exists == root # NoBase
TreeOf(i) == IF i = 0 THEN BaseTree[root] ELSE log[i].tree
HeadTree == TreeOf(Len(log))
\* `git status --porcelain' is not empty.
Dirty == work # HeadTree
\* Whose commit HEAD is; an upstream commit is not ours.
HeadBy == IF log = <<>> THEN User ELSE log[Len(log)].by
\* c is the newest commit of patch n, which is the one `git log --grep -1' finds.
CommitsOf(n) == {i \in 1..Len(log) : log[i].by = n}
IsCommitOf(c, n) == c \in CommitsOf(n) /\ \A i \in CommitsOf(n) : i <= c

\* head_state: HEAD is the pinned base or a commit of ours.
HeadIsOurs == (log = <<>> /\ root = pin.sha) \/ HeadBy # User

\* The index after add_all and exclude_overlay_paths: paths that overlays/
\* holds now are never captured.
\* Bug: add_all is forgotten.
StagedNothing == HeadTree
Staged ==
  IF overlay = Absent THEN work
  ELSE [work EXCEPT ![OverlaySpot] = HeadTree[OverlaySpot]]

\* The file overlays/ holds is not looked for among the patches.
Covered == IF overlay = Absent THEN {} ELSE {OverlaySpot}
\* No patch touches it.
Apart == \A n \in series : DOMAIN files[n] \cap Covered = {}
\* A conflict that a command leaves behind.
Onward == IF story = "conflict" THEN "other" ELSE story

Missing == \E n \in series : files[n] = NoPatch
\* Bug: it is left to copy_overlays to notice.
CollidesNever(base) == FALSE
Collides(base) == overlay # Absent /\ BaseTree[base][OverlaySpot] # Absent
\* Commits after the pinned base that are not ours.
ForeignCommits == root > pin.sha \/ \E i \in 1..Len(log) : log[i].by = User
\* run_apply takes the series as applied when its first and its last patch are.
SeemsApplied ==
  /\ Reverses(files[Lowest(series)], work)
  /\ Reverses(files[Highest(series)], work)
NextNumber ==
  LET taken == {n \in Numbers : files[n] # NoPatch}
  IN IF taken = {} THEN 1 ELSE Highest(taken) + 1

-----------------------------------------------------------------------------
(* Commands: how they begin and end.  A command that refuses before it has    *)
(* changed anything is no step.                                               *)

Turn == op.pc = "idle" /\ spent < MaxCommands /\ spent' = spent + 1 /\ outcome' = "none"

Finish(how, then) ==
  /\ op' = Idle
  /\ outcome' = how
  /\ story' = then
  /\ UNCHANGED spent

\* On to the next point of the command.
Proceed(next) == op' = next /\ UNCHANGED <<outcome, story, spent>>

\* setup --force removes the workspace, with its history.
Removed == root' = NoBase /\ log' = <<>> /\ work' = EmptyTree

CheckedOut(base) == root' = base /\ log' = <<>> /\ work' = BaseTree[base]

\* `jx apply [--skip]'
Apply ==
  /\ Turn /\ Exists /\ ~Dirty
  /\ \E skip \in Numbers \cup {0} :
       op' = [Idle EXCEPT !.kind = "apply", !.pc = "begin", !.skip = skip, !.pre = Len(log)]
  /\ UNCHANGED <<repository, workspace, story>>

\* `jx apply --reverse'
Reverse ==
  /\ Turn /\ Exists /\ ~Dirty /\ ~ForeignCommits
  /\ op' = [Idle EXCEPT !.kind = "reverse", !.pc = "begin", !.pre = Len(log)]
  /\ UNCHANGED <<repository, workspace, story>>

\* `jx setup [--sha]' on a new or a clean workspace
Setup ==
  /\ Turn /\ (Exists => ~Dirty)
  /\ op' = [Idle EXCEPT !.kind = "setup", !.pc = "begin"]
  /\ \E base \in Bases : CheckedOut(base)
  /\ UNCHANGED <<repository, story>>

\* `jx setup --force' removes the workspace first
SetupForce ==
  /\ Turn /\ Exists
  /\ \E base \in Bases :
       op' = [Idle EXCEPT !.kind = "setup", !.pc = "checkout", !.base = base]
  /\ Removed
  /\ UNCHANGED <<repository, story>>

\* `jx rebase [--no-pin]' on a clean workspace
Rebase ==
  /\ Turn /\ Exists /\ ~Dirty
  /\ \E base \in Bases, pins \in BOOLEAN :
       /\ op' = [Idle EXCEPT !.kind = "rebase", !.pc = "begin", !.flag = pins]
       /\ CheckedOut(base)
  /\ UNCHANGED <<repository, story>>

\* `jx rebase --force' discards what is not committed before it looks at anything else
RebaseForce ==
  /\ Turn /\ Exists
  /\ \E base \in Bases, pins \in BOOLEAN :
       op' = [Idle EXCEPT !.kind = "rebase", !.pc = "checkout", !.base = base, !.flag = pins]
  /\ work' = HeadTree
  /\ UNCHANGED <<repository, root, log, story>>

Checkout ==
  /\ op.pc = "checkout"
  /\ CheckedOut(op.base)
  /\ Proceed([op EXCEPT !.pc = "begin", !.base = NoBase])
  /\ UNCHANGED repository

\* The new base does not exist, or the run was a dry one.
RebaseNowhere ==
  /\ op.pc = "checkout" /\ op.kind = "rebase"
  /\ Finish("noop", story)
  /\ UNCHANGED <<repository, workspace>>

-----------------------------------------------------------------------------
(* run_apply, from its checks to its last commit *)

\* What is left of the story when run_apply has nothing to do.
Untouched == IF op.kind \in {"apply", "reverse"} THEN story ELSE "other"

\* run_apply is done; a rebase that pins still has to.
Replayed(how, then) ==
  IF op.kind = "rebase" /\ op.flag
  THEN /\ op' = [op EXCEPT !.pc = "ref"]
       /\ outcome' = how /\ story' = then /\ UNCHANGED spent
  ELSE Finish(how, then)

OverlayBase == IF op.kind = "rebase" THEN root ELSE pin.sha

RefuseCollision ==
  /\ op.pc = "begin" /\ Collides(OverlayBase)
  /\ Finish("collision", Untouched)
  /\ UNCHANGED <<repository, workspace>>

NothingToApply ==
  /\ op.pc = "begin" /\ ~Collides(OverlayBase) /\ series = {}
  /\ Replayed("noop", Untouched)
  /\ UNCHANGED <<repository, workspace>>

RefuseMissing ==
  /\ op.pc = "begin" /\ ~Collides(OverlayBase) /\ Missing
  /\ Finish("missing", Untouched)
  /\ UNCHANGED <<repository, workspace>>

Replayable ==
  op.pc = "begin" /\ ~Collides(OverlayBase) /\ series # {} /\ ~Missing

AlreadyApplied ==
  /\ Replayable /\ op.kind # "reverse" /\ SeemsApplied
  /\ Replayed("already", Untouched)
  /\ UNCHANGED <<repository, workspace>>

NotApplied ==
  /\ Replayable /\ op.kind = "reverse" /\ ~Reverses(files[Lowest(series)], work)
  /\ Finish("noop", story)
  /\ UNCHANGED <<repository, workspace>>

StartReplay ==
  /\ Replayable /\ op.kind # "reverse" /\ ~SeemsApplied
  /\ Proceed([op EXCEPT !.pc = "patch", !.todo = series \ {op.skip}])
  /\ UNCHANGED <<repository, workspace>>

StartReverse ==
  /\ Replayable /\ op.kind = "reverse" /\ Reverses(files[Lowest(series)], work)
  /\ Proceed([op EXCEPT !.pc = "revert", !.todo = series])
  /\ UNCHANGED <<repository, workspace>>

\* n is the next patch of a replay, or of what follows a refreshed patch.
Applying(n) == op.pc = "patch" /\ n \in op.todo /\ \A m \in op.todo : n <= m

\* It applies, or merges with what is there; it is committed if it changed anything.
ApplyNext(n) ==
  /\ Applying(n) /\ files[n] # NoPatch
  /\ Fits(files[n], work) \/ Merges(files[n], work)
  /\ work' = Patched(files[n], work)
  /\ Proceed([op EXCEPT
       !.pc = IF work' = HeadTree THEN "patch" ELSE "commit",
       !.todo = op.todo \ {n}, !.at = n,
       !.direct = op.direct /\ Fits(files[n], work)])
  /\ UNCHANGED <<repository, root, log>>

\* The merge leaves conflict markers: the workspace is kept as it is.
Conflict(n) ==
  /\ Applying(n)
  /\ ~Fits(files[n], work) /\ ~Merges(files[n], work)
  /\ work' = WithMarkers(files[n], work)
  /\ Finish(IF op.kind = "refresh" THEN "stuck" ELSE "conflict",
            IF op.kind = "rebase" /\ Apart THEN "conflict" ELSE "other")
  /\ UNCHANGED <<repository, root, log>>

\* It does not apply and git lacks the blobs to merge it: run_apply restores the
\* HEAD it began with.
Mismatch(n) ==
  /\ Applying(n) /\ op.kind # "refresh"
  /\ ~Fits(files[n], work)
  /\ log' = SubSeq(log, 1, op.pre)
  /\ work' = TreeOf(op.pre)
  /\ Finish("mismatch", "other")
  /\ UNCHANGED <<repository, root>>

\* The same (or a file that is not there) among the patches after a refreshed
\* one: nothing is restored.
RefreshStuck(n) ==
  /\ Applying(n) /\ op.kind = "refresh"
  /\ files[n] = NoPatch \/ ~Fits(files[n], work)
  /\ Finish("stuck", "other")
  /\ UNCHANGED <<repository, workspace>>

CommitPatch ==
  /\ op.pc = "commit"
  /\ log' = Append(log, [by |-> op.at, tree |-> work])
  /\ Proceed([op EXCEPT !.pc = "patch"])
  /\ UNCHANGED <<repository, root, work>>

\* copy_overlays: a file that is there with another content stops a replay and
\* is passed over after a refresh.
OverlayInWay == overlay # Absent /\ work[OverlaySpot] \notin {Absent, overlay}
\* Bug: it is passed over in every command.
PassesOverAlways == TRUE
PassesOver == op.kind = "refresh"
PatchesDone == op.pc = "patch" /\ op.todo = {}

CopyOverlays ==
  /\ PatchesDone
  /\ OverlayInWay => PassesOver
  /\ work' = IF overlay = Absent \/ OverlayInWay THEN work
             ELSE [work EXCEPT ![OverlaySpot] = overlay]
  /\ Proceed([op EXCEPT !.pc = "seal"])
  /\ UNCHANGED <<repository, root, log>>

OverlayModified ==
  /\ PatchesDone /\ OverlayInWay /\ ~PassesOver
  /\ Finish("overlay", "other")
  /\ UNCHANGED <<repository, workspace>>

Sealed == Append(log, [by |-> Overlays, tree |-> work])

SealReplay ==
  /\ op.pc = "seal" /\ op.kind # "refresh"
  /\ log' = IF Dirty THEN Sealed ELSE log
  /\ Replayed(IF op.skip \in series THEN "partly" ELSE "applied",
              IF op.pre = 0 /\ op.direct /\ op.skip \notin series /\ Apart
                 /\ (root = pin.sha \/ (op.kind = "rebase" /\ op.flag))
              THEN "exact" ELSE "other")
  /\ UNCHANGED <<repository, root, work>>

\* rebase: the pin is two writes of config.toml.
PinRef ==
  /\ op.pc = "ref"
  /\ pin' = [pin EXCEPT !.ref = root]
  /\ Proceed([op EXCEPT !.pc = "sha"])
  /\ UNCHANGED <<files, series, overlay, workspace>>

PinSha ==
  /\ op.pc = "sha"
  /\ pin' = [pin EXCEPT !.sha = root]
  /\ Proceed(Idle)
  /\ UNCHANGED <<files, series, overlay, workspace>>

\* n is the next patch of a reversal, which takes them from the last.
Reverting(n) == op.pc = "revert" /\ n \in op.todo /\ \A m \in op.todo : m <= n

RevertNext(n) ==
  /\ Reverting(n) /\ Reverses(files[n], work)
  /\ work' = Unpatched(files[n], work)
  /\ Proceed([op EXCEPT !.todo = op.todo \ {n}])
  /\ UNCHANGED <<repository, root, log>>

RevertFailed(n) ==
  /\ Reverting(n) /\ ~Reverses(files[n], work)
  /\ work' = HeadTree
  /\ Finish("mismatch", "other")
  /\ UNCHANGED <<repository, root, log>>

Reverted ==
  /\ op.pc = "revert" /\ op.todo = {}
  /\ CheckedOut(pin.sha)
  /\ Finish("reverted", "other")
  /\ UNCHANGED repository

-----------------------------------------------------------------------------
(* dump_new and dump_refresh *)

\* `jx dump [--no-series]': the patch file is written before the commit, the
\* registration comes last.
Dump ==
  /\ Turn /\ Exists /\ HeadIsOurs /\ Dirty
  /\ NextNumber \in Numbers
  /\ Diff(HeadTree, Staged) # NoPatch
  /\ files' = [files EXCEPT ![NextNumber] = Diff(HeadTree, Staged)]
  /\ \E register \in BOOLEAN :
       op' = [Idle EXCEPT !.kind = "dump", !.pc = "record", !.n = NextNumber,
                          !.flag = register, !.saw = work]
  /\ story' = Onward
  /\ UNCHANGED <<series, overlay, pin, workspace>>

Register ==
  /\ op.pc = "register"
  /\ series' = series \cup {op.n}
  /\ Finish("dumped", story)
  /\ UNCHANGED <<files, overlay, pin, workspace>>

\* `jx refresh n --force' finds the patch at the top of the history, perhaps
\* below the overlays, somewhere in it, or not at all.
\* Bug: the overlays are taken for the last commit of any patch.
AtTopOrSealed(c, n) == c = Len(log) \/ HeadBy = Overlays
AtTop(c, n) ==
  c = Len(log) \/ (n = Highest(series) /\ c = Len(log) - 1 /\ HeadBy = Overlays)
Refreshable(n) == Turn /\ Exists /\ n \in series /\ files[n] # NoPatch
After(n) == {m \in series : m > n}
Before(n) == {m \in series : m < n}

\* Its commit is undone and what is in the workspace becomes the patch.
RefreshTop(n, c) ==
  /\ Refreshable(n) /\ IsCommitOf(c, n) /\ HeadIsOurs /\ AtTop(c, n)
  /\ log' = SubSeq(log, 1, c - 1)
  /\ op' = [Idle EXCEPT !.kind = "refresh", !.pc = "write", !.n = n, !.saw = work,
                        !.todo = After(n), !.flag = (c # Len(log))]
  /\ story' = Onward
  /\ UNCHANGED <<repository, root, work>>

\* The pending diff is taken into memory and the workspace rewound to the commit.
RefreshWithin(n, c) ==
  /\ Refreshable(n) /\ IsCommitOf(c, n) /\ HeadIsOurs /\ ~AtTop(c, n)
  /\ n # Highest(series)
  /\ log' = SubSeq(log, 1, c)
  /\ work' = log[c].tree
  /\ op' = [Idle EXCEPT !.kind = "refresh", !.pc = "reapply", !.n = n, !.saw = work,
                        !.todo = After(n), !.flag = (HeadBy = Overlays),
                        !.pend = Diff(HeadTree, Staged)]
  /\ story' = Onward
  /\ UNCHANGED <<repository, root>>

\* No commit of it: the workspace must stand right after the patch before it,
\* as after a conflict.  For the first patch nothing is asked of it.
RefreshUnrecorded(n) ==
  /\ Refreshable(n) /\ CommitsOf(n) = {}
  /\ Before(n) # {} => HeadBy = Highest(Before(n))
  /\ op' = [Idle EXCEPT !.kind = "refresh", !.pc = "write", !.n = n, !.saw = work,
                        !.todo = After(n)]
  /\ story' = IF story = "conflict" /\ (Before(n) = {} => log = <<>>)
              THEN "recovered" ELSE "other"
  /\ UNCHANGED <<repository, workspace>>

Reapply ==
  /\ op.pc = "reapply"
  /\ Fits(op.pend, work) \/ Merges(op.pend, work)
  /\ work' = Patched(op.pend, work)
  /\ log' = SubSeq(log, 1, Len(log) - 1)
  /\ Proceed([op EXCEPT !.pc = "write", !.pend = NoPatch])
  /\ UNCHANGED <<repository, root>>

ReapplyConflict ==
  /\ op.pc = "reapply"
  /\ ~Fits(op.pend, work) /\ ~Merges(op.pend, work)
  /\ work' = WithMarkers(op.pend, work)
  /\ Finish("stuck", "other")
  /\ UNCHANGED <<repository, root, log>>

ReapplyFailed ==
  /\ op.pc = "reapply" /\ ~Fits(op.pend, work)
  /\ Finish("lost", "other")
  /\ UNCHANGED <<repository, workspace>>

WriteRefreshed ==
  /\ op.pc = "write" /\ Diff(HeadTree, Staged) # NoPatch
  /\ files' = [files EXCEPT ![op.n] = Diff(HeadTree, Staged)]
  /\ Proceed([op EXCEPT !.pc = "record"])
  /\ UNCHANGED <<series, overlay, pin, workspace>>

NothingToRefresh ==
  /\ op.pc = "write" /\ Diff(HeadTree, Staged) = NoPatch
  /\ Finish("empty", "other")
  /\ UNCHANGED <<repository, workspace>>

\* The commit of the dumped or refreshed patch holds what was staged.
\* Bug: nothing is staged again after the soft reset.
RecordedUnstaged == Append(log, [by |-> op.n, tree |-> HeadTree])
Recorded == Append(log, [by |-> op.n, tree |-> Staged])

RecordDumped ==
  /\ op.pc = "record" /\ op.kind = "dump"
  /\ log' = Recorded
  /\ IF op.flag THEN Proceed([op EXCEPT !.pc = "register"]) ELSE Finish("dumped", "other")
  /\ UNCHANGED <<repository, root, work>>

\* Behind a patch that is not the last, the others and the overlays follow.
RecordRefreshed ==
  /\ op.pc = "record" /\ op.kind = "refresh"
  /\ log' = Recorded
  /\ Proceed(IF op.todo = {} THEN [op EXCEPT !.pc = "seal"]
             ELSE [op EXCEPT !.pc = "patch", !.flag = op.flag \/ overlay # Absent])
  /\ UNCHANGED <<repository, root, work>>

SealRefresh ==
  /\ op.pc = "seal" /\ op.kind = "refresh"
  /\ log' = IF op.flag /\ Dirty THEN Sealed ELSE log
  /\ Finish("refreshed", IF story = "exact" /\ ~op.direct THEN "other" ELSE story)
  /\ UNCHANGED <<repository, root, work>>

-----------------------------------------------------------------------------
(* The user, the team and the machine *)

Edit ==
  /\ Turn /\ Exists
  /\ \E e \in UserEdits :
       /\ work' = [work EXCEPT ![e[1]] = e[2]]
       /\ story' = IF e[1] = OverlaySpot /\ overlay # Absent THEN "other" ELSE story
  /\ UNCHANGED <<repository, root, log, op>>

CommitByHand ==
  /\ Turn /\ Exists /\ Dirty
  /\ log' = Append(log, [by |-> User, tree |-> work])
  /\ story' = "other"
  /\ UNCHANGED <<repository, root, work, op>>

PullFile ==
  /\ Turn
  /\ \E c \in PulledFiles :
       /\ files' = [files EXCEPT ![c[1]] = c[2]]
       /\ series' = series \cup {c[1]}
  /\ story' = "other"
  /\ UNCHANGED <<overlay, pin, workspace, op>>

PullOverlay ==
  /\ Turn
  /\ overlay' \in PulledOverlays
  /\ story' = "other"
  /\ UNCHANGED <<files, series, pin, workspace, op>>

Crash ==
  /\ op.pc # "idle"
  /\ Finish("crashed", "other")
  /\ UNCHANGED <<repository, workspace>>

-----------------------------------------------------------------------------
Init ==
  /\ files \in InitFiles
  /\ series = {n \in Numbers : files[n] # NoPatch}
  /\ overlay = InitOverlay
  /\ pin = [ref |-> InitPin, sha |-> InitPin]
  /\ root = NoBase /\ log = <<>> /\ work = EmptyTree
  /\ op = Idle /\ outcome = "none" /\ story = "other" /\ spent = 0

StartCommand ==
  \/ Apply \/ Reverse \/ Setup \/ SetupForce \/ Rebase \/ RebaseForce \/ Dump
  \/ \E n \in Numbers :
       \/ RefreshUnrecorded(n)
       \/ \E c \in 1..Len(log) : RefreshTop(n, c) \/ RefreshWithin(n, c)
Replay ==
  \/ Checkout \/ RebaseNowhere \/ RefuseCollision \/ NothingToApply \/ RefuseMissing
  \/ AlreadyApplied \/ NotApplied \/ StartReplay \/ StartReverse
  \/ \E n \in Numbers :
       ApplyNext(n) \/ Conflict(n) \/ Mismatch(n) \/ RevertNext(n) \/ RevertFailed(n)
  \/ CommitPatch \/ CopyOverlays \/ OverlayModified \/ SealReplay \/ PinRef \/ PinSha \/ Reverted
Capture ==
  \/ Register \/ Reapply \/ ReapplyConflict \/ ReapplyFailed \/ WriteRefreshed
  \/ NothingToRefresh \/ RecordDumped \/ RecordRefreshed \/ SealRefresh
  \/ \E n \in Numbers : RefreshStuck(n)
Environment == Edit \/ CommitByHand \/ PullFile \/ PullOverlay \/ Crash

Next == StartCommand \/ Replay \/ Capture \/ Environment
Spec == Init /\ [][Next]_vars

-----------------------------------------------------------------------------
(* What lint accepts, and what the history should hold *)

\* run_lint: every file registered, no overlay over a file of the pinned base,
\* the patches apply one after the other, and the first not once more.  (That
\* they revert to the base follows from that here, as spots are independent.)
Lints ==
  LET built == Stack(BaseTree[pin.sha], files, series, MaxNumber)
  IN /\ series # {}
     /\ series = {n \in Numbers : files[n] # NoPatch}
     /\ ~Collides(pin.sha)
     /\ StackFits(BaseTree[pin.sha], files, series, MaxNumber)
     /\ ~Fits(files[Lowest(series)], built[MaxNumber])

\* run_package_stage: the pinned base, the patches, and the overlays over both.
PackageTree ==
  LET built == Stack(BaseTree[pin.sha], files, series, MaxNumber)[MaxNumber]
  IN IF overlay = Absent THEN built ELSE [built EXCEPT ![OverlaySpot] = overlay]

\* The commits of the patches: in the order of the series, one for each patch that
\* changes anything, with the tree the patches up to it give.
PatchHistory ==
  LET built == Stack(BaseTree[root], files, series, MaxNumber)
      patches == {i \in 1..Len(log) : log[i].by # Overlays}
  IN /\ \A i, j \in patches : i < j => log[i].by < log[j].by
     /\ {log[i].by : i \in patches} = {k \in series : built[k] # built[k - 1]}
     /\ \A i \in patches, s \in Spots \ Covered : log[i].tree[s] = built[log[i].by][s]

\* No later patch touches the spot.
Lasting(s, n) == \A m \in After(n) : s \notin DOMAIN files[m]
\* All of the series is in the workspace, and the overlay.
PatchesInPlace ==
  \A n \in series : \A s \in DOMAIN files[n] \ Covered :
    Lasting(s, n) => work[s] = files[n][s].new
OverlayInPlace == overlay # Absent => work[OverlaySpot] = overlay

-----------------------------------------------------------------------------
(* Properties *)

\* Safety: when apply, setup or rebase reports the series applied, every patch
\* and the overlay are in the workspace, whichever of them applied directly,
\* merged, or were there before.
AppliedInFull == outcome = "applied" => PatchesInPlace /\ OverlayInPlace

\* Safety: as long as nobody but `jx' has written to the workspace since a setup
\* (or a rebase) in which every patch applied directly, and none to a file that
\* overlays/ holds, its history is what the series says, commit by commit, through
\* any number of edits, dumps and refreshes of any patch, and the files keep
\* applying on the pinned base; and after a conflict of a rebase is resolved by a
\* refresh of its patch, the history is what the series says again.
HistoryIsSeries ==
  op.pc = "idle" =>
    /\ story \in {"exact", "recovered"} => PatchHistory
    /\ story = "exact" => /\ root = pin.sha
                          /\ StackFits(BaseTree[root], files, series, MaxNumber)
                          /\ overlay # Absent => HeadTree[OverlaySpot] = overlay

\* Action property: a series that lint accepts sets up, and gives the tree that is
\* packaged from it.  The only way to fail is a patch that creates the file
\* overlays/ holds too, which lint does not look for.
LintMeansSetup ==
  [][op.kind = "setup" /\ op'.pc = "idle" /\ outcome' # "crashed" /\ root = pin.sha /\ Lints
       => \/ outcome' = "applied" /\ work' = PackageTree
          \/ \E n \in series : OverlaySpot \in DOMAIN files[n]]_vars

\* Action property: no command but the forced ones takes an uncommitted edit out
\* of the workspace when it begins, unless it holds it as its pending diff;
\* edits of a file that overlays/ holds are not captured, and may go.
EditsHeld ==
  [][op.pc = "idle" /\ op' # op /\ op'.pc # "checkout" =>
       \A s \in Spots : Exists /\ work[s] # HeadTree[s] =>
         \/ work'[s] = work[s]
         \/ s \in DOMAIN op'.pend
         \/ s = OverlaySpot /\ overlay # Absent]_vars

\* Action property: what a dump or a refresh found in the workspace is committed
\* when it reports success, for every spot no later patch touches.
EditsCaptured ==
  [][story = "exact" /\ op.pc # "idle" /\ outcome' \in {"dumped", "refreshed"} =>
       \A s \in Spots \ {OverlaySpot} :
         Lasting(s, op.n) => work'[s] = op.saw[s] /\ HeadTree'[s] = op.saw[s]]_vars

\* Action property: patches/README.md:134 says the pin is only written after the
\* whole series has applied on the new base.  run_rebase writes it also when
\* run_apply took the series for applied and did nothing.
PinnedInFull == [][pin'.sha # pin.sha => PatchesInPlace]_vars
=============================================================================
