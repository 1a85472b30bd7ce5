# Formal specifications of Jexactyl-BR

TLA+ models of this repository, the TLC configurations that check them on small
instances, and theorems about them that TLAPS proves for every value of the
constants. Every definition is translated from the code; `PROJECT.json` maps each one
to its lines (`"map"`), lists the hazards of the code with the properties that cover
them, and describes every run, mutant, theorem and finding.

    tlc -workers 2 -config queue_units.cfg MCI18nQueue     # one run
    tlapm I18nQueueProofs.tla                              # all proofs of a module

Contents: [1 The system](#1-the-system) · [2 Modules and plan](#2-modules-and-plan) ·
[3 The translation queue](#3-the-translation-queue) · [4 The ledger](#4-the-ledger) ·
[5 The checkout](#5-the-mercado-pago-checkout) · [6 The patch series](#6-the-patch-series) ·
[7 Catalogue and audit](#7-catalogue-and-audit) · [8 Rules on texts](#8-rules-on-texts) ·
[9 Findings](#9-findings) · [10 What is proved](#10-what-is-proved) ·
[11 What is left out](#11-what-is-left-out)

## 1 The system

Jexactyl-BR is the Jexactyl panel plus a series of patches and overlays, and the tools
that keep them. `jx` (Rust, `jx-tools/`) checks out the panel at a pinned commit,
applies `patches/series` and copies `overlays/` over it, and turns edits back into
patches. Its translation queue (`jx i18n-queue`) coordinates agents that translate the
panel, `jx i18n-catalog` gives every source file to a unit of work, and `jx i18n-audit`
checks that what changed is a translation. `overlays/app` is PHP that runs inside the
panel: a payment gateway.

| component | state it keeps | operations | talks to |
|---|---|---|---|
| Translation queue, `jx_i18n/store.rs` | SQLite: meta, policy, categories, units, claims, gates, patches, overlays, shared overrides | init, claim, complete, release, heartbeat, recover, advance, record-consistency, gate, block, unblock, reopen, next, status, validate, the ledger (record-patch, set-patch-units, record-overlay, record-shared-override) | one `jx` process per call, any number at once; the locks of SQLite order them |
| Catalogue and lock, `catalog.rs` | `i18n/catalog.json`, `catalog.lock.json` | `--write`, `--check` | the workspace's files, the pin; read by the queue's init and the audit |
| Audit, `orchestrate.rs`, `audit.rs` | none; reads lock, allowlist, glossary, git | select the files of a unit or category, compare each with the base | git, the lock, overlays |
| Scanner, PHP parser, dictionaries, `scan.rs`, `php.rs`, `text.rs`, `lang.rs` | none | cut a text into labels, code and comments; read language arrays | the audit |
| Mercado Pago checkout, `MercadoPagoController.php`, `MercadoPagoPaymentService.php`, patch 0024 | rows of orders, the discount code's uses, exceptions; the preference in the browser | create, process, webhook | the gateway (HTTP, notifications), the browser, the panel's models |
| Patch series, `jx_ops` apply, dump, lint | git history of the workspace, index, worktree; `patches/`, `series`, `overlays/` | apply, reverse, new, refresh, lint | git, the patch library |
| Workspace, `jx_workspace` | the checkout, the pin in `config.toml`, packages | setup, rebase, package | git, the series |
| Patch format, `jx_patch` | none | series parsing and insertion, DEP-3 headers, paths of a diff | jx_ops |
| Git backend, `jx_git` | none of its own | wraps `git` | git |
| Core, `jx_core` | config file | reading and writing files, clock | all |
| Command line, `jx_cli` | none | one operation per command, printing; init, catalog and review checks have logic of their own | all |
| Container, `docker/` | database, `.env`, worker processes | apply-series, wait, migrate, seed, create the administrator, start | MariaDB, Redis |
| Continuous integration, agents' instructions, language files | none of their own | | |

Where they meet: several `jx` processes share one queue database; two PHP requests
share one order; apply, dump, rebase and package share one workspace and one series
without any lock of their own; the pin in `config.toml` is written by rebase and read by
setup, refresh, package and the catalogue; the lock is written by the catalogue and read
by queue and audit, long after; the series is read by `jx` and again by the image build.

What is hard to test in each, and what correct means:

- **Queue.** Agents die or outlive their leases and come back late; an operation reads
  the clock before it waits for the database; operators block, force, unblock and reopen
  in the middle. Correct: the claims table and the units always agree, one category at a
  time is worked on, nobody reviews their own work, a stage is passed only when earned,
  verdicts are about the work as it stands, a unit gets `max_rounds` rounds, no more than
  `max_agents` claims, `validate` accepts what the operations leave, `next` proposes what
  can be claimed, and left to itself the queue comes to rest.
- **Ledger.** Owners are read before the write lock is held; `init --force` replaces the
  file under running processes. Correct: an entry keeps its first owner and lists that
  category's units only.
- **Checkout.** The customer's return and the gateway's notifications arrive together,
  repeatedly or never, and a request may die anywhere. Correct: an order is fulfilled at
  most once, only if paid in full; what failed is reported; a paid order is decided.
- **Patch series and workspace.** Apply stops half-way; dump writes a patch, commits and
  registers it one after the other; rebase moves the checkout before the pin. Correct:
  what is reported applied is in the workspace, series and history describe one another,
  what lints sets up, and no edit is lost.
- **Catalogue and audit.** Manifest, workspace, lock and base move independently.
  Correct: a file belongs to the unit the manifest gives it, and every change is looked
  at by some audit.
- **Rules on texts.** Pure functions with boundary cases: alignment, pairing, redundant
  fields, hand-written parsers. Correct: silent only about translations; read as PHP,
  the shell or lint read.
- **Container.** Restarts between any two steps.

The full list of hazards, each at its line, is in `PROJECT.json` under `"hazards"`.

## 2 Modules and plan

| module | models | checked by | proved in |
|---|---|---|---|
| `I18nQueue`, abstract `CategoryPipeline` | the state machine of the queue | `MCI18nQueue`: `queue_*` | `I18nQueueProofs`, `I18nQueueStageProofs` |
| `I18nQueueViews` (extends `I18nQueue`) | next, validate, status, render | `queue_units`, `queue_focus` | `I18nQueueViewProofs` |
| `I18nLedger`, abstract `LedgerBook` | ownership of patches and overlays, transactions, the file of the database | `MCI18nLedger`: `ledger` | `I18nLedgerProofs` |
| `MercadoPagoCheckout`, abstract `PaidOrder` | requests, gateway, browser | `MCMercadoPagoCheckout`: `checkout_*` | `MercadoPagoProofs` |
| `PatchTree`, `PatchSeries` (extends it) | git on trees and patches; apply, dump, setup, rebase, lint, package | `MCPatchSeries`: `series*` | `PatchSeriesProofs` |
| `I18nCatalog`, `I18nAudit` (extends it) | manifest, lock and owners; what an audit looks at | `MCI18nAudit`: `audit` | `I18nAuditProofs` |
| `Wording`, `SourceScan`, `AuditPair`, `LangFiles`, `ReviewReport`, `PatchFiles`; `TextRules` and, for `LangFiles`, `LangRules` extend them | pure rules on texts | `MCTextRules`: `rules` | `TextRulesProofs` |

Parameters are constants with named assumptions, no module that is proved about uses a
RECURSIVE operator (only `LangFiles` does, and `LangRules`, which extends it, is only
checked), and an invariant is a conjunction of named parts, those about one row written as
an operator of that row, so that the proofs go row by row.

A definition with the comment `Bug:` is a plausible mistake in the one it precedes; no
specification uses it. `PROJECT.json` names, for each property of each run, the one that
must break it.

Left to prove: the language files (`LangFilesKept`), and that the audit sees every change
to a string that is no label (`CodeStringsKept`); section 10 says why they are where they are.

## 3 The translation queue

### Model

`I18nQueue` has one variable per table (`cat`, `unit`, `claim`, `gates`) and `focus` for
`meta.active_category`. Every store operation is one transaction that rolls back on
error (`claim`'s is immediate, the others are deferred: when another process has written
since the first read, SQLite refuses the write), so an operation is one action and a
refused one is no step. Inside, the order of the code is kept: expired claims are recovered first
(`RecoveredUnits`, `RecoveredClaims`) where the code calls `recover_expired_tx`, and not
where it does not (`block`, `release`, `heartbeat`).

| code | action |
|---|---|
| `init_from_catalog` | `Init` (a forced init replaces the database: a fresh behaviour) |
| `claim` | `Claim` |
| `complete_analysis`, `_translation`, `_fix` | `CompleteAnalysis`, `CompleteTranslation`, `CompleteFix` |
| `complete_review` | `ReviewPass`, `ReviewFail`, `ReviewStrikeOut`, by score and round |
| `release`, `heartbeat`, `recover` | `Release`, `Heartbeat`, `Recover` |
| `advance` | `Advance`; `Finish` when it leaves verification |
| `record_consistency`, `record_gate` | `RecordConsistency`, `RecordGate` |
| `block` | `BlockUnit`, `BlockCategory` |
| `unblock` | `UnblockUnitReset`, `UnblockUnitReview`, `UnblockCategory` |
| `reopen` | `Reopen` |

**Time.** The clock is read before the transaction begins and the transaction may wait
for the database, so every action takes `d`, how many ticks old its sample is
(`0..MaxDelay`). A claim keeps the ticks its lease has left; `Tick` counts down, to
`-MaxDelay`, below which every sample agrees that the lease is over.

**Data.** A score is none, low or ten, the only distinctions the code makes. Reports,
labels, timestamps, blocker texts, events and the category's average score are left out.

`OrderlyUnblock` and `Forces` restrict the operators: `unblock` of a unit to a stage
ahead of its category, and `--force`, are legal calls, and break some promises (section 9);
the runs of those promises leave them out and say so.

`CategoryPipeline` is what the queue promises of its categories: one in focus, forward
one stage at a time, back only by a decision that also takes the focus.

### Views

`I18nQueueViews` adds what the commands compute from the tables: `Offers` and `Proposed`
(`next`), `ValidateAccepts` (the tables of `Store::validate`, which restate the state
machine), `Summary` and `Status`. `next`, `status` and `render` recover expired leases
first, `validate` does not, and the model keeps that. Their several SELECTs are not in a
transaction; here they see one state (a skewed answer changes no table).

### Runs

| run | instance | question |
|---|---|---|
| `queue_units` | 1 category, 2 units, 2 owners, 2 claims at a time, 3 rounds, `--force` only | stages earned, three strikes, validate accepts, work stays in sight |
| `queue_focus` | 2 categories of a unit, no gates, `--force` only | one category at a time; status tells the truth; implements `CategoryPipeline` |
| `queue_clock` | 1 category, 2 units, 3 owners, 2 rounds, leases of 1 or 2 ticks, samples up to 1 tick old, limit 1, no force | reviewers are independent, claims and units agree, the limit holds, also for what `next` proposes, and nothing is lost across expiry; rounds and verdicts |
| `queue_settles` | 2 categories, 3 units, 2 owners, 3 rounds, unattended | liveness |
| `queue_late_heartbeat` | 2 categories of a unit, samples up to 1 tick old | section 9 |

*Why these bounds are enough.* Independence needs three owners: a translator, a reviewer
and somebody else who fixes; with two, whoever fixes is always the translator. Liveness is
hardest with two, where a failed unit goes round between the same two. Two units
are needed for a category whose units are at different stages, and for a limit of one to
bind. Three rounds are the default policy; two, where the clock makes the
instance large, still let a unit fail, be fixed and strike out, and an operator's decision
gives it two more, without end. Two categories
are needed for pausing and for passing the focus on; a third would only add another to
choose from. A sample one tick old against leases of one and two ticks gives every
order of sample, expiry and transaction. `--force` only skips refusals, so a
set `{TRUE}` allows every step that `{FALSE}` does, and more; where the
property fails under force the run has `{FALSE}`. Owners are interchangeable, hence the
symmetry, which is not used in the liveness run.

*Fairness* (`UnattendedSpec`). No operator interferes. Agents keep claiming what can be
claimed (weak, over all claims together: the orchestrator spawns one as long as `next`
names work); some agent delivers infinitely often if it again and again could (strong:
leases expire and claims are released, but not every time, for ever); the orchestrator
advances what is complete and has the consistency reviewed (weak); a gate is repeated
until it passes (strong, per gate) and a category is then finished. This is the loop that
`.opencode/skills/i18n-pipeline` and docs/i18n-pipeline.md prescribe. Nothing is assumed
of *which* agent claims what, so a bad assignment of owners may not block the category.
Settling is not "all done": a category that used up its rounds waits for the user.

## 4 The ledger

### Model

`I18nLedger` is the part of the store that `I18nQueue` leaves out, because it is where
transactions are *not* immediate: `record_patch`, `record_overlay`,
`record_shared_override` and `set_patch_units` begin deferred (only `claim` asks for the
write lock first, store.rs:1428), read the owner under a shared lock, and write later.
So a command is several actions, and SQLite's locks (external) are guards: `Reservable`
(one writer of a file at a time), `Committable` (a commit waits for readers), `Fail`
(busy, an error or a crash: nothing is left).

| code | actions |
|---|---|
| `Store::open` and its schema | `OpenFile`, inside `Record`, `SetPatchUnits`, `InitOpen` |
| the owner and the category, `SELECT`s | `ReadOwner` |
| first `INSERT` or `DELETE` | `Reserve` |
| the rest, and the commit | `CommitRecord`, `CommitUnits`, `CommitInit` |
| `init --force` (main.rs:1319-1340): `remove_file`, open, init | `Unlink`, `InitOpen`, `Reserve`, `CommitInit` |

A process that opened the file before it was unlinked goes on with a file without a
name (`txn[p].file # current`): it commits, reports success, and its record is gone.
`LedgerBook` has three atomic operations; the refinement reads the file at the path.
`LinksValid` is what `Store::validate` compares of the three pairs of tables. An
override is upserted and keeps its category; the other two are inserted once.

### Run

`ledger`: two processes, two database files, two categories of a unit, a patch and an
override, every interleaving. Two processes are a reader and a writer of any entry;
transactions of three differ only by who waits. Two files are the one removed and the
one made. The run may stop when the bound on files is reached, so deadlock is
not checked. Safety only: nothing promises that a command gets its lock.

The key of an overlay is the spelling of its path: the check that it lies under
`overlays/` normalises, the key does not, so `overlays/./x` and `overlays/x` are two
rows. The model's entries are spellings.

## 5 The Mercado Pago checkout

### Model

In `MercadoPagoCheckout` each PHP process is a record in `request`: what it serves, for
which order and payment, and where in the handler it is. A step of a handler is a piece
of code between two calls that leave the process, so that steps of other requests fall
between the read of an order's status and every use of it. Only `claimPendingOrder` is a
transaction (`lockForUpdate`), so only `Claim` reads and writes in one step. `Crash` ends
a request at any point.

| code | actions |
|---|---|
| `create` | `PlaceOrder`, `PreferenceMade`/`PreferenceRefused`, `LinkPreference`, `Offer` |
| `process` | `Return`, `Search`/`SearchFails`, then the claim |
| `webhook` | `Notify`, `Fetch`/`FetchIgnored`/`FetchMissed`, `Restore`, then the claim |
| `claimPendingOrder` | `Claim`/`ClaimRefused` |
| `fulfill`, `failOrder` | `Deliver`, `Finish`, `Answer`; `Throws`, `Fail`, `Report` |
| browser (patch 0024) | `stored`: set by `Offer`, read by `Return`, forgotten by `Answer` |
| the gateway (external) | `Pay`, `Clear`, `notices`, `Acknowledged` |

Eloquent writes an attribute only when it differs from the loaded one: `Saved` (external)
models that, and `ServedOnceIfPaid` and the refinement depend on it in `Restore`.
Amounts and currencies are one Boolean per payment, `enough`. Prices, request validation
and the arithmetic of the signature are left out; a notification that arrives is genuine.

`PaidOrder` is the promise: taken once after payment, served once, closed, and no
decision undone.

### Runs

| run | instance | question |
|---|---|---|
| `checkout_race` | 1 order, 3 requests, 2 payments, crashes and missed questions | at most one fulfilment, only if paid; implements `PaidOrder` |
| `checkout_orders` | 2 orders, 2 requests, a code for both that may be used once, no crash, the gateway answers | the code is used by the claims; failures are reported; a paid order is decided though the customer stays away |

*Bounds.* Orders do not interact except through the discount code and the browser, so
races need one order: three requests are two racing claims and a third that holds an
older copy of the row. Two payments make an underpaid one after a full one, and two
notifications at once. Two orders at a code with one use left meet at its limit.
Requests are interchangeable; the run with liveness does not use the symmetry. The system may
stop (everything served, nobody pays), so deadlock is not checked.

*Fairness* (`FairSpec`). A request that runs goes on (weak, each). The gateway delivers a
notification again until it is acknowledged (strong, each: all processes may be busy for
a while). Nobody has to pay or to return.

## 6 The patch series

### Model

`PatchTree` is git as `jx_git` drives it. A tree gives every *spot* (a place in an
upstream file, or a whole file upstream lacks) a content; a patch gives some spots the
content it expects and the one it leaves. Whether it applies, reverses or merges with
`--3way`, and where conflict markers go, follows from that.

`PatchSeries` has the repository (`files`, `series`, `overlay`, `pin`), the workspace
(`root`, `log`, `work`) and the command in progress (`op`), with one action per stretch
of the code that leaves something on disk. `Crash` ends any command between two of them,
and stands for a failing git call too. Commands of one workspace run one after another;
between them the user edits, commits by hand, or pulls patches and overlays.

| code | actions |
|---|---|
| `run_apply` | `Apply`; `RefuseCollision`, `NothingToApply`, `RefuseMissing`, `AlreadyApplied`, `NotApplied`, `StartReplay`; per patch `ApplyNext`, `Conflict`, `Mismatch`, `CommitPatch`; `PatchesDone`, `CopyOverlays`, `SealReplay` |
| `apply --reverse` | `Reverse`, `StartReverse`, `RevertNext`, `RevertFailed`, `Reverted` |
| `run_setup`, `--force` | `Setup`, `SetupForce`, then as apply |
| `run_rebase`, `--force` | `Rebase`, `RebaseForce`, `Checkout`, `RebaseNowhere`, then as apply, then `PinRef`, `PinSha` |
| `dump_new` | `Dump`, `RecordDumped`, `Register` |
| `dump_refresh` | `RefreshTop`, `RefreshWithin`, `RefreshUnrecorded`, `Reapply`, `ReapplyConflict`, `ReapplyFailed`, `WriteRefreshed`, `NothingToRefresh`, `RecordRefreshed`, then the later patches as apply, `RefreshStuck`, `SealRefresh` |
| `run_lint`, `run_package_stage` | `Lints`, `PackageTree` (they only read) |

Entries are their numbers, which is the order `insert_into_text` keeps (section 8 has the
text). There is one overlay file. `story` is a history variable: *exact* from a setup or
rebase in which every patch applied directly and none to the overlay's file (`Apart`);
*conflict* while a conflict of rebase is left to the user; *recovered* after the refresh
that resolves it, if the patch before has its commit, or there is none and the history is
empty; *other* before, after a failure, once anybody but `jx` has written to the history,
and when a command does not go on from a conflict (`Onward`).

### Runs

`series`: two patches and a free number, or an empty repository; the overlay; four
upstream bases (the pinned one; one that has taken over the first patch; one that changed
what the second changes; one that ships the overlay's file); four edits of the three
spots, one of them undoing the second patch; a pull that changes or removes a patch;
five commands and edits. Five is setup, edit, dump or refresh, then two more: enough for
a refresh of a patch in the middle after a conflict, a crash in a rebase and the setup
that follows, and any command on what another left. A third patch would only lengthen the
replays, which go patch by patch; the defect that needs three has a run of its own,
`series_pin`. The user may stop at the bound, so deadlock is not checked.

- `AppliedInFull` and `HistoryIsSeries`: what commands report is true, and the history
  stays the series, patch by patch, through dumps, refreshes and stopped commands.
- `LintMeansSetup`: the gate in continuous integration vouches for `setup` and for the
  packaged tree, with the one exception it has: a patch that creates the overlay's file,
  which apply refuses and lint does not look for.
- `EditsHeld`, `EditsCaptured`: no command but the forced ones begins by dropping an
  edit, and what dump or refresh captured is in the commit when it says so.

What the model shows of the code that no document denies: `rebase --force --dry-run`, or
with an unknown ref, discards uncommitted work although it says nothing was changed; an
empty or already applied series never copies overlays; recovering a conflict in the last
patch by hand, as patches/README.md:141-147 describes, leaves the pin on the old base;
a refresh of a patch in the middle drops the user's own commits above it and edits of
overlay files; its pending diff is only in memory between dump.rs:507 and 511; an edit
that undoes a later patch is undone by that patch; a crash in dump leaves a file that is
in no series; setup and rebase discard commits they warn about.

## 7 Catalogue and audit

### Model

`I18nCatalog` has `manifest` (catalog.json), `pin`, `worktree` and `lock`. Globs are
model values with the paths they match. `Valid` is `validate_manifest`, `FirstClaim` and
`Assigned` are `assign_units` (specific units before catch-alls, in order, with exclusions), `BuiltLock`
the lock, `SameHash` what `--check` compares. A manifest is what parsing alone vouches
for (`ManifestAssumption`: any orders, any ids but the sentinel "nobody"); a directory's
name ends in a slash, so it is no file's. `CatalogWrite` writes; the file is written
in place, so `CatalogWriteTorn` may leave one that is not JSON, `NoLock`. `OwnerOf` is
the audit's `owner_of`: the lock's files first, then its globs.

`I18nAudit` adds git (`base`, `head`, index, worktree) and the overlays, and `Findings`:
of all that differs from the base or is untracked, which files a set of units compares,
which it reports as out of scope, which it leaves to others, and the pairs of language
files. One file's comparison (section 8) is abstracted to its verdict: a text is
upstream's, translated or flawed. Edits, commits, other manifests and a moved pin happen
in any order; an audit only reads, and is a state function.

### Run

`audit`: two categories, one path of each kind (source, type file, English and Brazilian
language file, test, JSON) and one in a directory upstream lacks; four manifests: with a
catch-all and an exclusion, with everything in one unit, the same with a unit renamed,
and an invalid one whose units overlap; three edits and a commit. Three edits are a
change of a file, of the manifest and of the overlay, around a `--write` and a commit;
the properties relate one file to one lock, so a second file of a kind adds nothing.
The two pins are interchangeable. Deadlock is not checked because the bounds stop it.

- `CheckMeansOwned`: if `--check` passes, every source file has an owner and the audit
  finds the manifest's.
- `OwnersForeseen`: files created after the lock was written already have the owner the
  next lock will give them.
- `NothingSlips`: if the audits of all categories pass, whatever differs is a translation.
  The property names what no audit looks at: `Hidden` files, and a Brazilian file that did
  not change since the base while the lock does not list its English file (`Looked`). A
  finding that the allowlist subtracts excuses the file it is about.

Outside it, and true of the code: a new file in a directory git does not track appears in
`git status` as that directory only and is not analysed (orchestrate.rs:4-5 says changed
and untracked files are); a Brazilian file of the workspace behind an overlay, or without
its English file, is not compared; a new English file's overlay is not compared until the
lock lists it; another unit's changed counterpart is out of scope in everybody else's
audit; the profiles are written after the lock, not covered by `--check` and never
deleted; whether the base is an ancestor of HEAD is not asked.

## 8 Rules on texts

`TextRules` puts one question after another to pure functions and compares the answers
with definitions that do not use their algorithms. Texts are some twenty values; what the
dictionaries, the glossary and character patterns say of each are functions (`Wording`).
Code is a sequence of units, words and the marks that the tools look at one by one, blanks
among them; a string that is no label goes into the skeleton as the units it is spelled with
(`Spelling`), so that what is done to the text of a line is done inside its strings too.

| module | code | property and its reference |
|---|---|---|
| `AuditPair` | `analyze_pair`: comments, the two normalisations of the skeleton (`Collapsed` decides whether code is compared at all, `SkeletonTokens` what is compared), JSX parentheses, aligned hunks, labels by slot, placeholders, URLs, the map of categories, the limit | `HunksExplain`: hunks are the complement of a longest common subsequence, none if nothing differs. `OnlyTranslations`: silence means comments and keys are the same, labels keep what they carry, and code differs at most by what the normalisations drop (`SameCode`); and such changes that leave the code as it is are met by silence |
| `SourceScan` | `classify_string`, `render_skeleton` with `normalize_code` and `code_string_token`, the category map | the same, through `Labels` and `Skeleton`. `CodeStringsKept`: nor is the audit silent about what a string that is no label says, but for blanks, commas and parentheses |
| `LangFiles`, `LangRules` | the parser of language arrays, the comparison of overlay and English file, and of an English file with its past | `LangFilesKept`: against what PHP reads from the tree the tokens are written from |
| `ReviewReport` | the store's check of a report and the command line's | `VerdictEarned`: a pass leaves nothing to fix; a report is good for one target in one round |
| `PatchFiles` | `parse_patch`, lint's own copy, `new`, `refresh`; series parsing, insertion, next number, lint; the shell's parser | `PatchFilesHold`: both readings agree, and written files lint. `SeriesKept`: insertion moves nothing, a series that lints still lints, and the shell reads it the same unless a directory's name has a blank |

*Bounds* (`MCTextRules`, run `rules`). Source files: all sequences of up to three words
over two, twelve with parentheses, some twenty with commas, blanks, brackets, dots and `?`
on one line or two; strings of code of several words, with commas, blanks and
parentheses, alone and before more code; every place a string may stand, with every text;
slots of two labels; maps of two entries. The table of the alignment is limited to four
cells, so that both it and the fallback by lines happen. Each exception of `SameCode` and
`CodeStringsKept` is met: without any one of them TLC finds a pair that breaks the property. Language files: all of two items
over five (English) and nine (overlay) in both syntaxes, with nesting, concatenation,
calls and duplicate keys. Reports: all combinations of scores, criteria, findings and
lists around each limit. Patch files: a complete one with any line taken out and any of
twelve put in anywhere. Series: all texts of up to three lines over eight, all sets of
files, with and without directories of plain names (`PlainDirs`). The rules go token by
token, entry by entry and line by line, and compare at most two of them. `PassScore` is a
definition: 10 is the only value `validate` allows.

True of the code and outside these properties: `=>` is among the words after which a
parenthesis may wrap JSX, but `>` is a token of its own by then, so that those after an arrow
never go; duplicate keys of an English file are
read as the first by one comparison and the last by the other; a value that ends in an
expression with brackets after a literal may end the array early; any `<` counts as JSX
when parentheses are dropped; labels that are component properties are not asked about
English; new maps of categories may be added freely; `jx new` does not guard a
description that contains header fields, `---` or `diff --git`, which lint then rejects;
`parse_patch` itself is used by tests only; `apply-series.sh:26` says it reads the series
exactly as `jx lint` does, but its `for entry in $ENTRIES` splits an entry at a blank in
the name of a directory, which lint accepts, as it looks at the base name only.

## 9 Findings

Each of the first two is a run TLC must find violated, with the line of the repository it
contradicts in `PROJECT.json`.

- **`queue_late_heartbeat`.** A heartbeat that sampled the clock before a block which
  considered its lease expired renews the lease afterwards: a unit in progress under a
  live lease in a blocked category, which `validate` rejects.
- **`series_pin`.** The series counts as applied when its first and last patch reverse
  cleanly. A rebase onto an upstream that has taken over these two, but not one between,
  does nothing, reports success and pins a base without that patch. patches/README.md:134
  says the pin is written after the whole series has applied.

The following show when an assumption of a run, or a condition of a property, is dropped;
no run is kept for them.

- `unblock` of a unit compares the target stage with the stage that unit was blocked in
  and then puts the *category* there (store.rs:3019). With one unit analysed and blocked
  and another not analysed, the category skips to translation, against
  docs/i18n-pipeline.md:517. (`OrderlyUnblock = FALSE` with `TranslatedBeforeReview`.)
- `unblock --force` of a done unit to review leaves the category's consistency score,
  gate results and gate status (store.rs:3087): the reworked unit inherits the verdicts on
  the old work. (`Forces = {TRUE}` with `VerdictFresh`.)
- When the webhook cannot fetch the payment it still answers 200
  (MercadoPagoController.php:222). The notification is not repeated, and a paid order
  stays pending until the customer returns with the same browser, against
  docs/mercadopago-gateway.md:48-49. (`MayMiss = TRUE` with `PaidIsSettled`.)
- `refresh` rewinds to the commit of the patch it takes; if there is none it insists that
  HEAD is at the patch before, except for the first patch (dump.rs:526). When upstream has
  taken over the first patch, refreshing it records its commit on top of the patches that
  follow, with a diff taken against their tree, against patches/README.md:89, by which
  refresh takes any patch and reapplies the following ones. (`HistoryIsSeries`, when the
  story is *recovered* also if the first patch was refreshed with others before it.)

- Code may change unreported where one of two normalisations is coarser than the other or
  neither knows where a string begins (audit.rs:628-722): `[, setX]` becoming `[ setX]`, or
  the string of an import `"a, b"` becoming `"a b"`, differ in `collapse_skeleton`, so that
  they are compared, and are equal in `skeleton_tokens`, so that nothing is found; `"a  b"`
  and `"a b"` are equal in the skeleton already (`normalize_code`); and so it is, in strings
  as outside, with spacing round brackets and dots and with parentheses that have JSX in
  them, and outside strings with `{" "}`. No line of the repository says otherwise for code; the
  exceptions are written out in `SameCode` and `CodeStrings`. (`OnlyTranslations` with
  `CodeOf(old) = CodeOf(new)`, `CodeStringsKept` with the texts themselves.)

Not a finding but worth knowing: an order whose request dies after the claim stays
`processing`, refused by every later return and notification, and an order whose server
was deployed but could not be linked is reported as a failed deployment. The properties
show that neither is ever served twice. docs/mercadopago-gateway.md:42-47 lists
the claim before the search for the payment; the code searches first, and the model
follows the code.

## 10 What is proved

For every value of the constants that meets the named assumptions: any finite set of
categories and units, any set of owners, any limits, delays and leases; any requests and any
finite set of orders (the uses of a code are counted); any spots, contents, bases and
patches; any paths, globs and manifests; any revisions, with sequences of comments and map
entries, lines numbered from 1 and units that are strings, any spelling of texts, and any
natural `max_findings`; any reports, patch files
and series that are sequences of lines, and any diffs with a `diff` line among them
(`TextRulesAssumption`, `PatchFilesAssumption`). Where a theorem needs more it says so as a
hypothesis, and each of these is a condition under which the code keeps the promise and
without which it does not:

| hypothesis | theorems | without it |
|---|---|---|
| `OrderlyUnblock` | `Standing`, `TranslationFirst`, `StageTable`, `Validates`, `WorkVisible`, `Pipelined` | `unblock` to a stage ahead moves the category past its units (section 9) |
| `TRUE \notin Forces` | `Freshness`, `RoundsStay` | `--force` keeps verdicts, or gives rounds back (section 9) |
| `MaxDelay = 0` | `LeasesOnFocus`, `StageTable`, `Validates`, `StatusTrue` | a late heartbeat renews a lease after a block took it for expired: run `queue_late_heartbeat` |
| `MaxAgents > 0` | `WorkVisible` | nobody may claim; `validate_policy` asks for 1 to 3 (store.rs:3494) |
| `~MayCrash` | `FailuresReported` | a request may die between the failure and its report |

**Queue** (`I18nQueueProofs`).

- `Rows`, `Typing`, `Matching`, `Independence`, `Strikes`: `TypeOK`, `ClaimsMatchUnits`,
  `ReviewerIndependence`, `ThreeStrikes`. All of these say something of one unit and its
  claim, so the inductive invariant is one predicate of a row pair, for every unit, with
  what each needs of the others: a claimed unit is in the stage of its role (else a
  delivery could find a done unit), a unit to be fixed has had a reviewer (else the fixer
  could pass for independent), a unit in review has rounds left (else a failed review
  passes `max_rounds`). A lemma per row operation (revert, occupy, review, block, reset)
  shows that it keeps the predicate; each action is then a choice of row operation per
  unit.
- `Verified`: `VerifiedAfterReview`. Needs that the units of a category past review are
  all done with the pass score, which only block, unblock and reopen can change, and
  those take the category back.
- `Limit`: `ConcurrencyLimit`, although clocks disagree. Only `Claim` adds a claim, and
  in the same transaction, with the same sample, everything not counted as live has been
  removed from the table; so the number of rows, not only of live leases, is bounded.
- `Focus`: `SingleFocus`. Induction over the steps; `Finish` needs that a finite set of
  open categories has a least one by `ord` unless it is empty.

**Units and their category** (`I18nQueueStageProofs`). The rows above say nothing of the
distance between a unit and its category.

- `Standing`: `StagesInv`, by which a unit is in the stage of its category or waits at the
  next one, is blocked only with it, and at review has a translator. `TranslationFirst`:
  `TranslatedBeforeReview` follows, a blocked category counting for the stage it was in.
- `Freshness`: `VerdictFresh`, from `FreshInv`: a category has a consistency verdict only
  past review, gate results only in verification, a gate status only when done, which
  holds through every step back because each resets what lies ahead of where it goes.
- `RoundsStay`: `RoundsKept`, an action property; needs that units are blocked only in a
  blocked category (`BlockedTogether`).

**Views** (`I18nQueueViewProofs`).

- `LeasesOnFocus`: `LeaseInv`, leases are in force only on the focus and never while it is
  blocked. With samples one tick old it fails, by the late heartbeat.
- `StageTable`, `Owned`, `Validates`: `UnitsFitStage` (which `queue_late_heartbeat` breaks
  without the hypothesis), that only agents own claims, and `ValidateAccepts`: every table
  of `Store::validate` accepts what the operations leave.
- `StatusTrue`: `StatusTruthful`. `Proposals`: `ProposalsHold`, with no hypothesis: `next`
  and `claim` make the same recovery and count the same claims.
- `WorkVisible`: `WorkInSight`. A category short of a stage's end has a unit not past it;
  by `StagesInv` that unit is claimed, and then the lease is in force after the recovery,
  or it can be offered.

**Refinement of `CategoryPipeline`** (`I18nQueueStageProofs`), `Pipelined`: action by action;
what operations do to units is a stutter, `Advance` and `Finish` are its steps forward,
`BlockUnit`, `BlockCategory`, `UnblockUnit*`, `UnblockCategory` and `Reopen` its decisions.

**Checkout** (`MercadoPagoProofs`).

- `CheckoutTyping`, `Sole`, `ServedOnce`: `TypeOK` (proved for every instance, so no run
  repeats it), `SoleFulfilment`, `ServedOnceIfPaid`.
  The invariant says where a request can be: at `claim` only for a linked order with a
  full approved payment; past it only while the order is `processing`, and no two past
  it for one order; what was served is in `finish`, `answer` or decided. `Restore` keeps
  it because the write of an unchanged attribute changes nothing.
- `Linking`: `LinkInv`, an order is linked once, before anybody can pay for it.
- `CodeUses`: `CodeUsedByClaims`. The uses equal the number of coded orders ever claimed,
  up to the limit; a claim adds the order and the use in one step, and no other step of
  an order leaves or enters that set.
- `FailuresReported`: `FailureReported`, by `LinkInv` for orders that fail unlinked.
- `Implements`: `Spec => ImplementsPaidOrder`, from the same invariant, action by action;
  only `PlaceOrder`, `PreferenceRefused`, `Pay`, `Clear`, `Claim`, `Deliver`, `Finish` and
  `Fail` are visible in the abstract specification, all others are stutters.

**Ledger** (`I18nLedgerProofs`), for any number of processes, files, entries, units.

- `LinksFollowOwner`, `OwnersStay`: `LinkedToOwner`, `OwnerKept`. The inductive invariant
  says of every transaction what its file looked like when it read: while it is reading or
  writing, the owner it has seen is still the owner, because a commit waits for readers
  and there is one writer; from then on its units are of its category.
- `LedgerIsABook`: `Spec => ImplementsBook`, action by action; commits to the file at the
  path are `Register`, `Relist` and `StartOver`, opening and unlinking files start over or
  stutter, and all else leaves what the mapping reads alone.

**Series** (`PatchSeriesProofs`).

- `TypesKept`: `TypeOK`, through every action of every command.
- `AppliedMeansApplied`: `AppliedInFull`. What a replay has done up to its position is in
  the history or the tree; the invariant carries that from patch to patch, across merges
  and skips, to the point where the command reports.
- `NoEditDropped`: `EditsHeld`. No invariant; every way to begin a command but the forced
  ones refuses a dirty workspace, keeps it, or takes it into the pending diff.
- `LintedSetsUp`: `LintMeansSetup`. `SetupInv`: what a setup has at a patch is what the
  patches before it give on the pinned base, because a patch that fits at its place does
  not revert there, so nothing is skipped and the replay goes through.
- `HistoryKept`: `HistoryIsSeries`. At rest the invariant (`HistInv`) is what the property
  says; in between, every command is for a while in a state the property does not
  describe, as a patch file is written before its commit, a commit made before its
  registration, and a history rewound before it is replayed. `Tells` says of a prefix of the
  series what a log tells of it: which patches have a commit, in which order, and which
  tree each gives outside `overlays/`; lemmas say how a log that tells of patches up to k
  is cut, continued by a patch, or sealed with the overlays. The parts of `HistInv` relate
  the log to the files of the command under way: `PlaceInv` where each command can be,
  `RestInv` where none has changed anything, `DumpInv` a patch recorded and not yet
  registered, `BuildInv` a replay up to a patch, `CaptureInv` a refresh up to the commit
  of its patch. A lemma per action shows which part it hands over to which. Tracing
  also what a conflict leaves gives the second half of the property: the refresh finds
  a log that tells of the patches before its own.
- `EditsKept`: `EditsCaptured`. `DumpInv` has it for a dump; for a refresh `KeptInv` carries
  what it found in the workspace through rewinding, merging the pending diff back and the
  replay of later patches, at every spot those do not touch; the diff fits there because
  the history is the series (`HistInv`), so that the commit rewound to agrees with HEAD.

**Catalogue and audit** (`I18nAuditProofs`).

- `LocksAreBuilt`: `LockInv`, the lock is absent or built from some valid manifest of the
  history and some source files of its time, however both have moved since.
- `CheckedIsOwned`, `OwnersKnown`: `CheckMeansOwned`, `OwnersForeseen`. The files a unit
  lists are those it claims first, so that owner_of's three steps (files, globs, excluded)
  and first-claim-wins give the same answer; for a path not listed, the first match is.
- `NoChangeSlips`: `NothingSlips`. Whatever differs has an owner, or the audit of some
  category reports it; the owner's category is audited, and there it is compared.

**Rules** (`TextRulesProofs`). The state is only the question; `Asks` says it is always one
that `Next` puts, and each theorem is then about a pure function of any such input.

- `HunksAreLeast`: `HunksExplain`. The alignment is a table over pairs of beginnings,
  filled forwards, and a way back through it. `RecursionHas` shows that a function defined by
  recursion of falling rank exists at all, so that both obey their rules. No common
  subsequence of two beginnings is longer than their entry (`TableBounds`: equal last
  tokens may both be taken, of unequal ones at most one is); the way back keeps as many
  tokens as the entry says, the same of both, and the hunks hold the others in order
  (`WalkAligns`); a common beginning and end set aside before add what they are long to both
  (`BoundBefore`, `BoundAfter`). With every token kept nothing differs, and of two equal
  texts nothing is left between beginning and end (`MiddleOfSame`).
- `SilentOnTranslations`: `OnlyTranslations`. The findings are one sequence after another,
  so there are none exactly if each part has none (`JoinEmpty`). Each step between the
  skeleton and what is compared, taken for itself, leaves all but blanks and commas
  (`NormalSays`, `TightSays`, `NoTrailingSays`, `SpreadSays`, `WordsSay`, `TrimSays`), putting
  tokens together leaves everything (`RejoinedSays`), and so tokens joined are the code but
  for these (`SkeletonTokensSay`); passes that drop wrapping parentheses leave what is no
  parenthesis, and drop none if no token is `<` (`UnwrappedSays`). No hunk means equal
  tokens, hence one of the last two cases of `SameCode`; equal `Collapsed` texts, the first.
  Pairing keeps an invariant: the labels paired so far are the counterparts by rank in their
  slot, since the first that is left has the next rank. That a text is asked about once for
  each line misses none: of the labels of one line and text, the first to be asked about is
  asked about.
- `SeriesStaysInOrder`: `SeriesKept`. The new entry is put before the first larger one; lint
  asks that neighbours ascend, which they do on both sides of it, and the next number is
  larger than all.
- `VerdictsAreEarned`: `VerdictEarned`. Five criteria of at most two points make ten only if
  each has two; the rest are the cases of `validate_review_report_value`, against those
  of the command line.
- `PatchFilesLintAsTheyParse`: `PatchFilesHold`. What lint complains of falls into end, diff,
  header and paths; the header has no complaints exactly if it parses; and in a file made of
  a header and a diff that has a `diff` line the cut is where they meet, so that `refresh`
  and `new` leave what they mean to.

Two proof attempts failed because the property was false beyond the bounds of its run, and
TLC confirmed it there: `HistoryIsSeries` (a conflict that another command leaves
behind, a resolved conflict of the first patch) and `NothingSlips` (a Brazilian file nobody
lists). Both now say what the code does, and the former led to the
refresh of a first patch in section 9.

The provers take no induction theorem with an operator, but they take one with a set: `Least`
and `Induct`, from `WFMin`, are such, and what a recursive function computes, of the community
modules (`Stack`, `FlattenSeq`) or of these (`Common`, `Walk`, `Merged`, `WordsIn`, `Rejoined`,
`Unwrapped`), is proved
with them and with `RecursionHas`. `SortSeq` and `SelectSeq` have no definition the provers
see; what is proved about avoids them.

**Only model-checked.** `Settles` and `PaidIsSettled` (liveness under fairness);
`CodeStringsKept`, where the strings must be found again in what is left of a whole file (and
`SelectSeq`, which picks them, has no definition the provers see); `LangFilesKept`, whose parser uses RECURSIVE operators; `PinnedInFull`,
which is violated.

## 11 What is left out

- SQLite and git themselves: transactions are taken to be serialisable and durable,
  `apply`, `commit` and `reset` to do what their manuals say.
- Of the store: texts, notes, labels, timestamps, events, the categories' average score.
- Of the patch tools: `--no-snapshot`, `--check`, failures of `fetch`, the
  `allow-empty-series` marker, the diagnosis printed after a conflict, archives and their
  checksums, several overlay files.
- The tokenizers of `scan.rs` and `php.rs`, the patterns of `text.rs`, the dictionaries of
  `lang.rs`: they work character by character, and the models start from what they yield.
- Of the audit: test files, yup messages, blade echoes, comments of English files, the
  existence of the keys that sources use, the syntax of the allowlist, reports.
- `jx_core`, argument parsing and printing, CI files, translated strings: single passes
  or data, without behaviour over time.
- `docker/entrypoint.sh`: a linear boot script. By reading: a boot that dies between
  `touch /app/var/.env` (line 41) and the writing of the key leaves an empty file that
  every later boot takes for existing settings; migrations and seeds repeat; of two
  replicas that both find no administrator, the second fails on the unique e-mail and
  restarts. Of `apply-series.sh` the reading of the series is modelled; it copies
  overlays with `cp -r`, so that it overwrites where `jx apply` refuses.
- The panel's own code (models, server deployment, coupons) is not in the repository; it
  appears only as the controller uses it.
