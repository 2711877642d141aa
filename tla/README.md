# A verification development for cvc (volute)

cvc records the conversations that lead to code ("thoughts") in a local SQLite
store and publishes the ones its user shares to Git remotes, under the ref
`refs/cvc/main`. This directory holds TLA+ models of that system, their TLC
configurations, and TLAPS proofs. Paths below are relative to the repository.

- Part 1 is the inventory of the system.
- Part 2 is the models: state, actions, and what each abstracts.
- Part 3 says what the runs check, within which bounds and under which fairness.
- Part 4 says what is proved, from what, and along which argument.
- Part 5 is what the models showed that the documentation does not say: two
  disagreements checked by runs, and the limits of each part.
- Part 6 is what is left, and what is not modelled and why.

## 1. The system

### Parts, their state and their operations

| Part | State it keeps | Operations | Where |
|---|---|---|---|
| Local store | `interactions`, `interaction_shares`, `conversation_shares`, `publications`, `tombstones`, plus links, derivation events, the squash queue and the scan and ingest cursors | insert by source, import a batch, share/unshare, mark/clear publication, apply tombstones; each one SQLite transaction | `cvc-core/src/db.rs` |
| Destination sync | the tracking ref `refs/remotes/<remote>/cvc/main`, a Git tree of thoughts, tombstones, links and events | fetch, import, project, push without force | `cvc-core/src/sync.rs`, `cvc-cli/src/commands/sync.rs` |
| Privacy | `privacy.json` (decisions by destination fingerprint), `privacy.lock`, a lock `publish-<fingerprint>.lock` for each destination | acknowledge, consent, withdraw, adopt legacy records, lock | `cvc-core/src/privacy.rs` |
| Commands on shares | none of their own | `share`, `unshare`, `delete-local`, `redact`, `reconcile`, `pull`, `push` | `cvc-cli/src/commands/` |
| Interactive view | what it loaded, the selection, the open bar or flow | select, fold, switch remote, share, unshare, publish, authorize | `cvc-cli/src/tui` |
| Capture | Claude Code ingestion: a cursor for each transcript, a session lock; the others none | `commit_thought` (MCP), `cvc run` (CLI), the passive watcher through the language server, transcript ingestion by a hook | `cvc-mcp/`, `cvc-lsp/`, `cvc-core/src/claude_code/` |
| Rewrite inbox | a directory of durable batches of rewritten commits | persist, replay, apply, set aside | `cvc-core/src/rewrite.rs`, `cvc-cli/src/commands/hook.rs` |
| Squash scan | a cursor for each branch, a bounded queue of targets | discover by compare-and-set, attempt, relink | `cvc-core/src/squash.rs`, `db.rs` |
| Hooks and harness | blocks in Git's hook files, Claude Code's settings in each worktree, a line of `info/exclude`, the record `claude-code.path` | install, repair, uninstall, propagate to a new worktree | `cvc-core/src/hooks.rs`, `cvc-core/src/claude_code/` |
| Linker | links from thoughts to commits | link after a commit, link what a transcript says | `cvc-core/src/linker.rs`, `claude_code/ingest.rs` |
| Release launcher | `~/.cvc/bin`, the release cache, the lock directory `.cvc-install.lock` | inspect, fetch, lock, break a dead lock, publish by rename, run | `npm/cvc-mcp/bin/release.js`, `install.sh` |
| Readers | none | timeline, blame, the extension's webview, the reviewer | `cvc-plugin/`, `cvc-reviewer/` |

### How they interact

Every process of a repository opens the same store; SQLite serialises the
transactions and nothing else does. A push, a pull, a reconcile, an unshare and
a redaction hold the lock of their destination's fingerprint for their whole
run, which separates operations of one clone on one destination and no others:
capture, share and delete-local take no lock, and another clone shares only the
Git remote. The remote decides races between clones, by refusing a push that is
not a fast-forward.

Git hooks start short processes at any time: `post-commit` links and scans,
`post-rewrite` persists and replays, `pre-push` publishes, `post-checkout` sets
up a new worktree, and Claude Code's own hooks ingest its transcript. Two of
them may run at once, each may be killed, and none is tried again by itself: the
next hook takes up what the last one left, so what they leave on disk has to
make that possible. The inbox, the squash cursor and the transcript cursor are
three such hand-overs, each built differently: an at-least-once directory, a
compare-and-set, and a lock.

### What is hard, and what makes it right

A push is a protocol of seven steps over three kinds of state (the store, the
tracking ref, the remote), each of which others change between the steps:

1. read the uncertain records, fetch, import, clear those still uncertain;
2. fetch and import again, and pin the commit;
3. build the tree to send on that commit: what it has, less what is suppressed
   here, plus what is shared, plus the tombstones;
4. ask the user;
5. record the new thoughts as `pending`;
6. send;
7. settle: `published`, cleared, or `unknown`.

A process may die after each, the answer of step 6 may be lost, and it may even
be wrong in the end: a push given up by its client can be applied later. The
system is right if the records in the store err on one side only: `published`
means that the destination has the thought, and no record means that it has not.
`unshare` and `redact` decide on that. The destination is right if it only
gains: no push undoes another clone's, and no tombstone is lifted. A user is
served right if nothing leaves that was not shared *for that destination*, and
nothing that was deleted or redacted returns.

The other parts:

- *Rewrite inbox.* A rewrite that was accepted is applied once, whatever dies in
  between; what it derives must not outlive the shares and thoughts it came from.
- *Squash scan.* Two scans of a branch must not pass over a commit, and a queue
  of bounded length must not starve or drop what it holds.
- *Transcript ingestion.* A transcript grows while runs read it. Each response is
  recorded once, whole, in its chain, and linked to the commit it made.
- *View.* A phrase typed minutes after the screen was drawn must still be about
  what the screen showed.
- *Consent.* Records under an earlier version's key must be adopted before they
  are used, once, and without three locks waiting on each other.
- *Harness.* Files the user owns are edited without a lock, and what the commands
  tell the user must be so.
- *Launcher.* One process at a time publishes although locks of killed processes
  are broken; nobody runs less than his own package.

`PROJECT.json` lists each hazard at its line, with the properties about it.

## 2. The models

| Module | Models | Kind |
|---|---|---|
| `Publication` | shares, pushes, pulls, redactions of several clones and destinations | detailed |
| `ThoughtLog` | a destination: a log of thoughts that only gains | abstract, implemented by `Publication` |
| `RewriteInbox` | thoughts following rewritten commits | detailed |
| `SquashScan` | the scan of a branch and its queue of squash targets | detailed |
| `SessionLock` | a lock file that its holder removes | detailed, used by the next |
| `TranscriptIngest` | a transcript becoming thoughts and links; extends `SessionLock` | composition |
| `ConversationsView` | the interactive view and its flows | detailed |
| `HarnessSetup` | files written outside cvc's own directory | detailed |
| `ConsentLedger` | the records about one destination: one decision at a time | abstract, implemented by the next |
| `ConsentRecords` | the processes that keep these records | detailed |
| `ReleaseLauncher` | launches and installations sharing one directory | detailed |

`MC<Module>` defines the small instances of a module and `<Module>Proofs` holds
its theorems. Each module says at its head which code it models, and
`PROJECT.json` maps each definition to its lines.

### Publication

`Publication.tla` composes the store, the sharing commands, the push protocol
and the remote, because what can go wrong there goes wrong between them.
`ThoughtLog.tla` is the abstract specification of a destination.
`MCPublication.tla` defines the small instances.

#### State

| Variable | Code |
|---|---|
| `row[c][t]` | the `interactions` row of a thought: whether it is there, by which remotes its conversation id is prefixed (`remote:<fingerprint>:...`), its `parent_id` |
| `shares[c][d]`, `future[c][d]` | `interaction_shares`, and `conversation_shares.share_future` |
| `pub[c][d][t]` | the `publications` row: none, `pending`, `published`, `unknown` |
| `buried[c]`, `tomb[c][d][t]` | `tombstones` of scope `local`, and of scope `remote` with their state and `deleted_at` |
| `op[c][d]` | the locals of the process that holds the lock: its phase, the uncertain ids, the tracking commit, the base, the candidate tree and its new thoughts |
| `tip[d]` | the tree `refs/cvc/main` names at the remote |
| `inFlight[d]` | pushes whose client gave up and which the server may still apply |
| `minted` | ids drawn so far: a random id is drawn once |
| `sent`, `granted` | history, for the properties only: what a clone's pushes put at a destination; which conversations its user shared and did not take back |

#### Actions

Each action is one transaction of the store, or one exchange with the remote,
or the end of a process. An import (`Import`) is a single transaction in the
code (`import_sync_batch`), so all of it is one step: suppression by the batch's
own tombstones, insertion of what is not stored and not suppressed, inherited
future shares, `published` records for all the commit holds, tombstones recorded
or proven.

| Action | Code |
|---|---|
| `Capture`, `PassiveCapture`, `HarnessCapture` | `insert_interaction` and its passive and harness variants; a passive capture replaces the rows of a request seen before |
| `DeleteLocal` | `cvc delete-local` |
| `Share`, `Unshare` | `cvc share`, `cvc unshare` |
| `Pull` | `cvc pull` |
| `PushBegin` ... `MarkPending` | `push_destination` up to the transport; `ReconcileBegin` is `cvc reconcile`, which stops after `ClearUncertain` |
| `Send*`, `LateLanding` | `push_temp_ref` and the remote |
| `Settle*` | `settle_push` and the tombstones' marks |
| `Redact*` | `cvc redact` to the pending tombstone |
| `Decline`, `Abort` | a phrase not typed; a crash, a failed fetch, a refusal to verify |

#### What is abstracted

- A thought is its id. Texts, scrubbing, links, derivation events, ranges, the
  by-commit index, size limits and format versions are left out. They go in the
  same tree and the same transactions, and no property here is about them.
- A commit is its tree. No tree occurs twice on a destination's line of commits,
  so comparing trees is comparing commits: a push that would repeat its base is
  not sent, and nothing comes back from under its tombstone.
- Fetch and import are one step. The lock keeps other imports of that
  destination out, and what lands after the fetch is what the remote would have
  after the step. The tracking ref is kept from the second pull to the
  projection, which is where the code compares it with the pinned commit.
- `Share` is one step: the code reads the conversation, asks, and then records
  the share only if the conversation is exactly as it was shown.
- A harness batch is one response, a passive batch one segment. A redaction's
  reason is always the same; the hard-redaction plan changes no shared state.
- Consent is the constant `Consented`: it only guards the start of a push here.
- Time is the reading of the clock that a tombstone records (`Clock`).

### Rewrite inbox (`RewriteInbox`)

A hook process is a program counter over the steps between which it may be
killed or overtaken; the store changes in transactions.

| Variable | Code |
|---|---|
| `links`, `shares`, `derived`, `recorded` | `commit_links`, `interaction_shares`, the derivation events with their authorizations, `rewrite_batches` |
| `inbox`, `temp` | the complete files of the inbox, and the temporary file of a batch with its age |
| `hook` | the process: its stage, the entries it still has to replay, the sources it read |
| `accepted`, `late`, `belated` | history: what `persist_inbox` answered `Ok` for, batches read too early, and the thoughts linked to an old commit only when its batch had been read (`missed` is the same of a hook that has not recorded it yet) |

| Action | Code |
|---|---|
| `Rewrite` | Git amends or rebases and starts the hook |
| `Check`, `Reserve`, `Publish` | `persist_inbox`: already there or recorded, quota and temporary file, rename |
| `Age` | a temporary file becomes older than an hour |
| `List`, `Read`, `Apply`, `Remove`, `Quarantine`, `Drop`, `Defer` | `replay_inbox` and `apply_rewrite_batch`: the sources are read, then compared and written in one transaction |
| `Link` | `link_automatic_interaction_batch_inner`, the transaction of both linkers: the post-commit hook's and that of ingest, which links to any commit its transcript names, rewritten or not |
| `Share`, `Unshare`, `Delete`, `Prune` | what users and Git do meanwhile |
| `Busy`, `Kill` | an error that ends the replay, a kill |

An event is named in the code by the hash of its thought, its source and its
commits, and the source may be an event itself. The model represents an event by
what that hash unfolds to: the path of commits from the first link. Two rewrites
of the same path are then the same event, as in the code, and `SourcesPresent`
can speak of the chain behind an event.

### Squash scan (`SquashScan`)

| Variable | Code |
|---|---|
| `head`, `evidence` | what the branch names; for each commit, whether a trusted range has its changeset: none, exactly one, several, or one whose sources changed |
| `cursor`, `rows`, `tried` | `branch_scan_cursors`; `pending_squash_targets` in its two orders |
| `relinked` | targets with `squash_exact` events |
| `scan` | the process: HEAD and cursor as it read them, the targets of its batch |
| `seen`, `anchor` | history: what was ever queued, where the walk of the cursor began |

| Action | Code |
|---|---|
| `Begin`, `ReadCursor`, `Discover`, `List` | `scan_with_abort`: HEAD, the cursor, `discover_squash_targets` (one transaction: compare, trim, refuse or enqueue, advance), the next batch |
| `Attempt`, `Apply`, `Abandon` | `mark_squash_attempt`, then the plan compared with store, cursor and HEAD and written; the first error ends the scan |
| `Move`, `Observe` | commits, pulls and resets; ranges that are observed, become ambiguous or stale |

### Transcript ingestion (`SessionLock`, `TranscriptIngest`)

`SessionLock` is the lock file alone: `path` is the inode its name leads to,
`owner[i]` who has the lock on an inode, `fd[r]` the inode a run has open. The
file is created by `Open`, locked by `Lock`, compared with its path by `Check`,
and removed while it is still locked by `Remove`. A file system without locks is
`locking = FALSE`, and then every run goes on without (`GoWithout`).

`TranscriptIngest` extends it: a run's work is between `TakeLock` and `Leave`.

| Variable | Code |
|---|---|
| `written` | how much of the transcript Claude Code has written |
| `recorded`, `links`, `cursor`, `deleted` | thoughts, links, `harness_ingest_cursors`, local tombstones |
| `job` | the run: whether it may close an unfinished response (`final`), the window it read |
| `hook`, `linked` | the post-commit hook and what it read of the store |
| `ever`, `withdrawn`, `happened` | history |

`Planned` is the plan of a window of the transcript: which responses are closed,
in which order, with which stimulus and which answered calls. It is a function of
the window only, as in the code, so that it can be compared with the plan of the
whole transcript: that is what `RecordedWhole`, `OneChain` and `NothingSkipped`
do. `Batch` is `capture_claude_code_batch` (compare the cursor, skip what is
stored or has a local tombstone, insert, advance); `ReadFloating` and `LinkCommit` are
`links.rs`; `HookReads` and `HookLinks` are `linker.rs`. Two actions take a thought
away: `DeleteLocal` is `cvc delete-local`, which leaves a local tombstone, the only
one a batch looks for; `Withdraw` is `cvc redact` or a tombstone that is pulled,
which are for one destination, so that the transcript may bring the thought back.

### The view (`ConversationsView`)

The state is in three parts: what there is (`url`, `consent`, `thoughts`,
`shared`, `future`, `held`, `lock`), what was loaded for one remote (`shown`,
`listed`, `listedFor`, `readFor`), and the screen (`cursor`, `expanded`, `mode`,
`stage`, `flow`). `Keys` are the key presses on the screen; `FlowSteps` are the
steps of a flow, each of which looks again at what the screen was drawn from
(`Resolve`, `CheckConversation`, `CheckSettings`), takes the operation lock where
the command does, asks, writes and reloads; `Others` are other terminals, which
capture, delete, share, publish, edit remotes and consents, and damage the
privacy file, between any two steps.

### Hooks and settings (`HarnessSetup`)

| Variable | Code |
|---|---|
| `made` | the worktrees |
| `settings[w]` | Claude Code's settings of a worktree: whose hook entries, and whether the user has anything of his own there |
| `excluded`, `record`, `acknowledged` | the line of `info/exclude`, `claude-code.path`, the capture acknowledgement |
| `file[h]` | a hook file, as the sequence of its parts: the first line, the user's text, cvc's block of today or of an earlier release, a program that is not shell |
| `run[x]` | where a command, or the post-checkout hook of a worktree, stands |
| `torn`, `misread` | history: hook files whose writer was killed between cutting and writing, and those a command set out to rewrite from what it read between another's cut and write |
| `served`, `unattended`, `promised`, `owed`, `quiet` | history: hook files a command was through with, worktrees the hook wrote into, what an install promised and to which worktrees, uninstalls beside which no install ran |

Installing, repairing and uninstalling are sequences of steps on these files
without a lock, as in the code: read and append, or read, cut to nothing and
write again (`HookAppend`, `HookCreate`, `HookFill`, `HookCut`, `HookRewrite`);
read and rename (`ReadSettings`, `WriteSettings`). `AddWorktree` runs the
post-checkout hook of the new worktree, which reads the record (`ShellReads`) and
then writes the settings (`Propagate` and on).

### Consent records (`ConsentLedger`, `ConsentRecords`)

`ConsentLedger` is what the records about one destination promise: each change
is one decision or one step of a publication, on the records as they are then.
`ConsentRecords` are the processes: `privacy.json` is read and replaced under one
lock, the rows change in transactions under the operation lock of their key, and
records of an earlier version are moved under three locks, the rows and the
consent in two different stores.

| Action | Code |
|---|---|
| `PeekRows`, `PeekConsent`, `LockToAdopt`, `LegacyAtOnce`, `LockLegacy`, `MoveRows`, `LockFileToAdopt`, `ReadToAdopt`, `ReplaceAdopted` | `adopt_legacy_records` (`sync.rs`) and `adopt_legacy_sharing_consent` (`privacy.rs`) |
| `LockFile`, `ReadFile`, `ReplaceFile` | the decisions: capture, consent, auto-push on and off |
| `ShareIt`, `LockToWork`, `CheckUnshare`, `UnshareIt` | `share`, `unshare` |
| `Reconcile`, `Project`, `MarkPending`, `SettlePush` | `push` and the pre-push hook |
| `Start`, `Die` | a process of today's or of the earlier version, a kill |

### Launcher (`ReleaseLauncher`)

A version is a number, 0 a file that is not there or does not run.

| Variable | Code |
|---|---|
| `stable[f]`, `cached[v]` | `~/.cvc/bin`, the release cache |
| `maker`, `entries` | the lock directory and the records in it |
| `at`, `turn`, `seen`, `tries`, `judged`, `path`, `moved` | the locals of one launch or installation |
| `away`, `killed`, `upsets`, `past`, `ran` | where a launch runs, what befell it, what was done to the directory, what was started |

`Inspect`, `KeepStable`, `KeepWithout`, `NeedCache` and `Publish` are
`decidePublication`, which a launch goes through up to four times (`turn`): before the cache,
after it, after a wait, and under the lock. `Take`, `Label`, `FindGone`,
`FindDead`, `FindHeld` are the acquisition; `Claim`, `Unlink`, `RemoveBroken` the
breaking of a dead launch's lock by renaming its record; `Stage`, `Move`,
`Verify` the publication, the three files in `PublishOrder`. `Install*` and
`Signal` are the part of `install.sh` that shares the lock.

### What the models abstract

Beyond what each module says at its head:

- *Inbox.* The syntax of a batch is valid or not; the quota counts files and not
  bytes.
- *Squash scan.* What a changeset and a source snapshot contain is abstracted to
  whether they match.
- *Ingestion.* The entries of a response are contiguous and Claude Code waits for
  its Stop and SessionEnd hooks; there is one target (a subagent has a cursor of
  its own under the same lock); a partial last line is not yet written; a
  transcript is cut short only while nothing runs, and is written again with the
  same entries; one call has one answer, on the same side of a stop and before
  the conversation moves on (`SessionOK`); the linker takes all that is eligible, or nothing.
- *View.* A load is one step; a key press that moves the selection reads the
  details of the row in the same step; the picker of remotes is part of `Choose`.
  Pages, type-ahead, layout and words, the row limit and the adoption of legacy
  records are left out. A publication is what it does to `held`.
- *Harness.* Binaries stay where they are, worktrees are not removed, the
  settings have one binary for all events, an append is one step, an
  acknowledgement is only granted, and where Git gives no verdict the run dies.
- *Consent.* A state `unknown` counts as `pending`; what a reconciliation finds
  is any outcome; a phrase is answered or declined; the first adoption and status
  of `auto_push_remote` are those of `push_destination`.
- *Launcher.* One Unix host or several sharing a home; removing a tree is one
  step; a record that is half written is an empty lock, which may be judged
  foreign at any time; reuse of process ids, refusals of symbolic links, notices,
  Windows' retired images and the reaping of staging directories are left out.

## 3. What is checked

| Run | Instance | Shows |
|---|---|---|
| `two_clones` | two clones, one destination, a thought each, ingested from transcripts (so that an id may come again); 4 events | `ServedIsRecorded`, `UnsharedIsAbsent`, `DeletedStaysDeleted`, `PublishedIsHeld`, `RedactionProven`, `TombstonedNotServed`; the destination implements `ThoughtLog` (`AppendOnly`) |
| `two_destinations` | one clone, two destinations, a passive capture, which future sharing covers, and a reply to it by MCP, which it does not; 4 events | `ProjectedIsGranted`, `SuppressedForSource` |
| `settling` | two clones, one thought, pushes that may land late, fair | `UncertainSettles`, `RedactionDelivered` |
| `rewrites` | two hooks, commit A amended to B and B to C, the second batch's file sorting before the first's, a malformed file in their way, room for two files; two upsets (what users choose, and at most one fault); fair | `AcceptedNotLost`, `FollowsRewrites`, `AuthorityFromSource`, `WaitingIsRecorded`, `RedeliveredIsAccepted` |
| `squash_scans` | two scans, a branch of four commits that grows by one, two or three and is reset; walk, queue, history and batch of 2, 2, 1 and 1; two moves, one fault; fair | `NoCommitSkipped`, `PendingKept`, `NotStarvedAtHead` |
| `session_ingest` | two runs, a session of seven entries with three responses, two of which commit; two upsets where files can be locked, none where not | `Exclusive`, `RecordedWhole`, `OneChain`, `NothingSkipped`, `DeletedStaysAway`, `CommitsLinked` |
| `conversations_view` | two remotes with a destination each, a session with an agent, a pulled conversation; two flows, one act of another terminal | `ShownForRemote`, `AskedOnShown`, `UnshareCanHappen` |
| `harness_setup` | two commands, three kinds of worktree, three hook files (the user's with an older block, a program that is not shell, none); one upset | `UninstallTells`, `HooksKept`, `Uncommittable`, `PromiseKept` |
| `consent_records` | two processes of either version, one legacy key, three commands, one kill; fair | `AdoptedBeforeUse`, `KeepsLedger` (it implements `ConsentLedger`), `CommandsEnd` |
| `launches` | two launches of releases 2 and 3, the lock of a killed third one, an installation, release 1 (or 3 in part) in the directory; one more kill, signal or failed call; fair | `OnePublisher`, `NeverDowngrades`, `RunsAtLeastPackage`, `DeadRecordGoes`, `LaunchEnds` |
| `dangling_parent` | as small as the disagreement allows | `PullPossible` fails, part 5 |
| `two_redactions` | two clones, one destination, one thought, two clock readings; 4 events | `RedactionsUnite` fails, part 5 |

The properties in words:

- Publication
  - `ServedIsRecorded`: while a destination serves a thought of this clone's own
    conversations that one of its pushes put there, the clone has a record of it,
    through every crash, lost answer, rejection and reconciliation.
  - `UnsharedIsAbsent`: a thought the user took back is not there;
    `UnshareRefusesPublished` (proved): and an unshare that could not take it back
    is refused.
  - `ProjectedIsGranted`: each new thought a push is about to send is sent under
    the name of a conversation shared for that destination and not unshared since.
  - `RedactionsUnite` (refuted): when a projection starts, no tombstone recorded
    here differs from the one the destination has.
  - `PublishedIsHeld`, `RedactionProven`: a record `published` is proof.
  - `TombstonedNotServed`: no tree serves a thought beside its tombstone, though
    clones that have not heard of a redaction go on pushing.
  - `SuppressedForSource`, `DeletedStaysDeleted`: what was redacted for a
    destination does not return from it, what was deleted does not return at all.
  - `UncertainSettles`, `RedactionDelivered`: what a failed push left open is
    settled, and a redaction reaches its destination.
- Rewrites
  - `AcceptedNotLost`: until it is recorded, an accepted batch is in the inbox.
  - `AuthorityFromSource`: an event never allows a destination its source did not
    allow at the moment it was written; `SourcesPresent` (proved): nothing is
    derived from what is gone.
  - `FollowsRewrites`: who explains the old commit explains the new one, unless the
    rewrite was read before one it follows on was recorded (`late`), or the thought
    was linked to the old commit when the rewrite had been read (`belated`).
  - `WaitingIsRecorded`, `RedeliveredIsAccepted`: no entry blocks the others for
    good, and no leftover blocks its own batch.
- Squash scan
  - `NoCommitSkipped`: from where its walk began up to the cursor, every commit
    has been queued.
  - `PendingKept`: a target stops waiting only by being relinked.
  - `NotStarvedAtHead`: retrying one target does not starve another.
- Ingestion
  - `Exclusive`: at most one run is inside, though the lock file is removed.
  - `RecordedWhole`, `OneChain`, `NothingSkipped`: however reads cut the
    transcript, the store has what one read of all of it would have given.
  - `DeletedStaysAway`: a thought deleted with `cvc delete-local` is not captured
    again. What was redacted at a destination may be (part 5).
  - `CommitsLinked`: each commit gets the reasoning since the one before.
- View
  - `ShownForRemote`: header, marks and details are of one destination.
  - `AskedOnShown`: a phrase is asked for what the screen shows.
  - `UnshareCanHappen`: and what it asks for can still happen.
- Harness
  - `UninstallTells`: an uninstall names every worktree that goes on capturing.
  - `PromiseKept`: a worktree added after "captured too" is captured.
  - `HooksKept`: the user keeps his part of a hook file, and where a command is
    through, cvc its block, however many write at a time; but for files in `torn`,
    and the user's part of those in `misread`.
  - `Uncommittable`: what is written unattended cannot be committed.
- Consent
  - `KeepsLedger`: no read-change-write loses another's change, no adoption
    overwrites, nothing is marked without a consent.
  - `AdoptedBeforeUse`: a command finds what an earlier version left.
  - `CommandsEnd`: none waits for ever for a lock.
- Launcher
  - `OnePublisher`: one process at a time decides and moves under the lock.
  - `NeverDowngrades`, `RunsAtLeastPackage`, `DeadRecordGoes`, `LaunchEnds`.

### Bounds

Every configuration says `CHECK_DEADLOCK FALSE`: users stop, and the bounded
events run out.

*Publication.* `MaxEvents` bounds together what users decide (share, unshare,
delete, redact) and what fails (crash, lost request, lost answer, refusal).
Captures, pulls, pushes, reconciliations and rejections are not bounded by it.
The longest story the properties are about takes three events with any number of
the others: share, a lost answer or crash, unshare; a fourth lets a redaction or
a second failure join in. `settling` needs three: share, a fault or a push given
up, and a redaction on either clone. Two clones suffice for a race of two commits
on one base, since the remote serialises them and a third clone meets the same
base twice; two destinations suffice for a leak from one to another. Two thoughts
suffice for a parent and its child. `two_clones` uses the symmetry that exchanges
the clones together with their thoughts, which is sound for its invariants and
for `AppendOnly`, whose specification treats all thoughts alike; no run with
fairness uses symmetry. No passing run replaces one passive capture by another, or
lets a push land late beside a second thought; the theorems of part 4 cover both,
and say by their premises which properties then do not hold (part 5).

*Rewrites.* Two rewrites are the least that can be replayed in the wrong order,
and the third file, which does not parse, fills the inbox of two. Two hooks race
over one file; a third would find what the second leaves. The first
link of a thought costs nothing and comes at any time, before or after each rewrite
is read or recorded. `MaxUpsets` bounds choices and faults together: two are a share
and its unshare, or a share and a deletion, between the reading and the writing of
the sources, or one of these and a fault. A fault kills a hook at any of its steps,
makes the store busy, or has the two linkers race, so that one thought is linked
twice.

*Squash scan.* The walk takes two commits, so a move of three is not continuous
and resets the cursor; the queue holds two, so a third target is refused; one
target is tried at a time, so that retries compete. The root of the branch is the
commit that is not supported.

*Ingestion.* Seven entries hold every case of the plan: a prompt, a response
with one call that is answered, one in two entries, one whose call never is.
Every cut of the transcript is a window some run reads. Without locks two runs
overlap at every step, with no upsets then: the code promises nothing for a kill
in an overlap.

*View.* Two flows and one act of another terminal at any step: each property is
about one flow and what changed since the screen was drawn, and the first flow
leaves the screen as a flow leaves it. 1.5 million states.

*Harness.* Two commands at a time, of which each may install, uninstall or
repair, two worktrees to be added beside the main one, one kill or failed call.
`MaxStarts` 2 lets both commands run once. 2.3 million states.

*Consent.* Every pair of the nine requests, and a third after them. The proofs
cover any number of processes, keys and conversations.

*Launcher.* The lock of a killed launch makes two rivals break it at once with
two live launches. Three attempts at the lock, where the code has five, are
enough to exhaust them. The cache of release 2 is damaged and that of 3 whole;
`newer` may be in a container, whose records are judged foreign. 413 thousand
states.

### Fairness

- `settling` (`FairSpec` of `Publication`). A process that runs takes its next
  step, so the steps of an operation are weakly fair. Publication is tried again
  forever: the pre-push hook starts it at every `git push`, and by hand. Each try
  competes for the lock with other commands, so its start is strongly fair. So is
  the typed phrase, since a user may decline any number of times, and under
  auto-push there is no phrase to type. Captures, shares, pulls by choice,
  crashes and losses are not fair. Another clone may win the race for the ref,
  but each win needs a tree that differs from its base, and the thoughts and
  tombstones run out; with an unbounded supply of foreign pushes the code
  promises nothing.
- `rewrites`: a hook that runs takes its next step, and files age. That hooks go
  on being started is no fairness but a premise of the two properties (`[]<>`).
- `squash_scans`: a scan that runs takes its next step; that scans go on being
  started with the cursor at HEAD is a premise of the property.
- `consent_records`: a process takes its next step. Weak fairness suffices for
  locks although others contend, because `MaxStarts` leaves no endless supply of
  others.
- `launches`: one launch is one process that Node runs on; installations are not
  fair, and one that stops with the lock is waited for only so long.

## 4. What is proved

All theorems are for any values of the constants that satisfy the assumptions of
their module. These type the constants and keep the "none" values apart;
`FirstAssumption` of the launcher also says that what was in the directory at
first was put in in the order the code uses. In particular the number of clones, processes, hooks, runs,
launches, commits, thoughts, events and faults is not bounded by the proofs.

### Publication (`PublicationProofs`)

| Theorem | States |
|---|---|
| `Typing` | `Spec => []TypeOK` |
| `RecordsHold` | `Spec => []RecordsInv` |
| `PublishedHolds`, `RedactionHolds`, `TombstonesHold`, `OperationsHold` | its four safety properties |
| `Refinement` | `Spec => AppendOnly`: the destinations implement `ThoughtLog` |

The inductive invariant `RecordsInv` is `TypeOK` with `PublishedIsHeld`,
`RedactionProven`, `TombstonedNotServed` and `InProgressSound`. None of the first
three is inductive: that marking records `published` tells the truth depends on
what the process carries from the answer it got, and that a landing commit loses
nothing depends on how the candidate was built, several steps and other actors'
steps earlier. `InProgressSound` says just that for each phase: a projection
knows every tombstone of its base (so a delete on the wire is never undone), a
candidate holds all its base holds and every redaction recorded here, an
accepted push is at the destination. It survives other actors' steps because
only the lock's holder adds tombstones for a destination, and because
destinations only gain. `LateLanding` is covered by the same clause for the
messages in flight. There is one lemma for each group of actions, each with one
step for each action, on shared lemmas about steps that leave a part alone.
`Refinement` follows from two: a landing publishes (`LandingPublishes`), and only
landings move a destination (`OnlyLandingsMove`).

### What a clone's store says (`PublicationProofs`, second part)

| Theorem | States |
|---|---|
| `DeletionHolds` | `Spec => []DeletedStaysDeleted` |
| `SuppressionHolds` | `Spec => []SuppressedForSource` |
| `CapturedFirst` | `Spec => []CapturedInv`: what is stored, sent or served anywhere was captured |
| `ProjectionGranted` | `NothingReplaced /\ Spec => []ProjectedIsGranted` |
| `ServedHolds` | `RecaptureHarmless /\ ~LateArrival /\ Spec => []ServedIsRecorded` |
| `UnsharedHolds` | the same premises `=> []UnsharedIsAbsent` |
| `UnshareRefused` | the same premises `=> UnshareRefusesPublished` |

The premises are on constants only, and each is needed: TLC has a counterexample
without it.

- `NothingReplaced`: no two thoughts belong to one passive request. Without it a
  replaced thought comes back under an old share (part 5).
- `RecaptureHarmless`: there is one destination, or no thought comes from a
  transcript. Without it a redaction for one destination makes a clone forget what
  it published at another (part 5).
- `~LateArrival`: a push given up by its client is not applied later. Part 5 says
  why the code cannot do without it.

The first two theorems are short inductions: every way into the store looks at
the tombstones in its own transaction. `CapturedInv` is what "a random id is
drawn once" comes to in the whole system: a thought not yet minted is in no row,
no candidate, no push under way, no tree and nobody's history. It is used wherever
a capture might otherwise meet an old record of the same id.

`ProjectionGranted` needs `GrantsFollow`: shares are of stored thoughts, the name
under which each of them is stored is granted, and so is each conversation whose
future is shared. Captures, imports and shares add to shares and rows at once, and
the lemmas go through them one at a time. While a push waits for its phrase the
grant cannot be taken back, since an unshare needs the destination's lock.

`ServedHolds` is the main one. The inductive invariant `AccountInv` says that what
a clone sent is held by the destination, and that what is still served of it and
is the clone's own has a record and a share (`Accounted`). For each phase of an
operation `PushAccounts` says what the records are before they say it themselves:
before the uncertain records are cleared, whatever remains at the destination is
recorded as published, so that clearing forgets only what is not there; what is
projected has not been sent before, is shared when it is chosen and recorded when
it is sent. Most actions of others are `Steady`: they take no record and no share
from a thought that is accounted for (`SteadyStep`). Importing, landing, marking
and deleting have a lemma each. `UnsharedHolds` follows, because what is served
has a share, and `UnshareRefused`, because it has a record.

### Rewrite inbox (`RewriteInboxProofs`)

| Theorem | States |
|---|---|
| `NoRewriteLost` | `Spec => []AcceptedNotLost` |
| `SourcesArePresent` | `Spec => []SourcesPresent` |
| `AuthorityInherited` | `Spec => AuthorityFromSource` |
| `ThoughtsFollow` | `ResultsAreNew /\ Spec => []FollowsRewrites` |

For the first, `InboxIInv` adds what makes removal safe: a hook about to remove a
file has recorded it or found it malformed, a hook sets aside only what does not
parse, and what was delivered parses. For the second, `SourceIInv` says that each
event cites a source that is there, and that a deleted thought has none; the
comparison inside the transaction (`Unchanged`) is what carries it over a
deletion between reading and writing. The third uses the types in both.

`ThoughtsFollow` has a premise on constants: what a rewrite makes was not there
before and is made by no other rewrite. Git names a commit by its content, parents
and time included; two rewrites with one result, of which one is recorded before
the other is done, would break the property. Its invariant `FollowInv` says that
what hooks handle and the store records was done by Git, in the order of the
commits (`DoneByGit`); that all which a recorded rewrite follows on is recorded
(`Settled`), unless it was read too early (`late`); and that a hook about to apply
has something to derive for each old commit that a thought explains, unless that
thought was linked when the hook had read (`ReadWhole`).
A link makes a thought explain one commit more, and is marked for the rewrites of
that commit that have been read (`LinkMarks`). A merge can only make a thought
explain the results of its own rewrite; by the premise, a recorded rewrite starts
from none of these, or it would be settled and this one recorded already. So what
followed goes on following.

### Squash scan (`SquashScanProofs`)

| Theorem | States |
|---|---|
| `CursorSkipsNothing` | `Spec => []NoCommitSkipped` |
| `WaitingKept` | `Spec => PendingKept` |

`NoCommitSkipped` speaks of the first parents between `anchor` and the cursor: a
set that holds the cursor and, with each commit but the anchor, its first parent,
and all of which has been queued. Since first parents do not cycle, that is the
chain itself. It is inductive as it stands, because the cursor is a compare-and-set
in the transaction that queues: a scan that read another cursor than there is
queues nothing and moves nothing, whatever it did before. A walk adds just the
commits from its old end to its new one (`WalkLeads`), and a walk that does not
reach back begins a new one. `PendingKept` is a property of steps: the trimming of
the queue takes only what is resolved (`TrimmedKeeps`).

### Session lock and ingestion (`TranscriptIngestProofs`)

| Theorem | States |
|---|---|
| `LockExclusive` | `LockSpec => []Exclusive` |
| `IngestImplementsLock` | `Spec => LockSpec`: ingestion uses the lock only as it is meant |
| `IngestExclusive` | `Spec => []Exclusive`, from these two |
| `NoRecapture` | `Spec => []DeletedStaysAway` |
| `IngestTyped` | `Spec => []TypeOK` |
| `CursorPassesRecorded` | `Spec => []NothingSkipped` |
| `RecordingIsWhole` | `Spec => []RecordedWhole` |
| `ThoughtsChain` | `Spec => []OneChain` |
| `CommitsAreLinked` | `Spec => []CommitsLinked` |

`LockIInv`: who has locked an inode has it open and owns its lock, and who is
inside has open what the path names; so two that are inside would own the lock of
one inode. That others do not move the path from under who is inside is the step
that needs the comparison in `Check`: only an owner removes the file. `NoRecapture`
is inductive by itself: the batch excludes local tombstones in its own transaction.

The other four hold for every transcript that is a session. `SessionOK` is that
assumption, and says how Claude Code writes one: the entries of a response
next to each other, one answer to a call, nothing that moves the conversation on
between a call and its answer, no call and answer on the two sides of a stop, and
a commit named by the answer to a call. TLC evaluates it on the session of the
run. Nothing else about the transcript is assumed, nor how reads cut it.

Where a window starts is what they rest on. `Windows`: a run reads from the
beginning or from the first entry of a response, since the cursor is only ever put
there (`NextStarts`). Such a window has a planned response from its first entry
to the last, with every answer (`PlannedWhole`), and what it reacted to unless the
window starts with it (`StimulusWhole`); with a response it plans all that begin
before it (`PlannedBefore`). `IngestIInv` adds the history: what begins at the start of
a window or before it is recorded or was deleted (`DoneTo`), and a run about to write
its batch has in hand, or finds recorded, all it planned (`DoneByRuns`). It does not
need the exclusion: runs that overlap, are killed or find the store busy keep it,
because a batch and its cursor are one transaction. Hence `NothingSkipped`, and
`RecordedWhole`, since what a window cuts off at its start is no longer captured from
it. `BatchChains` looks for the parent of each new thought in the same window:
the nearest before that is stored is either in it or what it starts with. Where what
it starts with could not be stored, the chain breaks, and only there; `OneChain`
says so, which the run, where all can be stored, never meets.

`CommitsLinked` needs the exclusion. A commit is made by the last response that
begins before it is named (`MakesFollows`), and a window verifies just the commits
its planned responses made (`VerifiedMade`). `LinksInv` says that all that began
before a commit made by a response up to the cursor is linked (`LinkedTo`), or that
the one run that is at its links has the commit before it and the thought in hand
(`Completes`), with all the commits between (`InOrder`); so the earliest it still has is
the first since each thought it gives it. One step of it each for the batch, the
read of what floats and the link has a lemma; all else only takes thoughts away and
adds links (`LinksGrow`) or has nothing to do with them (`LinksElsewhere`).

### Hooks and settings (`HarnessSetupProofs`)

| Theorem | States |
|---|---|
| `HarnessTyped` | `Spec => []TypeOK` |
| `WrittenStaysOut` | `Spec => []Uncommittable` |
| `UserTextOutlives` | `Spec => []HooksKept` |
| `NewWorktreesCaptured` | `Spec => PromiseKept` |
| `UninstallIsFrank` | `Spec => []UninstallTells` |

All rest on `Sound`: the types, and what the place of a command or hook says of
its locals (a command that writes a hook file has one to write, a hook runs in its
own worktree, a file that is being written is there). Each theorem adds one
invariant.

- `Unseen`: a hook that is about to write was told by Git that the file is
  ignored, and what makes it so (the line, the branch) does not change back.
- `Filed`: what each command holds of a hook file, as it read it or is to write it,
  has the user's part, unless the file is `misread` (`Keeps`); while one writes,
  what it is to write has the block (`Holds`, `Rightly`). The user's part survives
  `WithBlock`, and what others appended between (`UpgradeKeeps`, `OverHas`). That
  `WithoutOurs` keeps every part that is not cvc's is shown by the first place at
  which it would not (`OthersStay`).
- `Promise`: while a promise stands, the record names a binary, the capture is
  acknowledged and a command has been through with the post-checkout hook, which
  then has its block by `Filed`; a worktree that is owed has nothing of its own,
  nor has what anybody read there, so its hook goes through to its end and nobody
  writes its entries away. An install that has done its part carries the promise
  to its end (`Pledged`).
- `Telling`: beside a quiet uninstall there are no installs (`Alone`), so a
  worktree that comes to carry entries after the record was cleared has a hook
  that had read the record before, and that is in `amid`; and a worktree looked
  into and not named does not come to carry any (`Knows`). It needs `Unseen` and
  `Promise`, which say what others still under way may write.

### Consent (`ConsentRecordsProofs`)

| Theorem | States |
|---|---|
| `RecordsKeepLedger` | `Spec => LedgerSpec`: each step is one decision of the ledger or none |
| `AdoptionPrecedesUse` | `Spec => []AdoptedBeforeUse` |

`IInv` is `TypeOK` with `Held` (each stage has its locks), `Fresh` (what a process
read of `privacy.json` is still in it while it holds the lock) and `Untouched`
(what a publication counts on is not moved away). `Cleared` adds, for each stage
of an adoption, what has been moved already and stays moved.

### View (`ConversationsViewProofs`)

| Theorem | States |
|---|---|
| `OneDestinationShown` | `Spec => []ShownForRemote` |
| `PhraseOnShown` | `Spec => []AskedOnShown` |
| `UnshareNotInVain` | `Spec => []UnshareCanHappen` |
| `ShareCoversAsked` | `Spec => SharedAsAsked` |

`UnshareCanHappen` is inductive only together with the lock: the flow has it from
before its check, and who publishes needs it. `AskedOnShown` needs the history
`interim`: what changed after the flow's last look is not held against it.

### Launcher (`ReleaseLauncherProofs`)

| Theorem | States |
|---|---|
| `PublishersExclude` | `Spec => []OnePublisher` |
| `LaunchesNeverDowngrade` | `Spec => NeverDowngrades` |
| `LaunchesRunTheirRelease` | `Spec => []RunsAtLeastPackage` |
| `DeadRecordsGo` | `Spec => []DeadRecordGoes` |

The argument has three layers. `LockInv`: who holds the lock made the directory;
who is about to remove it made it, or emptied it of the record of a dead launch,
and only one did, because a claim renames a record to a name of its own. On that,
`SeenUnderLock` and `NoneNewer`: what a publisher saw under the lock is still so.
On that, `Versions`: the three files go in `cvc` last, so whatever is seen beside
a `cvc` is at least as new, also after a kill half way.

`DeadRecordsGo` adds `InHand`: once somebody judged it, a record of the only
launch that was killed is the one that some launch is about to rename or has
renamed and is about to remove. A rename that finds the record gone loses it to
whoever renamed it, who has it in hand under the new name.

### What is only model-checked

Liveness (`UncertainSettles`, `RedactionDelivered`, `WaitingIsRecorded`,
`RedeliveredIsAccepted`, `NotStarvedAtHead`, `CommandsEnd`, `LaunchEnds`) is beyond
TLAPS. Every other property of a passing run is stated by a theorem above. `TypeOK`
is proved where an invariant rests on it (Publication, SessionLock and
TranscriptIngest, HarnessSetup, ConsentRecords, ReleaseLauncher) and documents the
types elsewhere.

## 5. What the models showed

### Disagreements

TLC finds each violation; `PROJECT.json` quotes the lines that say otherwise.

- `dangling_parent`: a thought deleted on one clone makes every later pull of a
  reply to it fail there; the foreign key refuses the child.
- `two_redactions`: two clones redact the same thought. The import takes the
  other's tombstone for proof that one's own was delivered, without comparing
  `deleted_at`; the projection compares everything, and every later push of the
  second clone is refused (`sync.rs:1321`).

### Limits

What the properties leave out because the code does not promise it, or promises
it elsewhere and does not keep it. The exceptions in the properties (`late`, `belated`,
`torn`, `misread`, `withdrawn`, `happened`, `past`, `quiet`, `behind`, `interim`) stand for
these.

Publication:

- A tombstone pulled from one destination deletes what the clone has from another.
- Replacing a passive capture deletes its rows and leaves its shares
  (`db.rs:1199`). If another destination serves the replaced thought, a pull brings
  it back in the imported conversation, and the old share has it sent to the first
  destination, for which that conversation was never shared, while
  `cvc-cli/README.md:241` says that pulling from one remote authorizes nothing for
  another. TLC finds it with one clone, two destinations and two passive captures
  of one request, as a violation of `ProjectedIsGranted`.
- A redaction for one destination deletes the records of the thought for all
  destinations (`db.rs:1624`) and leaves no local tombstone, so a transcript read
  again captures it anew. An unshare for another destination, which serves it, is
  then accepted, while `cvc-cli/README.md:237` says that it is refused. TLC finds it
  with one clone, two destinations and one thought from a transcript, as a
  violation of `UnshareRefusesPublished`.
- A thought not seen by the fetch is taken for absent, though the failed push
  that carried it may still land, on a server that applies a push after its
  client gave up. So `UnsharedIsAbsent` is checked without late landings.
- The authority of a squash event is the union of its sources' (`db.rs:2416`),
  while that of a rewrite event is its one source's. A squash event can so be
  authorized for a destination for which one of its sources, itself a rewrite
  event, is not; a projection holds the event and not that source, and its
  closure check refuses it (`sync.rs:1923`), at this push and every later one.

Rewrites and squashes:

- The inbox is replayed in the order of hashes (`hook.rs:334`), and two hooks
  race: a rewrite applied before the one it follows on finds no sources, is
  recorded all the same, and the thought is lost (`late`).
- A thought that is linked to a commit when the commit's rewrite has been read or
  recorded never explains the new commit (`belated`). The comparison in the
  transaction is of what was read (`db.rs:1930`), so it does not miss a source that
  was added since, and a batch is derived from once. This needs no race: an agent
  commits A, amends it to B, and the hook records the rewrite with no sources;
  later, ingest finds A in the transcript and links the floating thoughts to it
  (`claude_code/links.rs:53`), since it links to every commit the transcript names
  and does not ask for `rewrite_batches`.
- A thought with a tombstone for whatever destination is no source of a rewrite
  (`db.rs:2484`), also when its transcript has brought it back. The model has no
  thought that returns: `Delete` is for good there.
- The inbox is replayed only after the new batch is in it (`hook.rs:378`): 64
  waiting files refuse every new rewrite before any is replayed. An error while a
  file is set aside ends the replay (`hook.rs:347`). A batch whose new commit was
  pruned waits for ever.
- A share granted after a rewrite does not reach the events derived before.
- A queue full of targets that never match takes no newer one, and the cursor
  stays (`db.rs:2234`). A range whose sources changed after it was observed leaves
  its target waiting.

Ingestion:

- An operator's `cvc ingest` of a live session records an unfinished response as
  it is, for good. Interleaved entries of one response close it early.
- Links are made after the batch: a run cut off between the two leaves them to
  the post-commit hook (`ingest.rs:5` says that a run that fails changes nothing).
- Where files cannot be locked, overlapping runs can link one thought to two
  commits (`session_lock.rs` calls the overlap harmless).

View and consent:

- While a phrase is typed, other terminals may change what it is about. An
  authorize answered then resets an auto-push granted meanwhile.
- Two forms of user information for one location: the rows of the second are
  never merged. Rows an earlier version writes after an adoption are orphaned.
- Auto-push turned off while a push runs does not stop it. An unshare holds its
  operation lock while a person types.

Hooks and settings:

- Two commands at once may each append the block; of the copies in a core hook
  one stays outdated. A kill between cutting a hook file and writing it loses the
  user's part (`hooks.rs:376`). So does, with nobody killed, a command that reads in
  between: two commands find the file cut and append a block each, a third reads the
  two blocks, the first writes the user's part back, and the third rewrites the file
  from what it read (`misread`), while `hooks.rs:76` says that the user's content
  stays untouched.
- An uninstall does not name a worktree whose post-checkout hook had read the
  record before it was cleared, while `harness.rs:642` says "name them all"; an
  install that races it still prints that new worktrees are captured.
- An edit of the settings by Claude Code between reading and renaming is lost.

Launcher:

- A kill between making the lock directory and writing the record, or between
  removing the record and the directory, leaves an empty lock, which is judged
  foreign: later launches run from the cache until someone removes it.
- An `install.sh` that gets a signal cleans up twice and may remove another's
  lock the second time. It may also put in an older release, or leave siblings
  older than `cvc` for a while.
- Two launches of one release: one that found the cache invalid may remove the
  one the other has just renamed in; nothing is run then.
- A kill half way may leave siblings newer than `cvc`, which a release in between
  replaces.

## 6. What is left

Planned, in this order:

1. *The evidence in a destination's tree*: links, derivation events, ranges and
   by-commit indexes in projection, validation and import, and the plan of a hard
   redaction: every tree a clone builds is one every clone accepts.
2. Theorems about what is added then.
3. Migrations of the store's schema by processes that open it at once.
4. The language server's binding and rebinding of a workspace, with the
   extension's watcher.

Not modelled, and not planned: secret scrubbing and the budgets of a stimulus
(regular expressions and sizes over text); discovery of directories and reading
of Git objects; drawing, words and the terminal of the view (most of
`cvc-cli/src/tui` by lines: pure functions from state to text); the read-only
commands; the reviewer, a browser client that writes nothing; the shell hooks of
the Claude Code plugin, which start `cvc`; `install.ps1` and the Windows paths of
the launcher.
