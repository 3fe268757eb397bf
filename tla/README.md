# rlsbl in TLA+

A verification development for `rlsbl`, the release orchestrator under
`src/`: TLA+ modules of the parts of the program whose correctness depends on
order, failure and concurrency, TLC configurations that check them on small
instances, and TLAPS proofs for every value of the constants.

`rlsbl release run` bumps a version, commits it, pushes it as a *candidate*,
waits for CI's verdict on it, finalizes the changelog, archives the release
file, tags the verified commit, pushes the tags, creates the GitHub Release and
publishes.  Each effect is followed by a record in a durable in-progress file,
so that `rlsbl release resume` can finish what a failure or a crash
interrupted, and `rlsbl release abandon` can give it up.  All of it happens on a
branch on which people and agents go on committing.  That protocol is the core
of the system, and the core of this development.  Around it stand the commands
that prepare a release (scaffold, dependencies, changelog), that act on releases
already made (undo, retract, deprecate, yank, backfill), and that move or
rewrite what releases are recorded in (rename, extract, absorb, scrub,
declassify, reconcile, migrate).  They share one shape: a plan read from the
repository, a sequence of writes any of which may be the last, and a rerun that
must recognise what its predecessor did.

## Inventory

| Component (`src/internal/`) | State it keeps | Operations | Correct when |
|---|---|---|---|
| `release` (execution) | the walk's position, the checkout, candidate and push flags, in memory | `Run.Release`, `Resume`, and the twelve steps of `steps.go` | what is tagged is what CI verified; archive, tags and Release name one commit; nothing of anybody else's is lost or shipped undescribed; a stopped release can be finished |
| `release` (checkout) | a worktree, the branch ref, the working tree's files | `Advance`, `TakeBack`, `UnwindLastAdvance` | the branch moves only from where the release left it; edited files are never overwritten |
| `runstate` (in-progress) | `.rlsbl-build/in-progress.json`: version, steps done and failed, pin, commits created, candidate | `Complete`, `Fail`, `Save`, `Load`, `Clear` | a step recorded as done has had its effect |
| `runstate` (lock) | a lock file, a table of this process's holders | `Acquire`, `Release`, `Unheld` | one command at a time; the probe agrees with the lock |
| `runstate` (retry, batch plan) | durable plan files | load, save, clear | a retry or batch is finished on the commits it names |
| `releaserecord` | archives and the fate of every version | `WriteArchive`, `DecideVersion`, transitions | a version has one fate; a never-released version is not released |
| `changelog` | unreleased and released entry files, the documents made from them | add, amend, edit, remove, remap, finalize, un-finalize, coverage, generate | every user-facing commit is described exactly once; no entry is lost to a second writer; what is generated tells what the files say |
| `ci` | none durable: runs, jobs and check runs on GitHub | `Watch`, `DispatchRunAll`, `LatestCheckRuns`, `Aggregate` | a pass means every workflow of the commit passed; a wait ends |
| `releaseops` | the record, tags, Releases | abandon, undo, retract, deprecate, yank, retry, edit | each can stop part-way and be run again; nothing is destroyed without a record |
| `batchrelease` | a batch plan, one candidate for several releasables | the two passes | every member adopts the one verified candidate; the plan is finished or said not to be |
| `workflows`, `scaffold` | rendered files, their merge bases, the scaffold state, the routers | scaffold, sync, generation, path filters | people's edits survive; files, routers and declarations agree; a rerun changes nothing |
| `git`, `github` | refs, remotes | fast-forward pushes, leased tag pushes, reads | origin is only ever fast-forwarded; tags are never moved |
| `pipelines`, `publishrules`, `registry` | registries | publish from the checkout, check publications | a version is published once |
| `historyrewrite`, `lifecycleops` (declassify) | rewrite states, mapping files, events | scrub, reconcile, declassify | records name the commits of the branch they are pushed with; nobody's fresh work is forced away; nothing proprietary is made public |
| `historyrewrite` (backfill) | archives | backfill | archives are what the history says, in one run or in several |
| `migration` | the old layout, the new one | migrate records | nothing vanishes between the two layouts |
| `monorepo` | declarations, records, members' trees | init, add, remove, cleanup, rename, extract, absorb | no commit holds a releasable under two names; nothing that moves is left behind; a command that stopped can be completed |
| `lifecycleops`, `declarations` | the lifecycle-and-license record | transitions, retirement | the record fits the declarations and is only ever added to |
| `devsync`, `checks` (dependencies), `rewrite` | manifests, locks, environments | `dev sync`, `dev install`, built-in tests, `rewrite uv-path-sources` | an overlay stays where it was declared; what is committed installs |
| `checks`, `targets`, `cli`, ... | none | parsing, generation, judgments | pure functions of the repository |

How they interact: a command takes the run lock for its whole length (those
that do; `Workspace` and `Scaffold` say which do not), a release enters a
release checkout (a worktree) at the branch's tip, and talks to the working
repository only through `Checkout.Advance`; to origin through fast-forward and
leased pushes; to GitHub through calls that can time out after having worked;
and to its own future self through the in-progress file, the release record and
the commits on the branch.  The commands after the fact and the rewriting
commands meet the release through the same record, tags and branch.  Nothing
else is shared.  Other people's commits, pushes, merges and tags are not
excluded by the lock.

The hard behaviours are therefore: a crash between an effect and its record; a
rerun that meets its own half-done effects; commits that land between a guard
and what it guards; a push whose outcome the client does not know; a CI run that
never starts because nobody's push triggered it; two ways out of a stopped
release, resuming and abandoning, tried in any order; records that name commits
by ids a rewrite changes; and a plan read long before it is applied.
`PROJECT.json` lists them as hazards, each at its line.

## Modules

| Module | Models |
|---|---|
| `Release` | one releasable on one branch: `release run`, `resume` and `abandon`, with everybody else and with crashes |
| `Checkout`, `AtomicAdvance` | how a release moves the branch and writes the working tree people use; what such a move promises them |
| `RunLock`, `ReleaseLock` | the advisory lock and the check that probes it; what the lock promises |
| `CIWatch` | the wait for CI on a candidate, and the publish workflow's own wait |
| `BatchRelease` | several releasables released on one candidate |
| `PastReleases` | undo, retract, deprecate, yank, edit and retry |
| `Rename` | `monorepo rename-releasable` |
| `Conversions` | `monorepo extract` and `monorepo absorb`, in any sequence |
| `History` | `release scrub`, `transition declassify` and `release reconcile` |
| `Scaffold` | `scaffold` and the sync of the routers |
| `Workspace` | `monorepo init`, `add`, `remove`, `cleanup`, the transitions and retirements |
| `Dependencies` | locks, floors, environments and overlays; the preflight's questions about them; the re-lock of a bump |
| `Migration` | `migrate records` |
| `Changelog` | the changelog's commands, its documents, coverage and the pre-push check |
| `Backfill` | `release backfill` |
| `ReleaseProofs`, `CheckoutProofs`, `RunLockProofs`, `CIWatchProofs`, `BatchProofs`, `RenameProofs`, `DependenciesProofs`, `WorkspaceProofs` | theorems about the module each extends |
| `ReleaseInvariants` | the invariants of `Release` its proofs rest on |
| `MC*` | the small instances |

The modules meet where one takes for granted what another shows.  Every module
has one command at a time: `RunLock` is why (`MutualExclusion`).  `Release` moves
the branch in one step, refused when somebody moved it: `Checkout` shows the code's
two writes are that step to everybody else (`MovesAtOnce`), and where they are
not.  `Release` takes a verdict on the candidate: `CIWatch` shows what a green one
is worth (`VerdictsStand`).  `BatchRelease` takes a member's release in few steps:
`Release` has them in full.  `Release` finalizes a changelog that covers the range:
`Changelog` shows such a file describes it (`ReleasedDescribes`).

`MCCheckout`, `MCBatchRelease`, `MCConversions`, `MCMigration` and `MCWorkspace` check two or
three components in one run.  They are disjoint sums: a variable (`about`,
`moves`) chosen in the initial state says which component the behaviour is of,
the others' variables stay as they were, and the properties are those of each.
Nothing is hidden by that: the components of a sum share no state in the code
that either models.

### Release

A commit is its position in `log`, and carries the set of commits it contains
(`anc`).  What the code reads from a tree is derived from that set: the version
files' version is the last bump's, the changelog's unreleased entries are those
no finalize commit took, the archive is the archive commit's.  The operators
`VersionOf`, `ArchivedAt`, `Uncovered`, `Unreleased` and `Triggers` are those
reads.

`st` is the in-progress file (`runstate.InProgress`): the version, the steps
done and failed, the pin (`base commit`), the recorded candidate, the commits
the release created and an owed `run_all` dispatch.  `pc`, `mode`, `step`,
`tip`, `head`, `last`, `pushed`, `attempted`, `cand` and `entry` are the memory
of the command that holds the lock, lost in a crash: where it is, the
checkout's own commit, where it left the branch, what a discard would take back,
what it pushed, and the state a resume found.

Each step of `execution.walk` is an action or a short chain of them, split
where something else can happen in between or where the process can die:

* entry: `Enter` (lock, clean tree, checkout), `Validate` (version decision, branch not
  behind origin, tag free), `Begin` (changelog coverage; state recorded), `Adopt` (what a resume
  adopts or defers);
* the guards: `EntryGuard`, the first conjunct of `Judge`, `Gate` and the first of `PushBranch`, the four moments at which
  `GuardForeignCommits` runs;
* commit and advance: `Bump`, `FinalizeChangelog` and `Archive` commit in the checkout;
  `Advance` moves the branch by compare-and-swap; `Record` completes the step;
* the candidate: `Candidate`, `Judge`, `Push`, `Dispatch`, `Verify`;
* tags and the rest: `Tag`, `AllTagged`, `PushBranch`, `PushTag`, `AllTagsPushed`, `GitHubRelease`,
  `PublishPipelines`, `Deploy`, `PostReleaseHooks`, `Epilogue`;
* failure: `Stop` is `execution.stop`, `Discard` and `Clear` are the two halves of
  `execution.discard`, `StepError` is any other failing call, `Crash` the death of the process;
* abandon: `Abandon`, `CommitAbandoned`, `DropState`, each a point where it can stop;
* everybody else: `CommitOnBranch`, `ChangelogAdd`, `CommitOnOrigin`, `Pull`, `StrayTag`.

What is abstracted:

* The validation of targets, pipelines, visibility and hooks, and the commit of
  generated documentation, are folded into `Begin`'s refusal and the
  `"step-error"` fault.  The release file is present exactly while the version
  is not archived.
* A commit of kind `work` needs a changelog entry; `aside` needs none and
  touches no path the members' CI filters match.  An `entry` commit describes
  the work it contains that nothing described before.
* `version-bumped` is recorded in the step that makes the bump commit; no tag,
  push or other actor can come between the two in a way a property sees.
* `Advance` is one step here; the compare-and-swap and the restoring of files
  are two in the code, and in `Checkout`.
* A tag push, a GitHub call and a publication either happen or fail before any
  effect (`StepError`); a push of the branch also times out, with or without
  effect, or loses its report.
* Tags of a version are created in any order; the code's order is one of them.

### Checkout

`log` is the commits with their trees, `branch` the release branch, `wt` the
working tree with its index, `on` whether HEAD is the release branch.  A file's
content is named by who wrote it.  `tip`, `head` and `last` are `Checkout.Tip`,
the checkout's HEAD and `Checkout.last`; `edit`, `torn` and `mine` are history:
what a person wrote and has not committed, the files a broken-off move left
behind the branch, the commits of this attempt.

`Enter`, `MakeCommit`, `Push`, `StepFails`, `Finish` are the release around it.
`Advance` is `Checkout.Advance` down to the compare-and-swap, `SwapRef` that,
`RestorePaths` the writing of the files and the remembering of the move.  `Stop`
is `execution.stop`, `discard` and the conditions of `TakeBack`; `UnswapRef` and
`UnrestorePaths` its two writes.  `RestoreFails` and `UnrestoreFails` stop after
some files were written; `Crash` anywhere.  People `Edit`, `Undo`, `CommitEdits`
and `Switch` between any two steps.

The branch, HEAD and the uncommitted changes are read in one step although
git is called three times: a commit made in between is caught by the
compare-and-swap, and an edit or a switch in between is the `"window"` hazard,
which stands for all of them.  The index is taken with the working tree.  People
commit exactly what they edited, and on the release branch.  The other branch
they switch to stays at the root commit.

### RunLock

`flock` is the descriptor the kernel's lock belongs to, `locks` a process's
entry in the table of the same name, `mu` its `heldMu`.  `Acquire` runs through
`Look` (under `heldMu`: nest, or go on), `Create`, `TryLock`, then `Granted` if it
waited, and `Register`.  `heldMu` is held from `Look` to `Register`, except while
`"blocked"`; one that waited takes it again only in `Register`, as the code does.
`Probe`, `TryProbe`, `EndProbe`, `LookAgain` and `Report` are the `lock` check:
`ExistsUnheld`, then the in-progress states, which `WriteState` stands for.
`Crash` ends a process: its memory goes and the kernel drops its lock.

Left out: a blocking `flock` that fails, and an unlock or a close that does.  A
`Lock` is released once, by the goroutine that took it.

### CIWatch

`run` is what GitHub knows of each run: its phase and its jobs' check runs with
their conclusions and start times.  `RunStarts`, `Concludes` and `RerunByHand`
are GitHub and other people.  `pc`, `todo`, `known`, `deadline`, `retried`,
`results` and the rest are the memory of `WaitForCIGreen`: `NotYetEver`,
`NotYet` and `Discovered` are the discovery with its grace; `NextRun`,
`WatchTimesOut`, `WatchPasses`, `WatchEnds`, `StateUnreadable` and the reads the
watch of one run; `Rerun`, `RerunRefused` and `FailureStands` the classified
retry; `LateLook` and `LateLookLeftOut` the second listing; `Aggregate` and
`FetchChecks` the verdict and the verification of the projects' own jobs.
`PublishJob` is the generated `wait-for-ci` job, which elects check runs by its
own script.  `Elected` and `LatestCheckRuns` are that election, `Newer` its order.

Failures' texts are abstracted to their three classes, chosen when a run is
classified.  The preflight and the confirmation of publish runs, and the
correlation of dispatched runs, are left out.

### BatchRelease

`hist` is the branch, `origin` how much of it origin has, `st` each member's
in-progress state in five stages, `file` and `plan` the batch release file and
the durable plan.  `BeginRun`, `ValidateAndPlan` and `FinishPlan` decide from
them; `Skip`, `Join`, `CommitMember` and `DiscardMember` are the first pass,
`PushCandidate`, `RecordPushed` and `Gate` the candidate, `AdoptCandidate`,
`Finalize`, `Tag`, `PushTag` and `Publish` the second pass, `ArchiveIfComplete`,
`CommitArchive`, `ClearPlan` and `PushArchive` the end.  Between runs people
`WriteFile`, `EditFile`, `ReleaseAlone`, `ResumeAlone`, `Abandon` and `Work`.
A run holds its releasables as sets and takes them in `Order`, the order
`ReleasableOrder` gives (`First`).  A file's `id` stands for its blob: which batch's it
is, and how often it was edited.
`KilledCommitting` is a kill while a member's release commit is made; it leaves
a tag whose commit lacks the bump (see the divergences), so `BatchIsSound`
excepts the members it `cut`.

### PastReleases

A command is its plan (`p`) and its position (`pc`); each write is an action in
the code's order, and `Stop` may end the command after any of them.
`UndoEvidence` and `UndoCleared` are the evidence an undo weighs: what the
registries, the Go proxy and the publish runs say, any of which may not answer.
`Known`, `FreshRetraction` and `ResumedRetraction` are what a retraction finds.
The release itself (`ReleaseBumps` to `ReleaseEnds`), its publish runs, the Go
proxy and a person who discards or commits what a stopped command left are the
environment.  Registries hold a version from a commit, and never give it up.

### Rename and Conversions

`Rename` is one pass of `rename-releasable` from `Begin` to `Finish`, with what
each step asks to find out what is left; `written` is the set of paths this run
wrote, since what it commits is that.  `Kill`, `LoseAnswer` (the push of the
alias that worked and was not reported), `Restore` (a person puts the files
back) and `Release` come between.

`Conversions` has two repositories, `"w"` and `"s"`, and each commit of the
releasable has an id in either.  `ObserveExtract` and `ObserveAbsorb` make the
plan; the steps of `ExtractSteps` and `AbsorbSteps` are its items in order.
`CarryEntries` and `CarryArchives` map the ids of records through the commit
map; `Healing` says when an absorb takes up a merge it finds.  `Meanwhile` lets
people commit while a command runs; the run has it `FALSE` (see the
divergences).

### History

A commit is `<<work, gen>>`, a piece of work as the gen-th rewrite wrote it.
`Rewriting` and `Squashing` are safegit's rewrites as the code calls them, with
the tags and the journal they leave; `Compose` and `Resolve` follow a commit
through several.  `Steps(op)` is the order of a scrub's and a
declassification's durable steps, `Resume` and `RequireCleanup` what a rerun
checks before it repeats one.  The reconcile is `WritePlan`, `StartApply` and the
kinds of write, in the order of `Before`; a plan item is checked against
what origin holds when it is applied.  `Recorded` tags are judged against their
release commit; `Unclaimed` ones, of versions recorded unrecoverable, against the
local tag.  Other clones push, move and delete tags; a person prunes objects, pulls
and rewrites with safegit directly.

A scrub and a declassification read before they ask for the lock: whether a result is
saved, what HEAD is against a saved scrub, and, for a declassification, the plan of
squashes and the leases, which it also saves (`scrub.go:241`, `declassify.go:183-196`).
`ScrubReads`, `BeginDeclassify` and `Resume` are that part.  `TakesLock` then takes the
lock at once if it is free, or makes the command `waiting` with what it read;
`Acquires` gives it the lock, and it goes on with that (`Enters`), whatever the holder
saved, rewrote or left meanwhile.  `overtaken` remembers that it differed.  Two things are
closed: a command that finds the lock free takes it before another step happens, and the
lock goes to the one who waits before anybody new takes it.  A reconcile takes the lock
first and reads after.

### Scaffold

A text is a function from hunks to values, and the three-way merge goes hunk by
hunk.  `Plan` decides every file (`PlannedText`, `BaseOf`, `PlanRefused`), then
`WriteText`, `WriteBase`, `RemoveOrphans`, `RemoveOrphanBases`, `InstallHooks`,
`WriteState`, `CommitWritten`, `Sync` and `Suppress` are its writes.  People
edit, resolve, delete, commit, declare, remove the hook, lose the bases and
upgrade rlsbl between runs.  `torn` holds the files for which a stop left a text
newer than its base.

### Workspace and Dependencies

`Workspace` has each file's value in the working tree and at HEAD, and a
person's change beside it.  `Valid`, `MembersValid`, `ReleasablesValid` and
`DeclarationsValid` are the rules a command's result is held to.  `Add`,
`Initialize`, `Remove`, `Retire`, `Cleanup` and the transitions (`Lifecycle`,
`License`, `Classify`, `Identity`, `UnversionedTag`) begin a command, the rest
are its writes, `AddFails` and `InitCommitFails` its rollbacks.  GitHub's answer
about visibility is a nondeterministic refusal.

`Dependencies` has uv as it is called: `Resolvable`, `Pin`, `Relocked` and
`Synced` say what a lock and a sync make of manifests.  `Loadable`, `Mergeable`
and `ModeKnown` are the rules of the two local-only files; `StaleLock`,
`FloorLags` and `SkewRefuses` the preflight's questions; `Tested` and
`TestedExactly` what the test suites leave in an environment.  `OwedLocks` are the
locks a bump makes stale.

### Migration, Changelog and Backfill

`Migration` is one plan over a whole old layout: every class of old file has its
`Convert...` operator, `Writes(stages)` is the planned tree, `Refused` the
union of the refusals, and `WritePlanned`, `Regenerate`, `RemoveOld`, `Commit` apply
it.  The constant `Repositories` is a handful of layouts made so that each
conversion and each refusal has a case.

`Changelog` has the entry files, the documents and GitHub's texts; `run` is the
one command at work (`RunLock` is why).  `Needing`, `HashFindings`,
`RangeFindings`, `OrphanFindings`, `BatchCommitFindings` and `UserFacingProblem`
are the checks; `CoverageOf` and `PushCoverage` the two coverages.
`RewriteFile` is the compare-and-rewrite; `WriteLine` a person or an agent that
appends beside it.  `Rewrite`, `CollectGarbage` and `HookLost` are history
rewrites, with the post-rewrite hook that follows them or is lost.

`Backfill` decides every archive from tags, bump commits, changelog files and
what archives state already: `TagFor`, `Evidence`, `DeriveBump`,
`RecoverDescription`, `PlanVersion`.  `ApplyVersion` writes one archive; people
declare versions never released, record tags and delete them between, also
between a plan and its writes.

## Runs

Bounds are in the `.cfg` files under names that say so (`Max...`).  State counts
are distinct states.

| Run | Instance | States | Checks |
|---|---|---|---|
| `release` | 2 versions of two tags in a workspace, 1 foreign commit of either kind, 6 commits, 2 faults: crashes, and pushes and verdicts that fail | 3.46 million | `NothingUndescribed`, `OneStoryUnlessReopened`, `NeverReleasedStays`, `DiscardLeavesNothing`, `TagHasBump`, `NoHopelessWait` |
| `settles` | 2 versions of two tags, 3 faults of every kind but a death between the two halves of a discard, nobody else committing; fairness | 0.36 million | `TagVerified`, `StepsAreTrue`, `Settles` |
| `adoption_past_archive` | 1 version, 2 foreign commits, crashes | | a divergence: `OneStory` |
| `lock_and_checkout` | two goroutines of a process and one of another, 4 calls; 2 files of which one in scope, 4 commits, 2 edits, crashes, failing writes; fairness | 0.47 million | `KeepsPromise`, `WaitsEnd`; `EditsKept`, `FilesFollowBranch`, `MovesAtOnce` |
| `ci_watch` | 2 runs of one workflow, 3 check-run names, budget 3, grace 1, 1 lost answer, 1 rerun by hand; fairness | 1.81 million | `VerdictsStand`, `WaitIsBounded`, `WaitEnds` |
| `batch_and_past_releases` | a batch of 2 releasables, 2 versions, 8 commits, 2 stops, 1 deed; an npm package or a go module, 2 versions, 2 workflows, 6 commits, 1 stop; fairness | 1.27 million | `BatchIsSound`, `SettledStays`, `BatchEnds`; `TagsAreRecorded` |
| `rename_and_conversions` | 3 versions of which 2 shipped, 3 stops; 5 works, 2 versions, 2 conversions, 2 stops; fairness | 0.27 million | `NamesAreTrue`, `MovesEnd`; `RecordsResolve`, `CarriesAll` |
| `history` | 2 versions, two proprietary periods, 4 works, 2 rewrites, 1 act of another clone, 1 stop and 1 wait for the lock, two of the three together (`MaxMishaps`; a clone that lacks a tag, which another made, counts as one); fairness | 1.01 million | `PublicIsSquashed`, `OriginIsRespected`, `RewriteEnds` |
| `scrub_overwritten` | the same without the other clone | | a fault: `FinishedByItsScrub` |
| `records` | three old layouts; one or two released versions, 3 entries, 2 releases, 2 commands; two histories to backfill, 2 kills, 3 edits, 4 deeds of people and stops together | 0.40 million | `Faithful`; `ReleasedDescribes`, `Told`, `NeverLost`; `RunAgainAgrees` |
| `workspace_and_scaffold` | five starts, 2 commands, 1 stop, 1 edit; a go and a python member, 2 hunks, 2 versions of rlsbl, 3 runs, 1 act, 1 stop | 2.44 million | `RecordFitsDeclarations`, `UncommittedKept`, `RecordKept`; `PublishFollowsMode`, `RerunIsSafe` |
| `dependencies` | 3 members, 2 checkouts of one package, 2 versions, 3 edits | 0.37 million | `OverlaysKept`, `CommitsInstall` |

Why the bounds are enough for the interesting cases to happen: two versions are
needed for one release to be mistaken for the next; one foreign commit for every
race of a guard, two for one adopted and one deferred; two faults for a failure
during the recovery from another, which is what every resume after a crash is.
Two runs of one workflow are a run and its late successor, three check-run names
a bare name and a matrix.  Two members of a batch are one finished and one
stopped; two conversions an extract and an absorb of what it made.  Two rewrites
are a rewrite of rewritten commits, three scaffold runs one that is stopped, one
that recovers and one that must change nothing.
Failing steps are a fault of `settles` and not of `release`, where other people's commits
multiply them: that tags, archive, record, durable state and CI waits survive both together is
proved (`TagsHaveBumps`, `StoriesAgree`, `NeverReleasedIsFinal`, `StepsStayTrue`,
`DiscardsLeaveNothing`, `WaitsCanPass`), each without the faults its theorem names.

The properties, by module:

*`Release`*

* `TagVerified`: a tag, here or on origin, is on a commit a release saw CI pass on.
* `NothingUndescribed`: a tagged commit holds no user-facing commit without an entry,
  unless it also holds the version's own finalization (a candidate made anew after it).
* `OneStoryUnlessReopened`: archive, tags and the Release's marker of a version name
  one commit, unless a refusal after the finalization had a resume adopt more.
  `OneStory` is the same without the exception: the run `adoption_past_archive` refutes it.
* `NeverReleasedStays`: a version recorded as never released gets no tag, Release or archive.
* `DiscardLeavesNothing`: with nothing in progress, origin holds no bump the record does not account for.
* `TagHasBump`: a tagged commit contains its version's bump.
* `StepsAreTrue`: a step recorded as completed has had its effect, and the epilogue
  finds no step forgotten.
* `NoHopelessWait`: the CI wait is entered only where the members' jobs ran or will,
  except on a candidate somebody else's push put on origin outside the members' paths.
* `Settles`: a release that is resumed, or whose abandon is finished, ends.

*`Checkout`, `RunLock`*

* `EditsKept`: what a person wrote and did not commit stays in the working tree.
* `FilesFollowBranch`: between releases every file is HEAD's or an edit, but for
  those a broken-off move left.
* `MovesAtOnce`: `Checkout` implements `AtomicAdvance`.  The mapping writes out the
  move under way: from the compare-and-swap on, the files are what they will be.
  A crash there is the abstract `Tear`.
* `KeepsPromise`: `RunLock` implements `ReleaseLock`.
* `WaitsEnd`: an Acquire that waits ends.

*`CIWatch`*

* `VerdictsStand`: a green verdict rests on every run that was listed when the
  wait looked last, a red one on something GitHub concluded, and the publish
  workflow's own job refuses no commit the release accepted unless something
  started since.
* `WaitIsBounded`: a workflow is run again once, and no wait outlasts the budget by
  more than the retry's and a call's time.
* `WaitEnds`: every wait ends in an answer.

*`BatchRelease`, `PastReleases`*

* `BatchIsSound`: tags are on verified commits holding their bump, a recorded
  release commit is on the branch whichever other member stopped, and a member is
  released at the version planned for it.
* `SettledStays`: a verified commit stays the release's; an archived batch is done.
* `BatchEnds`: a batch that is run again gets done.
* `TagsAreRecorded`: no tag without a record, no tag destroyed without an audit,
  nothing in a registry that the record denies.

*`Rename`, `Conversions`*

* `NamesAreTrue`: no commit holds the releasable under two names, and only
  versions that shipped under the old name say so.
* `RecordsResolve`: every record names commits by the ids of its own repository,
  and tags and archives of a version agree.
* `CarriesAll`: what leaves a repository is in the other, and what was absorbed
  kept its entries and archives.
* `MovesEnd`: a rename or an absorb that was interrupted is completed by running it
  again.

*`History`, `Backfill`, `Migration`, `Changelog`*

* `PublicIsSquashed`: a repository is public only when origin holds no commit of a
  proprietary period.
* `OriginIsRespected`: a rewriting command forces away nothing other clones pushed
  since it first read origin, pushes records that name its own commits, and a
  reconcile forces a tag only onto what rewrites made of the commit it named, and writes
  only what its plan names.
* `RewriteEnds`: a stopped rewrite is finished by the same command.  This and the records
  of `OriginIsRespected` are excused once a command that waited went on from a result
  that was no longer the saved one (`overtaken`; see the divergences).
* `FinishedByItsScrub`: a saved scrub goes only when all its steps are done, or for a
  result that continues it.  The run `scrub_overwritten` refutes it.
* `RunAgainAgrees`: killed backfills, run again, write what one run would have, and
  leave nothing to write.
* `Faithful`: nothing of the old layout vanishes, nothing is filed under another
  release, every name is the one of its day.
* `NeverLost`: an entry leaves the changelog only by the `remove` that took it.
* `ReleasedDescribes`: a released file describes its range and no other.
* `Told`: documents and GitHub Releases tell what the files tell, once no command is
  at work or owes them.

*`Scaffold`, `Workspace`, `Dependencies`*

* `PublishFollowsMode`: after a completed run the publish workflows and the routers
  are those of the declared modes.
* `RerunIsSafe`: edits survive, conflicts are about edits, an untouched member's
  rerun changes nothing.
* `RecordFitsDeclarations`: an open entry of the record names something declared or
  retired, wherever a command stopped.
* `UncommittedKept`: a person's uncommitted change is neither lost by a rollback nor
  committed by a command.
* `RecordKept`: no period or tag is lost from the committed record, and confidentiality
  ends only by declassification.
* `OverlaysKept`: a declared overlay survives syncs and test runs for the members
  that share its environment, and the sentinel tells the truth.
* `CommitsInstall`: the locks a release leaves resolve their manifests at the new
  versions, and a converted floor is published.

### Fairness

`Settles` assumes weak fairness of the walk (the process runs), of entering a
resume, of `changelog add` and of pulling, which is the operator doing what the
program's messages ask, and strong fairness of *finishing* an abandon that
stopped part-way: the documentation tells the operator to run it again
(`release-workflow.md:165`), and a resume may hold the lock in between any
number of times, so weak fairness would allow it to starve.  Faults are bounded,
as a release whose CI fails forever never ends.  Foreign commits are excluded:
with them the property is false: an entry added beside a changelog that is
finalized and not recorded so blocks every resume.

`WaitsEnd` assumes weak fairness of every goroutine: the scheduler runs it, and
commands release what they took (each does, in a `defer`).  The kernel's queue is
not fair by contract; with finitely many calls every holder ends and a
waiter is served.

`WaitEnds` assumes weak fairness of the waiting process alone, and none of GitHub:
time passes in its own loop (`time.Sleep`).  `BatchEnds` assumes that the batch is
run again until it is done and that a member stranded by hand is resumed, both
what the program's messages ask for.  `MovesEnd` assumes the same of the rename and
the two conversions; the absorb's observation is strongly fair, since commits of
others may make it refuse any finite number of times, and so is a person's cleaning
of the working tree weakly.  `RewriteEnds` assumes that a running rewrite goes on, that a command
that waits for the lock gets it once it is free, and strong
fairness of rerunning it and of pruning, because either can be disabled by
another command's turn.

`CHECK_DEADLOCK FALSE` is set where the system stops once its bounds are
spent: every version released, every call made.  `rename_and_conversions` always
has something to do or a `Rest`, and is checked for deadlock.

## Divergences

What follows is where the code, followed step by step, does something that a
document, a comment or a message of the repository says it does not, or that a
careful reader of it would not expect.  Two have runs of their own:

| Run | What happens |
|---|---|
| `adoption_past_archive` | a guard's refusal at the CI gate takes `changelog-finalized` back after the archive exists (`run.go:400`); the resume adopts, and tags another candidate than the archive names, against `release-workflow.md:159`; or, adopting nothing new, ships a commit an earlier resume deferred without the entry `:157` says every adopted commit has |
| `scrub_overwritten` | a scrub that found no saved result waits for the lock behind one that rewrites, saves its result and stops; it rewrites again and saves over it, so what the first rewrite left to repair and push is nobody's (`scrub.go:241`), against the comment at `scrub.go:318` |

The fault behind each of the others is left out of the passing runs (a hazard
not in `Faults` or `Hazards`, a constant such as `Meanwhile`, `Kills` or `Overlap`, or an
exception the property names), which say what holds without it.  Documents are in
`src/.strictmetadata/docs/`.

*Release.*

* A resume past the finalized changelog publishes and deploys the branch tip, with
  the commits it deferred (`execute.go:826`; `release-workflow.md:159`).
* A crash between the two halves of a discard leaves a state naming a bump the
  branch no longer has; the resume skips it and tags a commit without it
  (`execute.go:245`; the comment at `:287`).
* A candidate push that worked and whose report was lost is discarded as one that
  did not (`execute.go:212`; the comment at `:264`).
* When a timed-out candidate push had landed and somebody's commit that matches no
  member's CI paths follows it, the resume takes origin's tip for its candidate and
  judges the window from the release's first commit (`guards.go:192`), though no run
  of that commit covers it: the wait can only time out, which the comment there says
  is refused instead.  So it is when somebody else's push put such a commit on origin
  and a resume adopted it (`NoHopelessWait` excepts it), and when a discard after a lost
  report dropped a dispatch still owed.  With lost reports a resume can be refused for ever.
* A crash between the candidate's push and its record makes a resume refuse a
  candidate it should dispatch CI for.  A changelog that is finalized and recorded as
  failed blocks every resume once somebody adds an entry, and lets a deferred commit
  ship undescribed (`NothingUndescribed` excepts it).

*Checkout and lock.*

* With `"switch"`, taking an advance back writes the release branch's files into
  another branch's working tree.  With `"window"`, an edit saved after the advance's
  look is overwritten, where `release-workflow.md:78` says the advance refuses.
* An advance that moved the branch and could not write a file is forgotten by the
  discard, which reports success though the branch holds its commits.
* A goroutine can be refused over its own process's lock, between the kernel's grant
  and its registration, or over the `lock` check's own probe; the check calls a release
  interrupted that started after its probe.

*CI.*

* The hour a rerun is given is not taken from the budget (`watch.go:511`), and a run
  that passed as its watch timed out is reported as a timeout (`watch.go:410`).
* A rerun by hand still under way when a newer run skipped the same check is judged by
  the older verdict (`checks.go:159`, against `waitforci.go:29`); `VerdictsStand` excepts it.
* `ConfirmRunsStarted` takes an early empty answer for an answer (`publishruns.go:245`).

*Batch.*

* The plan's targets are not enforced: an ordinary release, resume or abandon of a
  planned member between runs makes the batch decide anew and never archive, against
  `monorepo.md:140`.  The message that nothing was released (`run.go:248`) cannot be
  reached.  A stale plan and an undo can archive a file early.
* A kill while a member's release commit is made leaves an attempt whose tag is on a
  commit without its bump; `BatchIsSound` excepts the members it `cut`.

*Past releases.*

* An undo is cleared when one registry says unpublished and another does not answer.
  Its failing push returns before the in-progress state is cleared.
* A retraction stopped between its `go.mod` commit and its records is refused on rerun,
  against `release-workflow.md:264`; followed by a release, that version ships a `go.mod`
  that retracts it.  Reruns accept records nobody committed.
* A retry that dies between two dispatches dispatches the first again.
* `release-workflow.md:251` says deprecating or yanking the latest version is refused; the
  code marks it.
* Undoing a version released a second time is always refused: two bumps name it.
* An un-finalization killed between its write and its remove doubles the entries when
  it is run again (`files.go:368`).

*Rename and conversions.*

* A foreign tag that already has the alias's name is pushed as the alias.  A collision on
  origin is found after the local tag was made.  A release between the rename's commit and
  its alias leaves the boundary version without one.  `shipped_as` and routers written by an
  interrupted run are not committed by the next (`rename.go:381`, `:541`); the alias can be
  pushed while its record is on disk only.
* An extract looks again for uncommitted work before it deletes, and not at HEAD: with
  `Meanwhile`, a commit made while it runs is deleted with the rest.
* A source that releases between a stopped absorb and its rerun leaves a version file
  stating a version that never arrived, and its new commits are not merged.  An absorb killed
  between its commit and its record loses the `release_commit_remap` event.
* A project born in the workspace, extracted and absorbed back is refused over its own old
  tags, and left declared without files (`absorb.go:377`, against the message at `:381`).  Another
  repository at a path once absorbed is refused for ever.

*History.*

* With `Kills`: a run that dies between repairing the records and saving that step finds
  nothing to repair, and never commits the repair; one that dies between the rewrite archive
  and its path is refused for ever, as is one that dies between the commit and its step
  (`release-workflow.md:275` says to run it again); one that dies before the result is saved is never
  pushed.
* A command that waited for the lock goes on from what it read before.  Beside
  `scrub_overwritten`: a resumed run that waited behind another run of the same command
  writes an older result back over a newer one, which then repeats steps that were done,
  or is refused for ever over an archive that exists; and it clears, at its end, a result
  that is not its own.  The branch is pushed with records that name replaced commits
  (without the exception for `overtaken`, `OriginIsRespected` and `RewriteEnds` fail).
* A scrub begun over a declassification that stopped after a squash does not repair the
  records that squash left; `OriginIsRespected` excepts them.
* A scrub does not ask whether origin holds commits it has not fetched.  Any commit on top of
  a stopped scrub strands it.  Neither scrub nor reconcile looks for the other's stopped state.
* A scrub pushes local tags origin lacks, and does not move tags only origin has.  After a direct
  safegit rewrite it leaves the earlier rewrite's release commits dangling.
* A reconcile that says there is nothing to do leaves a stale Release marker
  (`reconcile.go:352`), and never pushes the branch it healed.

*Scaffold and workspace.*

* A conflicted file, scaffolded again unresolved, is committed with its markers
  (`scaffold.md` says it is left uncommitted).  A base rebuilt from the last scaffold commit is the
  file with the user's edits (`finish.go:235`), so the next merge drops them; `RerunIsSafe` excepts it.
* An edit that an unchanged run recorded is later deleted as an unmodified orphan
  (`state.go:24`).  A sync deletes an edited publish workflow that scaffold refuses to delete; the sync that ends a
  retirement does so for every remaining member that publishes nothing (`retire.go:93`,
  `sync.go:223`), which `RetireTouches` leaves out.
* The declarations are read before the lock (`scaffold.go:101`): with `Overlap`,
  `PublishFollowsMode` fails.  `monorepo sync`, `add`, `init`, `remove` and the transitions take no lock.
* A retirement stopped after its record is refused on rerun.  `add` over edited declarations
  commits everything but the declaration.  A record's earlier uncommitted changes are committed
  with the next.  An edit made while an add runs is reverted or committed with it.

*Dependencies.*

* The preflight runs in the release checkout, where the `*.local-only` files are absent, so
  `dev-overlay-drift` is skipped in every release, against `dev-workflow.md`.
* After a bare `uv sync` wiped an overlay while both files agree, the test suite runs in
  overlay mode against the wheel.  In a shared environment it keeps only the tested members'
  overlays, against the comment in `testrunner.go`; a `dev sync` of one member, and `dev
  install --target venv`, disturb another's.
* A `rewrite uv-path-sources` that stopped after its conversions says there is nothing to
  convert when run again, and never declares the floors.
* A resume runs neither the skew guard nor the preflight over the commits it adopts.  A minor
  bump of a releasable whose members floor one another ships a floor behind the sibling.

*Changelog and backfill.*

* A write to a released version's file whose commit fails names only the commit to make; the
  GitHub Release is not rewritten after it (`changelog.md` says it is).
* An amend reads the archive's fate before it takes the lock.  A killed amend leaves its write
  uncommitted, and its rerun is refused as already covered; `generate` then commits documents that
  tell an entry HEAD's files do not have.
* An edit, or a remap of squashed commits, can make two entries of one commit, type and value.
  The pre-push coverage reads the working tree's files of every version.
* After a release that stopped past its finalization, `changelog add` makes the resume refuse,
  with the advice to delete the released file by hand (`files.go:346`).
* A tag recorded as unversioned, or of a closed identity, that a live format spells is
  adopted as a release.  The bare `v1.0.0` counts as every releasable's bump (`backfill.go:648`).  A
  backfill with `--auto-commit` killed after its archives never commits them.  An override `X.Y.Z`
  applies to every releasable that holds it.

*Migration.*

* A second entry that names the same commits is dropped (`prerelease.go:145`).  A run stopped after
  the old layout's removal says on rerun that everything is converted, uncommitted
  (`build.go:92`).  `on-disk-layout.md:68` says an active period is written; none is.  A name freed
  by a rename and taken by another makes both claim it.

## Proofs

`ReleaseProofs` proves, for any number of versions, tags, foreign commits and
faults, from the one assumption `ReleaseAssumption` (the types of the constants):

| Theorem | Says |
|---|---|
| `StructureHolds` | `Spec => []Structure` |
| `TypeCorrect` | `Spec => []TypeOK` |
| `TagsAreVerified` | `Spec => []TagVerified` |
| `TagsAreFixed` | `Spec => TagsNeverMove` |
| `OriginOnlyFastForwards` | `Spec => OriginFastForwards` |
| `StepsStayTrue` | without a death between the two halves of a discard, `Spec => []StepsAreTrue` |
| `TagsHaveBumps` | without it, `Spec => []TagHasBump` |
| `NothingShipsUndescribed` | without it, `Spec => []NothingUndescribed` |
| `StoriesAgree` | without it and nobody taking a version's tag, `Spec => []OneStoryUnlessReopened` |
| `NeverReleasedIsFinal` | without the two, `Spec => []NeverReleasedStays` |
| `DiscardsLeaveNothing` | without that death and lost reports of pushes, `Spec => []DiscardLeavesNothing` |
| `WaitsCanPass` | without the two, `Spec => []NoHopelessWait` |

`TypeOK` is not inductive: that a candidate is a commit needs the checkout's
tip to be one, and that histories stay well-typed needs that a commit contains
itself and nothing later (`LogOK`), and that every ref the code moves names a
commit (`RefsOK`).  `Structure` is their conjunction, and `LogGrows` (every
commit's history is what it was) carries what a commit's tree holds from one
state to the next.

`TagVerified` needs two more conjuncts.  `Placed` says which step the walk is at
where the program counter alone does not.  `Green` says that past the verdict
the recorded candidate is one CI passed on, in the state *and* in the copy a
resume took of it, because a discard puts that copy back; and that past the gate
the candidate in memory is too.

The last seven are about what a tree holds, so about histories.  They leave out the
death that `half_discard` is about (`"crash-in-discard"`): after it the record is
false, and the code goes by it (see the divergences).  `Greatest` and `Least` give the
newest and oldest commit of a set, from the well-foundedness of the naturals;
`HasStays`, `HasBelow` and `EffectStays` say what a commit on top of another holds.

* `Accounted` is the invariant under `StepsAreTrue` and `TagHasBump`.  Every step of the
  state has had its effect (`Effect`, `Told`) where the release stands (`Standing`: its
  checkout's tip, or the branch), and every step of the copy a resume took, where it
  stood `Before`; `Told` needs only be true of the state again once a discard is over.
  It needs where HEAD, tip and branch are to one another (`Position`), which steps the walk
  has behind it (`Behind`), that the candidate and whatever is recorded for one hold
  the bump (`Bumped`), that histories are closed (`LogClosed`), and that an
  archive's commit names one that exists (`ArchivesName`).  `TagsPlaced` puts each tag
  on a commit with its version's bump.
* `Shipping` is the one under `NothingUndescribed`.  What a release pins is a commit whose
  range is described; the commits it makes are nobody's work; the candidate a guard
  passed, or a verdict was given on, is described or finalized; so are tags.
* `Storied` is the one under `OneStoryUnlessReopened` and `NeverReleasedStays`.  `Kept` says where everybody leaves the
  branch and origin: archives on top of their version's bump and finalized changelog,
  one fate per version, origin's fates on the branch.  `Backing` says that what a discard
  takes back is the release commit, before its push was seen to succeed; so no discard
  takes an archive back.  `Holding` is what the walk has recorded where it stands.
  `Labelled`, the conclusion, is that tags and the Release name only what the branch
  archives, or a commit made anew.  The branch and the state a walk starts from are tied by
  `Settled`: a state whose version is archived is past the verdict with the archived
  candidate as its own, or with one made anew.

* `Traceless` is the one under `DiscardLeavesNothing`.  Origin has no bump the branch has
  not, and the commit a discard would take back is not on origin while its push is not
  known to have succeeded (`OriginFollows`); every bump on the branch or in the checkout is
  of the version in progress or of one the branch records a fate for (`BumpsOwned`); and
  whatever ends a release - epilogue, discard, abandon, or a new run over a state left
  complete - ends it with its version's fate on the branch, or its bump gone (`Endings`).
* `Hopeful`, with `Shipping`, `Holding` and `Traceless` in it, is the one under
  `NoHopelessWait`.  Until a release is sealed, a state with its commit made is `Awaited`: where
  it stands level with origin, the members' CI ran there or a dispatch is owed there, in the
  state and in the copy a discard puts back (`Promised`).  Origin without CI is behind the
  checkout (`Reached`), what the checkout has since the pin is the release's own (`Mine`), and the
  window a candidate is pushed in calls for a run or the verdict on it owes one (`Windowed`).

`StoriesAgree` leaves out commits made anew because there the code does tell two stories
(`adoption_past_archive`).  It and `NeverReleasedIsFinal` leave out the fault `"stray-tag"` because a tag
somebody else made is itself another story, which the code meets by stopping.

`CheckoutProofs` proves, for any files, scope, hazards and
bounds, from `CheckoutAssumption`:

| Theorem | Says |
|---|---|
| `StructureHolds`, `TypeCorrect` | `Spec => []Structure`, `Spec => []TypeOK` |
| `EditsSurvive` | without `"window"`, `Spec => []EditsKept` |
| `ForeignSurvives` | `Spec => ForeignNeverLost` |
| `DiscardsAreClean` | `Spec => []DiscardIsClean` |
| `FilesFollow` | without `"window"` and `"switch"`, `Spec => []FilesFollowBranch` |
| `MoveIsOne` | without `"window"` and `"switch"`, `Spec => MovesAtOnce`: `Checkout` implements `AtomicAdvance` |

`Structure` adds to the types that whatever the release is about to move onto, or
back from, is its own commit made on where it left the branch (`Position`).
`EditsKept` needs that an uncommitted edit is in no commit, or a file could look
clean, and that no file of a move under way holds one (`Unsaved`).
`DiscardIsClean` needs what the attempt made so far at each place (`Accounts`).
The refinement needs `Standing`: HEAD stays on the branch while a move is under way
or can be taken back (`Attached`), the compare-and-swap that succeeds finds the
move's files clean (`Ready`), and while they are written the branch has what
they will be and they have what they were or will be (`UnderWay`), whatever
people do beside.  `StepsMoveAtOnce` then takes the actions one by one: the swap is
the abstract `Move`, a death or a failing write after it the abstract `Tear` over the
files not written, the writes themselves stutter.

`BatchProofs` proves, for any releasables, order, bumps and bounds, from
`BatchAssumption`:

| Theorem | Says |
|---|---|
| `BatchSound` | `Spec => []BatchIsSound` |
| `BatchSettles` | `Spec => SettledStays` |

`BatchIsSound` is far from inductive.  The invariant, `IInv`, has three parts.

* `Structure` is where things stand.  `Floor` is the commit below which nothing is taken
  back from here: the batch's pin in the first pass, the commit below a fresh release's
  bump, the tip otherwise; above it there are release commits only, of the releasables the
  run holds (`Grounded`).  Origin, verdicts, tags and candidates are at or below it
  (`Pinned`), so no discard takes back what they name.
* `Sound` is what a release carries.  A state in progress is of the version its commit
  bumped to, its recorded candidate holds that bump, and past the verdict CI passed that
  candidate (`Carried`); a tag that is here only is of a release about to push it
  (`Unpushed`); `Held` says the same of the releases a run holds at each of its steps.
* `Plans` is what the plan is worth.  A run follows the plan of the file it runs from and
  knows what of it is released (`Follows`); what nobody touched is at the version the plan
  found or the one it takes it to, at the tip and at every commit a discard could go back
  to (`Kept`); a plan is of this file or of one that was archived, and one of this file
  plans past what the file found, or can never be finished (`Filing`).  The last is why a
  plan left over from an archived file does not archive the next one.

What a commit or its taking back does to a version is in a few lemmas about `VersionAt`
(`VersionStays`, `VersionTop`): the version at a commit is what the last bump at or below
it wrote, whose existence rests on the well-foundedness of the naturals.

`CIWatchProofs` proves, for any finite number of runs and any workflows, jobs, budgets
and lost answers, from `CIWatchAssumption`:

| Theorem | Says |
|---|---|
| `WaitsAreBounded` | `Spec => []WaitIsBounded` |
| `VerdictsAreRight` | `Spec => []VerdictsStand` |

For the first, `Allowed` is the budget, what the retries so far cost and the late look;
`OnTime` keeps clock and deadline below it at each place of the wait, and a workflow
is retried once because a second attempt is recorded before it is made.  For the second,
`VInv` adds to the types (`VTypes`) that the runs listed are the runs that started
(`Watched`), that a failed run is done (`FailedIsDone`), that a result still is what
GitHub says unless somebody ran it again (`StillSo`), and what a verdict rests on
(`Earned`).

`RunLockProofs` proves, for any processes and goroutines that satisfy
`RunLockAssumption`: `StructureHolds`, `TypeCorrect`, `MutualExclusion`
(`Spec => []Exclusive`), `NoOrphan` (`Spec => []NeverOrphaned`) and `PromiseIsKept`
(`Spec => KeepsPromise`: `RunLock` implements `ReleaseLock`).  `Exclusive`
follows from the kernel's lock having one owner only if every entry's descriptor
is that owner and belongs to the entry's process (`Owned`), also while a
goroutine has been granted the lock and is not registered.  The promise needs that
an entry's depth counts the Locks its process has out, which is said by
cardinality (`Counted`): a `Lock` out is a token, the depth the number of its
process's tokens.

`RenameProofs` proves, for any versions and stops, from `RenameAssumption`:
`NamesStayTrue` (`Spec => []NamesAreTrue`), `TagsNeverMove`, `FinishedIsStamped` and
`PushedAfterWritten`.  The invariant says that the commit of the rename is whole
or not made (`WholeHead`), what each step finds done by those before it, in this run or an
earlier one (`StepInv`), which versions shipped under which name (`PastInv`) and what the
alias's tag, record and push tell of one another (`AliasInv`).

`DependenciesProofs` proves, for any members, packages, checkouts and versions, from
`DependenciesAssumption`: `OverlaysStay` (`Spec => []OverlaysKept`) and `CommitsInstallable`
(`Spec => []CommitsInstall`).  It needs that a sync nobody disturbed has installed all it
does not still owe (`Installed`), and that what a conversion read from the registry stays
published (`Probed`).

`WorkspaceProofs` proves, for any members, releasables, licenses, days and repositories a
command may find, from `WorkspaceAssumption` (a repository found has a record its
declarations fit):

| Theorem | Says |
|---|---|
| `RecordFits` | `Spec => []RecordFitsDeclarations` |
| `RecordIsKept` | `Spec => RecordKept` |
| `UncommittedIsKept` | `Spec => UncommittedKept` |

Its invariant follows each command from what it found (`cmd.before`) to what it planned.
The order of the two writes is what it turns on: a command that declares more writes the
declarations first, and the record it found fits both (`Growing`); a retirement, which
declares less, writes the record first, and that fits both (`Retiring`); an init has
written its own files only (`Initializing`), so what it puts back is all it wrote.  That
a later record comes after an earlier one (`Follows`: each period stays or is closed, and
a confidential repository stays so) is a relation each edit of the record satisfies
(`ChangeFollows`, `RecordCreatedFollows`, `RetiredRecordFollows`) and that composes
(`FollowsOn`).

TLC checked each strengthening too, on its module's instance.

Only model-checked: all liveness (`Settles`, `BatchEnds`, `WaitEnds`, `WaitsEnd` and the
rest); and the properties of
`PastReleases`, `Conversions`, `History`, `Scaffold`, `Migration`,
`Changelog` and `Backfill`, whose inductive invariants are not worked out.  `ENABLED`, liveness under fairness and induction over
recursive data are beyond TLAPS's installed provers.

## Not modelled

* Parsing and rendering: declarations, release files, changelog text, version
  files, command lines, workflow YAML, templates.  They are functions of their input,
  and the models take their results.
* The protocols of registries and GitHub, and what `gh`, `git`, `uv` and `safegit`
  print: they are modelled from how the code calls them, and marked external.
* `release status` and the release-file commands, reports and previews: they read, and
  change nothing.
* The hooks' own order, the secret scan, and the checks that judge the repository without
  changing it, beyond those the modules name.
* Of each modelled component, what its section leaves out; also: the preflight and the
  confirmation of publish runs; dispatch correlation; npm and go lock files; `.gitignore` and
  `pyproject.toml` line merges; `scaffold --target`; the adoption of an upstream's history; identity
  changes, tag companions and dry runs of the history commands; abbreviated commit ids and several
  map sources of the changelog; registry names and visibility reads of the migration.
* Windows the models close: another command between a rewriting command's reading and its taking
  of a lock that was free; a line written between the two writes of a finalization or
  between a rewrite's comparison and its rename; a hand-written line while a release is in flight.

## Plan

What would add most next, in order:

1. `ReleasePromise`: a version goes from unreleased to released or never released, once,
   with one commit; `Release`, `PastReleases` and `BatchRelease` implement it under refinement
   mappings.
2. Proofs of what `Release` is only model-checked for, and of the conversions' and the
   workspace's records.
3. The preflight and the confirmation of publish runs, composed with `CIWatch` and the last
   steps of `Release`.
4. `upstream`: the adoption of another repository's history.
5. Components of the sums composed where they meet: a scrub beside a stopped release, an
   absorb beside a changelog command.
