# niwa: a verification project

niwa creates *instances* (a directory under a workspace root with the
workspace's repositories cloned and its agent configuration materialized),
runs agent sessions in them, and removes them when their sessions are gone. It
is a command-line program with no daemon: every command, hook and background
worker is a process of its own, and what they share is files. This directory
models how those processes interact, checks the models with TLC, and proves
with TLAPS what can be proved for every workspace and any number of processes.

Paths below are relative to `src/internal/` unless they start with `docs/`.

## Contents

1. The system
2. Plan
3. The modules and the code
4. The runs
5. Bounds
6. Fairness
7. Proofs
8. What the runs found
9. Not modelled

## 1. The system

### 1.1 Components

| Component | Where | State it keeps | Operations |
|---|---|---|---|
| instance create and apply | `workspace/apply.go`, `applyplan.go`, `state.go`, `destroy.go`, `scan.go` | `<instance>/.niwa/instance.json`, the repositories | `Create`, `Apply`, `DestroyInstance`, `EnumerateInstances` |
| session mapping store | `workspace/session_map.go`, `cli/session_records.go` | `<root>/.niwa/sessions/<id>.json`: session, instance, failed on-reap runs | write, read, list, delete |
| launch records | `workspace/launch_store.go`, `cli/launch_records.go` | `<root>/.niwa/launches/`: the session a dispatch launched | write, checked read, sweep |
| per-instance lock | `cli/instance_lock.go`, `workspace/file_lock.go` | an flock on a file beside the instances | one non-blocking try; release on return or death |
| reap | `cli/reap.go`, `on_reap.go`, `removal_gate.go` | none between runs | select, re-read, destroy, run on-reap, settle |
| resume | `cli/resume.go` | none between runs | resolve, check, restore, map, launch, capture, undo |
| destroy | `cli/destroy.go`, `destroy_preflight.go`, `destroy_session.go` | none between runs | preflight, confirm, remove sessions, remove instance |
| dispatch | `cli/dispatch*.go` | pending and retain markers in the instance | provision, record, launch, capture, map, roll back |
| lineage and authority | `workspace/lineage_store.go`, `workspace/authority_record.go`, `authority/`, `lineage/` | who dispatched whom, with what authority | create, complete, remove an entry; walk; decide |
| retask | `cli/retask.go` | none between runs | stop, wake, verify a worker under the lock |
| watch | `watch/`, `cli/watch*.go` | a state file of pull requests reviewed | poll, dispatch or continue, record |
| session hooks | `cli/instance_from_hook.go`, `session_from_hook_cmd.go` | mappings, pending markers | provision and map when a session starts |
| config snapshots | `workspace/snapshot*.go`, `config/swaprecover/` | the config directory, a staging directory | fetch, carry over, swap by two renames, recover |
| worktree sessions | `worktree/`, `worktreeguard/`, `cli/session_lifecycle_cmd.go`, `reap_worktrees.go` | worktrees and session state in an instance | create, end, sweep |
| attach and detach | `cli/sessionattach/` | a lock and a sentinel per session | attach, detach |
| trust files | `claudetrust/`, `workspace/{claude,codex}_trust.go` | another program's configuration; a mkdir lock with a staleness takeover; grants in the instance's state | add and remove entries under the lock; record, undo and withdraw grants |
| credentials and vault | `vault/`, `workspace/credentialpool.go`, `fallback.go` | none | resolve with provider fallback |
| materialization | `workspace/materialize.go`, `override.go`, `worktree_content.go` | generated files | write from the configuration |
| configuration and sources | `config/`, `source/`, `github/` | none | parse, discover, fetch |
| agent plan | `agentplan/`, `agent/` | none | what each agent can do |

### 1.2 How they interact

* **The lock.** Reap, resume, destroy and retask take the instance's lock, each
  by one try that never waits, before they re-read what they will act on, and
  hold it until they return. The kernel releases it when a process dies. A
  dispatch takes none: its instance is new, under a name nobody else has.
* **The mapping** tells every command which session an instance belongs to. A
  dispatch and a resume write it, reap and destroy delete it or raise its count
  of failed runs. It is read without the lock by selections.
* **The agent's own records** (Claude Code's job entries and listing, another
  agent's session files) say whether a session is there. niwa reads them and
  never writes them; users change them at any moment.
* **Sweeps before commands.** Dispatch and create run a reap first; so any
  command's start is a reap of the whole workspace.
* **on-reap** is a command of the workspace run once a session is gone, to
  close what other tools keep for it; its failure is counted in the mapping.

### 1.3 What is hard

* The reap decides from what it read before the lock: a queue of targets whose
  verdicts go stale one by one; the re-read under the lock must be enough.
* A resumed session may continue under a *new* id: for a while two mappings
  name one instance, then a launch record of the old id is left.
* destroy lists sessions once, prompts the user for as long as they like, and
  decides from that listing which owners are gone.
* Any process may be killed between any two steps, with no deferred call run.
* Removing a tree, writing a mapping, the on-reap command, the listing and the
  removal gate fail, each on its own.
* Something must happen in the end: a deserted instance is removed and its
  mapping settled, an orphan of a killed dispatch is reclaimed.

### 1.4 What makes each part correct

* lock: held by exactly the command that is between its check and the end of
  its action; what it protects does not change under a holder that stands still.
* reap: never removes an instance some session is rooted in; never runs on-reap
  for a session that is there; settles the mapping it selected and no newer
  one; counts every failed run; removes what is deserted in the end.
* resume: never launches beside a running worker, nor into an instance that
  is taken away; its worker is mapped before it runs.
* destroy: without `--force`, removes only what it found nobody in.
* dispatch: its mapping never precedes the records its worker runs under; its
  rollback takes the instance from nobody; what a killed one leaves is reclaimed.
* retask and watch: no session is woken while nobody has seen it take its last
  task; a head is put to a session once; one review for a pull request, no more
  than the cap in all, nothing recorded that no session was given; and every
  head that is asked for is reviewed in the end.
* config refresh and apply: a refresh loses nothing niwa or a user keeps in the
  directory, but what is written while it swaps; what is removed is stale; every
  entry made trusted is recorded, or left by one of three named accidents; a failed
  create leaves nothing, but where a removal or the save itself failed; an instance
  keeps its private overlay.
* worktree sessions: no unforced command discards work; an active session has
  its worktree; one process is attached at a time, and its worktree stays.
* authority: no child ever holds more than its dispatchers hold today; one
  session at most is taken for a dispatch's own.
* pure decisions: a layer only narrows; no secret is made up or served after the
  vault took it back; what an apply installs is whole, and what others have in
  the tree stays.

## 2. Plan

| # | Modules | Model | State |
|---|---|---|---|
| 1 | `InstanceStore`, `Reap`, `Resume`, `Destroy`, `Dispatch`, `InstanceLifecycle`, `...Proofs` | the commands that share an instance | checked, safety proved |
| 2 | `TrustEntry`, `TrustFile`, `TrustLock`, `...Proofs` | the locked updates of Claude Code's config; implements `TrustFile` | checked, proved |
| 3 | `ReviewWorld`, `Retask`, `Watch`, `Reviews`, `ReviewsProofs` | the review loop and handing a worker its next task | checked, safety proved |
| 4 | `ConfigRefresh`, `InstanceApply`, `...Proofs` | the config directory's refresh; create and apply over it | checked, proved |
| 5 | `WorktreeSession`, `...Proofs` | a worktree session, its destroys, attach and detach | checked, proved |
| 6 | `Authority`, `Lineage`, `Delegation`, `...Proofs` | dispatches that dispatch, and what each of them holds | checked, safety proved |
| 7 | `Secrets`, `EnvLayers`, `VaultStore`, `AgentPlan`, `AgentInstall`; asked by `SecretQuestions`, `InstallQuestions`, `Asking`, `Decisions`, `...Proofs` | decisions that are functions of what was read | checked; authority, lineage and most of the secrets proved |
| 8 | `UnpushedWork`, `WorkspaceScope`, `Workspaces`, `CodexTrust`; asked by `CommandQuestions`, `CommandProofs` | what the commands would lose, act on, wipe, make and trust | checked; all but Codex's trust proved |

Left to model: the session hooks' own provisioning, and what section 9 names. Left to
prove: section 7 ends with it.

## 3. The modules and the code

A step of a model's action is what one process does between two points at which
another's step can matter: one read or write of the shared files, or a run of
local decisions up to the next one. Each command has a program counter `pc`, the
instance it works on `at`, and its own variables; each action is named for the
part of the function it models, and its guard is that part's condition.

### InstanceStore

| Variable | In the code |
|---|---|
| `disk` | what is at an instance's path: nothing, a directory with `.niwa/instance.json` (an instance: `EnumerateInstances`, `ValidateInstanceDir`), or a directory without it (a *husk*) |
| `retain` | `.niwa/dispatch-retain` in the instance |
| `aged` | the instance is older than `dispatchBackstopTTL`, and no fresh pending marker spares it |
| `lock` | who holds the flock of `acquireInstanceLock` |
| `mapping` | the session mapping store; the writer of a mapping stands for its `Created` time, which is how `settleStoredMapping` tells the file it selected from a newer one |
| `launch` | the launch record's session id, by instance |
| `sess`, `home` | the agents' records of a session: its state, and the directory it is rooted in |
| `crashes` | how many processes have died (a bound) |

`Verdict` is the three-valued answer of `sessionState` in `session_records.go`
for the two kinds of agent: one that lists its sessions, and one answered by
activity (`ActivitySession`), of which a missing record says nothing. `Rooted`
is the pair of guards `instanceHasLiveJob` and `instanceHasRecordedSession`,
which look at every record and not at the mapped session only. `Settled` is
`onReapStep.settle`. `RemovalOutcome` is `DestroyInstance` with the errors
`os.RemoveAll` can return.

### Reap

`SelectMapped` is `reapWorkspace` up to its first loop; its `pick` is the join
that keeps one mapping per instance. Each task of the queue is taken by
`TakeTask` (or spared by `SpareHeld`: a held lock is not waited for), re-read by
`Recheck`/`Spare`, removed by `DestroyTarget`/`DestroyTargetFails`, and its
mapping settled by `RunOnReap` and `SettleMapping`. The re-read, the removal,
the on-reap command and the settlement are separate steps, so that another
process can act between them. `SelectBackstop` is the second selection, after the
launch-record sweep.

### Resume

`ResolveRecord` comes before the lock, as in `runResume`, and what it read is
kept. The mapping is written by its own step before `LaunchWorker`; the session
may come back under its own id or a new one; `Capture`, `DropOldMapping` and
`Finish` are the re-key; `Unmap` and `Rollback` are what a failed launch undoes.
The restore makes the directory in one step (`BeginRestore`) and an instance of
it in another.

### Destroy

One `listing` for the whole run, read by whichever of the preflight and the
removal of the owners needs it first. The removal of each owner, the on-reap
command and the settlement are steps.

### Dispatch

A detached dispatch (`pc` goes from `"launch"` to `"capture"`) and a foreground
one (which waits in `"turn"`). Which of the two it is `Foreground` says as `ModeFor`
does: Claude Code's is always detached, the other agent's in the foreground unless
`--detach` is given, which a launch chooses freely and the variable `foreground`
remembers. What follows the launch goes by the mode and not by the agent: a
foreground dispatch whose mapping fails keeps its instance by the retain marker
(`CannotMap`, `WriteRetainMarker`), a detached one rolls it back. `Exit` is the return
of one that keeps its instance.

### InstanceLifecycle

The four commands, the world (`World`: turns end, users come back, sessions are
deleted, transcripts expire, time passes) and `Crash`, which any process can
suffer at any step. `Init` allows any store earlier commands can have left:
sessions with or without their instance, mapping and launch record.

### TrustEntry, TrustFile and TrustLock

A component of its own: it shares no state with the lifecycle. `TrustEntry` is
what `ensureEntry` and `withdrawEntry` make of one entry (`Updated`) and what
they report, the grant that later says what to withdraw (`Granted`). `TrustFile`
is the promise: each call's update happens at one instant on the file as it is
then, or is skipped; a process that dies skips all the updates it still owes.
`TrustLock` is the code.

| Variable | In the code |
|---|---|
| `entries` | `projects` of the config file: each entry absent, without the flag, with it false or true, or not an object |
| `lock` | the directory `<config>.lock`: who made it (which the code cannot see), its inode, whether it is older than `lockStale` |
| `mutex` | `processLocks` at the path, by process |
| `timedOut` | `lockTimeouts` at the path, by process |
| `seen` | the inode a call remembers: `first` of a takeover, `owned` of its own lock |
| `doc` | the document `loadConfig` returned |
| `polls` | how often a call has slept |
| `outcome` | what a call returned |

Each Mkdir, Lstat and Remove is a step, and so are the read and the rename, so
that a takeover fits between the two Lstats, between the second and the Remove,
or between the release's Lstat and its Remove. A freed inode may be given out
again: `MakeLock` takes any. `LockAges` makes a directory stale when its maker
is gone or may stall (`Slow`); `Die` ends all calls of a process and leaves its
directory. Claude Code's own updates are calls of a further process that keeps
the same protocol, which is what lock.go says of it (external).

### ReviewWorld, Retask, Watch and Reviews

`ReviewWorld` is what a review is made of: the agent's rows of its sessions, the
instances, the pull requests and the two files of `watch/state.go`. `Retask` is
`retaskCore`, from the instance's lock to its outcome: `classify`, the re-read
before the stop, the stop and its settling, the last re-read, the pending marker,
the wake, its confirmation, the copies and what is written afterwards. `niwa
retask` runs it for a dispatched worker, a pass for a staged review
(`watch_continue.go`). `Watch` is one `watch --once`: what the search found, the
sweep of the staged records (`judge`, `forget`, `prune`), the decision for each
head, and the staging of a fresh review, step by step up to the staged record and
the handled line. `Reviews` puts passes, retasks, agents, users and authors
together; `trouble` counts what goes wrong, of the kinds a run allows.

### ConfigRefresh and InstanceApply

`ConfigRefresh` is `EnsureConfigSnapshotWithStatus`: `step` names the point it has
come to, `conf`, `prev` and `staging` are the three directories, and each rename
and copy is an action. `Restore` is `RestoreInterruptedSwap`, which `Discover`
(any other command's look at the config) does too. `InstanceApply` runs it twice,
as the command line and the `Applier` do, and goes on with the stages of
`runPipeline`: `SyncOverlay`, `Resolve`, the pool (`TakeJob`, `CloneEnds`,
`CloneAgain`, `Collect`), the files of the root, the repositories and the live
worktrees, `CleanUp`, the trust of each directory, and `Save` or `SaveFails`. One
managed file stands for all of a place. `ours` is a history variable: the entries
niwa made trusted and neither it nor the user has taken back; `loose` says of each
of them whether something that happened to it leaves it without a record: a `Kill`
between the grant and the save, or a step that left it to the user with a warning.
The removal of a create that failed (`Abort`) may itself fail, unnoticed as in the
code, and a create whose save failed keeps its directory (`FailedCreate` names both).
A user's file (`AddFile`) may land at any point of a refresh, as a mapping may
(`WriteMapping`); with `WritesInRefresh` off neither does between the point at which
it has been copied and the swap (`Swapping`). `RefreshWorktree` may write a file and
fail to hash it, which leaves the file without an entry (`unhashed`).

### WorktreeSession

One session: `rec` is its record in `.niwa/sessions`, `tree` and `branch` what git
has, `sentinel` and `flock` the attach lock. A destroy (`Remover`) is a user's,
forced or not, a hook's, the sweep's or a create's rollback, by `way`; its steps
are `ReadRecord`, `CheckDirty`, `EndRecord` and `RemoveWorktree` of
`DestroySession`. A hook's removal (`HookSelects`) takes whichever session has the
path, a hand-made one too. An attach that finds the lock held and the sentinel stale
removes the sentinel by its path, in a step of its own (`ReapStale`), and tries the
lock once more (`TakeLockAgain`); a detach that read a holder acts on it after it may
have gone. `since` remembers, for the properties, what happened after the step at
which the destroy last looked.

### Authority, Lineage and Delegation

`Authority` and `Lineage` are functions of their arguments: what a policy of three
layers gives a request, a decision, a record as it is parsed, the cap by a
dispatcher, an entry's links and the walk over them. `Delegation` runs them over
time: a dispatch resolves, provisions, records, copies, launches and maps; the
configuration is edited, files break, instances go, processes are killed, and
somebody starts a session by hand. `Held` is what `grantResolver` gives a record now.

### Secrets, EnvLayers, VaultStore, AgentPlan, AgentInstall and their questions

These are functions of what was read before. `Asking` puts one question of one
topic: the topic is taken, then the question's parts are chosen from small sets, and
an invariant (`SecretDecisions`, `InstallDecisions`, `AuthorityDecisions`) says what
the answer must be. `VaultStore` is a sequence of calls of a run, or of two. The
reference definitions are beside the questions: who decides a key, which value a
store may serve, whose a path is before and after an install.

### UnpushedWork, WorkspaceScope, Workspaces, CodexTrust and their questions

Functions of what a command finds, asked by `CommandQuestions`:

* `UnpushedWork` is `ScanInstance` and what it rests on: `ScanRepo` for each repository
  `FindPrimaryRepos` meets, `JudgeTip` for each branch and each head that stands alone
  (is it vouched for by a remote's branch, or landed on the default one by content),
  `WhyNoHome` for the name of the loss. A history is what each commit reaches (`anc`), its
  first parents (`line`, `first`), which commits the clone has (`has`) and what the
  paths look like there (`tree`); a path stands for a part that merges as one.
* `WorkspaceScope` is where a command is and what it is about: `Discover`, `ClassifyCwd`,
  `FindInstance`, the scopes of `niwa apply`, `destroy` and `worktree destroy`, the
  instance and repository a hook takes, and what the guard of a session stops.
  Directories are sequences of names; a disk says which have a configuration and which
  a state. Symbolic links are resolved and the tokens of a Bash command are read already.
* `Workspaces` is a workspace's begin and end: `RunInit` with the bootstrap of a source
  without a marker, over a world in which each step works or fails; and
  `RunDestroyWorkspace`, whose steps are numbered so that another command may take its lock,
  make its directory and write its state just before any of them.
* `CodexTrust` is `EnsureCodexTrust`: which keys are wanted, withheld, recorded or to be
  retracted, and what the appending and the line-wise removal make of the document -
  of one whose `projects` is a single inline table too (`Sealed`), which no header can
  be appended to (`Valid`).

### What the models take for granted

* A launched worker's record appears with the launch. niwa may still fail to
  see it (`CaptureFails`, `CannotMap`), and a foreground worker may leave none.
* A session that its user deleted is not reopened by hand (a resume is how it
  comes back). One answered by activity can be: its record stays.
* A dispatch gets from provisioning to its launch within the half hour of
  `dispatchBackstopTTL`, as the code's comment on the backstop requires.
* A dispatch's name is drawn once: `TokenPath` gives no two dispatches one path.
* The platform has flock. Without it the lock is a no-op and nothing in section
  4 that rests on it holds.
* Target and stored selections read the store in one step. Both are re-read
  under the lock, one target at a time, and that is where the staleness is.
* The pre-removal command's answer is part of the re-read's step; the removal
  that follows is another step.
* Every mapped instance is ephemeral; one workspace.
* The trust lock's path is a directory or nothing; a file or a symlink there is
  waited on like a held lock that never ages. Checks made before the lock
  (legacy file, over-broad keys, `Grant.Validate`) have passed.

## 4. The runs

Each `MC` module instantiates one composition; the `.cfg` files hold nothing but
constants, the specification and what is checked. Commands end and every one of
them may have ended: `CHECK_DEADLOCK FALSE`.

| Run | Who is in it | Question | States |
|---|---|---|---|
| `ReapResume` | a reap, a resume, one crash; two sessions for one worker, and one answered by activity | can the reap's stale verdict, or the re-key, take an instance from a running worker or settle a newer mapping? | 167,000 |
| `ReapResumeDestroy` | the three that lock, with partial removals | does the lock keep a held instance as it is; is what the user confirmed what destroy removes; does on-reap run for nobody who is there? | 2,285,000 |
| `ReapSettles` | two reaps and a dispatch of either agent and either mode, one crash, fair | is a deserted instance removed and settled and an orphan reclaimed in the end; is a failed on-reap run ever forgotten; what does a dispatch show before it is complete? | 38,000 |
| `TrustUpdates` | an Ensure, a re-Ensure, a withdrawal and Claude Code in three processes; two entries | is every update atomic when nobody stalls or dies? | 2,281,809 |
| `TrustTakeover` | an Ensure and a re-Ensure of one process, and Claude Code, which may die; fair | do the calls of one process take a stale lock over one at a time; does every call return? | 118,240 |
| `Reviews` | one pass, again and again, over two pull requests; two faults; fair | one review for a pull request, no more than the cap, nothing recorded that was not reviewed; is every head reviewed in the end? | 170,000 |
| `ReviewsOverlap` | two passes and a `niwa retask`, one of them killed | is a marked record left alone; is a head put to a session twice? | 292,000 |
| `Applies` | create and apply, a source that is pushed to, users, two repositories, a worktree; three events | does any failure, kill or change lose what niwa keeps, leave a trust without its record or a failed create's directory, or remove what is wanted? | 3,125,000 |
| `Worktrees` | one session, its hooks, two destroys of any kind, two attaches, a detach | does an unforced command discard work, or take an attached or a listed worker's worktree? | 2,197,000 |
| `Decisions` | a past dispatch and two that are made now; and the questions to the pure decisions | does a child ever hold more than its dispatchers; are the decisions, and what the commands act on, right over small domains? | 1,184,000 |
| `SharedHandle`, `LostMapping` | | section 8 | violated |

Properties, by module:

| Property | What it says | What keeps it |
|---|---|---|
| `TypeOK` | every file and command has its shape; a mapping's failures stay under the limit | `Settled`'s limit |
| `LockIsHeldByItsActor` | the lock is held by exactly who is at work there | the deferred release on every way out; the kernel |
| `HeldInstanceIsUntouched` | what the lock protects does not change under a holder standing still (the fresh path of a dispatch, which takes no lock, apart) | every command that writes there locks first |
| `ReapSparesLiveWorkers` | no reap removes an instance a session is rooted in, mapped or not | the re-read of every record under the lock |
| `OnReapSparesLiveSessions` | on-reap runs for nobody who is there | the lock and destroy's order: a listed session is removed first |
| `StoredSettleIsCurrent` | a stored mapping is settled only as it is stored | `settleStoredMapping`'s comparison |
| `FailedRunsAreCounted` | no count is lowered by a second sweep | the same comparison |
| `DesertedIsSettled` | a deserted instance is removed and settled | the stored walk, the limit on failed runs |
| `OrphanIsReclaimed` | the backstop reclaims what a killed dispatch left | eligibility by name and not by any record |
| `ResumeKeepsItsInstance` | the instance is there from the check to the launch | the lock |
| `RunningWorkersAreMapped` | a recorded worker is mapped while it runs | the mapping written before the launch, and the order of the re-key |
| `UnforcedDestroyFoundNobody` | without `--force`, nobody mapped by then was running when listed | the preflight; the lock through the prompt |
| `MappedDispatchIsRecorded` | a dispatch's mapping is never without authority and lineage, in either mode | their order, the same for both |
| `RollbackOrphansNobody` | nobody knows an instance that is rolled back | a launch record that fails only warns |
| `OneWriter` | one call at most is between its mkdir and its release | mkdir; the staleness check; the process mutex |
| `AtomicUpdates` | `TrustLock` implements `TrustFile`: no update is lost, no grant is untrue of the entry it changed | load and rename both under the lock |
| `OneEnsureWaits` | of a process's Ensures at most one times out waiting | `lockTimeouts`, looked up after the mutex |
| `EveryCallReturns` | every call returns, whoever died with the lock | the deadline; the mutex given back on every way out |
| `OneReviewPerPR` | two live sessions never review one pull request, if nothing goes wrong | the staged record, read for every head; the sweep before it |
| `CapIsKept` | no more live reviews than the cap | the budget counted from the records that are live |
| `HandledWasReviewed` | a head is recorded as handled only if a session was given it | the handled line after the staged record; the head that was sent, not the newest |
| `HeadIsReviewed` | a requested head is reviewed in the end, or as many others as may be are, or its review waits for its user | nothing is recorded before the session is there |
| `PromptedOncePerHead` | one head goes to a session once, passes not overlapping | the pending marker before the wake |
| `HaltedIsNotWoken` | nobody is woken while nobody saw them take the last wake | the record re-read under the lock |
| `NothingOfOursIsLost` | mid-swap and after a kill too, every mapping and every user's file is in the directory or its predecessor (but what lands between its copy and the swap, section 8) | the carry-over, the restore before anything else |
| `RemovesOnlyStale` | cleaning up removes nothing the config wants, but a worktree's file that could not be hashed (section 8) | what was passed over is carried forward or exempt |
| `TrustIsRecorded` | between commands every entry made trusted is in the saved state, or was left by one of three things: a kill before the first save, a failed save's undo that met a busy lock, a repository that is gone | the record made with the grant; the undo of a failed save |
| `FailedCreateLeavesNothing` | a failed create leaves no clone worker at work and nothing that is taken for an instance, and no directory but where the removal failed or only the save did | every worker's result is waited for; the state is written last |
| `OverlayIsKept` | an apply never saves a state without the private overlay | a recorded overlay, or one that was cloned, must sync |
| `ActiveHasItsWorktree` | an active record has its worktree, unless a baseline saved late reopened it | the record is ended first |
| `OneHolderPerWorktree` | two are attached only where the first one's worktree was removed | the flock |
| `UnforcedDiscardsNoWork` | an unforced removal takes only what was made after it looked | the dirty check, `branch -d`, the baseline |
| `AttachedIsKept` | an unforced removal takes no worktree of a process the sentinel names, but of one who came after the look | the sentinel |
| `SweepSparesListedWorkers` | the sweep leaves a listed worker's worktree | the job entry decides for a worker held at creation |
| `WithinDispatcher` | a child holds no more than those who cap it hold today | the cap is taken again at every question |
| `OneSessionIsBound` | one session at most is a dispatch's own, from the worker's first command on | the capture window, the mapping before its closing |
| `AuthorityDecisions`, `SecretDecisions`, `InstallDecisions` | the pure decisions agree with their reference definitions | |
| `CommandDecisions` | a scan that reports nothing loses nothing; a command acts on what it was run in or told; a wipe, an init and a trust entry leave what is not theirs | |

`TypeOK` is the lifecycle's; the trust lock's is an invariant of its proofs. `RunningWorkersAreMapped`
is not asked of runs with a destroy: after a resume whose re-key never happened,
destroy settles the old id's mapping and its removal may then fail, which leaves
the worker unmapped (a hazard of `PROJECT.json`). `FailedRunsAreCounted` is not asked
of runs with a resume or a destroy (section 7). `OneReviewPerPR`, `CapIsKept` and
`PromptedOncePerHead` name, in `mishaps`, what they do not hold under: two passes
at once, a pass killed between a launch and its record, an instance that could not
be removed, a session listed too late. Nothing in the code keeps two passes apart,
and a launched session that never reached a record is nobody's.

Each property has a mutant in `PROJECT.json`: a definition of the model changed
the way a bug would change the code, which the property's run must then refute.
The mutants are the operators whose comment begins with "Mutant:".

## 5. Bounds

* **One or two paths.** Everything but the selections is about one instance, and
  no command holds two locks here. Two paths where a dispatch makes one and a
  reap removes another.
* **Two sessions of one agent and one of the other** (`ActivitySession`), in
  `ReapSettles` one of each: a worker's old and new id, beside a session that is
  answered by activity. A third would be a second re-key, which repeats the first.
* **One process per command**, two where two of a kind conflict (`ReapSettles`).
  A sweep starts over, so one reaper is many sweeps.
* **`OnReapFailureLimit` 1 to 3**: with 1 the first failure drops the mapping,
  with 2 it is counted first, with 3 two sweeps can both count.
* **`MaxCrashes` 0 or 1.** A crash leaves files in a state a later command finds;
  one at every step gives every such state. The runs with three commands have
  none, for size; the crash of each is in another run.

* **Three or four trust calls**: one process with two calls for the mutex, another
  for the lock, Claude Code for a foreign write; two of them about one entry, one
  of another entry for lost updates. `MaxPolls` is 1: a second poll repeats the
  first. One inode that is always reused, so that the inode is no proof of identity.

* **Reviews**: three sessions (a review, one that replaces it, a copy or a user's),
  two heads of one pull request, one of the other; `MaxTrouble` 2 or 1 of the kinds
  a run names; `Repeats` lets a pass be run again for ever in the fair run, and is
  off where two overlap, one run of each being what overlaps.
* **Applies**: `MaxEvents` 3 counts failures, kills and what the world does; one
  push (`MaxCommit`), one file, one mapping, two configurations (everything, and
  nothing), two clone workers with two attempts. `WritesInRefresh` off keeps mappings
  and users' files from landing between their copy and the swap, where they are lost;
  `LostMapping` has it on.
* **Worktrees**: two changes in the worktree (`MaxWorks`) and one kill or failure
  (`MaxEvents`); two destroys for the one that overtakes the other.
* **Decisions**: one event, one dispatch unlaunched at a time (`MaxAtOnce`), policies
  with and without one authority; a dispatch of the past (`Past`), made under one of
  `PastPolicies`, is enough for a chain of three. `MaxWalkLevels` 3 lets the lineage
  walk's questions meet the limit, a cycle and a break; three ids make no lineage that
  is longer, so `WithinDispatcher` is checked within the limit only (section 8).
  `DocBudget` 4 in layers of size 1 and 2.
* **The commands' questions**: histories of a branch that left the default one at its first
  or second commit and may be merged; two remotes; one thing at a time that can't be
  looked at; nine directories, of which three may be roots and four hold states; two
  sessions and two records; six kinds of name for a worktree; two instances and a third
  directory beside one other command; for init, any flags, and mostly one
  failure; for Codex, two names of one root only where nothing fails.

The theorems of section 7 have none of these bounds.

## 6. Fairness

Only the liveness properties use it (`FairSpec` of either component). The trust
lock's is weak fairness of each call: a running process goes on, and none of its
system calls blocks for good. The lifecycle's:

* Weak fairness of a reap as a whole: a running process goes on, and reaps are
  run again and again, by hand and before every create and dispatch.
* Strong fairness, per instance, of taking its lock, of passing the re-read, of
  a removal that succeeds and of a write that settles: a held lock, a removal
  gate that says no, a failing removal and a failing write are each allowed any
  number of times, but not every time for ever. Without the first a lock held at
  each try starves the target, which the code accepts (a held target is spared
  for this sweep); without the others nothing could ever be removed.
* None for resumes, destroys, dispatches, users and the clock: they may stop
  anywhere. Nothing is assumed of the on-reap command: it may fail every time.

With removals that can fail with part of the tree gone `DesertedIsSettled` is
false under the same fairness (section 8).

`Reviews` has weak fairness of each pass (run from a timer, again and again) and of
what the agent does by itself: it lists what was launched, ends its turns, stops
when told to and takes a wake. Users and authors owe nothing; the exceptions of
`HeadIsReviewed` are what waits for them.

## 7. Proofs

Every theorem is a result for all values of the constants, under the assumptions
named here, and each states a property a run checks on a small instance. The
modules are laid out alike: the invariant first, part by part; then a lemma for
each command with one step for each of its actions; last the theorems. Every
invariant was checked by TLC on small instances before it was proved.

### The commands of a workspace

For every value of the constants under `ConstantsAssumption` (the kinds of
process are disjoint, the limit is positive, `None` is nobody) and
`TokenPathAssumption` (no two dispatches draw one name).

`InstanceLifecycleProofs`:

* `TypesAreKept`: `Spec => []TypeOK`. `TypeOK` alone is not inductive: a resume
  writes a mapping from its instance and its resolved session, which are
  `None` until it has them. The invariant is `Typed`, which adds `Placed`: a
  command past its first step knows its instance, a resume its session. One
  lemma per command, one step per action; `StepsKeepPlaces` carries the part that
  is the same for every command that ends.
* `LocksAreHeldByTheirActors`: `Spec => []LockIsHeldByItsActor`, inductive
  together with `Typed`. `LockedSteps` says the three things a step may do to the
  lock (leave it, take it when free, release it) and each action is one of them.
* `HeldInstancesAreUntouched`: `Spec => HeldInstanceIsUntouched`. The property
  speaks of an instance and of the mappings that name it, so the lock alone does
  not give it: a command that locks one instance and then deletes the mapping of
  a session rooted in another would break it. The invariant that rules this out
  is `Homed`: a session never leaves the instance it was launched into, and every
  mapping, launch record, reap selection, resumed record and destroy owner that
  names the session names that instance too. `Kept` is `Typed`,
  `LockIsHeldByItsActor` and `Homed` together. Its proof takes each command in
  two parts: what an action does to its own command's part (`ReapKeepsHomes` and
  so on) and that the others' parts stand when no session moves (`ReapStands` and
  so on). `ChangesOnly` then bounds what each action may touch to one instance,
  the one whose lock its command holds, or the fresh path of a dispatch, which
  holds none.

The module's second part adds two parts to `Kept`; the three are `LifecycleInv`.

* `Traced` is about the paths no lock guards, those of dispatches under way: what
  names such a path (a mapping, a launch record, a selection, a resume, a destroy
  and its owners) names it only after the dispatch has come far enough, and the
  dispatch's own records are written by then. Without it a reap's selection could
  name an instance whose session is launched afterwards, with no lock.
* `Guarded` is what a command that holds a lock has found and may still rely on.
  A reap that passed its re-read: nobody is rooted in its instance, whoever it
  runs on-reap for is over, a stored mapping is as selected (`ReapReread`). A
  resume: its instance is there. A destroy: `Sound`, that a session its listing does
  not show is over and stays so, and `FoundNobody`, that an unforced one past its
  preflight met nobody running.
* What keeps `Guarded` is one argument, `LaunchedStays` to `NobodyAppears`: only a
  launch puts a session into an instance; a resume launches under the lock, and a
  dispatch into a path of its own which, by `Traced`, the holder cannot have
  selected before that launch. So an instance that was empty under the lock is
  empty until the lock is released (`SoundStays`, `ReapRereadStands`).

From `LifecycleInv`: `ResumesKeepTheirInstance`, `MappedDispatchesAreRecorded`,
`RollbacksOrphanNobody`, `ReapsSpareLiveWorkers`, `OnReapsSpareLiveSessions`,
`StoredSettlesAreCurrent` and `UnforcedDestroysFoundNobody`.

Two more hold where some command is not used, as in the runs that check them, and
are false otherwise.

* `RunningWorkersStayMapped`: `Spec => []RunningWorkersAreMapped` if there is no
  destroy (section 4 says what one does). The property is far from inductive.
  `WorkersInv` says of each instance niwa can find its way back to (`Followed`: by
  its record, a resume, or a dispatch about to write the record) that one of its
  mappings is there while it is, which no reap takes from a worker; and once the
  directory is gone, when reaps settle its mappings one by one, that every worker in
  it has its own (`WorkersShow`). A resume may launch under a new id, put back what
  was mapped, and remove what it restored: `ResumeMaps` says at each step why the
  workers of before are still mapped. `ReapSettles` and `DispatchMaps` say that what a
  reap settles is no worker's and that what a dispatch maps is the only one.
* `FailedRunsStayCounted`: `Spec => FailedRunsAreCounted` if there is neither a resume
  nor a destroy. `CountedInv`: a selected instance that is there has its mapping as it
  was selected, and a reap past its removal settles the mapping the store holds.
  With a resume or two destroys it is false: a restore that fails halfway, or
  removals that fail, leave an instance whose mapping was settled since a sweep
  selected it, and that sweep writes the old count back (only `settleStoredMapping`
  compares; a hazard of `PROJECT.json`).

### The trust lock

`TrustLockProofs`, for any processes, calls, keys and requests:

* `TrustTypesAreKept`: `Spec => []TypeOK`, whoever stalls or dies.
* `EnsuresWaitOnce`: `Spec => []OneEnsureWaits`, again whoever stalls or dies. The
  invariant is `Waiting`: calls of a process queue on its mutex (`Queued`), a wait that
  timed out is remembered by the process before the mutex goes to the next call
  (`WaitsAreRemembered`), and an Ensure that polls has found no such wait
  (`EnsuresMetNoWait`).
* `OneWriterAtATime` and `UpdatesAreAtomic`: `Spec => []OneWriter` and `Spec =>
  AtomicUpdates`, that is, `TrustLock` implements `TrustFile`. Both assume
  `Orderly`: no process stalls past the threshold (`Slow = {}`), which is lock.go's
  "in normal operation", and nobody dies (`Mortal = {}`) or there are but two
  processes, either of which may die with the lock at any step. Without it they are
  false: a stalled holder, or two takers of one dead process's lock, can both
  proceed, as lock.go says (section 8). `OneWriter` is not inductive; `Exclusive` is:
  the directory at the path is the holder's, and fresh while the holder lives; the
  holder knows its inode (or its release would leave it behind); what is about to be
  written was loaded from the file as it is; and only a dead process's lock is ever
  found stale (`OnlyDeadAreTaken`). With two processes its taker is then the only one
  left, and its calls take it over one at a time (`TakerIsAlone`).

### A worktree session

`WorktreeSessionProofs`, for any number of destroys, attaches and detaches, and
any bounds (`ConstantsAssumption`: the kinds of process are disjoint).

* `SessionTypesAreKept`, `ActiveKeepsItsWorktree`, `OneHolds` follow from `IInv`. Its
  heart is `EndedFirst`: whoever removes the tree has ended the record, and nothing
  writes it active again but a baseline saved late, which `Created` and `Copied`
  confine to a copy read before; and `Locked`: an attacher past its `flock` has it,
  unless the directory the lock file was in is gone.
* `NoWorkIsDiscarded`, `NobodyIsEvicted`, `SweepsOnlyTheEnded` need what a destroy
  has looked at as well: `Looked` says that what is in the tree and what it did not
  see came after it looked (`since`), `Swept` the same of a sweep's observation
  of the job and of the ignored files.

### Config refresh and apply

`InstanceApplyProofs`, for any repositories, worktrees, files, mappings and
configurations, under `RefreshAssumption` (the bounds are numbers) and
`ApplyAssumption` (a worktree is of a repository, the places of niwa's files are
distinct, there is a configuration).

* `RefreshesLoseNothing`: `Spec => []NothingOfOursIsLost`, if no mapping is written
  and no user's file added between the copy and the swap (`~WritesInRefresh`); without
  that it is false, and `LostMapping` shows how (section 8). It needs only the variables of the
  refresh: `Sited`, that the workspace has a directory or the one moved away, and
  that a refresh past its fetch has one that is whole; and `Carrying`, how much of
  what is niwa's and the users' the new directory has by then. Every step of a
  command is a step of the refresh, a restore as the command starts, or neither
  (`StepsRefresh`), and so is every step of the world.
* The rest follow from `ApplyInv`, inductive together with `Sited`. Its parts:
  `Commanded`, a create is of an instance never saved; `Pooled`, a clone worker is at
  work only on what the pool waits for, from which `FailedCreatesLeaveNothing` (a
  removal that fails and a save that fails leave a directory, never one with a state);
  `Overlaid`, past the resolution a command for an instance with an overlay has it and
  its repositories, from which `OverlaysAreKept`; `Lived` and `Provided`, that each
  place the config wants was written, carried over or passed over by the time
  the cleaning up begins, from which `OnlyStaleIsRemoved` (an ended worktree has
  files in the state that nobody is to write again, hence `Lived`); `Recorded`, that an
  entry made trusted is in the saved state, in what this command can take back, or
  marked `loose` by one of the three steps that may leave it so, from which
  `TrustsAreRecorded`: no other step, failure or kill leaves an entry without its record.

### Reviews

`ReviewsProofs`, for any sessions, pull requests, heads, passes
and retasks, under the assumptions of `ReviewWorld` and `Reviews` (heads are numbered,
the kinds of caller are disjoint, cap and bounds are numbers).

* `LocksAreHeldAtWork`: the types, and that an instance's lock is held only by a pass
  or a retask that is at work in it (`Typed`, `Placed`, `Locked`).
* `HandledHeadsWereReviewed`: `Spec => []HandledWasReviewed`, for passes that overlap,
  fail and are killed. `Justified` says the same of what a pass has read of the handled
  file and of the head it is about to record in it.
* `HaltedStaysUnwoken`: `Spec => HaltedIsNotWoken`, for overlapping passes too. `Known`
  is who knows a session: nothing names one that is not launched yet, every record,
  plan and pass that names one has its instance and its pull request, and one just
  launched is known to its own pass only. `Marked` is the property's reason: every
  record of a session that was sent a wake nobody saw it take is marked, and a pass
  about to stop or wake one has read, under the lock, a record that is not.
* `PromptedOnce`: `Spec => PromptedOncePerHead`, which speaks of passes that do not
  overlap. `AloneInv` is what a lone pass may rely on: what it read is current, the
  heads it sends are ahead of those that were sent, and what was put to a session
  is in its record or in the pass that will write it.
* `OneReviewEach` and `ReviewsAreCapped`: `Spec => []OneReviewPerPR` and `[]CapIsKept`,
  which speak of what happens without a mishap. `SingleInv` adds that every live
  review has its staged record (`AllShown`), that a pass's verdict on a pull request
  still stands when it acts on it (`StillSo`), and that nothing is staged for one that
  has a live review; `CappedInv` that the live reviews and the budget left to the
  pass make no more than `MaxStaged`. Both assume `HandlesDiffer`, that no
  two pull requests share the name of a staged record: the run `SharedHandle` refutes
  `OneReviewPerPR` without it.

### Dispatches of dispatches

`DelegationProofs`, for any dispatches, policies, requests and bounds, under
`NamesDiffer` (the name for no id is no session's, a session started by hand has the
id of no dispatch).

* `OneSessionIsTaken`: `Spec => []OneSessionIsBound`. `BindingInv` is `Shaped`, the types
  the decision depends on; `Captured`, that the one session captured is recorded in the
  dispatch's instance, and that its mapping and its entry name no other; and `Staged`,
  that the capture window is open from before the launch until the mapping is there,
  so that at each point exactly one of the three ways to be bound applies.

* `ChildrenHoldNoMore`: `Spec => []WithinDispatcher`, for lineages within the walk's
  limit (`Id` is finite and has at most `MaxWalkLevels` members: past it the code gives
  way, section 8). The property compares two answers of `Cap`, a recursion up the
  lineage along the path it came: the child's question about its dispatcher comes
  along a path that holds the child, the dispatcher's own does not. `CapInv` says why
  the path does not matter: what a dispatch's record and entry tell of its dispatchers
  is exactly those that capped it (`Lawful`), and some order exists in which whoever
  dispatches another comes before it (`Ordered`, `ComesAfter`), so that a lineage never
  comes back to its start.
  `CapIsDefined` unfolds the recursion, by `ByMeasure` over what is left of the path;
  `PathsAgree` is an induction over how many came before; `HeldIsWithin` puts the two
  answers side by side. That `CapInv` is kept takes a lemma for a dispatch's question,
  one for its files and one for all other steps.

### Decisions about authority and lineage

`DecisionsProofs`, for any layers, roles, requests, records and stored entries whose shape is
the code's:

* `DecisionsAreRight`: `DecisionsSpec => []AuthorityDecisions`, every question put to them
  gets an answer its law allows. It rests on one theorem for each law, which can be read
  alone and does not bound the data as the questions do:
* `EveryPolicyNarrows` and `EveryRefusalIsNeeded`: what is granted is in what every layer
  allows, and what is refused is not.
* `EveryDecisionIsStrictest`: no layer's answer is stricter than the one given.
* `EveryUnreadHoldsNothing`: a record that is not read whole grants nothing, and one that
  is grants no more than it names.
* `TrustIsNeverGained`: what is inherited is trusted no more than where it comes from.
* `EveryWalkIsAPath`: a walk ends, repeats nothing and says why it ended. The walk is
  a recursive function of its steps; its invariant (`WalksRight`) is carried along them by
  `Iterated`.

### Secrets

`DecisionsProofs` too, of five of the seven laws that `SecretDecisions` puts together:

* `EveryValueHasASource`: for every table as a file has it before anything is resolved
  (`IsTable`) and whatever the providers answer (`IsReply`), no value is made up. Each
  slot ends in one of six ways, which `MayBecome` names and `ResolvedIs` shows.
* `CredentialsAreAskedForOnce`: for a file and a list of providers of any length, and
  whatever the vault says. `InjectTokens` is a recursive function of the providers taken;
  what is carried along it (`InjectedRight`) is that the answers asked for are known, each
  once, that every line of the log says what is known (`RowOf`), and that whoever has an
  entry has a token. What is known stays known (`KnownStays`), and so a line written
  early is still true at the end, when the last line of each credential is read.
* `EveryLockedKeyStays`: of any layers, and `NoSecretIsSupplied`: of any example and policy.
* `EveryUpdateIsWhole`: of a store's directory in any state, and whatever fails on the way.

### Recursion

`DelegationProofs` begins with the induction these proofs need, told in sets and functions since no
prover here takes an operator for an argument: `EveryNumber` (a set that holds 0 and
every successor holds every number), `Iterated` (what a function defined from its value
before keeps), `TakenApart` (what holds of the empty set and of one more
element holds of a finite set) and `ByMeasure` (a function that is defined by recursion
on a bounded measure is what its definition says). They are proved from the library's
theorems about well-founded orders.

### The commands

`CommandProofs`, for every repository, disk, listing and world of the shape its named
hypotheses say. They have no bound on the number of commits, branches, remotes,
directories, mappings or records, which TLC's questions do.

* Of repositories as `IsRepo` has them (tips and heads are commits of the history, and
  `IsHistory`: what a commit reaches reaches no more than it, and no commits reach one
  another for ever): `EveryCleanIsKept`, `EveryLossIsWhatItSays` and
  `EveryCleanInstanceIsKept`. A tip is durable for one of two reasons. `LandedIsKept`
  is the harder one: the merge with the default branch changed nothing there, so each path
  is, in a commit on its first-parent line, as it is at the tip.
* Of any disk: `EveryScopeIsNarrow`, `EveryDestroyIsMeant` (a root has finitely many
  instances), `NothingIsShadowed`, `EveryTeardownIsMeant` (`IsStored`: an id is one
  record's, creation times are numbers), `EveryHookStaysInItsInstance` and
  `EveryGuardAgrees` (`IsHook`). The walks upwards are taken by `Nearest` and
  `Outermost`, about which the lemmas speak; a proof for the hooks failed at first, for a
  child instance planted in a root that is the instance itself makes the hooks there find
  none. TLC's questions had missed it and ask it now (section 8).
* Of any listing and any other command (`IsListing`, `IsOther`: a command makes its
  directory before its state): `EveryWipeIsWhole`, `EveryRootIsKept`.
* Of any world (`IsWorld`): `EveryInitIsWhole`, by the ways an init can end (`InitEnds`).

### What stays with TLC

* Liveness under fairness (`DesertedIsSettled`, `OrphanIsReclaimed`, `HeadIsReviewed`,
  `EveryCallReturns`) and `ENABLED` are beyond the prover.
* `InstallDecisions`, and of `SecretDecisions` the laws `HighestLayerDecides` and
  `StoreIsTruthful` (the single update is proved, the history of two runs is not): laws of functions
  over sequences and trees, most of them folds of the community modules. TLC asks every
  question over small domains. As an invariant of `Decisions`, `SecretDecisions` stays with it.
* The laws of `CodexTrust`, which are about the order of a document's tables, for the same
  reason; and with them `CommandDecisions` as an invariant of `Decisions`, whose other
  laws are theorems of `CommandProofs`.

## 8. What the runs found

Two runs refute a sentence of the repository by what the code does.

* `SharedHandle`: a staged record's file is named by a slug cut at forty letters
  (`cli/watch.go:786`), so two pull requests of one repository with a long name
  share it. The second's record overwrites the first's, whose next head is then
  staged afresh beside its live session.
* `LostMapping`: the session mappings are copied into the staging directory before
  the swap (`workspace/snapshotwriter.go:608`), so that the swap does not lose them;
  one written in between is in the directory the swap removes. A file a user adds
  between `carryLocalPaths` (`workspace/snapshotwriter.go:491`) and the swap (507) goes
  the same way, which the same run allows.

What else modelling met, with no run of its own any more or none yet:

* A kill between the trust given to a new instance's directory and the save of its state
  leaves an entry in the user's configuration that no record names (`Kill`, `loose`):
  `workspace/claude_trust.go:56-57` says a write is never left without the record that
  lets destroy withdraw it. `TrustIsRecorded` names it among its exceptions.
* `cli/dispatch.go:610-611` says `Create` removes the instance directory on any failure.
  It does not when the save of the state fails (`workspace/apply.go:695-698`), and where it does
  remove it the error of `os.RemoveAll` is dropped (`apply.go:558`, 577, 588, 615): what is
  left has no state file, and no selection sees it.
* A worktree's file that was written and then can't be hashed loses its entry
  (`workspace/apply.go:2892-2897`), and the same run's cleaning up takes it for one that the
  configuration no longer provides and removes it.
* A stale sentinel is removed by its path after it was read (`worktree/attach_state.go:63-85`,
  by an attach that retries, a listing and a detach): a new holder may have put its own
  there, and is then attached with no sentinel. The flock keeps a second attach out; an
  unforced destroy is stopped by nothing.
* The WorktreeRemove hook resolves any session by its path
  (`cli/session_from_hook_cmd.go:339`) and releases its sentinel as its agent's own
  (371): of a hand-made session somebody is attached to as well.
* Past `MaxWalkLevels` dispatches up a lineage (`cli/grant_resolve.go:53`) a dispatch is
  capped by its own record alone. With a lineage one longer than the limit TLC finds a
  child that holds, by `--grant`, what an edit of a role took from its parent.
  `docs/guides/authority-grants.md:462` says a child never holds more than its parent
  does today, and line 478 names this exception.
* A resume resolves the launch record before it takes the lock (`cli/resume.go:296`)
  and never again: when another resume re-keyed the worker in between, the check
  asks about an id that is not running and a second worker is launched
  (a resume of a running worker is not refused).
* The backstop re-reads the liveness guards under the lock but not the retain
  marker (`cli/reap.go:948`): an instance marked in between is destroyed.
* A removal that failed after it took `.niwa/instance.json`
  (`workspace/destroy.go:181`) leaves a directory that is neither an instance nor
  gone; no selection sees it again.
* A dispatch killed while provisioning leaves a directory with no state file, which
  the backstop's enumeration does not see.
* The release of the trust lock looks at the directory's inode and then removes by
  path (`claudetrust/lock.go:123`): a holder that stalled and was taken over can
  remove its successor's lock, as can a second taker of one stale lock.
* A clone and its worktrees share one exclude file (`gitexclude/exclude.go:55`). The
  clone's apply rewrites niwa's block without the worktrees' line until the fan-out
  adds it again, and the fan-out skips attached worktrees, which then read dirty and
  whose unforced destroy is refused, contrary to `worktree_content.go:906-921`.
* A line that begins niwa's block with none that ends it makes the next render
  swallow what a user wrote after it; `BlockIsReplaced` asks balanced files only.
* `team_only` is compared table by table and covers the keys the team has
  (`workspace/override.go:635`): a personal value of another table, or of a key the
  team does not have, passes, which `config/vault.go:15` does not say.
* A destroyed session's baseline, saved from a record read before, reopens it
  (`session_from_hook_cmd.go:475`); and a destroy killed between its record and the
  removal leaves a worktree no command removes.
* `workspace/durable.go`'s header says a check that could not run never passes silently.
  With a remote that cannot be reached, a tip that is on the clone's own copy of the default
  branch passes as durable; and a tip already at the remote's default branch is called
  diverged where only the refresh failed.
* `findPrimaryRepos` says unreadable subtrees are surfaced; they are skipped, as are
  repositories nested in others (`workspace/scan.go:182`).
* `EnumerateInstances` lists a child that is itself a workspace's root, which
  `ValidateInstanceDir` refuses: `destroy --workspace` removes the instances sorted before
  it and stops. The owners' sessions are removed before that. `niwa destroy` in a
  worktree ends in an internal error. A lock held for a directory that does not exist yet
  is not seen by the last guard.
* Hooks launched in a root that is its own instance find none once a child of it has a
  state of an instance: it is a workspace's root then.
* `isWorktreeIDOf` speaks of active records and matches ended ones too; `missingClone`
  speaks of clones that are not on disk and never looks there.
* `appendTrustEntries` says appending at the end is always correct
  (`workspace/codex_trust.go:455-458`); after a top-level inline `projects = {...}` a header of
  a table under it makes a document that does not parse. The law `OthersEntriesStay` says
  just when (`Valid`), and `TrustIsSettled` that the next run leaves the broken document
  as it is, with a warning. A withdrawal whose write failed is reported as
  done, and a record that is stale can let a later conflict remove the user's own answer.
* `niwa init` registers the workspace, or rebinds its name, before an overlay that was asked
  for, or the landing path, can still fail and take the directory away. `init --from` without a name
  whose prompt for a bootstrap is answered yes always fails, for the scaffold has no name, and
  skips the check for a GitHub source. A clone without a name is registered by the name its
  configuration gives, over whatever has that name. A clone without a name that fails leaves
  `.niwa`, and the next init refuses. The registry is saved whole as it was read
  at the start (`config/registry.go` says so).
* Nothing in the present source writes the conversation id an attach asks for
  (`ClaudeConversationID`): only sessions of older versions can be attached to.

## 9. Not modelled

* The session hooks' own provisioning (`instance_from_hook.go`), beyond which instance
  and repository a hook takes.
* Of `niwa init`: the plugin's install, notices, the root's generated files (a failure only
  warns). Of discovery: the restore of an interrupted swap, which is `ConfigRefresh`'s.
  A mapping's path that is no directory; declared repositories whose name begins with a dot.
* The settings document, hook scripts and files of `materialize.go`, the copy of a
  clone's environment into a worktree, `workspace_context.go`: generated files,
  functions of the configuration.
* Parsing of the configuration, GitHub and its tarballs, the vault client's subprocess,
  prompts, the onboarding wizard and reports: I/O with no protocol between processes.
* The containment settings of a review (`watch/containment.go`) and the command
  lines of the agents: tables.
* The formats of the files, their owners and modes, and the checked readers of
  the launch store: a record is there or is not.
