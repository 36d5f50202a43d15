# Verification of AWM's parallel tracks, verification jobs, requests, controller, installs and sensor evidence

AWM (`src/cli`, TypeScript) drives coding agents through a plan. A plan runs on
a branch under a **supervisor** (`awm watch`), which owns a durable **journal**,
launches the plan's **controller** (the agent) in generations, applies the
**requests** that commands leave as files, runs the verification **jobs** the
controller asks for, and, where a plan declares independent parts, runs them as
a **cohort of parallel tracks**: one git worktree, journal, wrapper process and
supervisor per track, joined back into the plan's branch one by one under a
lock, certified by a global QA and one final integration job, and dismantled to
serial execution when anything cannot be proved. Beside that it **installs**
skills and configuration into the homes of the agents, in transactions with
backups, and it collects **evidence**: sensors measure the working tree through a
cache of results, a receipt says what they found of a commit, a Change Record
cites the receipt, and a validation concludes from both that HEAD passes.

This directory models the cohort, the jobs, the queue of requests, the
generations of the controller, the install transaction and the chain of
evidence, checks each with TLC, and proves the safety of all of them with TLAPS.
Theorem, property and action names below are those of the modules.

## Inventory

| Part (source under `src/cli/src`) | State it keeps | Operations | Interacts with | Hard behaviour | What makes it correct | Here |
|---|---|---|---|---|---|---|
| **Cohort protocol**: `core/tracks/{protocol,types,concurrency}.ts` | `cohortPhase`, a phase and shas per track, evidence of the final route (pure, stored in the plan's journal) | `nextProtocolEffect`, `reconcileProtocol`, `observeProtocolEffect`, `assertProtocolInvariants` | called by the driver | any order of observations; a teardown at any point; late declarations | its assertion never throws; all-frozen barrier; merges in order; evidence dropped on fallback; BLOCKED and COMPLETE final | `TrackProtocol`, `CohortContract`, proofs |
| **Track driver**: `commands/watch/{tracks,teardown-driver,track-state}.ts`, `core/tracks/{join,git,teardown,descriptor}.ts` | worktrees, branches, descriptors, `integration.lock`, `MERGE_HEAD` | one turn of `reconcileTracks`: observe, one effect, persist | git, the files of the tracks' worktrees, processes, the requests of the plan | crash between effect and record; conflict and foreign merges; ownership that cannot be proved | a merged track is in the plan; nothing foreign touched; no commit lost; a preparation and a fall back end | `TrackCohort`, proofs |
| **Wrapper and watch of a track**: `commands/track/supervisor-wrapper.ts`, `commands/watch/supervisor.ts` | claim and readiness files, `supervisor.lock`, `frozen` of the track's journal | claim, ready, launch; start, freeze, exit | reads the plan's journal; freeze requests written into the track's | detached processes, crashes, stale locks, read after await | nothing runs before all are armed; a freeze records a commit that does not move | `TrackCohort`, proofs |
| **Plan supervisor**: `commands/watch/{supervisor,generations,runner,lock,index,init}.ts` | generations and their sidecar files, `supervisor.lock`, backoff, hourly budget | `tick`, `ensureController`, `beginGeneration`, `superviseController`, `resolveGeneration`, COMPLETE, stop | controller process and its wrapper, jobs, requests, cohort | crash between spawn and record, competing wrappers, stall detection, replacement with backoff, custody | a controller starts once; one that was adopted is never abandoned; silence kills nobody; a lost controller is replaced | `ControllerGenerations`, proofs; the tick around it in `TrackCohort` and `VerificationJobs` |
| **Requests**: `core/journal/requests.ts`, `commands/watch/{apply,request-recovery,admission-recovery}.ts`, `commands/track/{index,emit}.ts` | a directory of request files, `appliedRequests`, `requestProblems` | emit, list, apply, acknowledge, rename, remove, recover | every CLI command; the supervisor | crash between journal and removal, replay, stale generations, aliases, custody | at most one execution per request, none lost, causal order, an answer for each | `RequestQueue`, `RequestContract`, proofs; what requests ask for in the modules of their receivers |
| **Journal store and process identity**: `core/journal/{store,process,types,fingerprint,adapter,redact}.ts` | journal and events on disk, process identities | write by rename, append, terminate with confirmation | everything above | crash during a write, reused pids | a journal is never half written; only proved identities are signalled | fingerprint, liveness and draining in `VerificationJobs` |
| **Jobs and gate**: `commands/job/{request,reconcile,exec-wrapper,gate,reap}.ts`, `commands/watch/runner.ts` | job states and what each item cites (journal); claim, identity and result files; detached wrappers and commands | request, create or reuse, dispatch, claim, run, scan, reconcile, retry, reap, gate, certify | controller, supervisor, wrapper processes, the working tree | supervisor or wrapper dies at any point, retry of an intent, delayed wrappers, edits of the tree, freeze | a command runs once; a job ends once, as what its command did; a certified cycle is backed by commands that succeeded | `VerificationJobs`, `JobContract`, proofs |
| **Install transaction**: `core/{install-transaction,executor,artifact-state,atomic-file}.ts`, `commands/init.ts` | numbered backups with a manifest, staged files, the ledger of artifacts | apply a plan, undo it, open, commit and roll back a session, restore | registries, the agents' files, the operator | failure or death within a copy, a rename or a restore | whatever the user had can be had back; a failure is undone; the ledger names what is there | `InstallTransaction`, proofs |
| **Track plan and ownership**: `core/tracks/{plan-parser,ownership,context}.ts` | none | parse, independence of declared paths, assess changes | `awm track verify-independence` | prefixes of paths, shared resources | two parallel tracks own disjoint paths | planned |
| **Model policy and routing**: `core/model-policy` | policy, event receipts, routing attempts | resolve, reserve, observe | apply of requests | attempts per lineage, receipts that expire | one active attempt per obligation | planned |
| **Sensors**: `commands/sensors` | `.awm/sensors/runs/cache-*.json` keyed by a digest of inputs, the baseline of accepted findings | run (full, one sensor, `--changed`, `--no-cache`), reuse, apply the baseline, reduce to a verdict | the working tree, git, the tools | edits between digest, tool and cache write; runs that overlap or are interrupted | a cached result is of the inputs its key names | `SensorEvidence`, proofs |
| **Receipts and Change Records**: `core/changes`, `commands/change` | `.awm/sensors/runs/<commit>.json`, `docs/changes/*.md` | precondition and recheck of a run, write a receipt; new, refresh, validate, list | runs, git, the developer | HEAD moves between any two reads; late files; a receipt written again; two writers of a record | a receipt is true of its commit as far as its results tell; a strict validation is true of HEAD | `SensorEvidence`, proofs |
| **Evidence store, admission, currentness, process, plan validation** | none or one file | classify, validate | gate, supervisor | large pure functions over text | – | not modelled |
| **Registries, context, hooks, ledger, dashboard, export, migration, environments, secure-fs** | files | read, write once, print | users | network and file errors | – | not modelled |

## Modules

| Module | What it is |
|---|---|
| `CohortContract` | What a cohort promises its plan, without its protocol: freeze, merge in order, complete, fall back, get stuck. |
| `TrackProtocol` | The pure reducer, every observation of it an action, fed with **any** value its types allow. |
| `TrackProtocolProofs` | Type correctness, the inductive invariant and the safety theorems of `TrackProtocol`, and that it implements `CohortContract`. |
| `TrackCohort` | `EXTENDS TrackProtocol` with the world: driver, git, wrappers, watches, controller, runner, crashes and faults. |
| `TrackCohortProofs` | `TrackCohort` implements `TrackProtocol` and so `CohortContract`; the inductive invariant of the world and its safety theorems. |
| `JobContract` | What the jobs promise whoever certifies with them: start once, end once, pass only if started, cite only what could pass, certify only when all passed and none is open or lost. |
| `VerificationJobs` | Controller, supervisor tick, wrappers, commands and the working tree, with crashes. |
| `VerificationJobsProofs` | Type correctness, the inductive invariant and the safety theorems of `VerificationJobs`. |
| `VerificationJobsRefinement` | `VerificationJobs` implements `JobContract`, proved. |
| `RequestContract` | What the queue promises an emitter: a request waits, then is executed or refused, once and for ever, and not under a generation that is not its own. |
| `RequestQueue` | Emitters, the batches of the supervisor, the files and the offline lane, with crashes between any two steps. |
| `RequestQueueProofs` | Type correctness, the inductive invariant and the safety theorems of `RequestQueue`, and that it implements `RequestContract`. |
| `ControllerGenerations` | The supervisor that launches, adopts, supervises, replaces and ends the controller, its wrappers and commands, with crashes and faults. |
| `ControllerGenerationsProofs` | Type correctness, the inductive invariant and the safety theorems of `ControllerGenerations`. |
| `InstallTransaction` | An install plan, the backup session of `awm init` around its steps, and a restore, file operation by file operation. |
| `InstallTransactionProofs` | Type correctness, the inductive invariant and the safety theorems of `InstallTransaction`. |
| `SensorEvidence` | Sensor runs, their cache, receipts and Change Records, with a developer who edits, commits and checks out between any two reads. |
| `SensorEvidenceProofs` | Type correctness, the inductive invariant and the safety theorems of `SensorEvidence`. |
| `MCTrackProtocol`, `MCTrackCohort`, `MCVerificationJobs`, `MCRequestQueue`, `MCControllerGenerations`, `MCInstallTransaction`, `MCSensorEvidence` | Instances for TLC. |

`TrackProtocol` and `TrackCohort` share their protocol actions: an action of the
driver conjoins a protocol action (what the reducer does with an observation)
with what the driver read and did to get that observation. So the first module
answers *is the reducer safe whatever it is told*, and the second *what can it be told*.
The other modules each take one part of the supervisor's tick in full and see
the rest as a bit or a nondeterministic choice: `RequestQueue` applies requests
whose effects are those of `VerificationJobs` and `TrackCohort`,
`ControllerGenerations` sees the gate of `VerificationJobs` as `green` and a
cycle that requests block as `cycle = "REQUESTS"`.

### The cohort: how the state corresponds

* `cohortPhase`, `phase`, `frozenHeadSha`, `globalQaHeadSha` are the fields of
  `CohortProtocol` and `TrackProtocolState`. `"NONE"` is an undefined cohort
  phase (fewer than two tracks), `"ABSENT"` a trackId without a `TrackRef`.
  `planHeadSha` is `cohortPlanHeadSha ?? cohortBaseSha`, `expectedPlanHeadSha`
  belongs to the `joinIntent`, and `finalIntegrationPassed` says that
  `finalIntegrationJobId` is defined. A track is an index in the order of
  `localeCompare`, the order the effects are selected in.
* `track[t]` is one track outside the plan's journal: worktree (none, ours, a
  foreign path), branch, descriptor, journal (bound to a plan or not), HEAD,
  uncommitted work, the wrapper `supervisorProcessRef` names, wrapper, sidecar
  files, watch, lock, and how far its freeze came.
* `repo` is the plan's repository: HEAD, `MERGE_HEAD`, the tracks HEAD contains.
* `journal` is the rest of the plan's journal: pending join and teardown
  markers, the QA prompt and self-report, the integration job.
* `sup` is the plan's supervisor and controller as processes: integration lock,
  live controller, how far `mergeFrozenTrack` got in the turn under way, crashes so far.

### The cohort: how the actions correspond

An action of `Driver` is one turn of the loop in `reconcileTracks`. `EffectTurn`
is the order of that loop (teardown marker, then join markers, then the effect),
`TickReady` the order of the tick around it. `Recorded` is the write of the
journal after the effect, with what `applyProtocolToState` does besides (the
self-report of QA is dropped on fallback). `Lost` is the crash between the two:
the world keeps the effect and the journal does not know. `Drained` is an
observation that needs no effect. The wrapper, the watch, the controllers, the
runner and the faults interleave with it freely.

The turn of a merge is three steps, since a controller that a tick has launched
again may commit between any two of them: `BeginMerge` is what the driver looks
at (`gatherJoinObservation`, `decideJoinReconciliation`, `assertPlanHead`),
`MergeTrack`, `MergeConflicts` and `MergeRefused` are the outcomes of
`git merge`, and `ObserveMerge` is the second look of `runMergeTrack`, which
decides by ancestry alone. Between the three the supervisor has no other turn and takes no
request (`BetweenTurns`). `SettleMerge` and `AbortOwnMerge` are turns that begin
with something other than a merge to be made.

The faults of a preparation are a worktree that cannot be added
(`AddWorktreeFails`), a journal or descriptor that cannot be written or belongs
to another track (`InitTrackJournalFails`), and an identity beside the claim that is damaged or of
another intent (`ForeignIdentity`), which blocks the cohort in `ObserveSupervisor`.

What a step abstracts: commits are a branch and a number; a merge commit is the
next number of the plan's branch and `merged` says what it contains; files,
descriptors, locks and process identities are facts that hold or do not; a
journal write is one step (the store writes a temporary file and renames it).

### The verification jobs

* `job`, `plan`, `cycle` are the journal: per job `executionState`, fingerprint,
  verdict and whether `processRef` and `wrapperRef` were adopted; what each
  item's `satisfiedBy` names and the keys in `appliedRequests`; `cycle.status`
  (with `"FROZEN"` for `frozen` of a track), `freezeRequested`, and whether every
  task is done.
* `sidecar` is what the last file beside a job's claim says; `proc` the wrappers
  not yet at their claim, the one that got it, the command and the process group
  it leads; `queue` the request files; `tree` the fingerprint the working tree
  has now (all jobs run the same command, so it is the fingerprint of each).
* `sup.pc` is where the tick is: recovery check and requests, the scan, the
  decision about jobs found dead, dispatch, the gate, the termination it awaits
  before it certifies. The steps between which something is read and later used
  are separate: processes are looked at in `Scan`, the files again in
  `Reconcile`, the spawns follow the journal they rely on, the gate is decided
  in `Decide` and written in `Certify`. Controller, wrappers, commands and edits
  of the tree come in between.
* Ids are numbers in the order of creation. A request that names no item is
  `NoItem`. A liveness check whose grace is not over is any `graceOver` without
  the job. `CommandEnds` covers `awm job reap`, which kills the command and
  writes no journal. The request batch of a tick is applied to a copy and written
  once; applying one is a step, because a crash leaves what a shorter batch would
  have.

Left out of `VerificationJobs`: verdicts of reviews and fixes in the gate, requests of
a replaced generation, corrupt sidecars, several commands, `materializeRetry`
and `cancel-requested`, which nothing in `src` reaches.

### The queue of requests

* `file[r]` is where the file of a request is: `tmp` before the rename of
  `emitRequest`, `json` in the queue, `corrupt` or `rejected` after its rename,
  `removed`. `req[r]` is what it says: the payload, the token of the generation
  its emitter read, and, as history, what was published before it.
* `journal` is `state.json`: the outcome on record of each request
  (`appliedRequests`), the entry a `find` by idempotency key meets first, the
  problems on record, the status of the cycle, the generation, the tasks.
* `batch` is the copy of the journal a tick works on with the requests it still
  has to look at and the files it will rename and remove; `pc` says where the
  process that holds `supervisor.lock` is, be it the supervisor or the offline lane.
* `Emit` and `Publish` are the write and the rename of `emitRequest`, `Litter` a
  file that is no envelope. `List` starts a batch; `Consume(r)` is one turn of
  the loop of `consumePendingRequests`, in the order of the ids (they are
  `Date.now()` and a count of the directory, `requests.ts:52-53`: that a later
  emission has a larger one is an assumption of the model), with its outcomes:
  malformed, replayed, mismatched digest, stale generation, applied, invalid.
  `WriteBatch` is its one write; `Rename`, `Remove`, `EndBatch` the work
  on the files after it. `EnterCustody` is the block a problem causes, `Recover`
  and `ResumeCycle` are `recoverRejectedTask`. `GoDown` is a crash or a stop in
  any of these steps: it loses `batch` and keeps files and journal.
* A payload stands for its digest. Two payloads may have one key, as the keys
  of `register` and `verdict` are not those of the digest. The requests' effects
  are reduced to what another request can see: a task is there or not.

### The generations of the controller

* `gens` is the list of the journal with what `beginGeneration` and
  `ensureControllerGeneration` write of each: state, intent, `wrapperRef`,
  `processRef`. `files[g]` are the sidecars of its nonce: claim, identity,
  result. `wrapper[w]` is a process of `exec-wrapper`, `cmd[g]` the controller
  it starts in a process group of its own, with descendants that may outlive it.
* `sup` is the memory of the supervisor and where its tick is: `ensure` (the
  decisions of `ensureController` in their order), `spawn` and `record` (a wrapper is
  spawned before its reference is written), `supervise`, `resolve` (a controller seen
  dead, between the awaited confirmation and the replacement), `gate`,
  `complete` and `stop` (references ended one by one, each awaited).
* `WrapperStep` is `runExecWrapper`: exclusive claim, spawn, identity, wait,
  result. `CommandExits` and `DescendantsExit` are the agent, `TurnGreen` the
  jobs, `TickBlocks` whatever else blocks the cycle. `BackoffPasses` and
  `HourPasses` are the clock; `Crash` and `Signal` take the supervisor down,
  `ResumeOffline` is the offline lane from the side of the generations.
* Liveness of a reference is asked of the leader of its group where
  `refIsAlive` asks, and of the group where `groupIsGone` does. A heartbeat that
  stops is the choice of `SuperviseSuspects`, without a condition.

### The install transaction

* `disk[t]` is what a target holds: nothing, a torn file or directory, what the
  user had (0), or what a transaction wrote, named by its id. `ledger` is
  `state/artifacts.json`. `copies`, `manifest` and `ledgerCopy` are the
  directories under `~/.awm/backups`.
* `run` is the one command that runs: `BeginApply`, `Backup`, `Stage`,
  `RemoveTarget`, `RenameStaged`, `Verify`, `WriteLedger`, `Undo`,
  `ReturnFailure` are `applyInstallPlan` in its order. `BeginSession`,
  `WriteConfig`, `FailStep`, `CommitSession`, `RollBackSession` are `awm init`
  around it, `BeginRestore` to `Report` a restore, of the operator or of a
  rollback. Each operation may fail, by throwing before, within or after its
  effect, and the process may die there (`Crash`).
* `before` and `open` are history: what was there when a transaction began, and
  the transactions of the last command that a death leaves to be undone.

### The evidence of the sensors

* `tree` is the working tree, a content per file, `commit` the commits git has,
  each with its tree, its record and its ancestors, `head` HEAD. A sensor reports
  the files whose content is in `Bad`, and a finding is named by its file. The baseline, where it
  exists, lists the messages it accepts of each sensor (`Accepts`), among them, perhaps, the
  one message of a tool that failed (`Tool`). Staging is part of `CommitAll`;
  commit 1 is the merge base.
* `Digest` maps the inputs of a sensor to their contents, but for the contents in
  `Opaque`, which all give one `Marker`: those of files above
  `MAX_DIGEST_FILE_BYTES`, behind a symbolic link, or not regular.
* `raw[s]` is a result before the baseline: `ran`, `partial` (killed at its
  deadline or at the limit of its output, with what was read of its findings),
  `broken` (not started, or failed with no finding) or `inconclusive`. `Status` is
  `applyBaseline`: whatever failed passes once each of its messages is accepted.
* `cache` holds the entries of `cache-*.json`: sensor, digest of its inputs,
  findings before the baseline. `receipt[c]` is the receipt filed under a commit,
  with the paths and sensors of its digests; its `digest` is the number of its
  writing, which `ranAt` makes unique. `record` is the Change Record with the
  commit and the receipt it cites, the modules it derived, and whether the
  narrative is still the skeleton's.
* `run[r]` is a process of `awm sensors run`: `Begin` and `Precondition`
  (`rev-parse`, then `status`), `ReadBaseline`, `Prepare` (`buildCachePlan`),
  per sensor `Reuse` or `Execute` and then `Settle` (the digest again and the
  write of the cache), `Finish`, `RecheckHead` and `FinalizeReceipt`. Sensors of
  one run are executed in any order. `cmd` is a process of `awm change`: `Pin`
  resolves the range, `CheckHead` is each `headMovedFailure`, `CheckClean`,
  `Vouch`, `CreateRecord`, `ReadToRefresh`, `CheckUnchanged`, `ReplaceRecord` are
  `new` and `--refresh`, each read a step of its own, `CheckRecord`,
  `CheckLate`, `CheckReceipt`, `Conclude` are `validate`. `report` is what the
  last validation said, and of which HEAD.
* What is read in one git command or one file is one step; HEAD, the status, a
  receipt and a record are read in steps of their own, and `Edit`, `CommitAll`,
  `Checkout` and other runs come in between.
* Nothing restrains the developer. Fields that no step of the code reads keep
  what matters of the past: of a run the files changed while it was active
  (`touched`), those changed twice, which may be again what they were (`missed`),
  and whether HEAD moved where the recheck does not look (`moved`); of a cache entry what its
  writer missed, of a reused result the files it may misjudge (`doubt`), and of a receipt the
  files of which it tells how they are on the commit (`told`). The properties
  claim what they claim of the other files.

Abstractions: the digests of a plan are read in one step, though the code reads
the files one by one and the sensors one by one; a record is read and its being committed
is checked in one step; a cache file that cannot be written is a run without a cache;
every enabled sensor may be cached; skipped sensors, the trailer that opts a
branch out, the shape of a record beyond its pending marker, the read-only mode
and changes of the pack registry outside the repository are left out, as are the
derived fields other than the modules and links that lead out of the repository. Which sensors declare
their inputs does not change: the manifest is always measured, so an edit of it
is a late file. Files git ignores are in no digest and in no model.

## Runs

Runs that pass are exhaustive within their bounds.

| Run | Bounds | What it shows |
|---|---|---|
| `protocol` | 3 tracks, cap 2, 2 commits (symmetric) | `TypeOK`; `ProtocolInvariants`: no step of the reducer, whatever it observes, makes its own assertion throw; `JoinIntentIsFresh`, `MergesInOrder`, `EvidenceOnlyOnFinalRoute`, `PhasesAgree`; `FrozenHeadsAreFinal`; `ImplementsContract`. |
| `cohort_faults` | 2 tracks, one gets work, no crash of the supervisor; conflicts, foreign merges, paths and identities, failing worktrees and journals, crashing wrappers and watches; joins and teardowns at any time; journals bound by an operator, generations begun by every tick as in production; the controller commits in the global QA only | `CohortTypeOK`, `ArmedBarrier`, `CommittedWorkSurvives`, `ForeignNeverTouched`, `MergesUnderLease`. |
| `cohort_crashes` | 2 tracks, one gets work, one crash of the supervisor or controller, conflicts, a failing integration job, commits and QA reports of the controller at any time, also within a merge; `AutoBegin = FALSE` | `MergedIsInPlan`, `CompleteIsCertified`. |
| `cohort_liveness` | 2 tracks with the settings of production (`AutoBegin = TRUE`, no journal bound); foreign paths and identities, failing worktrees and journals, crashing wrappers, one crash of the supervisor or controller; fair | `BootstrapSettles`, `TeardownConverges`. |
| `jobs_one` | 1 job, 1 item, 2 trees, a freezable journal, up to 2 wrappers waiting to claim, one crash of the supervisor, of a wrapper, or a spawn or termination that fails; fair | `OnceOnly`, `VerdictIsEarned`, `KnownOrphanIsDead`, `IntentsDrain`. |
| `jobs_two` | 2 jobs, 1 item, requests with and without an item, no crash | `JobsTypeOK`, `OneReusableJob`, `CertifiedIsBacked`, `ImplementsJobContract`. |
| `requests` | 2 requests, 5 payloads over 4 keys (a good and a bad registration of one task, a dispatch, two others that share a key), 2 generations, the supervisor down twice; fair | `QueueTypeOK`, `NoRequestLost`, `ExecutedOnce`, `OrderKept`, `RequestsAnswered`, `ImplementsRequestContract`. |
| `ack_of_rejection` | the same | *violated*: `RejectedIsNotDone`. |
| `generations` | 2 generations, 3 wrappers, 2 relaunches an hour, the supervisor down once, all faults; fair | `StartedOnce`, `AdoptedIsKept`, `ControllerReturns`. |
| `complete_orphan` | the same without faults | *violated*: `CompleteLeavesNobody`. |
| `install` | 2 targets, one of them known to `init` beforehand, 3 transactions, 2 failures or deaths | `Recoverable`, `FailureIsUndone`, `LedgerIsUpsert`. |
| `evidence` | a source whose two contents have one digest, one clean and one with a finding, a file outside the inputs of the sensor, and the baseline; one sensor that may declare its inputs, one process of `sensors run` and one of `change` at a time, 2 edits, 3 commits, 3 processes in all of which the first two may be runs, full runs with the cache; 2.6 million states | `CacheIsTrue`, `ReceiptIsTrue`, `StrictIsTrue`. |

A run that is violated checks what a comment or a document of the repository
says, and is described under *What the code does otherwise* with other
differences of that kind which no run keeps. The properties they would check
stay in the modules beside the others (`ActiveCompletes`,
`MergesOntoExpectedHead`, `NobodyRelaunches`, `StoppedIsStopped`,
`FrozenIsClean` in `TrackCohort`, `WaitingTrackGetsSlot` in `TrackProtocol`,
`OneController`, `SupersededIsDead`, `ReleasedLeavesNobody` in
`ControllerGenerations`, `SyncIsAtomic` in `InstallTransaction`,
`ReuseIsFresh`, `PassIsComplete`, `CertifiesTheTree`, `EditsWin` in
`SensorEvidence`). Some
properties no run repeats because a theorem has them for every value of the
constants: `EndIsFinal`, `SilenceKillsNobody` and the types `GenTypeOK`,
`EvidenceTypeOK` and `InstallTypeOK`.

**Why these bounds.** Two tracks have every pairwise interaction of a cohort:
one prepared and one not, one frozen and one working, one merged and one to be
merged, one dismantled and one blocked. Three tracks with a cap of two
(`protocol`) add a waiting track and a merge between two others, and the proofs
take the reducer to any number. `Workers` bounds the state, not the behaviour:
in `cohort_faults` the worker is the track merged first, in `cohort_crashes`
the one merged last. There `MaxParallel` is 1, so that the second track becomes
active when the first has asked for its join, and both may be joining at once.
`MaxCommits` leaves room for each merge and one commit of
the controller beside them. One crash (`MaxCrashes`) can fall in any gap
between an effect and its record; recovery from a second would start from a
state the first already reaches. `Faults` are without a bound of their own.

A job interacts with others only through reuse and the gate. So its own life is
checked alone with every fault (`jobs_one`), and reuse, supersession of what an
item cites and the gate with two jobs and no fault (`jobs_two`); the proofs take
both to any number of jobs, items, trees, wrappers and faults at once.
`MaxPending` bounds the requests waiting at a time, `MaxWrappers` the wrappers
of a job not yet at its claim, `MaxFaults` the crashes.

Two requests meet in every way two requests can: one key, one payload, a
registration and what depends on it, one refused and one that replaces it.
(Three requests with three payloads and one crash were checked once, 533,369
states, with the same result; the proofs take any number.) Two supervisors down
leave room for a crash and the stop the offline lane needs.

Two generations are a controller and its replacement, and the third wrapper is
the late one of a launch repeated after a crash. `MaxRelaunches` of 2 is the
smallest hour with a launch and a relaunch in it, so that the third exhausts it.

Two targets are one the session of `init` covers and one it does not, or two
operations of one plan of which the second fails. Three transactions are a
session, the plan within it and a later command whose backups might overwrite
theirs. Two faults are an operation that fails and an undo that fails too.

In `evidence`, three commits are the one a receipt certifies, the one that
carries the record, and a late one that HEAD moves to; the third may also be made during a run.
Three processes are a run, the command that writes the record and a validation,
or two runs of which the second reuses what the first left, and a command after
them. Two edits are the work the record is about and one thing too late, or a
file changed and put back; the narrative needs none. The baseline accepts the finding at the
start, so that removing it late matters, and it also accepts the message of a
tool that fails. The contents of the source cannot be told
apart by its digest, and are hashed where the source is absent only, so every
reuse may be of the wrong one. Two sensors or two runs at once meet only
in the cache and in the receipt file, and the proofs take any number of both.
`Selections` leaves out runs of single sensors and of changed files, which write
no receipt, and `Caching` leaves out `--no-cache`, which skips steps; the
proofs have all of them.

**`Disciplined`.** With `"commits"` the plan's controller commits and reports
only in the global QA it was asked for; with `"requests"` it asks for joins and
teardowns only where they can be granted. `cohort_crashes` drops the first and
`cohort_faults` the second, and the proofs have neither: the one statement that
depends on it is the last conjunct of `MergesUnderLease`, which says so. Liveness
needs both: teardown markers repeated for ever keep the driver from any effect.

**`AutoBegin`** is `autoBeginGeneration`: `FALSE` is the default of the class
`Supervisor`, `TRUE` what `runSupervisorLoop` passes. With `TRUE` every tick
begins a generation before the driver has its turn, so the driver pauses the
controller of the final route again and again, never asks for the integration
job, and no cohort completes (theorem `RelaunchStarvesIntegration`, divergence
4). So `CompleteIsCertified` is checked with `FALSE`. **`Bindable`** is the set
of tracks whose journal an operator bound to a plan; production binds none
(divergence 3), and then no track freezes. The safety runs bind both tracks, or nothing
past `JOINING` would be reached.

Liveness is checked of what the code as it runs may be relied on for, with
`AutoBegin = TRUE` and `Bindable = {}`: that a preparation ends, with every
track ready or a fall back, and that a fall back ends, whatever fails in them.
That an active cohort completes (`ActiveCompletes`) does not hold of it.

**Fairness of the cohort** (`FairCohortSpec`). `WF(Driver)`: the supervisor's loop ticks.
`WF(Wrapper)`, `WF(Watch)`: polling loops of running processes.
`WF(LaunchController)`: every tick ensures a controller. `WF(IntegrationEnds)`:
the integration command is taken to end (the code gives a command no time limit;
`IntentsDrain` shows that its job then ends). `WF(ReportQa)`, `SF(RequestJoin)`, `WF` of finishing dirty
work: the controllers do what they are launched for, though a pause may
interrupt them. `SF(WatchTakesFreeze)`: a freeze request stamped with a
generation that has just been replaced is rejected and emitted again, but
generations are not replaced for ever. Nothing is assumed of crashes, faults,
teardowns or commits: `InitTrackJournalFails` is no part of `Driver`, so the
turn that creates a journal must end by itself. `BootstrapSettles` excepts a
wrapper that died before it was ready (`Stranded`), which nothing starts again,
and a blocked track, `TeardownConverges` a track blocked before the fall back.
The assumptions on joins, freezes, QA and integration play no part in either.

**Of the jobs** (`FairSpec`): `WF(Supervisor)`, its loop ticks and it is started
again after a crash; `SF(Scan(Jobs))`, the grace of a job is finite, so a scan
comes again and again that no grace keeps from looking; `WF(Wrapper(j))`, a
spawned wrapper runs. Nothing is assumed of a command: no time limit makes it
end, so `IntentsDrain` excepts a command that runs for ever.

**Of the requests** (`FairSpec`): `WF(Tick)`, the loop ticks, is started again
after it went down, and a batch once begun is gone through. Nothing is assumed of
emitters or of the operator, so `RequestsAnswered` excepts a cycle in custody,
which only the operator ends.

**Of the generations** (`FairSpec`): `WF(Loop)` as above; `WF(BackoffPasses)`
and `SF(EnsureOldClaim)`, time passes: a backoff ends and a claim without an
identity grows older than its grace; `WF` of each wrapper and of the exit of
descendants. Nothing is assumed of the agent, of its launch or of the gate.

For `InstallTransaction` and `SensorEvidence` none is stated: a command runs to
its end or dies, and what matters is what it leaves. Deadlock is checked in no run: a cohort that
ended stops, and so do a certified or blocked cycle, a machine whose
transactions are used up and a developer who is done.

## Proofs

All eight proof modules are checked by `tlapm` to the last leaf. Every safety
invariant, action property and refinement that a passing run checks is stated by a theorem.

### The cohort protocol

The assumptions are those of `TrackProtocol`: tracks are a finite set of naturals, the cap is positive,
`NoSha` is no commit. All theorems but `TypeCorrect` assume `LateAdd = FALSE`;
with late declarations `ProtocolInvariants` does not hold (divergence 8).

| Theorem | Establishes |
|---|---|
| `TypeCorrect` | `Spec => []TypeOK` |
| `AssertionNeverThrows` | `Spec => []ProtocolInvariants` |
| `FreshJoinIntent`, `OrderedMerges`, `PhasesAreOfTheCohort`, `EvidenceIsOfTheRoute` | the invariants of the `protocol` run |
| `FrozenHeadsStay`, `TerminalAbsorbs` | its action property, and that COMPLETE, SERIAL and BLOCKED are never left (`TerminalIsAbsorbing`) |
| `Refinement` | `Spec => ImplementsContract` |

**The inductive invariant** `IInv` is `TypeOK` with all the invariants of the
`protocol` run. The assertion of the code alone is not inductive. That
`InterlockPass` may mark every track `JOINED` needs every track merged on the
final route (`PhasesAgree`); that an abandoned integration leaves no job behind
needs `EvidenceOnlyOnFinalRoute`; that a freeze keeps `MergesInOrder` needs that
nothing is merged while a track is still to be frozen. Each action preserves each
part in a step of its own (`PrepareSafe`, `JoinSafe`, `TeardownSafe`,
`CohortSafe`, `DeclareSafe`); the cap needs the cardinality lemmas `CapKept`
and `CapReached`. `FrozenHeadsStay` adds `HeadOnlyWhenFrozen`: a track not yet
frozen has no head to overwrite. `Refinement` maps phases to the statuses of
the contract and shows each step of the reducer to be a step of it or a stutter;
the merge step uses `MergesInOrder` to show that exactly the smaller ids are merged.

### The cohort in its world

The assumptions are those of `TrackProtocol` and of `TrackCohort`: 0 is no track,
the tips of the tracks are commits, and the plan's branch has room for a merge
of each track (`Cardinality(Tracks) <= MaxCommits`; without room a merge would
leave the bounds of the model, never of the code). All theorems
assume `LateAdd = FALSE` (divergence 8) and nothing else: any tracks, cap,
faults, number of crashes, discipline and `AutoBegin`.

| Theorem | Establishes |
|---|---|
| `CohortTypeCorrect` | `CohortSpec => []CohortTypeOK` |
| `CohortRunsTheReducer` | `CohortSpec => Spec`: every step of the world is a step of the reducer or leaves it alone |
| `CohortKeepsContract`, `DriverNeverThrows` | `ImplementsContract` and `[]ProtocolInvariants` of the cohort as it runs |
| `MergedStaysInPlan`, `BarrierHolds`, `NoWorkIsLost` | the invariants of the cohort runs |
| `ForeignIsNeverTouched`, `MergesHoldTheLease`, `CompletionIsCertified` | their action properties |
| `RelaunchStarvesIntegration` | with `AutoBegin` the driver never asks for the integration job and no cohort completes |

**The inductive invariant** `CohortIInv` has the types, the `IInv` of the
reducer, and of each track `TrackInv`:

* `PlaceOfPhase`: nothing of a track is on disk before the driver adds it, and
  what teardown observed gone stays gone, whatever crash comes between an effect
  and its record. That a serial cohort leaves nothing behind follows from the
  phases of its tracks only through this.
* `WorkIsOurs`: uncommitted work is in a worktree of ours, a worktree of ours has
  its branch, and a commit is on the branch or in the plan. `CommittedWorkSurvives`
  alone is not inductive: work may be committed in a worktree without a branch.
* `ReadyStays`: the readiness file of a track is never taken back to a claim.
  The one wrapper that has still to write its claim, after a crash between a
  spawn and its record, finds no readiness there.
* `FrozenStays`: a frozen track is at the commit on record, and a merged one in
  the plan. Nobody works in a worktree whose journal says `frozen`, and nothing takes
  that back.

`Barrier` adds what holds of all tracks at once: once any of them was activated,
or its watch ran and may be started again by an operator, each worktree of ours
has its readiness file. `Room` counts the merges still to come, which
bounds the commits of the controller. `CompletionIsCertified` needs `Certified`
beside it: from the request of the integration job on the controller is at
rest, so no commit comes between the HEAD that QA certified and the end of the
interlock. With `AutoBegin` it holds for another reason, that the route ends
before (`RelaunchStarvesIntegration`). `Underway` is about a merge in three
steps: between the check and `git merge` the supervisor holds the integration
lock (a crash ends turn and lease together), the turn is that of a track with
its intent on record that is not merged yet, and HEAD is the one the plan
expects where the controller is disciplined. `MergesHoldTheLease` rests on it.
`CohortRunsTheReducer` is shown action by action under this invariant: a step of the driver is the observation it
conjoins, and an observation of a merge, for example, is one the reducer takes
only because `FrozenStays` says the track is at its frozen commit.

### The verification jobs

The assumptions are those of `VerificationJobs`: jobs are a finite set of
naturals, `NoJob` and `NoItem` are neither, the bounds are naturals.

| Theorem | Establishes |
|---|---|
| `JobsTypeCorrect` | `Spec => []JobsTypeOK` |
| `CommandRunsOnce`, `VerdictsAreEarned`, `KnownOrphansAreDead` | what a job, its verdict and its loss say of its processes |
| `ReusableJobIsOne` | at most one job of a tree may still serve as evidence |
| `CertificationIsBacked` | what a certified cycle rests on |
| `EndsAreFinal` | a job that ended is never changed again (`EndIsFinal`) |
| `JobsRefinement` | `Spec => ImplementsJobContract` |

**The inductive invariant** `JobsIInv` has, beside the types and
`OneReusableJob`, three parts. `ProcessesAgree`: files, holder and command of a
job are at the same point (no claim, no holder; no more than one start; a
published pass means a command that exited with 0 in a drained group).
`JournalAgrees`: the journal is never ahead of the files (an unused job has none,
a verdict has its result file, an adopted identity has been written) and a job
found dead with a known identity stays dead, since nothing starts its command
again. `TickAgrees`: what the tick remembers is still so when it is used (only
jobs in flight are judged; the gate that was green when a tick came to `certify`
still is, since jobs and citations change in the tick only). `OnceOnly` alone is not
inductive: that a second wrapper cannot start the command needs the claim file
to exist as soon as there is a holder. `KnownOrphanIsDead` is the hard case: the
processes are looked at one step before the files, and the proof shows that a
result can then not have been missed, because the wrapper that would write it
was dead at the first look. `JobsRefinement` maps the states of a job to the
outcomes of the contract and each step to a step of it or a stutter; scan and
reconciliation are its `End`, which lets several jobs end in one write.

### The queue of requests

The assumptions are those of `RequestQueue`: requests are a finite set of
positive naturals, the shape of payloads, bounds that are naturals.

| Theorem | Establishes |
|---|---|
| `QueueTypeCorrect` | `Spec => []QueueTypeOK` |
| `NothingIsLost` | a file leaves the queue only once its fate is on disk |
| `ExecutionIsOnce` | a request is executed at most once |
| `CausalOrder` | a batch decides nothing before what it may depend on |
| `QueueRefinement` | `Spec => ImplementsRequestContract` |

**The inductive invariant** `QueueIInv` says of the journal and of the batch's
copy alike (`JournalAgrees`): whatever ran has an outcome and ran once
(`Settled`), a problem on record is of a request that deserves it (`Blames`) and
comes after all its request could know of (`Caused`), and nothing is known of a
request nobody has seen (`Unknown`). Beside it: `FilesAgree` (files come in the
order of their ids), `BatchFiles` (the files a batch still has to touch are in
the queue, each in one role) and, while a batch is applied, `Covers` (what will
be done to a file is what the copy decided), `TodoAgrees` and `CopyExtends` (the
copy only adds to the journal, and what is to be looked at has not been touched);
`Cleaning` carries `Covers` over to the journal once it is written. `ExecutedOnce` alone is not
inductive: a second execution is excluded only because whatever ran has an
outcome in the journal the next batch reads. `QueueRefinement` maps the write of
a batch to one step that decides many requests.

### The generations of the controller

The assumption is that of `ControllerGenerations`: bounds are naturals and
faults have names.

| Theorem | Establishes |
|---|---|
| `GenerationsTypeCorrect` | `Spec => []GenTypeOK` |
| `ControllerStartsOnce` | `Spec => []StartedOnce` |
| `AdoptedKeepsToken` | `Spec => []AdoptedIsKept` |
| `NoDeathBySilence` | `Spec => []SilenceKillsNobody` |

**The inductive invariant** `GenIInv` has, beside the types and the other three,
`OneActive` (one generation at most holds the token), `WrappersAgree` (a wrapper
past its claim owns the claim, and nobody else started the command),
`SidecarsAgree` (no start without a claim, no identity without a start, no
reference without an identity) and `PcAgrees` (what the tick remembers still
holds: a controller seen dead at `resolve` stays dead, of the references to be
ended those before `next` are). `StartedOnce` needs the second: a second start
is excluded only while the claim exists from before the first. `AdoptedIsKept`
needs the last, since the look at the controller and the write that takes its
token are separate steps with an await between them.

### The install transaction

The assumption is that of `InstallTransaction`: bounds are naturals and there is
a target.

| Theorem | Establishes |
|---|---|
| `InstallTypeCorrect` | `Spec => []InstallTypeOK` |
| `RecoverableAlways` | `Spec => []Recoverable` |
| `FailuresAreUndone` | `Spec => []FailureIsUndone` |
| `LedgerUpserts` | `Spec => LedgerIsUpsert` |

**The inductive invariant** `InstallIInv` has, beside the types, two parts.
`BackupInv` is about what stays on disk: the ids in use are an initial segment
(`IdsInOrder`), so that a new transaction takes an id without a backup, and a
backup names each target once and holds what its transaction found there
(`BackupsFaithful`), whatever is installed or restored later. `RunInv` is about the
command that runs: a plan writes nothing before every target it may write is in
its backup, and then differs from what it found in the replaced targets and the
one at hand only (`Applied`); a restore has brought back the entries it is past
(`RestoredSoFar`); and a transaction whose death is still to be undone has all it
may write in its backup or has written nothing (`Undoable`). `Recoverable` alone
is not inductive: that a plan of a session may write a target needs the session's
backup, taken by an earlier step, to be faithful and complete. The undo of a
failed plan goes through the replaced targets from the last to the first, which
the proof follows by `FirstOfTargets` and `LastOfTargets`: `Min` and `Max` of a
set of targets, defined by `CHOOSE`, are in the set because it is
well-founded.

### The evidence of the sensors

The assumptions are those of `SensorEvidence`: globs and always-measured files
are files, the baseline is one, absence and the marker of a digest are no
contents, bounds are naturals. Nothing is assumed of the developer.

| Theorem | Establishes |
|---|---|
| `TypesHold` | `Spec => []EvidenceTypeOK` |
| `CacheIsTrueHolds` | `Spec => []CacheIsTrue` |
| `ReceiptIsTrueHolds` | `Spec => []ReceiptIsTrue` |
| `StrictIsTrueHolds` | `Spec => []StrictIsTrue` |

**The inductive invariant** is `Types` (with the shapes of a run and a command
at each step) and `Evidence`. Its heart is what is remembered of a run in
progress: where a digest or the tree read at the precondition differs from the
tree of now, the difference lies in files touched since the run began (`PlanOf`,
`HeadOf`). A file changed once during a run cannot be again what it was, so
where a digest is equal again at a file that is not in `missed`, that file was
never changed and everything read of it in between was the same: the finding
that `Settle` writes is of the content it writes it under, and the statuses that
`FinalizeReceipt` files were measured on the tree of the commit, file by file.
What the results of a run leave open is handed on: `missed` from the run to its
cache entry, with the marked files of the digest to the result that reuses
it (`Doubt`), and to the receipt (`Told`), which tells of no file at all where the tool
did not finish, the baseline was changed twice or HEAD moved where the recheck does not look.
`HeadOf` shows that without the last HEAD never left the commit the run began
at. For `StrictIsTrue` a receipt must also know its paths: each file of a
declared sensor that exists on the commit is among them, and the baseline always
(`ReceiptOf`), so that without late files the commit and HEAD agree on all that
the sensor reads; a receipt with a sensor that declares nothing counts every
file. Since the receipt may be written again between the check of the late files
and that of the verdict, `CmdOf` remembers what the first check found, and the
digest in the record binds it to the second.

**Model-checked only:** the liveness properties (`BootstrapSettles`,
`TeardownConverges`, `IntentsDrain`, `RequestsAnswered`, `ControllerReturns`),
which are out of the prover's reach, as `ENABLED` is. What a recursive definition computes is
nowhere proved: no module of a theorem has one.

## What the code does otherwise

Paths are under `src/cli/src` unless they say otherwise. The first two are
kept as runs.

1. `ack_of_rejection`. `applyOutcome` (`core/journal/requests.ts`) lends a
   request the outcome of an earlier one of the same key and digest, executed or
   not. The key of `awm job register` is a hash of entity and JSON without the
   generation (`commands/job/index.ts:122`), so a registration refused as stale
   and emitted again under the current generation is applied and acknowledged
   as refused. For a dispatch linked to a routing attempt the journal that
   results is one `isWellFormedState` (`core/journal/types.ts:421`) does not
   accept, and `writeJournal` throws on every later tick.
2. `complete_orphan`. The tick writes COMPLETE after it ended the references of
   the journal. A controller started by a wrapper whose reference, or whose
   identity, was never recorded is none of them and lives on.

Of the cohort:

3. `initTrackJournal` (`commands/watch/tracks.ts:1033`) binds the journal of
   a track to no plan, and `runSupervisorLoop` (`commands/watch/supervisor.ts:852`) refuses such
   a journal. The watch of a track exits before it takes its lock and no track
   freezes. The guide calls the route to `COMPLETE` verified; its evidence file
   says `pending`. (`ActiveCompletes` is
   violated with `AutoBegin = TRUE`, `Bindable = {}` and no fault, and under `FairCohortSpec`.)
4. A comment of `tick` (`supervisor.ts:606`) says nobody may relaunch the
   controller on the final route; `autoBeginGeneration` (`supervisor.ts:556`)
   does, on every tick and before the driver's turn
   (`NobodyRelaunches`, `AutoBegin = TRUE`). So `pauseControllerGeneration`
   (`tracks.ts:1139`) always finds an active generation, the driver returns once
   it is paused, and the integration job is never requested
   (`RelaunchStarvesIntegration`). No command can ask for that job instead:
   `awm job request --satisfies` names one item, the job all of the cohort's.
5. Teardown proves the wrapper dead; the watch the wrapper
   launched detached is in another process group and runs on, its lock removed
   (`tracks.ts:1074`, `StoppedIsStopped`).
6. `attemptFreeze` (`supervisor.ts:734`) finds the worktree clean before it stops the
   controller that writes it (`FrozenIsClean`).
7. The first freeze ends the activation of waiting tracks (`core/tracks/protocol.ts:213`), so a
   cohort with two tracks more than its cap cannot complete (`WaitingTrackGetsSlot`).
8. A track declared in a running cohort (`commands/watch/apply.ts:236`) makes the assertion of the
   reducer throw on every later tick (`ProtocolInvariants`, `LateAdd = TRUE`).
9. `mergeFrozenTrack` (`core/tracks/git.ts:273`) asserts the plan's HEAD and
   merges in two git commands. The comment above it says that a HEAD moved
   meanwhile "bloquea en vez de mergear a ciegas"; a commit of the relaunched
   controller (`supervisor.ts:556`) between the two is merged onto, and
   `tracks.ts:454` accepts the merge by ancestry. (`MergesOntoExpectedHead` is
   violated without `"commits"` in `Disciplined`. `CompleteIsCertified` holds
   nevertheless: QA and the integration job certify the HEAD there is.)
10. A freeze that finds a job still `received` waits for it, while nothing
   dispatches jobs of a journal to be frozen.

Of the jobs: a job lost for ever (`orphaned`) blocks the gate for good, since
`materializeRetry`, its remedy, has no caller; `job-request` with a key applied before is
aliased without relinking the item that asks (`apply.ts:200`); `reconcile.ts`
takes absent references for dead ones; COMPLETE is written after the awaited
termination without a second look at the gate. An adverse verdict of a routed
review sets its attempt to `blocked` (`apply.ts:612`), and the gate demands of
the attempt of every verdict that it be `active` or `complete` (`gate.ts:166`):
a routed cycle that failed, was fixed and passed never certifies, though the
comment at `apply.ts:636` says it must be able to.

Of the queue: a request refused whose file a crash left in place is never
renamed, and the offline lane, which looks for the renamed file, cannot recover
it; the revision check of `writeJournal` is a read, a comparison and a rename,
so it does not exclude a second writer; two claimants of the lock of a dead
process can both get it (`commands/watch/lock.ts:20`, `core/tracks/join.ts:122`).

Of the controller:

* Two controllers can live at once, though R4.2b of
  `docs/plans/2026-07-31-r1-durable-controller-design.md:103` forbids it: a stop
  or the offline lane races a wrapper that was spawned and not yet recorded, and
  the next generation is launched beside it (`OneController` is violated with
  `"signal"` or with `"block"` and `"wrapper"`; it holds, as does
  `SupersededIsDead`, with `Faults = {"crash", "launch", "spawn", "wrapper"}`,
  60,088 states).
* A wrapper that dies before its claim after its reference was recorded is
  waited for without a limit (`LostLaunch`, which `ControllerReturns` excepts);
  one that always fails before its claim is launched for ever.
* `superviseController` answers `'ok'` after it launched a replacement, so the
  tick goes on to dispatch jobs under a generation nobody has adopted, which the comment
  at `supervisor.ts:754` excludes. `EnsureExhausted` puts a cycle in custody even where an adopted
  controller is healthy.
* A comment at `commands/job/exec-wrapper.ts:111` says `detached: false`, the code `true`.

Of installs: `replaceArtifact`, which "atomically swaps a staged artifact"
(`core/executor.ts:86`), removes the target and renames the staged one into its place.
Where the removal or the rename fails, the undo skips that target, since it
never counted as replaced (`core/install-transaction.ts:239`): a plan that
throws leaves it torn or absent, though its backup can still be restored
(`SyncIsAtomic` is violated with one failure). The rollback of a session stops at its first failing entry where
that of a plan goes on; staged files stay after a failed replacement; restoring
the backup of a plan does not restore the ledger; nothing keeps two processes from writing the
ledger over each other; on a first `init` the targets of a registry not yet
synced are not in the session's backup (`commands/init.ts:199` says so).

Of the evidence (each named property is violated within the bounds of the run):

* The recheck of a run reads HEAD first and the status of the tree after it
  (`core/changes/worktree.ts:35`, used at `core/changes/receipt.ts:436`). Edits
  of the tree that are committed between the two leave HEAD as it was read and a clean tree:
  the receipt is written for the commit the run began at, with results of the
  new one, though `receipt.ts:420` says "a receipt certifies a commit only when
  the tree equals it" (`CertifiesTheTree`).
* The recheck looks at tracked files only. An untracked file that appears during a
  run is seen by the sensors and not by it; a baseline makes findings pass that
  the commit does not accept. A file changed and put back while its sensor runs,
  or HEAD moved and returned, leaves the digests equal: the cache keeps, and
  every later run reuses, the result of what was there in between. `missed`,
  `moved` and `doubt` say where.
* `hashContribution` (`commands/sensors/inputs-digest.ts:246`) gives each file
  above 1 MiB one marker, and a link the name of its target, so an edit of
  either leaves digest and cache key as they were, and the old result is reused
  (`ReuseIsFresh`). `cli/tests/commands/sensors/inputs-digest.test.ts:373` says
  the digest "fail-closes oversized inputs", RF-2.1 of
  `docs/plans/2026-10-27-sensor-execution-optimization-design.md` that it hashes
  the contents of a regular file.
* `applyBaseline` (`commands/sensors/result.ts:171`) makes whatever failed pass
  once each of its messages is accepted: also a tool killed at its deadline, of
  whose findings some were never read (`result.ts:97`), and one that could not be
  started; `finalizeRunReceipt` (`core/changes/receipt.ts:460`) looks at the
  overall verdict. The comment at `result.ts:170` says "only to completed
  verdicts", `docs/cli-reference.md:998` that a baseline "never certifies an
  incomplete execution" (`PassIsComplete`).
* `--refresh` looks whether the record is as it was read and then renames over
  it. "Their version wins, nothing is written", says
  `commands/change/index.ts:169`; an edit between the look and the rename is lost (`EditsWin`).
* Files under `docs/changes` are never late, even where a sensor reads them, and
  files git ignores are in no digest though a tool may read them. The model has
  neither, so `StrictIsTrue` says nothing of a sensor that does.

## Not modelled, and the plan

The order is by what a failure would cost.

1. `RoutingAttempts`: reservation, dispatch, observation and verdict of the
   attempts of a lineage, with the journal's own rules of well-formedness.
2. `VerificationJobs` extended: reviews and fixes in the gate, several commands,
   corrupt sidecars, and the cycle that a job lost for ever keeps from being
   certified.
3. `SupervisorLock`: two claimants of the lock of a dead process, for
   `supervisor.lock` and `integration.lock`.
4. Independence of declared ownership as a pure function checked against its
   definition on sets of paths.
5. `SensorEvidence` extended: `change list`, several records of a branch, and the
   opt-out trailer.

Out of reach or out of scope: git itself (modelled by what its commands are used
for), the content of plans and prompts, the agents, rendering, the network, and
the parsers, which hold no state.
