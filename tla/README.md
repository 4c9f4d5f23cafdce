# Verification of local-ai-hub

TLA+ models of the code of local-ai-hub that several threads and processes share,
model-checked with TLC and, where the property matters for every number of
participants, proved with TLAPS. File names below are relative to
`src/src/local_ai_hub/` unless they start with `src/`.

Contents: [the system](#the-system), [modules](#modules), [runs](#runs),
[fairness](#fairness), [proofs](#proofs), [findings](#findings),
[limits](#limits), [plan](#plan).

## The system

local-ai-hub is a local service that AI coding agents call over MCP and HTTP. It
answers questions about repositories, runs commands and local models, and executes
*work orders*: it plans a change with a local model, patches the workspace,
verifies the result, and undoes everything when that fails. One hub process has
worker threads, a recovery timer and request threads; several hub processes and
several agents may share the state directory, which holds SQLite databases and
journal files.

| Part | State | Operations | Interacts with | Hard behaviour | What makes it correct |
|---|---|---|---|---|---|
| Writer fence, `work_fencing.py` | tables attempts, leases, counters | claim, renew, release an attempt; acquire, renew, release a path lease; `attempt_guard`, `commit_guard`; prune | used by the work orchestrator around every state change and file write | clock readings taken before a transaction and reused over busy retries; expiry and clock jumps; a guard that outlives its lease; migration between coordination scopes | one active attempt per order, disjoint active leases, writes and transitions in token order |
| Advisory leases, `leases.py` | tables leases, lease_waits | claim, claim_batch, release, release_owner, renew, reap | called by agents and by `_apply_patch` and `_recover` | stale readings, rows without a project, a wait-for graph that is edited by everyone | claims exclude each other; no cycle of waits goes unreported |
| Work orchestrator, `work_orchestrator.py` | table work_orders, rollback journals, the workspace, threads | submit, cancel, continue, execute, patch, roll back, deliver, recover, close | the fence, the leases, the task store, model back ends | crash between any two writes; recovery that runs beside workers; a busy store; cancellation races | every edit can be undone or was delivered, recovery requeues only a clean workspace, failures are reported as they are, every order ends |
| Task store, `agent_tasks.py` | one row per task: status, owner, checkpoint with mutation generation and fenced-work barrier, receipts | claim, transition, heartbeat, reap, checkpoint, complete; begin, adopt, finish a fenced mutation | the orchestrator (bounded orders with a task), receipts, agents | task row, order row, journal and workspace are four stores; compare-and-swap of a row that everyone touches; a completion call that reads in three places | the barrier stands while edits can be undone; a completed task rests on receipts that saw its workspace; every barrier is lifted or reported |
| Async jobs, `async_jobs.py` | table async_jobs, dispatcher and worker threads, events, admissions, release tokens | submit, dispatch, execute, wait, cancel, tick, recover, close; mode changes | HTTP handlers, scheduler, operational mode | a lapsed lease with its thread still running; replay after crashes; watchdog against waiters; unloading against running inferences | one final outcome, of the latest attempt; bounded replay; every job ends and every waiter returns; no unloading under an inference |
| Semaphores, `agent_semaphores.py` | holders and waiters per name | acquire, release, wait | agents, pub/sub | read-modify-write without an immediate transaction; not FIFO; expiry wakes nobody | never more holders than capacity |
| GPU reservation, `external_gpu_reservation.py`, `background_gpu.py` | a digest file and a metadata file; the idle worker with its model server | reserve, renew, release, reap, claim and release internally; batches, preemption | scheduler, embedding and OpenCode processes, operator | a crash or failure between the two files; a stop that is not confirmed; model calls of unknown outcome | whoever gets on the GPU has a fence in force, which others leave alone; background yields to foreground |
| Scheduler, `scheduler.py` | pending and in-flight requests, active model, flags, dispatcher thread | submit, dispatch, switch models, prewarm, unload when idle, cancel | back ends, GPU reservation, idle worker | sections between which the lock is released; cancellation of waiting work; background work between | models change with nothing in flight; every request is answered |
| File locks, command transactions | lock files, command journals | acquire, steal, commit, undo | command broker | dead owners | as work orders, smaller |
| Events, memory, blackboard, incidents, receipts, plans, caches | SQLite rows | mostly single statements | surfaces | little | pure rules and revision checks |
| Repository layer, code index, retrieval, preprocessing, back ends, surfaces, configuration, telemetry, vision | data | parsing, searching, network and process I/O | everything | outside a model checker's reach | - |

`PROJECT.json` lists every part with its status, and under `hazards` each place in
the code that is hard to test, with the property that watches it.

## Modules

| Module | Models | Extends / instantiates |
|---|---|---|
| `PathScopes` | normalised relative paths and their overlap (`_overlaps`, `_overlap`) | |
| `WriterFence` | `work_fencing.py` | `PathScopes`; instantiates `FencedFiles` |
| `FencedFiles` | abstract: what the fence promises, per file, without clocks, rows or transactions | |
| `WriterFenceProofs` | theorems about `WriterFence` | `WriterFence` |
| `ScopeLease` | `leases.py` | `PathScopes` |
| `ScopeLeaseProofs` | theorems about `ScopeLease` | `ScopeLease` |
| `WorkOrders` | the life cycle of work orders, `work_orchestrator.py` | |
| `WorkOrdersProofs` | theorems about `WorkOrders` for every setting: types, whose edits a rollback takes back | `WorkOrders` |
| `WorkUndoProofs` | lemmas about journals, rollbacks and the steps of threads | `WorkOrdersProofs` |
| `WorkEditsProofs` | theorems about `WorkOrders` with one worker: edits stay undoable, failures are honest | `WorkUndoProofs` |
| `AsyncJobs` | `async_jobs.py`, and the mode change of `http_server.py` and `operational_mode.py` | |
| `AsyncJobsProofs` | theorems about `AsyncJobs` | `AsyncJobs` |
| `GpuScheduler` | `scheduler.py`, `background_gpu.py`, `external_gpu_reservation.py` composed: the parties that share the GPU | |
| `GpuSchedulerProofs` | theorems about `GpuScheduler` | `GpuScheduler` |
| `TaskBarrier` | a task of `agent_tasks.py` composed with a bounded order of `work_orchestrator.py`, receipts and completion | |
| `TaskBarrierProofs` | theorems about `TaskBarrier` | `TaskBarrier` |
| `MCWriterFence`, `MCScopeLease`, `MCWorkOrders`, `MCAsyncJobs`, `MCGpuScheduler`, `MCTaskBarrier` | values of the constants for TLC | the module of their name |

Operators whose comment starts with "(faulty)" are wrong variants of the definition
that follows them. Nothing uses them in the specifications; replacing the
definition by its faulty variant must break a property, which shows that the
property watches that code.

### WriterFence

Rows are functions from ids to records; a handle is the id of its row. `attempts`,
`leases`, `attemptCounter` and `leaseCounter` are the tables, `context[r]` the
coordination scope that the configuration gives a root, `clock` is `time.time()`,
which may be set back.

A mutating call is two steps, because the code reads the clock, then opens
`BEGIN IMMEDIATE`, and `retry_busy` repeats the transaction with the first reading:
`ClaimAttempt`, `RenewAttempt`, `Acquire`, `Renew` and `PruneExpired` put a record
with the reading into `calls`; `...Write` is the transaction; `Abandon` is the call
that raised, gave up or died. Refusals are the missing guards: a call whose
`...Write` is not enabled can only be abandoned. `Enter...Guard`, `Transition`,
`Write`, `Exit...Guard` and `AbortGuard` are the guards; `guard` is the open one,
which holds the database's only write lock, so no transaction happens beside it
(`Unlocked`). The guarded bodies are reduced to what the fence has to order: the
token of the last write to each file (`lastWrite`) and of the last transition of
each work order (`lastState`). `Rescope` is an edit of a root's coordination id
followed by a restart.

### ScopeLease

`leases` is one record per path of a lease, `waits` the wait-for edges with their
age. `Claim` again captures the clock; `ClaimGranted`, `ClaimRefused` (which
records the waits) and `ClaimDeadlock` (which rolls everything back) are the three
outcomes of its transaction. The depth-first search of `claim` is `DetectCycle`:
some owner reachable from the claiming one is on a cycle, reachability being
membership in every set closed under the edges. `Legacy` holds rows of agents that
gave no project id.

### WorkOrders

One repository root; a thread (`th`) is a worker or the recovery thread of a
process (`up`, `retry`).

* `row`: the order's state, `cancel_requested`, its request (mode and
  `keep_failed_workspace`) and of `result_json` only what later code reads back:
  changed files, recovery checkpoint, handoff, unsafe.
* `file`: contents are told apart by the patch that produced them; `torn` is a file
  whose writer died. `journal`: the journal file, entries with pre- and postimage.
* `attempt`, `lease`, `lock`: what the fence and the advisory leases provide here:
  one newest attempt per order that is live or not, one holder per file, and the
  one write transaction of the fence store. A section under `attempt_guard` is a
  single step, a section under `commit_guard` is several (`Patch`, `WriteFile`,
  `Patched`; `Rollback`, `WriteFile`, `Checkpoint`, `ClearJournal`), so that the
  process can die between any two file writes.
* `Restorable` and `RestorePlan` say in closed form what `_rollback_patches` refuses and
  restores: the code walks the journal backwards over what it finds on disk; an entry is
  found with its postimage when it is the last of its file, and otherwise with the
  preimage of the next entry of its file. It is closed so that the proofs need no
  induction over journals.
* `Busy(t)`: another thread is inside `commit_guard`; a guarded call that has no
  retry may then raise `sqlite3.OperationalError` (`ClearDeliveredBusy`,
  `RollbackRefused`, `UpdateBusy`, `RecoverAborts`, ...).

A worker goes `Next_`, `CheckPlanning`, `ClaimAttempt`, `Begin`, planning
(`PlanEnds`, `PlanFails`, `PlanDone`), steps (`StartStep`, `Patch`, ..., `StepDone`,
`ReviewAsks`, `StepFails`), `StartVerify`, `Deliver`, `ClearDelivered`; or through a
handler: `Rollback`/`DropJournal`/`RollbackRefused`, `End`, `Raise`; and always
`Release`. Recovery goes `StartPass` (select the rows), `LoadJournal`,
`RecoverClaim`, `RecoverRestore` or `RecoverRefused`, `RecoverUpdate`,
`RecoverRelease`, then the clean-up of complete orders and `EndPass`. What the model
answers, what tests say and which budget runs out are nondeterministic choices.

### AsyncJobs

Times are kept as what the code compares them with now: `leased` is `lease_until >
now`, `past` is `expires_at <= now`, `delayed` is `dispatch_not_before > now`; the
clock is `Lapse`, `Expire` and `FallDue`. `KindOf` says what a request may do after
an interruption: "keyed" has a request id and may be replayed, "reason" is given
one by the hub, "plain" has none, "lint" is no inference.

A worker thread (`th`) goes `Execute` (claim: attempt number and lease), `Admit`
(mode, release tokens, inference admission), the executor, `RunEnds`, `Finalize`
(which looks whether the attempt still `Owns` the row) or `Defer`; `StoreFails`
leads to `ReleaseForRetry`. `Tick` is the watchdog, whose dispatches
(`TickDispatch`) come after it has left its transaction. A caller of `wait()` looks
at the row, registers an event, looks again and blocks (`Wait`, `WaitEvent`,
`WaitBlock`). A mode change (`SetMode`) takes a release token, drains, unloads
(`Drain`, `ReleaseAfterDrain`, `Unloaded`) and gives the token back; its hook that
cancels blocked jobs may fail, which leaves their rows as they are. `Direct` are
HTTP requests that run inference without a job.

One manager per database (`recover()` takes over every row of a dead one). The
executor may hang, fail, lose its result or end with an unknown outcome. Left out:
artifacts, progress, traces, the calls to the task store.

### GpuScheduler

Every operation of the reservation files runs under a cross-process file lock and
every section of the scheduler under `_cond`: each is one step, and what lies
between two sections (a model call, a load, the stop of a server) lies between two
steps. `file` is what the two files say: whose digest, whose metadata, whether the
record has lapsed or the digest is older than the TTL, and the marker of an operator's
release. `hub` holds the scheduler's flags, `disp`, `warm` and `hook` its threads,
`bg` and `runner` the idle worker and its model server, `ext` other processes,
`ghost` a model call whose outcome is unknown and which is still running.

`Observe` is `_external_gpu_reserved`, which reaps, consumes the marker and forgets
a claim on the way; every section that calls it changes the files accordingly.
Which model is chosen, and when, is left open where the code decides by scores,
priorities and clocks; `hub.quiet` and `hub.fresh` keep the idle grace and the
switch cooldown. A crash of the hub is in `Init`: `Leftovers` are the files an
earlier process left. Assumptions about time are constants: `Overtaking` (a prewarm may
fall between the last section of a switch and the dispatcher's next one) and `Kept` (which
processes renew in time). The hub's own digest may outlive its TTL at any moment (`Age`):
it is written once, when the hub claims the GPU, and not renewed. An operator acts only when the GPU is quiet, as the
documentation asks.

### TaskBarrier

One task, one bounded order, one hub process with its worker and its recovery
thread. `task` is the row (status, owner, generation `gen`, barrier `mark` = token
of the attempt at work, mapped receipt), written by compare-and-swap of the whole
row: `reads` holds the threads whose copy is still current. `order`, `journal` and
`tree` are the other three stores; `tree` is told apart by the last patch and the
last outside edit.

The worker goes `Take`, for each patch `BeginWork`, `Persist`, `Apply`, then
`Deliver`; or `Fail`, `Ask` and `RollbackTransaction`. Both use
`_finish_fenced_work_mutation`: `FinishRead`, the `finalize` they pass (`Publish` or
`Restore`, `RecordCheckpoint`; `ClearJournal`), `CommitFinish`; recovery uses the
same steps after `Adopt`. `FinishFails` is an exception at any of them, and
`AfterError` where the handlers go on. The terminal write itself is `End`, or `EndFails` when it raises:
a rollback outside the handlers then goes to them, after a
handler `_execute` records a plain failure that does not look at the barrier
(`order.bar` = "unseen"), or schedules recovery. `RecordFails` is the same for the
writes of a recovery pass and sets `env.missed`, since nothing schedules another pass;
a failing pass at the start of the hub is a `Crash`. A recovery pass goes `StartPass`,
`ScanTerminal` (orders that ended), `ReadRow`, `ReadJournal`, `ClaimAttempt`, ...,
`Report` or `Update`. A completion is `CompleteCall` (owner and fingerprint),
`CompleteCheck` (receipts), `CompleteMove` and `CompleteCommit` (with
`_verify_completion`). The task's `rollback()` is `Edit` followed by `Heartbeat`.

Three constants name what the passing run leaves out: `Resets` (a checkpoint that
leaves `mutation_generation` out may still come once there is a receipt), `Interrupted` (a recovery pass
looks at an order that its worker still has) and `LongRuns` (an order edits the
workspace during a test run). What happens with them is under [further
results](#further-results). `blocked` is as `waiting`; the completion call with
`allow_adopt` is `Claim` followed by `CompleteCall`.

## Runs

All passing runs finish; each needs at most about three minutes with two
workers. "Stop" below means the run does not check for deadlock because a bounded
instance may run out of calls, ids or crashes: every run.

| Run | Instance | Shows |
|---|---|---|
| `fence_race` | 1 root that moves from its physical scope to a project, 1 order, 1 file, 2 attempts, 2 leases, clock 0..1, one call at a time beside open guards | `TypeOK`, `AttemptExclusion`, `OnlyNewestWrites`, `AttemptTokensUnique`, `TransitionsInTokenOrder`, `FencedFilesSpec`: the fence implements `FencedFiles` |
| `fence_paths` | the same with a directory and a file in it | `LeaseExclusion`, `WritesInTokenOrder`, `TokensIncreasePerResource` |
| `lease_tree` | 2 owners, a directory and two files, a legacy row, 2 overlapping calls, clock 0..2, waits that age out after 1 and are deleted after 2 | `TypeOK`, `ClaimExclusion`, `NoSilentDeadlock` |
| `work_crash` | 1 order of any mode, 2 files, 2 patches, 2 crashes or shutdowns, cancellation and an answer | `TypeOK`, `EditsJournaled`, `CleanRequeue`, `HonestFailure` |
| `work_two` | 2 orders, 1 file, attempts and leases may lapse at any moment, a busy store | `RollbackSparesOthers` |
| `work_settles` | 1 bounded order, 1 patch, 2 crashes or shutdowns, cancellation and an answer, with fairness | `Settles` |
| `jobs_race` | 1 keyed or lint job, 2 worker threads, 1 mode handler, 1 direct request, 2 attempts, 1 store failure, 2 mode changes | `TypeOK`, `BoundedReplay`, `NoUnloadDuringInference`, `FinalOnce`, `ResultOfLatestAttempt` |
| `jobs_settle` | 1 keyed job, 2 worker threads, 1 caller of `wait()`, 2 attempts, 1 crash, 1 cancellation, with fairness | `Settles`, `WaiterReturns` |
| `gpu_share` | 2 foreground requests for 2 models, prewarming, the idle worker with its CPU fallback, leftover files of dead processes (no new external reservation), 1 fault, 1 caller that leaves, 2 batches | `TypeOK`, `BackgroundYields` |
| `gpu_serve` | 2 foreground and 1 background request, 2 external processes of which 1 renews, claims that outlive their TTL, leftover files, 1 fault, no idle worker, with fairness | `QuietSwitch`, `FenceHonoured`, `Served` |
| `barrier` | 1 agent and the reaper, 1 patch, any 3 events (calls of the agent, edits, test runs, failures of a store, of the write of a result or of recovery's writes, crashes), with fairness | `TypeOK`, `JournaledUnderBarrier`, `BarrierReported`, `CompletedUntouched`, `EndedUntouched`, `CompletionCurrent`, `BarrierSettles` |
| `work_stale` | 2 hub processes, 1 order, 2 files; see [findings](#findings) | violation of `CompletedWorkKept` |

Why the bounds are enough. *Fence*: a race needs a holder and a successor (2
attempts, 2 leases) and a reading that is older than the clock (0..1); calls that
overlap, of which one overtakes the other, are covered by the proofs: every
property of these runs is also proved for every value of the constants.
*Leases*: two owners that each hold a file and want the other's is the smallest
deadlock; longer cycles, more roots and worktrees are covered by the proof. *Work
orders*: a second patch is what separates "this patch" from "the earlier patches",
a second file what makes a write or a restore partial, a second crash what kills
the recovery of the first. `Prompt` says whether a thread may be delayed past the
lifetime of its attempt (the order's time budget and a minute, renewed at every step); it is TRUE except in
`work_two`. `MaxSteps`, `MaxAttempts`, `MaxCalls` (cancellations and answers) and
`MaxPatches` only cut executions short. A bound on attempts of 9 is never reached
with one order; in `work_two` (2) it leaves an order with a worker's attempt and one by
recovery.
*Jobs*: a second thread is what makes an attempt stale, a second attempt what makes a
replay, a handler and a direct request what an unloading can collide with. `JobsRace.cfg`
with `MaxCrashes = 1` and one kind of request (keyed 3.7 million states, lint 0.5, plain
0.5, reason 1.1) and `JobsSettle.cfg` with `MaxFaults = 1` (0.6 million) pass as
well and are not runs of their own; crashes, any number of jobs, threads, attempts and
kinds are covered by the proofs. The queue limit and duplicate requests need two jobs. *GPU*:
two models make switches necessary, the hub, two external processes and the dead ones give
every pair of parties, with renewal and without; the faults are an unknown outcome or a stop that is not confirmed.
`gpu_serve` passes with prewarming too (`Warmed = {m2}`, 0.2 million states), and
`GpuShare.cfg` with three foreground requests and two callers that leave (`Jobs =
Foreground = {f1, f2, b1}`, `MaxLeaves = 2`, `MaxFaults = 0`, no leftover files, 5.2 million
states). What `gpu_share` needs is that no request is a background one and that
not all callers leave, see [further results](#further-results); the theorems say it
exactly. *Barrier*: every failure the code handles is a single
event, so three of them reach, for instance, a failed commit, a crash and the failure
of its recovery, or a test run, a completion call and a change of owner during it. A
second agent (1.2 million states) and `MaxEvents = 4` (6.2 million) change nothing for
the safety properties.

Symmetry is used for attempt, lease and order ids, worker threads and
mode handlers, which nothing compares except for equality, and only with safety properties.

## Fairness

`FairSpec` of `WorkOrders` assumes that every thread keeps running (weak fairness of
its steps taken together: the scheduler of the operating system, and `_loop`, which
survives exceptions), that a stopped process is started again (weak fairness of
`Start`: `supervisor.py` restarts the hub) and that the lifetimes of attempts and
leases pass (strong fairness of `ExpireAttempt` and `ExpireLease`: with `Prompt`
expiry is not enabled while a pass is looking at the order, and passes repeat;
time passes regardless). It assumes nothing about callers, crashes or the outcome
of any step: which branch a step takes is not fair.

`Settles` is stated for bounded orders, which recovery never puts back in the
queue: an order in execute mode can be requeued as often as it crashes, and can be
stranded (see [further results](#further-results), `Resumable`).

`FairSpec` of `AsyncJobs`: the threads of the hub run, the watchdog ticks every few
seconds, leases lapse and delays pass, a stopped hub is started again. Nothing is
assumed of the executor, which may hang for ever, of callers, or of the length of
their timeouts. A release of the accelerator behind a hung inference never ends, so
`Settles` is checked without mode changes.

`FairSpec` of `GpuScheduler`: dispatcher, executor, caller, worker and hook threads
run, model loads and external sessions end, clocks advance. A model call may end
with an unknown outcome; then only an operator gets the scheduler further, which
`Served` excepts.

`FairSpec` of `TaskBarrier`: worker and recovery threads run, the attempt of a dead
process expires, the supervisor starts the hub. `BarrierSettles` starts from a crash
because only a start schedules the pass that looks at ended orders (see limits), and
excepts a pass whose own writes raise (`env.missed`): it is not repeated before the
next start.

## Proofs

`WriterFenceProofs`, for all roots, projects, orders, paths, ids, lifetimes and
bounds:

| Theorem | Statement |
|---|---|
| `TypeCorrect` | `Spec => []TypeOK` |
| `Exclusion` | `Spec => []LeaseExclusion` |
| `OneAttempt` | `Spec => []AttemptExclusion` |
| `UniqueAttempts` | `Spec => []AttemptTokensUnique` |
| `NewestWriter` | `Spec => []OnlyNewestWrites` |
| `FencedWrites` | `Spec => WritesInTokenOrder` |
| `FencedTransitions` | `Spec => TransitionsInTokenOrder` |
| `IncreasingTokens` | `Spec => TokensIncreasePerResource` |
| `ImplementsFencedFiles` | `Spec => FencedFilesSpec` |

They assume, besides the typing assumptions of the constants, `OneWay`: the
configuration moves a root at most from its physical scope to one project. That is
what the compatibility clause of the queries (`scope_id=? OR (resource=? AND
scope_id=resource)`) is written for; a root that is moved from one project to
another leaves its old rows out of sight, and tokens start again (see limits).

None of the properties is inductive alone. The invariant `IInv` adds: an open guard
belongs to a row that still is active and whose attempt is (`GuardHolds`: time may
pass it, but nobody can retire it while the write lock is held); the attempt a lease
names exists, on the same root (`Parented`); every row was written under
its root's physical scope or its present one (`ScopesSettled`); tokens are within
their scope's counter, and of two overlapping leases of one root or project the one
with the lower token is inactive (`LeaseOrder`),
and the same for attempts of one order (`AttemptOrder`); and the token of a past
write or transition is that of a row still in the table (`EffectsGranted`). The
argument for the write order: a write happens under an open guard; its lease is
active; by `LeaseOrder` no overlapping lease has a higher token; the last write of
the file was made under a lease that covers the file and so overlaps; hence its
token is not higher.

The refinement maps `granted[k]` to the newest token of the leases that cover file k.
That a newest one exists, although nothing bounds the number of leases, is one more
invariant (`NewestExists`): the token of a new lease is above all others of its root,
and nothing else changes the tokens. Then `AcquireWrite` is a `Grant` on its root, or a
stutter when its paths cover no file; `Write(f)` is a `Write` because an active lease
that covers f is the newest that does; every other step leaves both variables alone.

`ScopeLeaseProofs`, for all owners, roots, paths, ids and bounds:

| Theorem | Statement |
|---|---|
| `TypeCorrect` | `Spec => []TypeOK` |
| `Exclusion` | `Spec => []ClaimExclusion` |
| `DeadlocksReported` | `Spec => []NoSilentDeadlock` |

The invariant adds that clock readings in flight are not in the future and that a
row's scope is its root or its root's project. The interesting lemma is
`SearchFindsNewCycles`: `claim` searches only from the claiming owner, but all new
edges start there; if a cycle through some v came into being, v could be reached
neither in the old graph from itself nor from the claiming owner in the new one, and
the union of the two closed sets that show this is closed in the new graph and does
not contain v. The search also uses the window of an *older* clock reading, which
only makes its graph larger.

`AsyncJobsProofs`, for all jobs, requests and kinds, threads, callers and bounds; the
only assumption is that the pool of worker threads is finite:

| Theorem | Statement |
|---|---|
| `TypeCorrect` | `Spec => []TypeOK` |
| `ReplayBounded` | `Spec => []BoundedReplay` |
| `UnloadsQuiet` | `Spec => []NoUnloadDuringInference` |
| `OutcomesFinal` | `Spec => FinalOnce` |
| `ResultsCurrent` | `Spec => ResultOfLatestAttempt` |

`BoundedReplay` counts invocations of the executor, but the code counts attempts, and
an overtaken thread may still invoke the executor long after its attempt was
written off. The invariant `RunsPaid` closes the gap: invocations made, plus the threads
that hold an attempt they have not used, never exceed the attempts of the row; with
`RowsOK` (a queued row has an attempt left; a row that may not be replayed is never
queued with one used) this bounds the invocations whatever order crashes, lapses and
failures come in.

`TaskBarrierProofs`, for all agents and bounds:

| Theorem | Statement | Setting |
|---|---|---|
| `TypeCorrect` | `Spec => []TypeOK` | every |
| `JournalBarred` | `Spec => []JournaledUnderBarrier` | every |
| `BarrierShown` | `Spec => []BarrierReported` | `~Interrupted` |
| `EndedStays` | `Spec => EndedUntouched` | `~Interrupted` |
| `CompletedStays` | `Spec => CompletedUntouched` | `~Interrupted` |
| `CompletionSound` | `Spec => CompletionCurrent` | `~Interrupted`, `~Resets`, `~LongRuns` |

The three settings are the ones the runs use; without them the statements are false
([further results](#further-results)). `JInv` says which thread holds the attempt where
(`Owned`) and that a thread about to commit the end of a barrier has removed the journal,
and that a recovery which lifts a barrier without a journal meets an order
that nobody will patch again (`JournalInv`). `BarrierReported` names one exception, the
result "unseen" that the plain failure of `_execute` leaves when the terminal write
raised; that a result saying "released", or nothing, is never wrong is what remains to
be proved, through every `End`, `Update` and `Report`. `BInv` adds what state the order is in at each
place of the worker and of recovery (`OrderInv`), and that the workspace changes only under
the barrier (`TreeInv`). `ReceiptInv` carries completion: a receipt that counts is
of an earlier generation, or saw exactly the patches that are in the workspace now.

`GpuSchedulerProofs`, for all requests, models, external processes and bounds:

| Theorem | Statement | Setting |
|---|---|---|
| `TypeCorrect` | `Spec => []TypeOK` | every |
| `SwitchesQuiet` | `Spec => []QuietSwitch` | no idle worker, `~Overtaking` |
| `FenceKept` | `Spec => FenceHonoured` | no idle worker, `~Overtaking` |

The settings are those of `gpu_serve`; each is needed ([further
results](#further-results)). `QInv` says that the flags `_switching` and
`_gpu_prepare_in_progress` are up while the dispatcher or a prewarm prepares a model, that
only one of them does and with nothing in flight (`OnePreparation`), and that requests
in flight are for one model, the active one if there is one (`OneModel`). `FenceParts` is
what the fence rests on: metadata belong to whom the digest says; no operator's release
waits to be seen while the hub computes; an outcome that is unknown is remembered for
as long as its call runs, and keeps the loop from unloading. `Seen` says the same of what
a section has observed, so that a section that goes on has the fence, and one that
cleans up takes none from a party on the GPU. `FenceKept` is not mutual exclusion: a
fence that outlived its TTL is no longer in force, the hub does not renew its
own, and whoever relies on it longer than 60 s is not protected (`GpuExclusive` under
further results).

The idle worker beside the scheduler, again for all requests, models, processes and bounds:

| Theorem | Statement | Setting |
|---|---|---|
| `WorkerYields` | `Spec => [](Standing => InFlight = {})`: the first half of `BackgroundYields` | `Jobs = Foreground` |
| `AwaitedYields` | `Spec /\ []Awaited => []BackgroundYields` | `Jobs = Foreground` |
| `LoadsAwaited` | `Spec => []Awaited` | no caller leaves (`MaxLeaves = 0`), `~Overtaking` |
| `BackgroundGivesWay` | `Spec => []BackgroundYields` | the three together |

`Standing` is a server that holds its model and whose stop was not refused; `Awaited` says
that the dispatcher loads a model only while a request still waits. The gate is the
background lease that `submit` raises before its hook thread exists, and the argument is
about who lowers it: `LockHeld` and `OneHook` say that worker and hook exclude each other
by `_setup_lock` and that one hook runs at a time; `Leased`, that a session being set up is
leased, and that a leased session beside a hook has the gate up; `LiftedEmpty`, that the gate
is lowered only after a stop and before the next server is up (this is where `Settled`,
the assumption that no thread sleeps inside `submit` or the hook for as long as a server
takes to start, is needed); `Gated`, that while the server holds its model nothing is in
flight and what waits is behind the gate. For the second half the dispatcher's own load
has to end before its request goes away. Where callers leave it may not, and the
property fails ([further results](#further-results)).

`WorkOrdersProofs`, for all orders, threads, files and bounds, in every setting:

| Theorem | Statement |
|---|---|
| `TypeCorrect` | `Spec => []TypeOK` |
| `RollbacksSpareOthers` | `Spec => RollbackSparesOthers` |

The second rests on `History`: the contents of a file are numbered by the patch that
produced them, every entry of a journal was written by its own order over an older
content, and whoever writes files to restore them writes what its own order's journal
holds.

`WorkEditsProofs`, for all orders, files and bounds:

| Theorem | Statement | Setting |
|---|---|---|
| `EditsStayJournaled` | `Spec => []EditsJournaled` | `Alone` |
| `RequeuedClean` | `Spec => []CleanRequeue` | `Alone` |
| `FailureHonest` | `Spec => []HonestFailure` | `Alone`, `OneOrder` |
| `RollbacksSucceed` | `Spec => [](RollbackWelcome /\ RollbackWhole)`: no rollback of a journal meets contents it does not know, and none leaves a file half restored | `Alone` |

`Alone` is `Prompt` with one worker and one recovery thread: the default of the code
(`max_active_work_orders` is 1, `work_orchestrator.py:869`) with threads that are not
delayed past the lifetime of their attempt. `OneOrder` is needed because recovery of
another order may keep the fence store busy, so that a rollback is refused and
the failure recorded without saying so. Without these the statements are false
([further results](#further-results)). The invariant `EInv` says: a thread that works under
an attempt owns it and is alone on its order (`Owners`); the files of a journal that may
still be restored are leased to its order (`Leased`); the entries of a journal match each
other and the contents on disk, those of a rollback that is half done included
(`Linked`); each place of a worker or of recovery fits the state of its row (`Rows`); and
every edit of an order that has delivered nothing is covered by an entry of its journal,
as is every content that a half-done rollback may still bring back (`Shadowed`).

Each inductive invariant was checked with TLC before it was proved. The attempts to prove
three properties showed that their runs had passed only because of their bounds.
`CompletionCurrent` fails with a fourth event when a checkpoint resets the generation
after a receipt was recorded, which is now the constant `Resets`. `QuietSwitch` fails
beside the idle worker, which is why it is now checked and proved without it.
`BackgroundYields` fails with three requests whose callers all leave, which is why its
theorem names what it needs of them.

Only model-checked: `BackgroundYields` with a caller that leaves; and liveness
(`Settles`, `WaiterReturns`, `Served`, `BarrierSettles`), which the prover does not handle.

## Findings

One run ends in a counterexample to a sentence of the repository:

* `work_stale` (`CompletedWorkKept`): `_recover` reads rows and journals before it
  claims the attempt and never again. When the worker of another process completes
  the order in between, the rollback restores the preimages of completed work
  before the checkpoint notices, against the comment "keep committed workspace and
  discard only the now-obsolete rollback snapshot on restart".

### Further results

These were obtained with the configuration named, changed as stated, and can be
repeated by checking the formula there.

| Formula | Configuration | Result and cause |
|---|---|---|
| `Resumable` | `WorkSettles.cfg`, `Requests <- Execute` | violated: recovery commits "queued" before it releases its attempt (`work_orchestrator.py:2914`), and a worker that takes the order in between is refused and leaves it stranded |
| `CompletionFinal` | `WorkTwo.cfg`, `Worker = {w1, w2}`, `Host <- TwoWorkers`, `File = {a, b}`, `Prompt = TRUE` | violated: when clearing the journal meets a busy store after completion was recorded, the exception takes the worker into its rollback (3725-3727), against the comment "Completion is already durable; never roll it back for cleanup failure" |
| `EditsJournaled` | `WorkStale.cfg`, `Prompt = FALSE`, `MaxPatches = 2`, `MaxAttempts = 3`, `MaxCalls = 0` | violated: recovery has read an older journal, the worker patches more, its attempt lapses, recovery restores what it had read and removes the journal |
| `CleanRequeue`, `HonestFailure` | `WorkTwo.cfg` | violated: recovery reads an empty journal, the worker patches and its attempt lapses, recovery requeues the order over its edits; `_loop`, which cannot read the row while recovery has the store, may then record it as failed |
| `HonestFailure` | `WorkTwo.cfg`, `Prompt = TRUE`, `File = {a, b}`, `MaxCrashes = 1` | violated: recovery of the other order keeps the fence store busy when a rollback begins and again when the failure is recorded; `_execute` (2965-2979) then records "failed" without a rollback status while the edits remain |
| `EditsJournaled`, `CleanRequeue` | the same | hold (7.0 million states) |
| `EditsJournaled`, `CleanRequeue`, `HonestFailure` | `WorkStale.cfg`, `MaxPatches = 2`, `MaxCalls = 2` | hold |
| `CleanRequeue` | `WorkStale.cfg`, `MaxCrashes = 1`, `MaxCalls = 1` | holds: also with two hub processes recovery requeues only a clean workspace |
| `SingleOwner` | `JobsRace.cfg` | violated: `_release_for_retry` (`async_jobs.py:1072`) does not look at the attempt, so the thread of a lapsed one releases the row of its successor |
| `GpuExclusive` | `GpuServe.cfg`, also with `Kept = {e1, e2}` | violated: the hub's digest is written once, never renewed and reaped after its TTL of 60 s although the model call runs on |
| `FenceHonoured` | `GpuServe.cfg`, `Spec`, `Worker = TRUE`, `MaxBatches = 1` | violated: `acquire_background_gpu` that gives up after its unloading releases the claim (`scheduler.py:1268-1269`) under which the dispatcher meanwhile dispatched |
| `FenceHonoured` | `GpuShare.cfg`, `Warmed = {}` | violated: `acquire_background_gpu` takes the preemption gate for a lease (`scheduler.py:1208-1209`), and the worker's `release_background_gpu` (1391-1395) drops the claim of a request in flight |
| `FenceHonoured` | `GpuServe.cfg`, `Spec`, `Warmed = {m2}`, `Overtaking = TRUE` | violated: a prewarm that began between the end of one switch and the start of the next gives the claim up while that switch loads |
| `UnconfirmedHolds` | `GpuShare.cfg` | violated: `scheduler.py:884-888` goes on after a stop that was not confirmed; `background_gpu.py:320` says "Only confirmed termination permits the GPU reservation to release." |
| `QuietSwitch` | `GpuServe.cfg`, `Spec`, `Warmed = {m2}`, `Overtaking = TRUE` | violated: a prewarm between the end of a switch and the next dispatch loads another model |
| `QuietSwitch` | `GpuShare.cfg`, `Jobs = Foreground = {f1, f2, b1}`, `MaxLeaves = 2`, `MaxFaults = 0`, no leftover files | violated: while `acquire_background_gpu` unloads (`scheduler.py:1204-1270`) only `_switching` is up, which the dispatcher does not look at (1476-1530): it prepares and dispatches for one model while the slot is changed under it |
| `BackgroundYields` | `GpuShare.cfg`, `Jobs = {f1, b1}`, `Foreground = {f1}`, `Warmed = {m1}` | violated by the same gap with a background request, which does not count as foreground activity in the check after the unloading; the docstring (1196-1199) says "the secondary Ollama server never intentionally shares constrained accelerator memory with the foreground runner" |
| `BackgroundYields` | `GpuShare.cfg`, `Jobs = Foreground = {f1, f2, b1}`, `Warmed = {}`, `MaxFaults = 0`, `MaxLeaves = 3`, `MaxBatches = 3`, `Cpu = FALSE`, no leftover files | violated by the same gap when callers leave: a request accepted behind a running hook is not gated and its switch starts while `acquire_background_gpu` unloads; its caller leaves, the end of the unloading clears `_switching` under the dispatcher's switch, and the worker loads its model beside it |
| `BackgroundYields` | `GpuShare.cfg`, `Jobs = Foreground = {f1, f2, b1}`, `MaxLeaves = 0`, `MaxBatches = 3`, no leftover files | holds (8.1 million states), as the theorem says |
| `BackgroundYields` | `GpuShare.cfg`, with a second alternative of `StartHook` that lowers `hub.preempting` and `hub.lease` instead of starting the hook | violated: when the hook's thread cannot be started (`scheduler.py:877-881`) the gate is lowered with nobody stopping the worker's server, and the dispatcher goes on beside it |
| `BarrierReported` | `Barrier.cfg`, with "unseen" taken out of the set of the formula | violated: the plain failure of `_execute` (`work_orchestrator.py:2965-2971`) ends the order without `task_barrier_status`; only the pass of the next start reports the barrier |
| `BarrierSettles` | `Barrier.cfg`, without `env.missed` in the formula | violated: a pass whose final update raises (`work_orchestrator.py:1606-1653`) is not repeated before the next start |
| `CompletionCurrent` | `Barrier.cfg`, `Spec`, `Resets = TRUE`, `MaxEvents = 4` | violated: a checkpoint without `mutation_generation` sets it back to 0 after a receipt was recorded, so that the receipt of an earlier generation counts again |
| `CompletionCurrent` | `Barrier.cfg`, `Spec`, `LongRuns = TRUE`, `MaxEvents = 4` | violated: the mutation generation of a receipt is read after the test run (`commands.py:4048-4052`), so an edit during the run counts as tested |
| `EndedUntouched`, `CompletedUntouched` | `Barrier.cfg`, `Spec`, `Interrupted = TRUE`, `MaxEvents = 4` | each violated: a recovery pass that reads a journal before the worker ends the order acts on it afterwards (`work_orchestrator.py:1424-1428`) |

## Limits

What the properties do not say, because the code does not do it:

* `HonestFailure` is checked with one worker and one process. With two workers, a
  bounded order whose rollback *and* terminal write both find the store busy is
  recorded as failed by `_execute` with a plain error that no longer says the
  workspace needs reconciliation; and `_loop` records a failure without a fence when
  a row cannot be read.
* `CleanRequeue` is checked with `Prompt`. A recovery pass that is delayed past the
  lifetime of a worker's attempt, having read an empty journal before that worker's
  first patch, requeues the order over its edits.
* `ScopeLease` leaves waits behind: a wait for `d/x` stays when `d` is released
  (exact match of paths). They age out after an hour and can make a later claim
  report a deadlock that is none. Its clock does not run backwards.
* A root moved from one project to another starts its tokens again, against the
  docstring of `FencingLeaseStore` ("increase monotonically per canonical
  resource").
* An order that was answered (`continue_work`) starts with an empty journal over
  whatever its earlier execution left; the properties leave such orders out, and
  those that asked to keep a failed workspace.
* `AsyncJobs`: admission does not look at the attempt number, so an overtaken thread may
  still start the executor (`BoundedReplay` counts it). The comment at 1114-1116 says that
  only terminal jobs wake waiters, the code also wakes them for a requeued one; the
  waiter returns "queued". Lint jobs are parked during a release although the mode
  does not block them.
* `GpuScheduler`: the GPU is not exclusive for longer than a TTL, see `GpuExclusive` under
  further results. A prewarm whose `ensure_running` fails leaves `_switching` set;
  metadata without a digest blocks every claim until an operator removes it; an
  OpenCode session renews every 300 s against a TTL of 60 s, which is why it is
  not in `Kept`.
* `TaskBarrier`: a crash between `BeginWork` and `Persist` leaves the barrier in need
  of reconciliation for good although nothing was edited. When the commit after a
  handover fails because of a heartbeat, the barrier stays "pending_finalization"
  until the next start; when it fails during a rollback, or the owner changed, it
  stays for reconciliation. A completion call that is refused late leaves the task
  in `verifying`, where the order's next patch is refused. A direct transition to
  completed trusts the revision that the row itself states.

What the models leave out: identical contents produced by different patches (every
patch makes a new version, so a file that happens to return to an earlier content
is not seen); corrupt journals and failures of the artifact store; the order of the
queue by `created_at`; the cursor of 128 rows in the clean-up of complete orders;
schema validation and queries;
fence leases of the orchestrator as rows (they are `lock` and `attempt`).

Single branches left out of an operation that is modelled otherwise:

* `WorkOrders`, `ApplyFails`: `git apply` may succeed with contents that differ from the
  postimage in the journal (`work_orchestrator.py:2860-2870`). The rollback then refuses
  contents it does not know and the journal is kept, as in `RollbackRefused`. The model's
  patches produce the contents they announce; `RollbacksSucceed` speaks of those.
* `GpuScheduler`, `StartHook`: a thread that cannot be started (`scheduler.py:877-881`). It
  breaks `BackgroundYields`, as noted above, and is what the theorems about the idle
  worker assume not to happen.
* `WriterFence`, `Acquire` and `ScopeLease`, `Claim`: calls that pass no coordination id
  (`work_fencing.py:533-534`, `leases.py:255-256`, 275-279). The orchestrator always passes
  one; rows of such calls in `leases.py` look like the legacy row of `lease_tree`.
* `TaskBarrier`, `RunEnd`: a test run reads owner, generation and marker
  (`commands.py:4048-4052`) before it records and maps the receipt (4144-4148); the
  model does both at once. What changes in between makes the receipt one of an older
  generation, which completion does not count.
* `TaskBarrier`, `RecordFails`: a final update that raises ends the pass for all later
  rows as well; there is one order.

## Not modelled

The repository has about 212 000 lines. What this project models is the part in which
threads, processes and stores interact: about 7 500 lines of
`work_fencing.py`, `leases.py`, `work_orchestrator.py`, `async_jobs.py`,
`scheduler.py`, `background_gpu.py`, `external_gpu_reservation.py`, and the parts of
`agent_tasks.py` and of the request handlers that change their state. Most of the
rest is not a state machine: parsing, searching and ranking of repositories
(`deterministic.py`, `code_index.py`, `repo_tools.py`, `rag.py`), execution of processes
and model servers (`commands.py`, `ollama.py`, `llama_cpp.py`), translation of requests
(`http_server.py`, `mcp_server.py`, `services.py`, `client.py`), presentation
(`dashboard.py`), benchmarks, configuration and telemetry. A faithful model of it would
be a transliteration of data processing with nothing for a model checker to
interleave; the share of all lines that the models cover therefore stays small.

Stateful and still open: semaphores, file locks, command transactions, the outbox of
`agent_events.py`, optimistic concurrency of repository plans, ownership in
`preprocess.py`.

## Plan

1. `Semaphores`: capacity under read-modify-write, lost wake-ups.
2. File locks and command transactions.
3. The outbox of `agent_events.py`.
