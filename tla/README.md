# Verification of balatro-horizons

TLA+ models, TLC runs and TLAPS proofs of the program in `src/`: a harness that lets language
models play Balatro for money, one episode at a time, keeps an evidence trail of it, and lets
people continue, watch, take over and review the games. What the program must not get wrong is
bookkeeping under failure: what was charged, what was played, whose game and whose attempt it was,
what may be continued and what was proven, when processes die between any two writes.

Paths below are relative to `src/src/balatro_horizons` unless they start with `native`, `docs` or
`tests`.

## 1. The system

| Component | State | Operations | Hard behaviour | Correct when |
|---|---|---|---|---|
| Episode run (`harness/loop.py`, `runtime.py`, `decision.py`, `provider.py`, `runtime_diagnostics.py`) | allowances, call and action in hand, `stop` event | decide, provider attempt and retry, commit, finish | crash between two writes; failed append; move in doubt | every charge and move is evidenced; allowances hold; a terminal comes |
| Decision (`harness/decision.py`, `harness/context/*`, `harness/tools.py`, `workbench/policies.py`) | turn, exchanges, working memory, human queue | ask the actor, helper, note, reject, commit | actor changes inside a decision; late human operation; retries | each actor sees its own story; the action is its actor's |
| Provider transports (`harness/transport/*`) | the stream being assembled | send, assemble, parse, price | truncated and partial answers, missing usage | only a whole call plays; a partial count is never a price |
| Spending ledger (`harness/money.py`, `Spending`) | `spending.json`, one row per request id | reserve, retain, settle, affordability | reservations left by a crash; overage; two caps | nothing is refunded; caps hold up to the overage of the call in flight |
| Campaign scheduling (`service.py` `run_batch`, `money.py` `record_stop`/`reconcile_stop`) | `stop.json`, `scheduling.lock`, attempts read from manifests | pass, preflight, replace, record a stop | several processes; crash after a refusal; stale reads | one replacement; a funding stop is final |
| Episode store (`storage/journal.py`) | manifests, hash-chained `events.jsonl`, cached heads, SQLite index | create, append, finish, reindex, recover | torn lines; recovery beside a worker; several `Store` objects | append-only; one terminal; recovery completes |
| Run service (`service.py`, `service_execution.py`) | worker thread, admission guard, worker lock | start, branch, restore, stop, execute | launch failures; admission races | one worker; no episode without a terminal |
| Restore and budget continuation (`service_restore.py`, `workbench/*ledger.py`, `budget_continuation.py`) | shared ledger of a root and its children | preview, admit, reconcile | reading a parent that still runs; inherited counters | no child undercounts its family; no crash locks it |
| Native bridge (`native/patches/*.lua`) | request ledger, busy flag, settle queue | dispatch, settle, expire, status, replay | lost or late answers; expiry | a request id mutates the game at most once |
| Native session (`game/session.py`, `transport.py`, `windows_context.py`, `native/bridge.ps1`) | launch nonce, `process.json`, registered interop socket | launch, identify, lease, move, stop, register | games that die; two checkouts on one port; late helpers | an answer and a stop are of its own game |
| Review (`review/*.py`, `workbench/service.py`) | exposure ledger, staged sessions, annotations, verified snapshot | open, advance, revisit, annotate, explore, poll | several tabs and views at once; a run that goes on | labels tell what was known; totals balance |
| Deployment (`cli/runtime_update.py`, `cli/install_candidate.py`) | source trees, shared runtime and its locks, backups | update, roll back, install | death between two files | every update can be taken back |
| Evidence (`evidence/*.py`, `cli/certify*`) | reports, fixtures, certificates, selection | collect, certify, publish, reuse, extend | stale reports of other sources or runtimes | what is admitted was proven, here |
| Reports (`evaluation/reports.py`, `batches.py`) | none; they reconcile `stop.json` | report, export | race with the pass | the first stop stays |
| Observations, honesty evaluation, web client, offline fake game, packaging | little or none | projection, statistics, rendering | external formats | out of scope (section 7) |

Who talks to whom: the API or CLI calls the run service, whose worker thread runs an episode; the
runner asks a decision's actor, appends to the store, reserves in the ledger, calls a transport and
the native session, which reaches the bridge inside the game. `run_batch` runs episodes in a row and
learns what happened only from disk. `bh recover`, the report commands, the reviewers, deployment
and evidence commands are other processes or threads that share the disk and its `flock` locks; two
checkouts of the repository share one Windows runtime and its port.

`PROJECT.json` lists the components and the hazards (with their lines).

## 2. Modules

| Module | What it is |
|---|---|
| `EpisodeRun`, `MCEpisodeRun`, `EpisodeRunProofs` | worker, ledger, journals and recovery of one campaign's paid episodes; symmetry; theorems |
| `Scheduling` | abstract promise of a frozen campaign: launch, fail, halt |
| `Campaign`, `MCCampaign`, `CampaignProofs` | `run_batch`, its lock, stop records, reports and recovery; implements `Scheduling`; slot prices; theorems |
| `ActionPromise` | abstract promise of one action request: at most once, and no verdict that is wrong |
| `NativeDispatch`, `MCNativeDispatch` | request ledger, single writer and settlement of the bridge with its caller; implements `ActionPromise`; one intent per method family |
| `EpisodeLog` | abstract promise of the store: a log that only grows, a listing that never runs ahead of it |
| `EpisodeStore`, `EpisodeStoreProofs` | directories, journals, cached heads and index, several processes; implements `EpisodeLog`; theorems |
| `RestoreFamily`, `RestoreFamilyProofs` | a root, its restore and budget children, their shared ledger and admissions; theorems |
| `ProviderStream` | one streamed answer of either provider, assembled, priced and parsed |
| `DecisionTurn`, `DecisionTurnProofs` | extends `ProviderStream`: the turns of a decision, its actors, helpers, notes and memory; theorems |
| `NativeSession`, `MCNativeSession` | game processes of one Windows runtime, their launch helpers, calls and diagnostics; work of each checkout |
| `NativeProofs` | theorems about `NativeDispatch` and `NativeSession` |
| `Deployment` | source trees, shared runtime and backups under update, install and rollback |
| `Evidence`, `EvidenceProofs` | extends `Deployment`: collection, certification, publication, reuse, admission; theorems about both |
| `DecisionLedger` | a journal as its readers see it and the decision ledger computed from it |
| `StagedReview`, `MCStagedReview`, `StagedReviewProofs` | extends `DecisionLedger`: staged sessions, exposures, annotations and views; symmetry; theorems about both |

How they compose. `DecisionTurn`, `Evidence` and `StagedReview` each extend the module they are
built on and share its state. `EpisodeRun` sits on two promises: `ActionPromise`, which
`NativeDispatch` implements, and `EpisodeLog`, which `EpisodeStore` implements. `Campaign` takes
from `EpisodeRun` that a created episode ends, and `RestoreFamily` repeats its worker with less
detail per run and several runs on one ledger. `NativeSession` is beside `NativeDispatch`: the one
says whose game a call reached, the other what a call does there.

### EpisodeRun

State and code: `ledger` is `spending.json` (a row's `episode`, `cost`, `settled`), `journal` is
the set of events of each `events.jsonl` but the terminal, `summary` the terminal's payload, `torn`
the journals that end in a partial line, `created` the manifests; `run` is the `Runner` with the
place it has reached, `stop` the `threading.Event`, `rec` the `bh recover` process; `applied` and
`billed` are the game's and the provider's truth, which the program cannot read.

One action is one durable write or one external effect, in the code's order:

| Code | Actions |
|---|---|
| `RunService.start`, `execute_locked`, `_finish_failed_execution` | `Create`, `LaunchFails` |
| `Runner._log_episode_start`, `_check_play_stop`, `_play_decision` | `LogStart`, `LoopExit`, `BeginDecision`, `TakeOperation`, `EndPlay` |
| `_reserve_provider_attempt`, `Spending.reserve` | `CheckInput`, `ReserveCall`, `RefuseCall`, `LogRequest` |
| transport `send`, `_handle_provider_failure` | `SendAnswered`, `SendFails` |
| `_settle_provider_response` | `SettleCall`, `LogResponse` |
| `_commit_action`, `_reject_native_action` | `LogIntent`, `ApplyAccepted`, `ApplyRejected`, `ApplyUnknown`, `LogCommit`, `LogRejected` |
| `Runner.finish` | `Finish` |
| `Store.append` | `AppendThen`, used by every journal write: refused by a terminal or a torn tail, or failing with nothing, part or all of the line on disk |
| `Store.recover` | `RecoverStart`, `RecoverRead`, `RecoverWrite`, `RecoverDone` |
| the operating system | `Crash`, `RecoverDies` |

What is abstracted: journals are sets, because only the terminal's place matters; amounts are
small integers; one agent per campaign, so one `Reserve`; a decision is the provider attempts it
costs and the operation it ends in (`DecisionTurn` opens it); a ledger write is atomic because
`atomic_json` renames. `RecoverWhileLive` chooses whether recovery may run beside a live worker: no
lock excludes it, the runbook has it run after one died.

### Campaign and Scheduling

An episode is seen from outside: its slot, its outcome and reason, and what it spends. `sched` holds
each `run_batch` invocation with the attempts it read last (`seen`), since decisions are made on
that copy: `Acquire`, `Reconcile`/`Record`, `SkipSlot`, `Preflight`, `CreateAttempt`, `Spend`,
`EndAttempt`, `Reread`, `EndPass`. `Abandon` is a death of the process or an exception that leaves
`run_batch`; both release the lock and leave the disk as it is. `Recover` is `bh recover` for one
episode, `ReportRead` and `ReportRecord` a report command, which takes `stop.lock` but not
`scheduling.lock`. An episode may end scored, as an infrastructure failure, aborted if a stop was
asked for, refused by the campaign cap if the next call does not fit, or with no terminal at all.

`Scheduling` states what the documents promise: a slot is attempted again once, after its only
attempt failed as infrastructure, and a funding refusal ends scheduling
(`docs/contract/balatro_horizons_spec/BALATRO_HORIZONS_SPEC.md:468`, `docs/harness.md`: "Funding
stops are durable and cannot be resumed by rerunning a frozen batch"). `KeepsPromise` is the
refinement, with `attempts`, `failed` and `halted` read off the disk.

### NativeDispatch and ActionPromise

The Lua side: `ledger` is `state.ledger`, `active` is `active_id` (with `busy`), `settling` is the
pending callback of `settle.lua` with its `age` and `stable` counts, `working` says that an upstream
endpoint holds the active request, `effects` is the game's truth. The Python side: `client` is the
call of `NativeGame` in progress, `verdict` how each call ended. `wire` holds requests that were
sent and not read; a lost answer is `LoseAnswer`.

| Code | Actions |
|---|---|
| `replay_or_admit`, `route_request` | `Replay`, `RefuseBusy`, `Admit` (with what `bh_action` does before it returns) |
| `install_response_wrapper`, `complete` | `UpstreamFails`, `UpstreamSucceeds` |
| `settle.install`, `expire` | `Frame` |
| `apply_public_action`, evaluator calls, `native_request` | `CallGame`, `RejectStale` |
| `_exchange`, `rpc`, `raise_rpc_error` | `Receive`, `LoseAnswer`, `Lose` |
| `bh_request_status`, `wait_ready` | `AskStatus`, `StatusLost`, `WaitReady` |
| fault collectors that send an id again | `Resend` |

`bh_action` may refuse, or act and settle; an upstream endpoint may answer, fail with or without
having changed the game, or never answer. `ActionPromise` is what `EpisodeRun` takes for granted in
`ApplyAccepted`, `ApplyRejected` and `ApplyUnknown`: accepted means it happened, rejected that it
never will. An unknown move promises nothing and may happen after its episode ended, which is why
such an episode ends ambiguous.

### EpisodeStore and EpisodeLog

`EpisodeRun` takes appends as atomic; this module opens them. `dir` is how far `Store.create` came
(`mkdir`, private `mkdir`, a partial and a whole `manifest.json`, the private one), `file` the whole
lines of `events.jsonl`, `torn` a partial one after them, `summary` and `index` the two derived
records. `heads` is `_heads` of each process's `Store`, `proc` the operation it is in.

| Code | Actions |
|---|---|
| `Store.create` | `Create`, `CreateStep`, then `reindex` |
| `Store.append` | `AppendEvent` (lock, cached head or `events`, refusal), `WritePart`, `WriteLine`, `Note` |
| `Store.finish` | `Finish` (the same append with a terminal), `WriteSummary`, then `reindex` |
| `Store.reindex` | `ReadRow`, `InsertRow` |
| `Store.recover` | `Recover`, `RecoverNext`, `Cut`, `RecoverRead`, `RecoverFinish` or `reindex` |
| the environment | `Crash`, `WriteFails` (an `OSError` with nothing, part or all of the line written), `LoseIndex` |

The key of a cached head is inode, size and two times. The model keeps the size alone, the weakest
of the four, and shows that it suffices: lines are never removed and a partial line is half a line
more. A line is its sequence number, author, previous hash and whether it is a terminal; its hash is
a record of the first two, so lines of different processes hash differently. A line written behind a
partial one is `Garbled`; that this never happens is part of the invariant. Clients append to and
finish episodes whose `create` returned, and recovery may run beside them (`LiveBeside`).

### RestoreFamily

`ledger` is the root's `spending.json` as the sequence of rows in admission order, `meta` what a
child's manifest freezes (kind, parent, inherited calls, ledger before it, cap), `log` what the
journal tells its readers (requests, responses, terminal), `svc` an admission between its
preparation and the creation of the child, `thr` the worker thread. Start, restore and budget
continuation are three admissions (`Start`, `StartRestore`, `ContinueBudget`, then `RestoreChild`,
`FundChild` or `PreflightRefuses`), each one comparing ledger, journals and terminals as
`restore_ledger.py` and `budget_ledger.py` do (`RestoreSpending`, `OrderedChildren`,
`ReconcileParent`, `ReconcileSharedLedger`). The run itself is `EpisodeRun`'s with one amount:
`OpenRun`, `Observe`, `ReserveCall`, `LogRequest`, `CallFails`, `Settle`, `LogResponse`,
`UsageUnknown`, `LogIntent`, `LogCommit`, `FinishRun`, `LoseTerminal`, `Crash`, `Recover`. A preview
is not state: its hash is checked at the start, so a confirmed start is a start at a state that
could be previewed.

### ProviderStream and DecisionTurn

`ProviderStream` has one action per frame kind that changes the assembled answer (`MessageStart`,
`BlockStart`, `BlockDelta`, `BlockStop`, `MessageDelta`, `MessageStop` for Anthropic; `Created`,
`ItemDone`, `Terminal` for OpenAI); the network may deliver any of them and may end anywhere.
`ParseCode`, `UsageKnown`, `UsageCost` and `KeepsTurn` read the result as the transports do.

`DecisionTurn`: `place` is where the decision stands, `turn` the locals of `decide` (helpers used,
invalid answers, exchanges, what the actor was last shown), `rows` the ledger rows of its calls,
`raw` the operation in hand, `memory` is `WorkingMemory` with `ActionNoteLink`, `policy` the human or
override in charge, `desk` the browser's queue and the decision it composes for, `acts` the committed
actions. The memory drops its oldest frames when they are too many or too large together (`Pruned`:
the sizes are free, so any number of them may go).

| Code | Actions |
|---|---|
| `Runner._observe`, `decide` | `Observe`, `StartTurn`, `TakeOverride`, `TakeHuman` |
| human policy and its routes | `HumanComposes`, `HumanQueues`, `OperatorStops` |
| `provider.py` around a transport | `CountInput`, `ReserveAttempt`, `Post`, the frames by `Receive`, `StreamFails`, `Settle`, `ReadAnswer` |
| `judge` | `ReadHelper`, `NoteHelper`, `Aborts`, `Accepts`, `Rejects` |
| `_commit_action` | `NativeCommits`, `NativeFails` |

### NativeSession

`games` are the processes that run, each known by the nonce it was launched with, `port` the one
that answers on the runtime's port, `record` is `process.json`, `helpers` the launch helpers still
at work (`HelperChecks`, `HelperStarts`, `HelperRecords`), `sockets` and `registered` the interop
sockets that work and the one a checkout registered, `command` the command that holds a checkout's
worker lock with the place it has reached, its nonce and, as history, the games its calls reached
(`hit`), took for its own (`touched`) and its own game (`owned`); `report` is how its last
diagnostic ended. `launched` counts the nonces of each checkout and those drawn by `bh native
launch`, which like `bh native stop` runs without a lock, at any time, for no command.

| Code | Actions |
|---|---|
| `launch`, `verify_identity` | `Begin`, `Launch`, `LaunchRefused`, `Poll`, `Handshake` |
| `NativeGame` runs, leases, moves, loads | `StartRun`, `Lease`, `Ready`, `Move`, `Load`, `MoveRefused`, `StatusAnswered`, `StatusUnknown`, `EndPlay`, `AtMenu`, `GivesUp` |
| `evidence/collect/connection.py`, `interruption.py`, `expiry.py` | `Unregister`, `Refused`, `Reconnected`, `Hold`, `Release`, `ChildStarts`, `Swap`, `ExpireChild`, `RefusedBeforeLaunch`, `RestoreRegistration`, `ReapChild` |
| `stop`, `recover_owned`, `bridge.ps1` | `Stop`, `NothingToStop`, `RecoverOwned`, `After`, `Final`, with `StopMode` |
| `bh native diagnose --restart` | `Adopt`, `TakeOver`, then a launch and a stop |
| `bh native launch`, `bh native stop` | `OperatorLaunches`, `OperatorStops` |
| the operator and the machine | `Register`, `SocketExpires`, `GameDies`, `Kill` |

Every call goes to whatever game answers on the port; `Accepts` is the identity check behind it.

### Deployment and Evidence

`tree` is each checkout's source, two files of it (one native, one of the rest of the
fingerprint); `rt` the shared runtime's files and lock, `lock` the lock each checkout keeps,
`backups` and `saved` what an update and an install can put back, `dep` the command in progress.
Each file copy is a step: `PlanUpdate`, `BackUpRuntime`, `CopyRuntime`, `SealRuntime`, `AdoptLock`,
`Rollback`, `RestoreRuntime`, `RestoreLock`; `BeginInstall`, `InstallFile`, and the rollback of an
install, which copies file by file in the order of the paths: `RollbackInstall`, `UndoPointer`,
`UndoSelection`, `UndoLock`, `UndoReport`, `UndoSource`. `AbandonDeploy` is any death, which may tear
the source file being copied, `Commit` and `HandEdit` the operator's edits.

`Evidence` adds reports (`rep`), replay certificates (`ptr`), fixtures (`episodes`), certificates
(`records`), the selected one (`active`) and the command in progress (`eva`). A command's process
starts (`StartProcess`) before it reads anything. Collection starts at
any of the stages its modes allow (`OpenSession`, `AuditProfiles`, `CollectInvalid`,
`CollectActions`, `CollectWin`, `CollectRuns`, `CollectReorder`, `CollectFaults`, `WriteFixtures`), replays and
derives certificates (`StartReplay`, `ReplayPasses`, `DeriveBoundary`, `ReplayFails`), certifies
(`BeginCertify`, `ReadCollected`, `BeginBranch`, `BranchRun`, `WriteRelease`, `Settle`), publishes in
three writes (`Publish`, `WriteRecord`, `WriteEvidence`, `SelectCertificate`), reuses a certificate
for another harness (`PrepareReuse`, `Activate`) and extends it to all configurations
(`CollectConfigurations`, `ReportConfigurations`, `AcceptConfigurations`). `Admits` is the check of a
launch: of the disk, a service that runs keeps its modules. An episode is known by
the command that played it and by what it played, the action fixture or the gold run, so that a
report may name an older episode than the one a later command collected.

Assumptions: one evidence command and one deployment command at a time. A deployment command may
start between any two steps of an evidence command that holds no game process (`Quiet`), and an
evidence command launches nothing while a deployment command works (`MayLaunch`): both take the
native worker lock; commits and edits of the runtime fall anywhere. Offline checks (test suite, public
scans) are external and pass.

What ran. A process runs the modules it imported, most at its start and some later, while every
fingerprint hashes the disk (`implementation_fingerprint`, `evidence/provenance.py:80`). Nothing ties
the two together, so the model does not say which source a stage ran. Its two histories are `loaded`,
every source that was on disk since the command's process began, and `ran`, which counts a stage
that passed for each of them, under its runtime. While nobody edits the checkout under a process that
is one source, the one that ran; otherwise it is one of those (section 6). Three stages leave no
source behind that anything compares later and are counted for their runtime only (`Unsourced`): the
profiles, the rejected actions and the won game, of whose report publication reads the outcome.

### DecisionLedger and StagedReview

`log` is the journal with one entry per event, `ending` the terminal's payload with the scope of its
totals: written by the runner, by the service's failure handler or by `bh recover`, over a root or a
branch that starts with `Inherited` actions. `Rows`, `Status`, `Expected`, `Opens` and `Accounts` are
`build_summary` and `action_accounting`.

`ledger` sums up the exposure ledger (furthest board shown, outcome shown), `sessions` are the
staged sessions with cursor and frontier, `job` the requests being served, `notes` the annotations
with, as history, what had been shown when they were asked for; `cache` is the verified snapshot
that is kept. A staged request moves its cursor in the session's file first and reveals afterwards:
`OpenReview`, `ShowAgain`, `Advance`, `Revisit`, `Seek`, then `Reveal` or `NotAvailable`; `Annotate`,
`Label`, `AppendNote`; the explorer and the operator's views are `OpenExplorer`, `Explore`,
`ShowLedger`, `ShowTrace`, `PollStatus`, `ListRuns`, `CompareBranch`; `Restart` forgets what is only
in memory.

## 3. Runs

| Run | Instance | Shows |
|---|---|---|
| `episode_safety` | 2 episodes, 3 calls, 2 moves, caps 4 and 5, reservation 2, charges 1 and 3 | `ChargesCovered`, `SpendWithinCaps`, `TerminalAccountsForSpend`, `ActionEvidence`, `NoHiddenAction`, `NoRefund` |
| `episode_recover` | 2 episodes, 1 call, 1 move, no caps, recovery also beside the worker, fairness | `TerminalIsFinal`, `CreatedRunsEnd` |
| `recover_unknown_usage` | as `episode_safety` | `RecoveryCompletes` is violated (section 6) |
| `campaign` | a paid and a scripted slot, 4 episodes, 2 processes, cap 4, charge 3, fairness | `OneReplacement`, `StopIsFounded`, `StopsAreFinal`, `KeepsPromise`, `PassesEnd` |
| `native_dispatch` | 2 requests, 3 intents (`bh_action`, upstream, `menu`), frame limits 1, 2, 4, fairness | `SingleWriter`, `LedgerIsTrue`, `QuietBetweenMoves`, `KeepsPromise`, `SettlementEnds` |
| `episode_store` | 2 processes, 1 episode of up to 3 lines, 2 faults, recovery beside clients, fairness | `ChainIntact`, `Sealed`, `KeepsLog`, `IndexCatchesUp` |
| `restore_family` | 1 service, 2 children, 3 calls, 4 rows, reservation 2, charge 1, cap 5 raised to 6 or 7 | `SharedAllowance`, `CrashesStayRestorable`, `AdmissionsReconcile`, `WonFamiliesStayClosed` |
| `restore_two_services` | the same with 2 services | `SharedAllowance` is violated (section 6) |
| `decision_turn` | 2 decisions, 1 helper, 2 invalid answers, 2 attempts, 2 calls, 2 blocks per answer | `OnlyWholeCallsPlay`, `SettledAtTheBill`, `OneAcceptedAttempt`, `ShownItsOwn`, `ActsAreTheirActors`, `MemoryIsHonest` |
| `release` | 2 checkouts, 3 commands, 1 edit | `AdmittedRuntimeWasProven`, `UpdatesAreReversible`, `SelectionIsRecorded` |
| `review` | 1 inherited action, 6 events and a terminal, 1 staged session in 2 tabs, 3 requests | `LabelsAreHonest`, `FrontierHolds`, `LedgerBalances` |
| `native_session` | 2 checkouts (one leases and diagnoses, launching twice, or restarts or checks connection or expiry first; the other runs once), 2 shells, 1 mishap | `OnlyItsOwnGame`, `LeavesNoTrace` |

The definitions are stated and explained in the modules; each has a mutant of the code's model in
`PROJECT.json` that breaks it.

Why the bounds are enough.

* Episode runs: two episodes are needed for rows and journals to be confused, and for an inherited
  reservation to count against the next episode. Three calls let one episode fail, retry and answer
  while another holds a row; two attempts per call and two calls per episode put every allowance at
  its limit; caps of 4 and 5 with reservations of 2 let each cap refuse alone and both together;
  charges 1 and 3 settle below and above the reservation. Recovery visits episodes one by one, so
  two let it stop at the first and miss the second.
* Campaign: slots with prices 2 and 0 under a cap of 4 allow the first slot to be refused while the
  second is still affordable, which is where a lost stop would launch; four episodes are the most
  two slots may have, and a fifth, if the scheduler wanted one, would break `OneReplacement` or
  `PassesEnd`. Two processes contend for the lock; a third adds nothing a symmetric one does not.
* Bridge: two requests are a late one and the next, or a writer and a second one; one intent of each
  method family takes every branch; one transition frame, two stable ones and a limit of four let a
  settlement be interrupted, succeed at the last frame and expire. The proofs hold for 30, 10 and
  1800.
* Store: journals do not interact, so one is enough. Three lines let two processes overtake each
  other and still finish; two faults are any two of a torn line, a killed recovery, a lost index.
* Restore family: two children give every order of a restore and a budget child, and a child of a
  child; three calls and four rows let the family reach its allowance and pass it if it could; the
  cap of 5 allows two settled calls and a reservation, so it refuses and is raised, 6 and 7 being a
  grant that suffices and one that may be granted after it.
* Decision: two decisions carry memory, a queued human operation and an actor from one to the next;
  one kept frame, one kept helper result and one helper let each overflow or refuse; two attempts
  and two calls a retry and a second answer; two blocks a thought and a call, or two calls.
* Release: one publication, then the reuse, update, install or rollback that could spoil it, then
  another; longer histories repeat these from states already reached, because a command starts from
  what is on disk and a second edit only makes one more version that equals none.
* Review: six events are two boards with a whole action between them and the start of the next,
  ended by any writer; the two tabs race on one cursor, the third request is the annotation or view
  that comes between. One staged session: sessions meet only in the exposure ledger, where the
  explorer and the views play the other's part.
* Native session: the second checkout needs one run to be somebody else's game at every point of the
  first one's work; a second launch of the first one makes an own old game and a leased sequence.
  The moves of a run take the path of the interruption check's, so the run of the instance makes
  none. One mishap per behaviour, an unlocked launch or stop included: each kind at any point, the
  interleavings of two are out of TLC's reach; the proofs allow any number.

Symmetry is used only in runs without liveness (`episode_safety`, `recover_unknown_usage`, `review`,
`native_session`). `CHECK_DEADLOCK` is off where the system really stops: in `native_dispatch` when
the last request id is used or the session was retired, in the restore runs when the family is
closed, in `decision_turn` when the run has ended, in `review` when the requests are asked and the
journal is sealed, in `release` and `native_session` when the commands of the instance are used up.

## 4. Fairness

`EpisodeRun!Fairness`: the worker keeps stepping (every wait in it has a timeout: transports,
settling, retry delays; a human policy waits for its operator and is not part of it); an operator
starts recovery when the worker is down, and one pass is eventually not killed (strong fairness on
its read and write). Crashes are not fair: none is needed and infinitely many are possible only as
long as episodes remain. `Campaign!FairSpec`: a pass that is not killed keeps stepping; that an
episode ends is what `CreatedRunsEnd`'s first half shows. `NativeDispatch!FairDispatch`: `love.update`
keeps being called. Nothing is assumed of upstream endpoints, which have no timeout in the code.
`EpisodeStore!FairSpec`: an operation that is not killed goes on, since `flock` and SQLite waits end,
and the operator runs `bh recover` again and again; strong fairness, because other operations keep
interrupting the moments at which it may start. The other modules state safety only: their progress
depends on people, providers and commands that nothing obliges to come.

## 5. Proofs

`EpisodeRunProofs` proves for any sets of episodes, calls and moves, any caps, charges and
allowances, crashes, failed appends and both values of `RecoverWhileLive`:

* `TypeCorrect`: `Spec => []TypeOK`; `Inductive`: `Spec => [](TypeOK /\ IInv)`.
* `ChargesAreCovered`, `OneInDoubt`, `ActionsAreEvidenced`: `ChargesCovered`, `AtMostOneInDoubt`,
  `ActionEvidence`.
* `NeverRefunded`, `TerminalsAreFinal`: the action properties `NoRefund` and `TerminalIsFinal`.

None of the three invariants is inductive: whether a row may be unexplained depends on where the
worker stands. `IInv` adds exactly that. `OnlyCreatedEpisodes`: nothing is owned before it exists,
so a new episode starts with no row in doubt. `RowsExplainRequests`: a request is journaled for the
owner of its row, charges follow requests, unsettled rows hold the reservation. `CallInHand`: what
each place of the worker says of the call in its hand (reserved, requested, not settled yet).
`DoubtIsInHand`: the one row in doubt is the call in hand, and there is none where no call is.
`ActionInHand`: the same for the move. The proof has one lemma per group of actions, each split by
the part of `IInv` it can disturb; appends are handled once (`AppendCases`) because every journal
write shares `AppendThen`. Assumptions used: those named in `EpisodeRun`.

On top of it, what an episode counts, what a terminal may hide and what the money adds up to:

* `AllowancesKept`: `Spec => []AllowancesHold`. An episode reserves at most `MaxCalls` calls and
  performs at most `MaxActions` actions, counting retries, failures and unknown outcomes.
* `NothingHidden`: `NoHiddenAction`, under the assumption `~RecoverWhileLive`: beside a live worker
  recovery can call an episode interrupted whose next action is then performed. `HiddenInductive` is
  the invariant it rests on.
* `CapsKept`: `SpendWithinCaps`, for both values of `RecoverWhileLive`; `CapsInductive`.
* `TerminalsAccount`: `TerminalAccountsForSpend`, under `~RecoverWhileLive`, because a live worker
  goes on spending after recovery has written a terminal; `AccountsInductive`, and `MoneyInductive`
  for its part that needs no such assumption.

Each step is first sorted into one of seven shapes (`StepShapes`: it plays on, reserves, performs,
commits, leaves, creates, or lies aside), and both invariants are carried through the shapes.
`CountsInHand` says that the two counters of the worker are the rows and the performed actions of
its episode. `HInv` adds that what is performed and not committed is in the worker's hand or its way
out is an ambiguous reason (`HiddenInHand`), that only a started episode intends (`PlayHasStarted`:
so a `PRE_START_FAILURE` hides nothing), that a live episode has no terminal (`OpenWhileLive`), and
that a recovery's reading is still the journal when it writes (`RecoversAlone`).

A sum may pass its cap, so that it does so by one call's overage needs more than the sum.
`CapsInHand` says that from its reservation to its settlement the call in hand fits both caps: the
settlement adds at most that call's overage, and nothing is reserved on top of it because
`Spending.reserve` reads the sum again. For the terminals, `SpentInHand` ties the runner's own count
to its rows and `ResponsesMatchRows` every priced response to its row; a recovered terminal is then
the rows at what the journal knows of them, and the row in doubt, of which `AtMostOneInDoubt` says
there is one at most, is where both may differ. The steps that move money are sorted once
(`MoneyShapes`), and the sums change by the lemmas at the head of the module.

`NativeProofs` proves of `NativeDispatch`, for any request ids, intents and frame limits:

* `PromiseKept`: `Spec => KeepsPromise`, that the bridge implements `ActionPromise`.
* `DispatchTypeCorrect`, `OneWriter`, `TrueLedger`, `SettledInOrder`, `Quiet`, `FinalRecords`:
  `DispatchTypeOK`, `SingleWriter`, `LedgerIsTrue`, `SettlesInOrder`, `QuietBetweenMoves`,
  `RecordsAreFinal`; `DispatchInductive`: `DispatchTypeOK /\ DispatchIInv`.

That a rejected move never happens later needs more than a true ledger: a message of that move
could still be on the wire. `DispatchIInv` adds `EffectsFollowLedger` (no effect without a record),
`CallInHand` (the answer in the caller's hand is the ledger's) and `VerdictsFollowLedger` (a message
that may still be admitted belongs to a call that is open or ended as unknown). `CloseKeeps` handles
`complete` and `expire` once for all their callers; the refinement maps an effect to `Happen`, the
end of a call to `Tell` and everything else to a stutter.

`EpisodeStoreProofs` proves for any number of processes and episodes, journals of any length and any
faults:

* `PromiseKept`: `Spec => KeepsLog`, that the store implements `EpisodeLog`.
* `TypeCorrect`, `ChainHolds`, `HeadsStayOld`, `EpisodesAreSealed`: `TypeOK`, `ChainIntact`,
  `HeadsAreOld`, `Sealed`; `Inductive`: `TypeOK /\ IInv`.

A head is computed under the lock and used there three steps later, so the chain alone is not
inductive. `IInv` adds `HeadInHand` (whoever is in the lock is alone there, with the journal's own
head, and the line is torn only while it writes), `OneCreates` and `OneCloses` (one process creates
and one closes an episode, so `mkdir` and the `"x"` mode of `summary.json` never meet a second one)
and `RowsAreTrue`. `HeadFound` is the heart: an equal size makes a cached head the journal's.
`QuietKeeps` handles every step after which a process holds nothing, `OtherHolds` the processes that
a step in the lock must not disturb.

`NativeProofs` proves of `NativeSession`, for any number of checkouts, shells, launches, moves and
mishaps:

* `TypeCorrect`, `Inductive`: `TypeOK` and `IInv`; `OwnGameOnly`: `OnlyItsOwnGame`, for commands
  of the checkouts; it says of a restart only that it stops no other game than the one it owns, and
  of `bh native stop` nothing.
* `NoTraceLeft`: `LeavesNoTrace`, from `TraceInductive`.

A call may reach another checkout's game at any time, so that nothing foreign is believed depends on
when the identity is read. `IInv` adds `LaunchesOK` (a nonce is drawn once, a helper still to start
a game is the only one of its nonce and that game does not run) and, per command, that calls are
only made after its own game answered, when no helper can start it again. So while the own game
answers on the port it has answered ever since, and every call since the last check reached it. A
stop kills what its nonce names only because a nonce is carried: `CommandOK` has that every command
but a restart carries its own wherever it stops.

A diagnostic that reports success has looked twice, but helpers and games come and go between the
looks. `TraceInv` therefore says of every place of it, not only of the report, which helpers it may
still wait for (`Settled`: the one of its last launch, until that game answers), what it owes the
registration it took (`Returned`: the operator's socket is in `saved` exactly while another one, or
none, is registered) and, of a report, that no later step but a new command can undo it (`Reported`).

`DecisionTurnProofs` proves for any limits, bills, streams and human operations, and any number of
decisions:

* `Invariance`: `Inv`, that is `TypeOK` and `IInv`; `WholeCalls`: `OnlyWholeCallsPlay`;
  `RowsAtTheBill`: `SettledAtTheBill`; `NoSecondAnswer`: `OneAcceptedAttempt`; `OwnContext`:
  `ShownItsOwn`; `SignedByTheirActors`: `ActsAreTheirActors`; `HonestMemory`: `MemoryIsHonest`.

`IInv` says what is true between the moments the properties look at: a stream does not end with a
partial count (`CountsFinal`), the model's operation in hand is still the one in its stream
(`AnswerInHand`), nothing was accepted while a request is still to be sent (`NotYetAccepted`), who
is asked, who signs and whose operation is in hand are one actor at every place (`OneActor`), the
exchanges are those of the actor a decision has now (`OwnExchanges`) and what it was sent bit by bit
adds up to what is enforced (`ShownIsSent`), and the frame of a committed action, its helpers and
its note wait for the next observation only (`ActionInHand`, `PendingBetween`, `FramesOfActs`,
`HelpersCounted`). The proof carries memory, turn and stream through one lemma per operation on
them, then takes one lemma per action.

`RestoreFamilyProofs` proves for any number of children and calls, any caps, grants, reservation and
charge below it, with crashes and recoveries, where one process admits and runs the family
(`OneService`; the run `restore_two_services` shows that two of them break the first property):

* `FamilyInductive`: `IInv`; `AllowanceShared`: `SharedAllowance`; `CrashedFamiliesRestorable`:
  `CrashesStayRestorable`; `AdmissionsFoundAgain`: `AdmissionsReconcile`; `WonStaysWon`: the action
  property `WonFamiliesStayClosed`.

`IInv` relates the four records a restore compares. `Manifests`: a child froze the ledger as it was,
which is a prefix of the ledger for ever, and children come one after the other. `Rows`: a row
belongs to the episode that ran when it was reserved, so an owner's rows lie between what it froze
and what the next one froze. `Journals`: requests and responses are about the owner's rows, and a
terminal claims what its writer counted (`Claims`). `Threads`: the one thread runs the latest
episode and has counted the whole ledger. `Plans`: a plan in hand is still true of the ledger, which
is where two processes fail. `Closed`: a root that won or stopped for money has no restored child.
`AdmissionsFoundAgain` is the deepest result: `_ordered_children` finds the children's order from
nothing but their frozen ledgers. Rows of earlier children and an equal prefix name exactly the next
child (`AccountingNext`), so after `n` steps the first `n` children are accounted for
(`AccountedIs`), those that spent nothing and those that failed to launch included.

Sums and recursive functions. The library's induction theorems take an operator as a parameter,
which the installed provers cannot instantiate. The sums of `EpisodeRunProofs` and `AccountedIs` of
`RestoreFamilyProofs` argue by the least counterexample instead: a set of naturals that is not empty
has a least element (`LeastNat`, from the well-foundedness of the naturals), a family of finite sets
a minimal one (`MinimalSubset`). From this `SumIsTable` shows that a sum is the value of one table
over the subsets of a set, and `SumUnfold` that it takes its elements one by one; the other lemmas
follow without induction. A family's cost needs neither: its rows are a sequence and `CostOf` is
their running total, of which one step is all a restore's step adds.

`CampaignProofs` proves for any slots, prices, episodes, processes, cap and charges:

* `PromiseKept`: `Spec => KeepsPromise`, that passes implement `Scheduling`. A created attempt maps
  to `Launch`, a terminal to `Fail`, to `Halt` or to a stutter, a recorded stop to `Halt`.
* `HaltedForGood`: `StopsAreFinal`; `ReplacedOnce`: `OneReplacement`; `StopsAreFounded`:
  `StopIsFounded`; `TypeCorrect`, `Inductive`: `TypeOK` and `IInv`.

A pass decides on the attempts it read last, which recovery in another process may have changed, so
none of these is inductive. `IInv` adds `OneHolder` (one pass holds the lock), `PassOK` (what a pass
has read differs from the disk only by recovered terminals; while it goes over the slots nothing is
halted and the slot in hand may be attempted; its running attempt is one of that slot), `ReportOK`
(the refusals a report counts are those on disk) and `EpisodesOK`. The heart is the lemma
`SeenIsTrue`: recovery changes neither slots nor refusals nor infrastructure failures, so what a
stale reading decides is what the disk would decide.

`EvidenceProofs` proves for any number of commands and edits, wherever each command stops:

* `InvHolds`: `IInv`; `UpdatesReverse`: `UpdatesAreReversible`; `SelectionsRecorded`:
  `SelectionIsRecorded`; `AdmittedProven`: `AdmittedRuntimeWasProven`.

What a launch is admitted on is the last of a chain of documents, each read from disk long after it
was written, so `IInv` says of each document what ran for it, in the sense of `ran`: of the reports,
also the stale ones (`ReportsHold`), of the replay certificates, derived ones included (`PointersHold`), of
certificates, measurements and fixtures, of what an install's snapshot will put back (`SavedOK`),
and of what the command in progress has read or made (`SessionHolds`, `CertifyHolds`). Three facts
carry the proof: what ran is never unsaid (`ran` only grows), so a document stays true however stale
it is; a document only enters a certificate after its source and environment were compared with
the others', so that the facts of one certificate are about one source and one runtime; and a
certification keeps the source it read when it began, which therefore is among those of its process
when the branch runs (`LoadedInv`). For the
updates `Covered` says that while files are being replaced the receipt is on disk and every file and
lock touched has one of the two contents it names (`Between`); for the selection, that whatever is
about to be selected, or was put aside by an install, has its record already.

`StagedReviewProofs` proves for a journal of any length, any number of sessions, server threads and
requests, and any number of inherited actions:

* `ReviewInvariant`: `IInv`; `HonestLabels`: `LabelsAreHonest`; `FrontierIsKept`: `FrontierHolds`;
  `LedgerBalanced`: `LedgerBalances`.

The journal's half of `IInv` (`JournalInv`) is its grammar: which event may follow which
(`Chained`), that a commit or rejection answers the intent before it, that every action has a board
before it, that request ids grow (`Numbered`), and what each writer's terminal counts (`Endings`).
From it `LedgerBalances` is arithmetic on positions: committed requests and the others partition the
intents, and a decision's segment ends where the next board is. The reviews' half says that the
exposure ledger has everything that was answered (`Covered`); that a session's cursor follows its
frontier and what it has shown lies under the last event its frontier shows (`SessionOK`); that a
request between the move of its cursor and its exposure is not beyond the frontier, although another
tab may have moved on (`JobOK`); and that what the server remembers to have exposed, so as not to
write it twice, is in the ledger (`Remembered`). The hard part is that the journal grows under a
request: a view shows more at the last board once the next one is there, so each claim is monotone
in the log and in the ledger and is proved once per event that may be appended.

Properties that only the proofs state, beside `TypeOK` and the inductive invariants:
`AtMostOneInDoubt`, `AllowancesHold`, `SettlesInOrder`, `RecordsAreFinal`, `HeadsAreOld`. They and
the inductive invariants were model-checked on the runs' instances before they were proved, and are
theorems now, for every instance.

Model-checked only:

* Liveness under fairness (`CreatedRunsEnd`, `PassesEnd`, `SettlementEnds`, `IndexCatchesUp`):
  temporal properties of this kind, and `ENABLED`, are out of the proof system's reach.
* The violated properties of section 6, which TLC refutes.

So every invariant, action property and refinement that a passing run checks is a theorem too:
`NoHiddenAction` and `TerminalAccountsForSpend` where recovery runs alone, the family's four where one
service admits it, the others with no assumption but those on the constants.

## 6. Findings

`Store.recover` (`storage/journal.py:209-213`) reads `cost_usd` of every `provider_response`, but
`_settle_provider_response` (`harness/provider.py:123-125`) writes none when the provider sent no
usage, and `tests/test_native_provider_retries.py` requires its absence. The first journal with
such a response makes `bh recover` raise `KeyError`, and every later episode stays unrecovered;
`docs/run-recovery.md:103` tells the operator to run it. `workbench/restore_ledger.py:33` reads the
field the same way. In the model this is `Unpriced` and the state `raised` of `rec`; the other
runs keep it, so `episode_recover` sets `UsageMayBeUnknown` to FALSE.

`start_restore` prepares its plan (`service_restore.py:52`) before it tries the worker lock (`:63`)
and does not compare the plan with the journal again before it creates the child (`:64`). With two
server processes on one data directory, a worker of the other one may still play the parent, spend
and end in between: the child inherits fewer calls than the ledger holds, and the family exceeds
`max_provider_calls`. `docs/run-recovery.md:29`: "Restore children share the root ledger and
provider-call allowance; neither retries nor code updates reset limits." The run is
`restore_two_services`; with one service the property holds (`restore_family`).

Behaviour met while modelling that no document contradicts, so it is stated in the properties and
not listed as a finding:

* Evidence is tagged with the source on disk, not with the modules its process runs. One edit after
  the start of a collection and before its first checkpoint tags reports of the new source that the
  old one made; `SOURCE_CHANGED_DURING_COLLECTION` (`evidence/collect/orchestrator.py:202-204`) is
  raised after they are written and compares two hashes taken later than the imports, so certification
  and publication under the new source accept them. `certify_release` compares the source at its two
  ends only (`evidence/release.py:121`, `:135`), so a change that is changed back is not noticed
  either. `AdmittedRuntimeWasProven` therefore promises that the accepted native components were on
  disk while each stage ran, and no more.
* The profiles, the rejected actions and the won game are accepted under any source: the first two
  are compared with the environment lock, of the third only the outcome is read
  (`evidence/publish.py:61`).
* A process killed inside `Store.create` leaves a directory without a manifest, at which `bh recover`
  stops every time; `IndexCatchesUp` holds as far as no directory is `HalfCreated`.
* `bh recover` beside a live worker judges the events it has read: the totals of its terminal may be
  too small and its verdict may miss an action that is performed a moment later. `NoHiddenAction` and
  `TerminalAccountsForSpend` are stated for recovery that runs alone.
* A human's abort or helper operation names no observation (`harness/decision.py:111`): one that
  comes late ends, or is answered in, the next decision. `ActsAreTheirActors` speaks of actions.
* An attempt without a terminal blocks its slot until recovery; beside a busy worker lock every
  attempt fails at once, so both attempts of a slot are spent.
* A run that was stopped, failed or died between a commit and the next board has a decision ledger
  that does not open (`MISSING_SETTLED_OBSERVATION`): `Unsettled` in `LedgerBalances`.
* The explorer's exposure covers the board it shows and not every action event behind it, so
  `FrontierHolds` speaks of staged sessions only.
* A launch that timed out may still start its game after a stop that found nothing; the diagnostics
  therefore check again at their end (`Final`). Two checkouts that launch at once leave a game that
  `process.json` does not name and that keeps the port.
* A call of a run whose game died may reach another checkout's game; it is noticed at the identity
  check behind it, so `OnlyItsOwnGame` speaks of what is taken for done. A definite refusal
  is believed whoever answers it (`MoveRefused`, `StatusAnswered`): a run then ends
  `INVALID_EVALUATION` for a mismatch that another game saw, a leased game is given back.
* `bh native stop` carries no nonce and takes no lock (`cli/native.py:8-11`), and without a nonce
  `native/bridge.ps1:42` kills the recorded game: it stops whatever any checkout launched last
  (`OperatorStops`). `bh native launch` leaves its game on the port for everybody else.
* `bh native diagnose --restart` adopts the nonce in `process.json`
  (`cli/diagnose_native.py:57-60`) under the lock of its own checkout alone, so it stops the game
  another checkout is playing (`TakeOver`); its help says "Restart only an idle runtime". Its last
  stop is meant to name its own nonce (`:61-62`), but carries none when the launch drew none (a
  pinned file changed) and then kills the game recorded in the meantime.
  `OnlyItsOwnGame` tells restarts apart for both.
* A stop that comes before the helper recorded the game kills nothing; the game starts and stays.
* A diagnostic that is killed leaves its changed registration behind (`killed` in `LeavesNoTrace`).
* An install that dies inside the copy of a source file leaves it torn, and its rollback then refuses
  the file (`POST_INSTALL_EDIT`). A rollback that dies may be run again from the start, as long as it
  left no torn source file.
  A replay that fails on a later check leaves certificates derived from an earlier pass.

## 7. Limits and what is not modelled

* `EpisodeRun!Create` is one step and its appends are atomic up to a torn tail; `EpisodeStore` has
  the steps, and `KeepsLog` is what `EpisodeRun` relies on.
* In `EpisodeStore`: event payloads, `private_json` and the copy of a torn tail that recovery keeps.
* `EpisodeRun` and `DecisionTurn` are not composed: the one has every write and crash, the other the
  turns; they meet in the operation a decision ends in and the attempts it costs.
* Branch creation and human takeover in the run service, `prior_cost` of a resumed run, checkpoints
  and the certificate and profile checks of a paid game.
* The human player's poll of the workbench (`workbench/routes.py:280`), which exposes boards of the
  decision being composed, is not among the views of `StagedReview`.
* The continuation probe, the rows of the action table and the migration of old identities in the
  evidence commands; web files, credentials, operator settings, rules and player registration in the
  install command. Only source files are torn by a crash; the JSON files of an install's rollback are
  put back whole, one by one, and pointers of different episodes in any order.
* In `StagedReview` a read of a journal and the comparison of its identity are one step, so the read
  cache's treatment of an append in between (`review/read_cache.py:49`) is not checked.
* What each action does to the game, observations and their normalization, prompts and rendering,
  provider request shapes, honesty statistics, the web client and the offline fake game: pure
  translation, I/O or a closed-source game's tables.

## 8. Plan

Done: `EpisodeRun`, `Campaign`, `NativeDispatch`, `EpisodeStore` with their promises; `RestoreFamily`,
`ProviderStream` and `DecisionTurn`; `NativeSession`; `Deployment` and `Evidence`; `DecisionLedger`
and `StagedReview`; proofs for all of them.

Next, in this order:

1. Branch creation and human takeover on top of `RestoreFamily`, and the human poll in
   `StagedReview`.
2. Checkpoints: saves, their certificate and the replay that loads them, between `NativeSession` and
   `Evidence`.
