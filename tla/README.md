# Solana indexer: TLA+ models, model checking and proofs

This directory holds TLA+ modules that model the Solana indexer SDK
(`src/solana-indexer-sdk`), the TLC configurations that check them on small
instances, and theorems about them whose proofs the TLA+ proof system checks.
Paths in this file are relative to `src/solana-indexer-sdk/src/` unless they
begin with `docs/` or `solana-indexer-sdk/`.

Running things, in this directory:

    tlasany M.tla                                  # parse
    tlc -workers 2 -config X_y.cfg MCX             # e.g. Backfill_crash.cfg with MCBackfill
    tlapm BackfillProofs.tla                       # check the proofs

## 1. The system

The SDK runs inside one process: a PostgreSQL database, one source of live
transactions, and optionally a backfill of history. What it promises is in the
docs: every transaction of the configured programs is decoded and handed to the
registered handlers (at least once), recorded in a table so that it is not
processed again, and what is recorded permanently belongs to finalized blocks.

| Component | State it keeps | Operations | Talks to |
|---|---|---|---|
| Storage (`storage/mod.rs`) | tables `processed` (sig, slot), `tentative` (sig, slot, block hash), `finalized_blocks` (slot, hash), `backfill_progress` (one row) | `is_processed`, `mark_processed`, `mark_tentative`, `mark_finalized`, `rollback_slot`, `get_block_hash`, `save/load_backfill_progress`, `mark_backfill_complete`, `cleanup_stale_tentative_transactions` | called by everything; no method opens a transaction |
| Backfill trigger (`core/backfill/defaults.rs`) | none | `next_range`, `should_backfill_by_lag` | manager |
| Backfill manager (`core/backfill/manager.rs`) | the interval; the current range | `run`, `check_and_process_range`, `process_range` | RPC (finalized slot), trigger, engine, handlers (`on_backfill_range_complete`), cancellation token |
| Backfill engine (`core/backfill/engine.rs`) | loop position, semaphore, spawned tasks | `start`, `start_range`, `process_slot`, `process_backfill_transaction_core` | RPC (`getBlock`, `getTransaction`), storage, handlers, reorg handler, finalized tracker, progress tracker |
| Live RPC source (`core/execution/indexer.rs`) | checkpoint (`last_signature`), semaphore, spawned tasks | `process_rpc_source`, `poll_and_process`, `fetch_signatures`, `process_transaction_core` | RPC, storage, handlers |
| Cleanup task (`core/execution/indexer.rs`) | interval | deletes tentative rows 1000 slots behind the last processed slot | storage |
| WebSocket, hybrid, Helius, Laserstream sources (`streams/`) | socket, channel, subscription state, cursor | connect/subscribe/read/reconnect, poll, dispatch | channel to the indexer loop |
| Standalone poller (`streams/poller.rs`) | cursor | `start`, `fetch_new` | RPC |
| Registries (`core/registry/`, `types/traits.rs`) | handlers and decoders by discriminator | register (bounded), dispatch | indexer tasks |
| RPC retry (`utils/retry.rs`) | attempt number | `with_retry`, backoff, `is_transient` | RPC calls of the fetcher |
| Decoding (`core/decoding/mod.rs`) | the program stack of the log parser | parse logs, extract instructions | indexer tasks |
| Configuration (`config/mod.rs`) | the builder's optional fields | setters, `build` | everything |
| Telemetry, macros, IDL generator, examples | none the indexer reads | output, code generation | - |

Interactions: sources, engine and cleanup share the tables, through single
statements; manager and engine are one thread of control plus the transaction
tasks they spawn; the RPC node is a third party whose answers change between
two requests (confirmation, finalization, reorganisation); the cancellation
token and process death end everything but the tables.

What is hard here, and what must be true of each component:

* **Storage.** Methods of several statements can be cut in two by a crash or an
  error and interleave with the methods of other tasks. A processed row keeps
  the hash of its block; a stale fork is rolled back before it is promoted.
* **Backfill.** Three requests about one slot may see three forks; tasks run
  while the engine waits; a crash can fall between any two statements. The
  saved progress must not run ahead of the work, only finalized blocks may be
  stored, announced ranges must be done, and every finalized transaction must
  be indexed in the end.
* **Live RPC source.** The checkpoint moves before the work; tasks of an
  abandoned poll outlive it; several programs share one checkpoint. A recorded
  transaction must have been handled, a handled one must not be handled again
  without an interruption, and the checkpoint must leave nothing behind.
* **Streams.** Events buffered across a reconnect, a socket that ends before
  the subscription is confirmed, two tasks that share a bounded channel, a
  cursor that moves before anything is handled. The same transaction arrives
  from several sides and must be handled once; what the subscription loses the
  poller must bring; a cancelled indexer must stop.
* **Helius and Laserstream.** They deliver whole transactions and nothing asks
  the node again for what a full channel, the limit of a batch or a task without
  a permit would lose. Two deliveries of a transaction may run side by side, but
  nothing else may run its handlers again.
* **One process, three writers.** Live source, backfill and cleanup write, move
  and delete the same rows, statement by statement: a recorded transaction must
  have been handled by one of them, and the live handlers must not see it again
  as long as its row is left alone.
* **Set-up and one transaction.** Builder calls in any order must agree;
  registries must keep their limits; an event must be attributed to the program
  that wrote it; a recorded transaction must have had every event handled, in
  order; what is given up must have been tried as often as configured.

`PROJECT.json` lists each of these hazards with its line and the properties
that watch it.

## 2. Modules

| Module | Models |
|---|---|
| `Types` | signatures, slots, hashes |
| `Storage` | the four tables, one operator per SQL statement or query |
| `Chain` | the cluster as RPC shows it (external): confirm, finalize, reorganise |
| `Signatures` | `getSignaturesForAddress` (external) |
| `Process` | cancellation token, process restart, and the budget of faults |
| `BackfillTrigger` | `DefaultBackfillTrigger::next_range`, pure |
| `Backfill` | manager, engine, reorg handler, trackers and transaction tasks |
| `LiveRpc` | the live RPC source and its tasks |
| `Indexer` | the composition: `LiveRpc`, `Backfill` and the cleanup task over one set of tables |
| `Streams` | the WebSocket source, the hybrid source and the loop that consumes them |
| `FullStreams` | the Helius and Laserstream sources and their loops |
| `Delivery` | the abstract specification that `Streams` and, while no statement fails, `LiveRpc` implement |
| `Config`, `Registry`, `Decoding`, `Retry` | the builder; the five registries; the log parser and message formats; the two retry loops |
| `Pipeline` | the composition of those four: setting an indexer up, and `process_transaction_core` for one transaction, event by event |
| `MCBackfill`, `MCLiveRpc`, `MCStreams`, `MCFullStreams`, `MCIndexer`, `MCPipeline` | the small instances for TLC |
| `SharedProofs` | lemmas about the tables, the chain, the process, `getSignaturesForAddress` and sequences that the proofs below share |
| `BackfillProofs`, `BackfillFinality` | theorems about the trigger, types and blocks of the backfill; and about a backfill of finalized slots |
| `LiveRpcProofs`, `StreamsProofs`, `FullStreamsProofs`, `PipelineProofs` | theorems about the module of that name |
| `IndexerProofs` | theorems about the composition, from the lemmas of `LiveRpcProofs` and `BackfillFinality` |

`Backfill`, `LiveRpc`, `Streams` and `FullStreams` all extend `Storage`, `Chain`
and `Process`, and say in `UNCHANGED` what they leave alone; that is what lets
`Indexer` take two of them as instances over the same tables.

### How state and actions correspond to the code

**Grain.** The runtime can switch tasks at every `.await` and the process can
die there too. So one step is one awaited thing: an SQL statement, an RPC
answer, a batch of handler calls. Code between two awaits is part of the step
that precedes or follows it. A method with several statements
(`mark_finalized`, `rollback_slot`, `get_block_hash`, `is_processed`) takes
several steps; each caller keeps its own program counter.

**Storage.** A table with a primary key is a function from the key, with
`NoSlot`, `NoRow`, `NoHash` for a missing row; `ON CONFLICT DO NOTHING` is the
`IF @ = ... ELSE @` of the insertions. `indexed_at` only breaks ties in
`get_last_processed_signature`, so ties are kept as choices.

**Backfill.** `eng` is the manager and the engine: `pc`, the latest finalized
slot read, the slot and bounds of the range, the hash in hand and the
transactions not spawned yet. `task[sig]` is the spawned task of a
transaction. `calls`, `lost`, `missed`, `notified` are history variables that
only properties read. `EntryPoint` chooses between `BackfillManager::run`
(what `SolanaIndexer::start` spawns) and `BackfillEngine::start`.

| Actions | Code |
|---|---|
| `ManagerTick`, `ManagerStop`, `PlanRange` | `BackfillManager::run`, `check_and_process_range`, `next_range` |
| `StartBackfill`, `StartRange`, `CompleteBackfill` | `BackfillEngine::start` |
| `BeginSlot`, `EndRange` | the loop, with its look at the token |
| `ReadFinalizedHash`, `ReadTentativeHash`, `CompareHash` | `get_block_hash` and `detect_reorg` |
| `RollbackTentative`, `RollbackProcessed`, `RollbackFinalized` | `handle_reorg`, `rollback_slot` |
| `FetchBlock`, `SkipSlot` | `fetch_block` |
| `SpawnTask`, `TaskFetch`, `TaskHandle`, `TaskFinalize`, `TaskMark`, `TaskFails` | the spawned `process_backfill_transaction_core` |
| `JoinTasks`, `FinalizeSlot`, `SaveSlot` | the wait for the tasks, `mark_finalized`, `save_progress` |
| `NotifyRange`, `AbortRange` | `notify_range_complete`, and every `?` of the path |

**LiveRpc.** `poll` is the loop: its checkpoint, the program being asked and
the signatures received. `job[j]` is a spawned task; `joined` says that the
current poll still holds its handle. `handled`, `failed`, `dropped`, `origin`
are history variables.

| Actions | Code |
|---|---|
| `Boot`, `NextProgram("latest")`, `Checkpoint` | the start strategy |
| `Tick`, `NextProgram("fetch")`, `Receive` | the poll and `fetch_signatures`; `Receive` advances the checkpoint |
| `CheckProcessed`, `CheckTentative`, `SpawnJob`, `JoinJobs` | `poll_and_process` |
| `AbandonPoll`, `StopOnError` | the `?` after `is_processed`; the `?` after `fetch_signatures` |
| `JobFetch`, `JobBlock`, `JobHandle`, `JobRetry`, `JobMark`, `JobFails` | `process_transaction_core` |

**Streams.** `sock` is the current connection as node and network see it, with
the messages on their way; `ws` is `WebSocketSource` (where `next_batch`
stands, whether the reader task lives, the unbounded channel between them);
`gap` the poller of `HybridSource`; `channel` its bounded channel; `loop` the
consuming loop. `Mode` says who calls `next_batch`: the loop, or a task of its
own. An event that the loop cannot decode from its logs (`err` is set, or the
logs do not parse: `Reverted`) goes the way of a bare signature.

| Actions | Code |
|---|---|
| `NodeConfirms`, `NodePings`, `SocketDrops`, `ClusterStep` | the node (external): confirmation, control frames, lost connections, notifications |
| `EnsureConnected`, `Connect`, `AwaitConfirmation` | `ensure_connected`, `connect`; `AwaitConfirmation` has no step at the end of the stream, where the code spins |
| `Read` | the reader task; any message that is not text ends it |
| `Receive`, `SendBatch` | `next_batch`, and the send into the hybrid channel |
| `PollGap`, `SendGap` | the poller task |
| `TakeBatch`, `StopLoop`, `CheckProcessed`, `CheckTentative` | the loop up to `is_processed` |
| `FetchTransaction`, `FetchBlock`, `Handle`, `Mark` | both paths: decoded from the logs and written to `processed`, or `process_transaction` and written to `tentative` |
| `GiveUp`, `StopOnError` | an error of `process_transaction`, which is logged; any other `?`, which ends the loop |

**FullStreams.** `sock` as in `Streams`; `feed` is `run_stream`; `channel` the
bounded channel; `loop` the consuming loop; `job[j]` a task of Helius, or the
one call Laserstream awaits. `source` chooses between the two at the start.
`delivered`, `handled`, `failed` are history variables.

| Actions | Code |
|---|---|
| `ClusterStep`, `NodeSubscribes`, `SocketDrops` | the node (external) |
| `Connect`, `Read`, `Send` | `run_stream` of either source: connect and subscribe, pass over what is no transaction, await room in the channel |
| `NextBatch`, `StopLoop`, `NextEvent`, `CheckTentative`, `StopOnError`, `Dispatch`, `Await` | `process_helius_source`, `process_laserstream_source` |
| `JobBlock`, `JobHandle`, `JobMark`, `JobFails` | `process_transaction_core` with the transaction at hand; `JobMark` is `mark_tentative` (Helius), or the four statements of `mark_finalized` and `mark_processed` (Laserstream) |

**Indexer.** The variables are those of its two instances, `cutoff` (what the
cleanup has computed) and the history variable `taken`. `PollStep`, `JobStep`,
`EngineStep`, `TaskStep` are the steps of the parts; `CleanupReads` and
`CleanupDeletes` are the two statements of `cleanup_stale_tentative_transactions`.
When the RPC source returns, so does `start`, and the other tasks end; `Restart`
starts all of them.

**Pipeline.** `setup` is the builder and then the configuration, `registry` the
entries and the number of registrations by kind, `parser` the state of
`parse_event_logs`, `core` the task: its program counter, the attempt, the
events of the stage still to do and those done. The setters of the builder are
operators on records (`Config`); one action groups those that take part in one
question (`ChooseSource`, `ChoosePolling`, `ChoosePrograms`, `ChooseSetting`).

| Actions | Code |
|---|---|
| `ChooseSource` ... `ChooseSetting`, `Build`, `New` | `SolanaIndexerConfigBuilder`, `build`, `SolanaIndexer::new` |
| `Register`, `Start` | `register_decoder`, `register_log_decoder`, `register_account_decoder`, `register_handler`, the backfill registry, and the same through `*_registry_mut()` |
| `Begin`, `RequestAnswered`, `RequestFails` | the task, and every request it makes through `RetryingRpcProvider` |
| `Decode` | `decode_transaction`: `parse_event_logs` line by line, then `extract_instructions` and the metadata |
| `HandleEvent`, `HandlerFails`, `NextStage` | the stages inputs, logs, accounts and the loop around each handler call |
| `Record` | the marker, one step here |

`Content` is external: what the Solana runtime wrote. `LoggedByRuntime` says
which logs it can write; every line also carries the programs that were running
once it was written, which only the property `Attribution` reads.

**Delivery** has three actions, `Handle`, `Record` and `Interrupt`, and no code
of its own: it is what a source promises about a transaction.

**Faults.** A request that has no answer (a skipped slot, a transaction that
moved) always fails. Any other request, statement or handler may fail while
`FaultBudget` has something left for its kind; a crash and a cancellation take
from the same record. `Restart` keeps the tables and nothing else.

## 3. Runs

| Run | Expect | Shows |
|---|---|---|
| `Backfill_crash` | pass | the safety of the manager: one crash anywhere, one storage error, one reorganisation, stale tentative rows at the start |
| `Backfill_start` | pass | `BackfillEngine::start` with a crash and one error of each kind sets `is_complete` only after the sweep |
| `Backfill_fair` | pass | with a storage error, a handler error and perhaps a cancellation, finalized transactions are eventually indexed |
| `LiveRpc_resume` | pass | `Resume` strategy, every kind of fault: types, marker after effect, nothing skipped |
| `LiveRpc_reorg` | pass | two programs, a reorganisation, a crash, a database error: no double handling beyond interruptions |
| `LiveRpc_fair` | pass | from a signature, across a crash and a handler error that is retried, everything is eventually recorded; the loop and its concurrent tasks implement `Delivery` |
| `LiveRpc_gap` | violation | a process has recorded a transaction; its successor, started with `Resume`, passes over a later one |
| `Indexer_shared` | pass | live source, backfill and cleanup over the same tables, with a reorganisation and a crash: what the backfill promises on its own it still promises (`BackfillUndisturbed`: rows with their blocks that stay, finalized blocks only, progress that neither runs ahead nor regresses, announced ranges done, nothing handled twice uninterrupted); recorded means handled by one of the two, and handled again only for a crash, an error or a row taken away |
| `Streams_hybrid` | pass | the hybrid source, a dropped socket, every kind of fault: handled once, nothing behind the poller's cursor is lost, and all of it implements `Delivery`, so that the marker follows the effect on both paths |
| `Streams_fair` | pass | with a dropped socket, a handler error and a cancellation: every transaction is recorded or has failed, and a cancelled loop ends |
| `FullStreams_both` | pass | Helius and Laserstream, a dropped socket, a reorganisation, a cancellation, a database error: no event lost in the process, no handler run without a delivery of its own, no row without its block, nothing waits for ever |
| `Pipeline_setup` | pass | every order of builder calls and registrations within the bounds, then transactions one after the other, with every failure of requests and handlers |

**Instances.** `MCBackfill` and `MCLiveRpc`: three slots; slot 1 has two
candidate blocks that share a transaction, slot 2 has one, slot 0 an empty one;
three transactions. Three slots are the fewest with a slot before, at and after
an interrupted one; two blocks are the fewest for a fork, and one shared
transaction is what makes a fork different from a new slot. `LiveRpc_resume` and
`LiveRpc_gap` spread the transactions over the slots, one in each, so that there
is something to be checkpointed at the start, to be recorded before a restart,
and to be found after it. Two permits let two
tasks interleave. Budgets of one fault per kind combine different kinds; a
second of the same kind costs states and has shown nothing new.

`MCStreams` is smaller, because five tasks interleave: two slots, of which the
second may hold two transactions, one of them reverted on chain, so that both
paths of the loop are taken. Channel and batch hold one element, so that both
limits bite; one socket drop or ping is enough for a reconnect with events in
every buffer (`MaxDrops`). The limit of the poller is not reached.

`MCFullStreams`: one slot that gets a block of two transactions, another block
with one of them, or none; the tables start empty or as an interrupted
`mark_finalized` of one fork leaves them. Channel and batch hold one element and
there are two permits for three task identifiers, so that every wait happens;
the reorganisation delivers a transaction a second time while the first
delivery is still on its way.

`MCIndexer`: two slots, one permit per part, one crash, one reorganisation,
`StaleThreshold` 0, so that the cleanup deletes everything below the last
processed slot. Two slots are enough for a row that the cleanup takes (slot 0)
while the backfill is at the other; the wait between the cleanup's statements is
arbitrary.

`MCPipeline`: two programs, four transactions (calls that nest and messages that
look like the runtime's; a raw message with a truncated log; a malformed one;
one without metadata), nine registrations of which some share a key, limits of
one or none. `MaxSettings` 5 builder calls are the three that `build` insists on
and two more: an interval before and after `with_rpc`, or a second source. `MaxRegistrations` 4 let a registry be filled, refuse, and
still take a known key.

Bounds, all CONSTANTS: `MaxSlot` (the chain stops there), `MaxReorgs`,
`FaultBudget`, `MaxDrops`, `MaxSettings`, `MaxRegistrations`, `MaxCalls` and `MaxHandled` (where the history counters
saturate, above what the budget allows), `Jobs` (tasks alive at once, those of
abandoned polls included; with none free `SpawnJob` and `Dispatch` wait). The chunk of
10,000 slots is 1 or 2, so that several ranges or a single one are needed.

`CHECK_DEADLOCK FALSE` is set where the system may stop: `start` returns,
cancellation stops the manager and the streams' loop, an RPC error stops the
live source, a storage error the streams' loop; `build` may refuse.

**Fairness.** `FairSpec` says that the engine's thread and each spawned task,
when they can step, eventually do: weak fairness of `EngineStep`, `TaskStep(sig)`,
`PollStep`, `JobStep(j)`, `SourceStep`, `Read`, `PollerStep`, `LoopStep`, in
`FullStreams` `FeedStep` and `JobStep(j)` as long as the loop lives, in
`Pipeline` `CoreStep`, and nothing of the application. Tokio
polls every future that has been woken, the timers fire, and every await of the
code is on something that answers or fails.
Weak fairness of a whole thread leaves the choice between success and failure
open; failures are finite because their budget is. Nothing is assumed of the
cluster, of crashes or of cancellation. `Streams` adds that the node answers a
subscription request on a socket that stays open (`NodeConfirms`): `connect`
waits without a timeout.

## 4. Proofs

For every value of the constants that satisfies the named assumptions of the
modules (`TypesAssumption`, `ChainAssumption`, `ProcessAssumption`,
`SignaturesAssumption`, `BackfillAssumption`, `LiveAssumption`,
`StreamsAssumption`, `FullStreamsAssumption`, and for `Pipeline` those of
`Config`, `Registry`, `Decoding`, `Retry` and itself):

| Theorem | Says |
|---|---|
| `BackfillProofs!RangeIsBounded` | a planned range is never inverted and its ends are at most a chunk apart, for every configuration and progress |
| `BackfillProofs!ResumesAfterProgress`, `StaysFinalized` | without `start_slot` a range starts right after the progress; without `end_slot` and `max_depth` it ends at the latest finalized slot at most |
| `BackfillProofs!TypeCorrect`, `ProcessedRowsHaveBlocks` | `Spec => []TypeOK`, `Spec => []ProcessedHasBlock`, for all settings |
| `BackfillFinality!OnlyFinalized`, `RowsImmutable` | `OnlyFinalizedStored`, `ProcessedRowsImmutable`, under `FinalRange` |
| `BackfillFinality!RollbackFinal` | under `FinalRange` a rollback only deletes records of finalized slots (`RollbackOnlyFinalized`, which no run needs to check any more) |
| `BackfillFinality!NoSlotPassedOver`, `ProgressMonotone`, `HandledOnce` | `SweptSlotsIndexed`, `ProgressNeverRegresses`, `HandledOncePerInterruption`, under `FinalRange` and `FromProgress` |
| `BackfillFinality!AnnouncedIsIndexed`, `CompleteIsSwept` | `AnnouncedRangesIndexed`, `CompleteMeansSwept`, under `FinalRange` and `Uninterrupted` |
| `BackfillFinality!NoOrphans` | `NoOrphanProcessed`, under `FinalRange` and `InitialRowsOfTheirBlock` |
| `LiveRpcProofs!LiveTypeCorrect`, `MarkerFollowsEffect` | `Spec => []TypeOK`, `Spec => []RecordedWasHandled` |
| `LiveRpcProofs!LiveHandledOnce` | `Spec => []HandledOnce`, under `OneProgramEach` |
| `LiveRpcProofs!LiveImplementsDelivery` | `Spec /\ [](Used("db") = 0) => Delivers`, under `OneProgramEach`: as long as no statement fails, every step is a step or a stutter of `Delivery` |
| `LiveRpcProofs!LiveNothingSkipped` | `Spec /\ []Undisturbed => []NothingSkipped`, under `SingleProgram` |
| `StreamsProofs!StreamsTypeCorrect`, `StreamsMarkerFollowsEffect`, `StreamsHandleOnce` | `Spec => []TypeOK`, `Spec => []RecordedWasHandled`, `Spec => []HandledOnce` |
| `StreamsProofs!StreamsLeaveNothing` | `Spec /\ []Undisturbed => []CursorLeavesNothing`, under `SingleProgram` |
| `StreamsProofs!StreamsImplementDelivery` | `Spec => Delivers`: every step of the streams is a step or a stutter of `Delivery` |
| `FullStreamsProofs!FullStreamsTypeCorrect`, `FullStreamsBlocks`, `FullStreamsNothingDropped`, `FullStreamsOncePerDelivery` | `[]TypeOK`, `[]ProcessedHasBlock`, `[]NothingDropped`, `[]OncePerDelivery` |
| `PipelineProofs!PipelineRpcSettings`, `PipelineWithinLimits`, `PipelineRetries`, `PipelineAttribution` | `[]RpcSettingsAgree`, `[]WithinLimits`, `[]RetriesAsConfigured`, `[]Attribution` |
| `PipelineProofs!PipelineTypeCorrect`, `PipelineRecordedIsComplete`, `PipelineHandledInOrder` | `[]TypeOK`, `[]RecordedIsComplete`, `[]HandledInOrder`, for all registries, modes and transactions |
| `IndexerProofs!IndexerTypeCorrect`, `IndexerRowsHaveBlocks`, `IndexerMarkerFollowsEffect` | `[]TypeOK`, `[]Backfill!ProcessedHasBlock` and `[]RecordedWasHandled`, for all settings |
| `IndexerProofs!IndexerBackfillUndisturbed` | `Spec => BackfillUndisturbed`, under `FinalRange`, `FromProgress` and `Uninterrupted` |
| `IndexerProofs!IndexerHandledOnce` | `[]HandledOnceWhileKept`, under `OneProgramEach` |
| `IndexerProofs!IndexerNoOrphans` | `[]Backfill!NoOrphanProcessed`, with `Commitment = "finalized"`, for all other settings |

Two things are assumed of what surrounds the code. Tasks that were spawned and
not awaited end when `start` returns, as they do in a program that then leaves
`main` (`StopOnError` of `LiveRpc`, `Alive` elsewhere). And a log that the
runtime has truncated has lost a suffix, not a line announcing a program whose
later messages are kept (`LoggedByRuntime`).

The hypotheses beyond the assumptions of the modules, each of which the
properties need (section 5 says what happens without it):

* `FinalRange`: the manager runs without `max_depth`, and an `end_slot` was
  finalized when the process was deployed. The default settings are such.
* `FromProgress`: no `start_slot`, as by default.
* `Uninterrupted`: the token is not cancelled. Crashes and errors are allowed.
* `InitialRowsOfTheirBlock`: the tentative rows found at the start belong to the
  block they name, and those of a slot to one block.
* `OneProgramEach`: no transaction names two of the configured programs.
* `SingleProgram`: one program is configured.
* `Commitment = "finalized"`, of `IndexerNoOrphans`: a setting of the
  configuration, not its default. At "confirmed" the property fails.
* `[](Used("db") = 0)`, of `LiveImplementsDelivery`: no storage statement fails.
* `Undisturbed`, as a behaviour's hypothesis: there is no reorganisation, and a
  request for new signatures finds no more than it may return.

*ProcessedHasBlock* is not inductive: a `mark_finalized` cut off after the
promotion, or a `rollback_slot` cut off between its deletes, would break it if
it were entered in the wrong state. The strengthening says what each program
counter knows: after the first statement of a finalization the slot's hash is
stored (for the engine at `final2` and later, for a task at `final2` and
later), and at the last delete of a rollback no processed row of the slot is
left. The order of the statements in the code is exactly what keeps this true.

The backfill of finalized slots (`BackfillFinality`) rests on one invariant,
`IFinal`: the latest slot read is at most `root`, so the range, the slot of the
loop and the slot of each task are; a block at or below `root` does not change,
so every stored hash is the chain's; hence a rollback is only entered for a slot
without a stored block, and by *ProcessedHasBlock* that slot has no processed
rows to lose. On top of it:

* `Swept`: the transactions of the block at hand are still to be spawned, in a
  task, or accounted for; what lies between the start of the range and the loop
  is indexed, lost by its own failure or missed; and without `start_slot` the
  range begins right after the saved progress. This is *SweptSlotsIndexed*, and
  *ProgressNeverRegresses* with it.
* `ToTheEnd`: without a cancellation the loop only ends beyond the end of its
  range, so that what `Swept` says about the slots behind it is what is announced
  or marked complete. Records of earlier ranges stay true because processed
  rows do.
* `Handled`: a transaction may still come to be handled only while its slot is
  beyond the progress and its task has not called the handlers (`Free`); until
  then only interruptions have been counted, afterwards one more.
* `Pure`: tentative rows are of their block, at most one block per slot; at
  `compare` the hash in hand is that of the rows; so at `fetch` the rows left
  are the chain's, and only those are promoted.

*RecordedWasHandled* needs that a task at `mark` carries a handled signature,
and that an empty slot in `job` carries none.

*HandledOnce* of `Streams` counts: a handling is free only while the
transaction is recorded or in the loop's hand (`Credit`), the loop takes into
its hand only what neither table knew (`Fresh`), no other step writes to the
tables, and what lets go of a handled transaction unrecorded is a crash or a
database error, which the bound counts.

*HandledOnce* of `LiveRpc` counts over tasks that run side by side. What is
counted is the calls made and the calls the tasks of a transaction still owe
(`Waiting`): `handled + Cardinality(Waiting) <= 1 + interruptions`, and one less
as long as another task may be started (`Free`: the loop is about to, or the
transaction is in no table and in no task of this poll). `IFresh` says why the
loop cannot start a second one unpaid: its batch holds a signature once, and
none it has already started a task for. A poll that is abandoned, with its tasks
still running, has cost a database error.

*LiveImplementsDelivery* adds `Sole` to that invariant: every task belongs to this
poll, no two have the same transaction, and neither a task nor the loop about to
start one has a transaction that is recorded. A task is awaited before the next
poll, so a reorganisation that makes the loop receive a transaction again finds
its first task over; only a failing statement of `is_processed` leaves tasks
running while the loop goes on, hence the hypothesis. With it `inHand` is the
transactions at `mark`, several at a time; `JobHandle` maps to `Handle`,
`JobMark` to `Record`, an ending or a restart of the process to `Interrupt`.

*NothingSkipped* and *CursorLeavesNothing*: the node's answer holds everything
newer than the cursor (`AnswerComplete`, from the definition of "newer" by slot
and rank, and the existence of a newest element by well-founded induction over
the slots, `Largest`), so what the cursor passes over is in the batch; from there each step
passes it on to a task, a table, `failed` or `dropped` (for the streams: to the
channel, the loop, a table or `failed`).

*StreamsImplementDelivery* uses the same invariant. The refinement mapping takes
as `inHand` the transaction at `logmark` or `mark`, as `recorded` the signatures
of both tables. `Handle` maps to `Handle`, `Mark` to `Record`; what leaves
`mark` without a row is `Interrupt`; everything else stutters.

*FullStreams*, four invariants on top of each other. `IFull`: what each program
counter knows of its record (a task past `block` has a hash, `check2` and
`dispatch` have a batch). `IRows`: Laserstream tasks never insert tentative
rows and Helius tasks never promote, a task past `final1` has stored its block,
and at `final3` all it is going to delete has been promoted; this gives
*ProcessedHasBlock*, and that no signature leaves both tables. `IDropped`
follows an event from the channel over the batch to a task: each step passes it
on whole. `IOnce` counts: `handled + Pending <= delivered`, where `Pending` is
the number of its places in channel and batch and of its tasks that have not
called the handlers (or the counter is at its bound).

*Pipeline*. `RpcSettingsAgree` is carried by an invariant on the builder.
`WithinLimits` needs that a registry counts at least as many registrations as
it has keys, and that a full one only takes known keys. `RetriesAsConfigured`
needs that the attempt never exceeds `max_retries` while it is being made, in
either way of counting. `Attribution` needs `LoggedByRuntime`: the stack of the
parser is the runtime's after every line, because a message of a program begins
with words that do not parse as a program id.

`RecordedIsComplete` and `HandledInOrder` come from one invariant on the queue
of a transaction (`IQueue`): what has been handled and what is left are together
the events due up to the stage the task is in (`DueBy`), what is left is in
order, and all that has been handled comes before it. It rests on

* `IDecoders`: only decoders are registered as decoders;
* `IRead`: the parser has one event for every line that counts, in the order of
  the lines, and the task leaves the log at its end;
* what the decoders make of a list of items (`DecodedLists`, `AccountsRead`),
  for lists of any length: `InOrder` of a set of positions exists and lists it
  (`OrderExists`, `InOrderLists`), and a flattened sequence of sequences holds
  what they hold (`Flattened`). These are inductions over the length of data.
  The induction theorems of the library take an operator, which the provers
  cannot instantiate; `AllNumbers` takes a set of numbers instead (one that
  contains 0 and with each number the next contains them all), and the set is
  that of the lengths for which the claim holds.

Together with `ISetup`, `ILimits`, `ICore` and `IParse` they are the inductive
invariant `Inv`.

*Indexer*. `IndexerProofs` instantiates `LiveRpcProofs` and `BackfillFinality`
over the shared variables, shows that the steps of `Indexer` are steps of the
parts (`LiveSteps`, `BackfillSteps`, `StepOfBackfill`), and uses their lemmas as
they stand. What is new is what the parts do to each other:

* `IShared`: the types of both, and `IBlock` of the backfill. The others only
  write tentative rows, which `IBlock` does not read.
* `ISwept` adds `IFinal` and `Swept`; `ToTheEnd` is there because nothing cancels
  in `Indexer`. A step is one of the backfill, or leaves everything alone that
  these speak of, but for the engine, which ends with the process (`Aside`).
* `OnceEach` counts the backfill's calls. A source that stops takes the tasks of
  the backfill with it without a crash, so `Handled` is suspended until the
  restart, which is counted as one and resumes from the saved progress.
* `IRecorded`: a row is new only when a job or a task marks its transaction, and
  either has called the handlers; a promotion moves a row, which stays recorded.
* `IKept` counts as in `LiveRpc`, with the deletions of tentative rows (`taken`)
  among what has been paid for. The processed table alone does not protect a
  transaction, since `rollback_slot` deletes from it; it does for the rows that
  earlier processes left (`Original`: of a finalized block that is stored, where
  `detect_reorg` finds nothing to roll back), and every other transaction that is
  handled has had a tentative row.
* `IPlaced` (at the commitment "finalized"): every row, every live job past its
  `fetch` and every task past its own is of a transaction in a finalized block,
  at the slot it names. The node answers for such transactions only
  (`AnswersFinal`), a reorganisation leaves their blocks alone (`FinalStays`),
  and rows are moved but not changed (`RowsMoved`). No run repeats this with the
  other commitment: it would differ from `Indexer_shared` by that constant only.

**Only model-checked**:

* liveness (`FinalizedSlotsGetIndexed`, `EveryTransactionRecorded`,
  `GapsAreFilled`, `Settles`, `CancellationStops`, `RunsEnd`), which is out of
  the prover's reach, as is `ENABLED`.

## 5. Where the code and its documentation disagree

The violation run records one disagreement, quoted in `PROJECT.json`: `Resume`
leaves a gap. A process starts at `t1`, handles `t2` and records it in the
tentative table; after a crash `get_last_processed_signature` looks at the
processed table only (`storage/mod.rs:336`), finds nothing, and the new process
starts from `t3`, which nothing has handled. `ResumeLeavesNoGap` is about what
earlier processes have recorded (`RecordedBefore`): it says nothing of a start on
an empty database, and of tasks that a crash has cut off it only demands what is
newer than every recorded row. With a `Boot` that picks the last row of either
table instead, TLC finds no violation. Others met while modelling, most of them reproducible by changing
one constant of a run.

Backfill:

* A stale tentative row of a slot that was finally skipped makes `detect_reorg`
  fail on every attempt (`defaults.rs:67`), and the backfill stands still, against
  `solana-indexer-sdk/README.md:59`: `FinalizedSlotsGetIndexed` fails with such
  a row in `InitialTentative`.
* `start_range` breaks out of its loop when cancelled and returns `Ok`
  (`engine.rs:94`), so the handlers are told that the range is complete
  (`backfill_traits.rs:234`, "after all slots ... have been processed"):
  `AnnouncedRangesIndexed` fails with a cancellation in the budget. A cancelled
  `start` calls `mark_complete` (`engine.rs:670`): so does `CompleteMeansSwept`.
* `config_start.min(last + 1)` (`defaults.rs:182`) restarts from `start_slot`
  for every range, against the comment two lines above:
  `ProgressNeverRegresses` fails with `start = 0`.
* `max_depth` with a range that starts above `latest - max_depth` reaches beyond
  the finalized slot (`defaults.rs:201`): `OnlyFinalizedStored` fails.
  `max_depth` does not move the start (`defaults.rs:213`); the range is one slot
  more than the 10k of the comment (`defaults.rs:225`).
* Rows of two forks in one slot: `get_block_hash` reads one of them
  (`storage/mod.rs:486`, `LIMIT 1`): with both in `InitialTentative`,
  `NoOrphanProcessed` fails.
* A failed `fetch_block` is passed over and a later slot saves the progress
  (`engine.rs:223`), although the trait says that the last successfully
  processed slot is saved (`backfill_traits.rs:92`). The properties except such
  slots (`missed`) and failed transactions (`lost`). A chunk of skipped slots
  saves nothing and is planned for ever: `FinalizedSlotsGetIndexed` fails with
  chunk 1.
* `detect_reorg` fetches at the configured commitment although its comment says
  finalized (`defaults.rs:66`); the theorem `RollbackFinal` shows why
  this is harmless as long as the range is.

Live RPC source:

* Several programs share one checkpoint, which passes over a transaction of the
  other (`indexer.rs:1472` against `solana-indexer-sdk/README.md:56`):
  `NothingSkipped` fails with two programs. A transaction that names both is
  received twice in one poll (`indexer.rs:1586`) and may be handled twice.
* A transaction whose handlers fail is not tried again by a later poll
  (`indexer.rs:1529`), although `docs/RELIABILITY.md:45` says so; a database
  error in `is_processed` drops the rest of the poll (`indexer.rs:1472`),
  although `docs/RELIABILITY.md:26` says that it reprocesses from the last
  checkpoint. `NothingSkipped` excepts both (`failed`, `dropped`).
* Commitment `finalized`: signatures are listed at confirmed
  (`indexer.rs:1557`), and tasks fail on those not finalized yet:
  `EveryTransactionRecorded` fails. The request goes through a client of its own
  (`indexer.rs:1556`), so that it is not retried as the other requests are.
* The RPC and Laserstream loops never read the cancellation token
  (`indexer.rs:901`, `docs/ARCHITECTURE.md:237`).

Composition:

* `NoOrphanProcessed` of `Backfill` fails in `Indexer`: a slow live task inserts
  the row of an orphan after `detect_reorg` has looked at the slot and before
  the promotion; `mark_finalized` records it under the block that replaced it,
  and nothing compares the two again. At the commitment "finalized"
  this cannot happen (`IndexerNoOrphans`).
* A live transaction is handled again without any crash: a reorganisation takes
  the checkpoint, the signature is received again, and its row moves from one
  table to the other between the two statements of `is_processed`
  (`storage/mod.rs:236`). Hence `taken` in `HandledOnceWhileKept`.
* `docs/ARCHITECTURE.md:181` has reorganisations detected and `on_rollback()`
  handlers invoked: nothing calls them and there is no finality monitor
  (`docs/ARCHITECTURE.md:178`); `enable_reorg_handling` and
  `finalization_check_interval` are never read (`config/mod.rs:336`).

Streams:

* A socket that closes before the subscription is confirmed leaves `connect`
  spinning over an ended stream (`websocket.rs:172`, against the reconnect of
  `websocket.rs:217`): the property `Reconnects` of `Streams` fails when `MaxDrops` is 1.
* The hybrid poller asks for the 50 newest signatures only (`hybrid.rs:93`) and
  shares its cursor among the programs (`hybrid.rs:100`): with more than that
  in an outage, or with two programs, `CursorLeavesNothing` fails.
* The first error of a log event's handler ends the indexer (`indexer.rs:1049`),
  where an error of the other path is logged (`indexer.rs:1075`).
* A ping ends the reader task like the end of the stream (`websocket.rs:191`),
  and with it the connection.
* A WebSocket, Helius or Laserstream source loses what happens during an outage,
  by design; the docs offer the hybrid one for completeness.
* Helius handles a transaction twice when two deliveries of it overlap
  (`indexer.rs:1391`), against `docs/RELIABILITY.md:27`: `handled <= 1` fails.
* Laserstream records confirmed transactions as finalized (`indexer.rs:794`),
  and its RPC requests go to its gRPC endpoint, so that its blocks are likely to
  be `UNKNOWN`. Either source may store the hash of the block that has replaced
  the delivered one (`indexer.rs:1702`).

Set-up and one transaction:

* Accounts are looked at inside the stage of the logs (`indexer.rs:1801`): with
  `IndexingMode::accounts()` nothing is decoded. `DueAccounts` says so.
* A decoder registered through `decoder_registry_mut()` and its like does not
  switch its part of the mode on, as `register_decoder` does.
* `RegistryConfig` limits "program ids" and "handlers", but registrations are
  counted: replacing a handler or adding a second decoder of a program uses up
  room. `WithinLimits` is an upper bound only.
* A message of a program that contains ` success`, ` failed` or `invoke [` is
  swallowed by the log parser (`core/decoding/mod.rs:158`); `Reported` says so.
* Decoders of instructions are found under the name the node gives to a parsed
  program, and under the program id otherwise.
* `build` accepts an empty list of programs and no worker threads, which lets
  the loop wait for a permit for ever.

## 6. Not modelled, and the plan

Left out for good: telemetry, macros, the IDL generator, examples (no state the
indexer reads); the standalone poller (nothing starts it, and its handling of a
transaction is a comment); `on_rollback` (nothing calls it); schema
initialisation (its failure ends its loop before it starts); delays of retries
and reconnects; the content of events beyond the form a decoder recognises.

Next:

1. `Indexer` with a stream source in place of the live one, and with a second
   engine: `backfill_slots` may be called beside the manager, and both write the
   single progress row.
2. Proofs: what keeps orphans out of the processed table of `Indexer` at the
   commitment "confirmed" (no live task older than the backfill's evidence).
