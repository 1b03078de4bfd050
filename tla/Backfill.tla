------------------------------ MODULE Backfill ------------------------------
(***************************************************************************)
(* The backfill component: BackfillManager::run asks the trigger for a     *)
(* range and runs BackfillEngine::start_range over it; start_backfill runs *)
(* BackfillEngine::start once over the configured range.                   *)
(*                                                                         *)
(* One step is one storage statement, one RPC answer or one handler call.  *)
(* The manager and the engine are one thread of control (eng); each        *)
(* transaction of the current block is a spawned task (task).              *)
(*                                                                         *)
(* Errors: an RPC request that finds no block always fails; otherwise a    *)
(* request, a statement or a handler fails only while its fault budget     *)
(* lasts.  A task reports its error to a log line and nowhere else.        *)
(***************************************************************************)
EXTENDS Storage, Chain, Process, BackfillTrigger

CONSTANTS
  Config,            \* BackfillConfig, as the trigger reads it
  EntryPoint,        \* "manager" (start with backfill enabled) or "start"
  Concurrency,       \* permits of the engine's semaphore
  InitialTentative,  \* contents the tentative table may start with
  MaxCalls           \* bound: handler calls counted per transaction

ASSUME BackfillAssumption ==
  /\ Config \in TriggerConfig
  /\ EntryPoint \in {"manager", "start"}
  /\ Concurrency \in Nat \ {0}
  /\ InitialTentative \subseteq [Sigs -> TentativeRow \union {NoRow}]
  /\ MaxCalls \in Nat

VARIABLES
  eng,        \* the manager's and the engine's local state
  task,       \* sig -> the task processing it: its statement and its slot
  calls,      \* history: handler calls per transaction since deployment
  lost,       \* history: transactions whose last task returned an error
  missed,     \* history: slots passed over because fetch_block failed, and not
              \* saved since
  notified    \* history: ranges announced complete, with the slot reached

engineVars == <<eng, task>>
historyVars == <<calls, lost, missed, notified>>
vars == <<tables, chainVars, processVars, engineVars, historyVars>>

\* Program counters: where the engine is between two awaits.
ManagerPcs == {"idle", "load", "latest", "notify", "complete", "stopped"}
DetectPcs == {"hash1", "hash2", "compare", "rollback1", "rollback2", "rollback3"}
SlotPcs == {"loop", "fetch", "tasks", "final1", "final2", "final3", "save"}
TaskPcs == {"idle", "fetch", "handle", "final1", "final2", "final3", "mark"}

IdleTask == [pc |-> "idle", slot |-> NoSlot]
IdleEngine == [pc |-> "idle", latest |-> 0, cur |-> NoSlot, start |-> NoSlot,
               end |-> NoSlot, hash |-> NoHash, todo |-> {}]

BackfillTypeOK ==
  /\ eng \in [pc : ManagerPcs \union DetectPcs \union SlotPcs,
              latest : Slots, cur : Int, start : Int, end : Int,
              hash : StoredHashes \union {NoHash}, todo : SUBSET Sigs]
  /\ task \in [Sigs -> [pc : TaskPcs, slot : Slots \union {NoSlot}]]
  /\ calls \in [Sigs -> Nat]
  /\ lost \subseteq Sigs
  /\ missed \subseteq Slots
  /\ notified \subseteq [start : Int, end : Int, reached : Int]

\* Type invariant.
TypeOK == StorageTypeOK /\ ChainTypeOK /\ ProcessTypeOK /\ BackfillTypeOK

Goto(pc) == eng' = [eng EXCEPT !.pc = pc]

Env == UNCHANGED <<chainVars, faults, historyVars>>

\* A step of the engine that touches nothing but its own locals.
OnlyEngine == UNCHANGED <<tables, task, cancelled>> /\ Env

-----------------------------------------------------------------------------
(* BackfillManager: tick, load_progress, next_range.                       *)

\* A mutant: the manager asks for the tip at the configured commitment.
ManagerTick_Confirmed ==
  /\ EntryPoint = "manager"
  /\ eng.pc = "idle"
  /\ eng' = [eng EXCEPT !.pc = "load", !.latest = tip]
  /\ OnlyEngine

\* The interval fires: get_latest_finalized_slot.  The select of run is not
\* biased, so a tick that is due may still win against a cancelled token.
ManagerTick ==
  /\ EntryPoint = "manager"
  /\ eng.pc = "idle"
  /\ eng' = [eng EXCEPT !.pc = "load", !.latest = root]
  /\ OnlyEngine

ManagerStop ==
  /\ EntryPoint = "manager"
  /\ eng.pc = "idle" /\ cancelled
  /\ eng' = [IdleEngine EXCEPT !.pc = "stopped"]
  /\ OnlyEngine

\* load_progress, then the trigger; None means no work this time.
PlanRange ==
  /\ eng.pc = "load"
  /\ LET range == NextRange(Config, eng.latest, progress.last)
     IN  eng' = IF range = NoRange THEN IdleEngine
                ELSE [IdleEngine EXCEPT !.pc = "loop", !.cur = range.start,
                                        !.start = range.start, !.end = range.end]
  /\ OnlyEngine

\* BackfillEngine::start: the strategy's start, or the slot after the saved
\* progress, or 0; then the strategy's end or the latest finalized slot.
StartBackfill ==
  /\ EntryPoint = "start"
  /\ eng.pc = "idle"
  /\ LET from == IF Config.start # None THEN Config.start
                 ELSE IF progress.last # NoSlot THEN progress.last + 1 ELSE 0
     IN  eng' = [IdleEngine EXCEPT !.pc = "latest", !.cur = from, !.start = from]
  /\ OnlyEngine

StartRange ==
  /\ eng.pc = "latest"
  /\ eng' = [eng EXCEPT !.pc = "loop",
                        !.end = IF Config.end # None THEN Config.end ELSE root]
  /\ OnlyEngine

-----------------------------------------------------------------------------
(* BackfillEngine: the loop over slots, and detect_reorg / handle_reorg.   *)

BeginSlot ==
  /\ eng.pc = "loop" /\ eng.cur <= eng.end /\ ~cancelled
  /\ Goto("hash1")
  /\ OnlyEngine

\* The loop ends, because the range is done or because of cancellation.
EndRange ==
  /\ eng.pc = "loop" /\ (eng.cur > eng.end \/ cancelled)
  /\ Goto(IF EntryPoint = "manager" THEN "notify" ELSE "complete")
  /\ OnlyEngine

\* get_block_hash, first statement.
ReadFinalizedHash ==
  /\ eng.pc = "hash1"
  /\ LET stored == IF eng.cur \in Slots THEN finalized[eng.cur] ELSE NoHash
     IN  eng' = IF stored # NoHash
                THEN [eng EXCEPT !.pc = "compare", !.hash = stored]
                ELSE [eng EXCEPT !.pc = "hash2"]
  /\ OnlyEngine

\* get_block_hash, second statement: the hash of any tentative row.
ReadTentativeHash ==
  /\ eng.pc = "hash2"
  /\ \/ /\ TentativeAt(eng.cur) = {}
        /\ Goto("fetch")
     \/ \E sig \in TentativeAt(eng.cur) :
          eng' = [eng EXCEPT !.pc = "compare", !.hash = tentative[sig].hash]
  /\ OnlyEngine

\* detect_reorg fetches the block; a different hash starts the rollback.
CompareHash ==
  /\ eng.pc = "compare" /\ BlockAvailable(eng.cur)
  /\ eng' = [eng EXCEPT !.pc = IF eng.hash # chain[eng.cur] THEN "rollback1" ELSE "fetch",
                        !.hash = NoHash]
  /\ OnlyEngine

\* A mutant: rollback_slot forgets the tentative table.
RollbackTentative_Skip ==
  /\ eng.pc = "rollback1"
  /\ Goto("rollback2")
  /\ OnlyEngine

\* rollback_slot: three deletes, the finalized row last.
RollbackTentative ==
  /\ eng.pc = "rollback1"
  /\ DeleteTentative(eng.cur)
  /\ Goto("rollback2")
  /\ UNCHANGED <<task, cancelled>> /\ Env

RollbackProcessed ==
  /\ eng.pc = "rollback2"
  /\ DeleteProcessed(eng.cur)
  /\ Goto("rollback3")
  /\ UNCHANGED <<task, cancelled>> /\ Env

RollbackFinalized ==
  /\ eng.pc = "rollback3"
  /\ DeleteFinalized(eng.cur)
  /\ Goto("fetch")
  /\ UNCHANGED <<task, cancelled>> /\ Env

\* fetch_block answers: its relevant transactions are to be spawned.
FetchBlock ==
  /\ eng.pc = "fetch" /\ BlockAvailable(eng.cur)
  /\ eng' = [eng EXCEPT !.pc = "tasks", !.hash = chain[eng.cur],
                        !.todo = TxsAt(chain, eng.cur)]
  /\ OnlyEngine

\* fetch_block fails: the slot is logged and passed over.
SkipSlot ==
  /\ eng.pc = "fetch"
  /\ \/ ~BlockAvailable(eng.cur) /\ UNCHANGED faults
     \/ BlockAvailable(eng.cur) /\ Fault("rpc")
  /\ eng' = [eng EXCEPT !.pc = "loop", !.cur = @ + 1]
  /\ missed' = missed \union ({eng.cur} \intersect Slots)
  /\ UNCHANGED <<tables, task, cancelled, chainVars, calls, lost, notified>>

-----------------------------------------------------------------------------
(* The tasks: process_backfill_transaction_core (or, from start,           *)
(* process_transaction_core with is_finalized and the block's hash).       *)

Running == {sig \in Sigs : task[sig].pc # "idle"}

SetTask(sig, t) == task' = [task EXCEPT ![sig] = t]

SpawnTask(sig) ==
  /\ eng.pc = "tasks" /\ sig \in eng.todo
  /\ Cardinality(Running) < Concurrency
  /\ eng' = [eng EXCEPT !.todo = @ \ {sig}]
  /\ SetTask(sig, [pc |-> "fetch", slot |-> NoSlot])
  /\ UNCHANGED <<tables, cancelled>> /\ Env

\* fetch_transaction answers with the slot the transaction is in by now.
TaskFetch(sig) ==
  /\ task[sig].pc = "fetch"
  /\ \E s \in SlotsOfTx(sig) : SetTask(sig, [pc |-> "handle", slot |-> s])
  /\ UNCHANGED <<tables, eng, cancelled>> /\ Env

\* The handler calls of the transaction, all succeeding.
TaskHandle(sig) ==
  /\ task[sig].pc = "handle"
  /\ SetTask(sig, [task[sig] EXCEPT !.pc = "final1"])
  /\ calls' = [calls EXCEPT ![sig] = Least(@ + 1, MaxCalls)]
  /\ UNCHANGED <<tables, eng, cancelled, chainVars, faults, lost, missed, notified>>

\* A mutant: the rows are promoted before the block is recorded.
TaskFinalize_PromoteFirst(sig) ==
  /\ \/ /\ task[sig].pc = "final1"
        /\ PromoteTentative(task[sig].slot)
        /\ SetTask(sig, [task[sig] EXCEPT !.pc = "final2"])
     \/ /\ task[sig].pc = "final2"
        /\ InsertFinalized(task[sig].slot, eng.hash)
        /\ SetTask(sig, [task[sig] EXCEPT !.pc = "final3"])
     \/ /\ task[sig].pc = "final3"
        /\ DeleteTentative(task[sig].slot)
        /\ SetTask(sig, [task[sig] EXCEPT !.pc = "mark"])
  /\ UNCHANGED <<eng, cancelled>> /\ Env

\* A mutant: the block hash is not handed to the task, which stores "UNKNOWN".
TaskFinalize_NoHash(sig) ==
  /\ \/ /\ task[sig].pc = "final1"
        /\ InsertFinalized(task[sig].slot, UnknownHash)
        /\ SetTask(sig, [task[sig] EXCEPT !.pc = "final2"])
     \/ /\ task[sig].pc = "final2"
        /\ PromoteTentative(task[sig].slot)
        /\ SetTask(sig, [task[sig] EXCEPT !.pc = "final3"])
     \/ /\ task[sig].pc = "final3"
        /\ DeleteTentative(task[sig].slot)
        /\ SetTask(sig, [task[sig] EXCEPT !.pc = "mark"])
  /\ UNCHANGED <<eng, cancelled>> /\ Env

\* mark_finalized(slot, block hash) of the task, in three statements.
TaskFinalize(sig) ==
  /\ \/ /\ task[sig].pc = "final1"
        /\ InsertFinalized(task[sig].slot, eng.hash)
        /\ SetTask(sig, [task[sig] EXCEPT !.pc = "final2"])
     \/ /\ task[sig].pc = "final2"
        /\ PromoteTentative(task[sig].slot)
        /\ SetTask(sig, [task[sig] EXCEPT !.pc = "final3"])
     \/ /\ task[sig].pc = "final3"
        /\ DeleteTentative(task[sig].slot)
        /\ SetTask(sig, [task[sig] EXCEPT !.pc = "mark"])
  /\ UNCHANGED <<eng, cancelled>> /\ Env

TaskMark(sig) ==
  /\ task[sig].pc = "mark"
  /\ InsertProcessed(sig, task[sig].slot)
  /\ SetTask(sig, IdleTask)
  /\ lost' = lost \ {sig}
  /\ UNCHANGED <<eng, cancelled, chainVars, faults, calls, missed, notified>>

\* The task returns an error: the transaction is not found (or a request, a
\* handler, a statement fails).  A failing handler may have left its effect.
TaskFails(sig) ==
  /\ \/ /\ task[sig].pc = "fetch"
        /\ IF SlotsOfTx(sig) = {} THEN UNCHANGED faults ELSE Fault("rpc")
        /\ UNCHANGED calls
     \/ /\ task[sig].pc = "handle" /\ Fault("handler")
        /\ \/ UNCHANGED calls
           \/ calls' = [calls EXCEPT ![sig] = Least(@ + 1, MaxCalls)]
     \/ /\ task[sig].pc \in {"final1", "final2", "final3", "mark"} /\ Fault("db")
        /\ UNCHANGED calls
  /\ SetTask(sig, IdleTask)
  /\ lost' = lost \union {sig}
  /\ UNCHANGED <<tables, eng, cancelled, chainVars, missed, notified>>

-----------------------------------------------------------------------------
(* After the tasks: mark_finalized of the slot, save_progress, next slot.  *)

\* A mutant: the spawned tasks are not awaited.
JoinTasks_NoWait ==
  /\ eng.pc = "tasks" /\ eng.todo = {}
  /\ Goto("final1")
  /\ OnlyEngine

JoinTasks ==
  /\ eng.pc = "tasks" /\ eng.todo = {} /\ Running = {}
  /\ Goto("final1")
  /\ OnlyEngine

FinalizeSlot ==
  /\ \/ /\ eng.pc = "final1"
        /\ InsertFinalized(eng.cur, eng.hash)
        /\ Goto("final2")
     \/ /\ eng.pc = "final2"
        /\ PromoteTentative(eng.cur)
        /\ Goto("final3")
     \/ /\ eng.pc = "final3"
        /\ DeleteTentative(eng.cur)
        /\ Goto("save")
  /\ UNCHANGED <<task, cancelled>> /\ Env

SaveSlot ==
  /\ eng.pc = "save"
  /\ SaveProgress(eng.cur)
  /\ eng' = [eng EXCEPT !.pc = "loop", !.cur = @ + 1, !.hash = NoHash]
  /\ missed' = missed \ {eng.cur}
  /\ UNCHANGED <<task, cancelled, chainVars, faults, calls, lost, notified>>

\* notify_range_complete calls on_backfill_range_complete of every handler.
NotifyRange ==
  /\ eng.pc = "notify"
  /\ notified' = notified \union
       {[start |-> eng.start, end |-> eng.end, reached |-> eng.cur]}
  /\ eng' = IdleEngine
  /\ UNCHANGED <<tables, task, cancelled, chainVars, faults, calls, lost, missed>>

\* BackfillEngine::start ends with mark_complete.
CompleteBackfill ==
  /\ eng.pc = "complete"
  /\ MarkComplete
  /\ eng' = [IdleEngine EXCEPT !.pc = "stopped"]
  /\ UNCHANGED <<task, cancelled>> /\ Env

\* A mutant: start_range logs its errors and reports the range as done.
AbortRange_AsDone ==
  /\ eng.pc \in {"hash1", "hash2", "final1", "final2", "final3", "save"}
  /\ Fault("db")
  /\ Goto(IF EntryPoint = "manager" THEN "notify" ELSE "complete")
  /\ UNCHANGED <<tables, task, cancelled, chainVars, historyVars>>

\* The range is given up: detect_reorg finds no block for a slot it has a
\* hash of, or one of the engine's requests or statements fails.  The manager
\* logs the error and waits for its next tick; start returns it.
AbortRange ==
  /\ \/ eng.pc = "compare" /\ ~BlockAvailable(eng.cur) /\ UNCHANGED faults
     \/ eng.pc = "compare" /\ BlockAvailable(eng.cur) /\ Fault("rpc")
     \/ /\ eng.pc = "idle" /\ EntryPoint = "start" /\ Config.start = None
        /\ Fault("db")
     \/ eng.pc = "latest" /\ Config.end = None /\ Fault("rpc")
     \/ /\ eng.pc \in {"load", "hash1", "hash2", "rollback1", "rollback2", "rollback3",
                       "final1", "final2", "final3", "save", "complete"}
        /\ Fault("db")
     \/ eng.pc = "notify" /\ Fault("handler")
  /\ eng' = [IdleEngine EXCEPT
               !.pc = IF EntryPoint = "manager" THEN "idle" ELSE "stopped"]
  /\ UNCHANGED <<tables, task, cancelled, chainVars, historyVars>>

-----------------------------------------------------------------------------
(* The process around it.                                                  *)

\* A new process starts with an idle manager and no tasks.
ResetEngine ==
  /\ eng' = IdleEngine
  /\ task' = [sig \in Sigs |-> IdleTask]
  /\ UNCHANGED historyVars

\* The process dies and is started again: only the tables survive.
Restart == NewProcess /\ ResetEngine /\ UNCHANGED <<tables, chainVars>>

Cancel == CancelToken /\ UNCHANGED <<tables, chainVars, engineVars, historyVars>>

EngineInit ==
  /\ eng = IdleEngine
  /\ task = [sig \in Sigs |-> IdleTask]
  /\ calls = [sig \in Sigs |-> 0]
  /\ lost = {} /\ missed = {} /\ notified = {}

\* The tables as an RPC-polling deployment leaves them: tentative rows only.
Init ==
  /\ ChainInit
  /\ processed = [sig \in Sigs |-> NoSlot]
  /\ tentative \in InitialTentative
  /\ finalized = [s \in Slots |-> NoHash]
  /\ progress = [last |-> NoSlot, complete |-> FALSE]
  /\ ProcessInit
  /\ EngineInit

EngineStep ==
  \/ ManagerTick \/ ManagerStop \/ PlanRange \/ StartBackfill \/ StartRange
  \/ BeginSlot \/ EndRange \/ ReadFinalizedHash \/ ReadTentativeHash \/ CompareHash
  \/ RollbackTentative \/ RollbackProcessed \/ RollbackFinalized
  \/ FetchBlock \/ SkipSlot \/ JoinTasks \/ FinalizeSlot \/ SaveSlot
  \/ NotifyRange \/ CompleteBackfill \/ AbortRange

TaskStep(sig) ==
  SpawnTask(sig) \/ TaskFetch(sig) \/ TaskHandle(sig) \/ TaskFinalize(sig)
  \/ TaskMark(sig) \/ TaskFails(sig)

ClusterStep == ChainNext /\ UNCHANGED <<tables, processVars, engineVars, historyVars>>

Next ==
  \/ EngineStep
  \/ \E sig \in Sigs : TaskStep(sig)
  \/ Restart \/ Cancel
  \/ ClusterStep

Spec == Init /\ [][Next]_vars

(* The manager's loop, the engine and the spawned tasks are futures the    *)
(* runtime keeps polling: each of them, when it can step, eventually does. *)
(* Nothing is assumed of the cluster, of crashes or of cancellation.       *)
FairSpec ==
  /\ Spec
  /\ WF_vars(EngineStep)
  /\ \A sig \in Sigs : WF_vars(TaskStep(sig))

-----------------------------------------------------------------------------
(* Properties.                                                             *)

Indexed(s) ==
  \A sig \in TxsAt(chain, s) : InProcessed(sig) \/ sig \in lost \/ s \in missed

\* Whatever interrupts a rollback or a mark_finalized, a slot with processed
\* rows keeps the hash they were indexed under, so that a later detect_reorg
\* on that slot still has something to compare.
ProcessedHasBlock ==
  \A sig \in Sigs : InProcessed(sig) => finalized[processed[sig]] # NoHash

\* The saved progress never runs ahead of the work: every transaction of every
\* slot up to last_slot is in the processed table, unless its own task or the
\* fetch of its block failed.  Crashes and aborted ranges lose nothing.
SweptSlotsIndexed ==
  \A s \in Slots : s <= progress.last => Indexed(s)

\* No transaction of an abandoned fork ends up in the processed table of a
\* finalized slot: stale tentative rows are rolled back before a promotion.
NoOrphanProcessed ==
  \A sig \in Sigs : InProcessed(sig) /\ processed[sig] <= root =>
    sig \in TxsAt(chain, processed[sig])

\* Only finalized blocks are stored in finalized_blocks.
OnlyFinalizedStored ==
  \A s \in Slots : finalized[s] # NoHash => s <= root

\* A processed row is immutable: the rollback of a slot, which deletes by slot
\* number, never reaches a row that was stored for a finalized block.
ProcessedRowsImmutable ==
  [][\A sig \in Sigs : InProcessed(sig) => processed'[sig] = processed[sig]]_vars

\* A transaction is handed to its handler again only after a crash or an
\* aborted range: resuming never overlaps what was saved.
HandledOncePerInterruption ==
  \A sig \in Sigs : calls[sig] <= 1 + Used("crash") + Used("db") + Used("handler")

\* on_backfill_range_complete is called once every slot of the range has been
\* processed (a slot whose fetch failed, a task that failed, excepted).
AnnouncedRangesIndexed ==
  \A n \in notified : \A s \in Slots : s \in n.start..n.end => Indexed(s)

\* is_complete is only set when the whole configured range has been swept.
CompleteMeansSwept ==
  progress.complete => \A s \in Slots :
    s \in (IF Config.start = None THEN 0 ELSE Config.start)..
          (IF Config.end = None THEN InitialTip ELSE Config.end) => Indexed(s)

\* last_slot never goes back: no range restarts before what was saved.
ProgressNeverRegresses == [][progress'.last >= progress.last]_vars

\* handle_reorg deletes a slot's records on the evidence of a finalized block,
\* although fetch_block asks at the configured commitment: every slot whose
\* records are deleted is finalized.
RollbackOnlyFinalized ==
  [][\A sig \in Sigs : InTentative(sig) /\ eng.pc = "rollback1" /\ tentative'[sig] = NoRow
       => tentative[sig].slot <= root]_vars

\* Every transaction of a slot that becomes finalized is eventually in the
\* processed table, unless its own task or the fetch of its block failed, or
\* the indexer was cancelled.
FinalizedSlotsGetIndexed ==
  \A s \in Slots : s <= root ~> cancelled \/ Indexed(s)
=============================================================================
