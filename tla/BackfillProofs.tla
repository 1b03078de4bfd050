--------------------------- MODULE BackfillProofs ---------------------------
(***************************************************************************)
(* Proofs about the backfill component, for every chain, configuration,    *)
(* concurrency and fault budget.                                           *)
(*                                                                         *)
(* TypeOK is not inductive: SaveProgress stores the engine's cursor and a  *)
(* task stores the slot it fetched.  Locals says what each program counter *)
(* knows about them; TypeOK /\ Locals is inductive.                        *)
(***************************************************************************)
EXTENDS Backfill, SharedProofs

-----------------------------------------------------------------------------
(* What DefaultBackfillTrigger::next_range guarantees for every            *)
(* configuration, every latest finalized slot and every saved progress.    *)

LEMMA StartIsNat ==
  ASSUME NEW config \in TriggerConfig, NEW last \in OptionNat
  PROVE  StartSlot(config, last) \in Nat
  BY DEF TriggerConfig, OptionNat, None, StartSlot, Least

LEMMA EndIsNat ==
  ASSUME NEW config \in TriggerConfig, NEW latest \in Nat, NEW start \in Nat
  PROVE  EndSlot(config, latest, start) \in Nat
  BY DEF TriggerConfig, OptionNat, None, EndSlot, Greatest, SaturatingSub

\* A range is never empty, never inverted and never longer than one chunk, so
\* neither BackfillRange::len nor `end_slot - start_slot` can underflow.
THEOREM RangeIsBounded ==
  ASSUME NEW config \in TriggerConfig, NEW latest \in Nat, NEW last \in OptionNat,
         NEW range, range = NextRange(config, latest, last), range # NoRange
  PROVE  /\ range.start \in Nat /\ range.end \in Nat
         /\ range.start <= range.end
         /\ range.end - range.start <= config.chunk
<1> DEFINE start == StartSlot(config, last)
           end == EndSlot(config, latest, start)
           clamped == ClampedEnd(config, latest, start, end)
<1>1. start \in Nat
  BY StartIsNat
<1>2. end \in Nat
  BY <1>1, EndIsNat
<1>3. start <= end
  <2>1. ~(end < start)
    BY DEF NextRange
  <2> HIDE DEF start, end
  <2> QED
    BY <1>1, <1>2, <2>1
<1>4. range = [start |-> start, end |-> Least(clamped, start + config.chunk)]
  BY DEF NextRange
<1>5. clamped \in Nat /\ start <= clamped
  <2> HIDE DEF start, end
  <2> QED
    BY <1>1, <1>2, <1>3 DEF ClampedEnd, Least, SaturatingSub, TriggerConfig, OptionNat, None
<1>6. config.chunk \in Nat
  BY DEF TriggerConfig
<1> HIDE DEF start, end, clamped
<1> QED
  BY <1>1, <1>4, <1>5, <1>6 DEF Least

\* Without a configured start the trigger resumes exactly after the saved
\* progress (at slot 0 without any), whatever the other settings: it neither
\* repeats a slot nor jumps over one.
THEOREM ResumesAfterProgress ==
  ASSUME NEW config \in TriggerConfig, NEW latest \in Nat, NEW last \in OptionNat,
         config.start = None, NextRange(config, latest, last) # NoRange
  PROVE  NextRange(config, latest, last).start = last + 1
<1>1. StartSlot(config, last) = last + 1
  BY DEF StartSlot, None, OptionNat
<1>2. NextRange(config, latest, last).start = StartSlot(config, last)
  BY DEF NextRange
<1> QED
  BY <1>1, <1>2

\* Without a configured end and without max_depth no range goes beyond the
\* latest finalized slot.
THEOREM StaysFinalized ==
  ASSUME NEW config \in TriggerConfig, NEW latest \in Nat, NEW last \in OptionNat,
         config.end = None, config.maxDepth = None,
         NextRange(config, latest, last) # NoRange
  PROVE  NextRange(config, latest, last).end <= latest
<1>1. StartSlot(config, last) \in Nat
  BY StartIsNat
<1>2. EndSlot(config, latest, StartSlot(config, last)) = latest
  BY DEF EndSlot
<1>3. NextRange(config, latest, last).end =
        Least(latest, StartSlot(config, last) + config.chunk)
  BY <1>2 DEF NextRange, ClampedEnd
<1> QED
  BY <1>1, <1>3 DEF Least, TriggerConfig

\* With a configured end and without max_depth no range goes beyond that end.
LEMMA StaysWithinEnd ==
  ASSUME NEW config \in TriggerConfig, NEW latest \in Nat, NEW last \in OptionNat,
         config.end # None, config.maxDepth = None,
         NextRange(config, latest, last) # NoRange
  PROVE  NextRange(config, latest, last).end <= config.end
<1>1. StartSlot(config, last) \in Nat
  BY StartIsNat
<1>2. EndSlot(config, latest, StartSlot(config, last)) = config.end
  BY DEF EndSlot
<1>3. NextRange(config, latest, last).end =
        Least(config.end, StartSlot(config, last) + config.chunk)
  BY <1>2 DEF NextRange, ClampedEnd
<1> QED
  BY <1>1, <1>3 DEF Least, TriggerConfig, OptionNat, None

-----------------------------------------------------------------------------

\* Program counters inside a range, those with a block at hand, and those
\* that hold that block's hash.
BlockPcs == {"compare", "rollback1", "rollback2", "rollback3"}
HashPcs == {"tasks", "final1", "final2", "final3", "save"}
RangePcs == {"latest", "loop", "hash1", "hash2", "fetch"} \union BlockPcs \union HashPcs
PlacedTaskPcs == {"handle", "final1", "final2", "final3", "mark"}

\* What the engine and its tasks know at each program counter.
EngineKnows ==
  /\ eng.pc \in RangePcs => eng.cur \in Nat
  /\ eng.pc \in BlockPcs \union HashPcs => eng.cur \in Slots
  /\ eng.pc \in HashPcs => eng.hash \in Hashes
TasksKnow ==
  \A sig \in Sigs :
    /\ task[sig].pc # "idle" => eng.pc = "tasks"
    /\ task[sig].pc \in PlacedTaskPcs => task[sig].slot \in Slots

Locals == EngineKnows /\ TasksKnow

IType == TypeOK /\ Locals

-----------------------------------------------------------------------------
(* Type correctness.                                                       *)

LEMMA NumberTypes ==
  ASSUME TypeOK
  PROVE  /\ progress.last \in OptionNat
         /\ eng.latest \in Nat
         /\ root \in Slots /\ root \in Nat
         /\ Config.start \in OptionNat /\ Config.end \in OptionNat
<1> USE TypesAssumption, BackfillAssumption DEF TypeOK
<1>1. progress.last \in OptionNat
  BY DEF StorageTypeOK, Slots, NoSlot, OptionNat, None
<1>2. eng.latest \in Nat
  BY DEF BackfillTypeOK, Slots
<1>3. root \in Slots /\ root \in Nat
  BY RootIsSlot DEF Slots
<1>4. Config.start \in OptionNat /\ Config.end \in OptionNat
  BY DEF TriggerConfig
<1> QED
  BY <1>1, <1>2, <1>3, <1>4

LEMMA InitType == Init => IType
<1> SUFFICES ASSUME Init PROVE IType
  OBVIOUS
<1> USE TypesAssumption, ChainAssumption, BackfillAssumption, ProcessAssumption
<1>1. StorageTypeOK
  BY DEF Init, StorageTypeOK
<1>2. ChainTypeOK
  BY DEF Init, ChainInit, ChainTypeOK, Slots
<1>3. ProcessTypeOK
  BY DEF Init, ProcessInit, ProcessTypeOK
<1>4. BackfillTypeOK
  BY DEF Init, EngineInit, BackfillTypeOK, IdleEngine, IdleTask, NoSlot, Slots,
         ManagerPcs, TaskPcs
<1>5. Locals
  BY DEF Init, EngineInit, Locals, EngineKnows, TasksKnow, IdleEngine, IdleTask,
         RangePcs, BlockPcs, HashPcs, PlacedTaskPcs
<1> QED
  BY <1>1, <1>2, <1>3, <1>4, <1>5 DEF IType, TypeOK

\* Steps that leave the tables and the cluster alone.
LEMMA EngineOnlyType ==
  ASSUME IType,
         \/ ManagerTick \/ ManagerStop \/ PlanRange \/ StartBackfill \/ StartRange
         \/ BeginSlot \/ EndRange \/ ReadFinalizedHash \/ ReadTentativeHash
         \/ CompareHash \/ FetchBlock \/ JoinTasks
  PROVE  IType'
<1> USE TypesAssumption, BackfillAssumption DEF IType, TypeOK
<1>1. OnlyEngine
  BY DEF ManagerTick, ManagerStop, PlanRange, StartBackfill, StartRange, BeginSlot,
         EndRange, ReadFinalizedHash, ReadTentativeHash, CompareHash, FetchBlock, JoinTasks
<1>2. StorageTypeOK' /\ ChainTypeOK' /\ ProcessTypeOK'
  BY <1>1, StorageFrame, ChainStep, ProcessFrame DEF OnlyEngine, Env
<1>3. UNCHANGED <<task, historyVars>>
  BY <1>1 DEF OnlyEngine, Env
<1> SUFFICES BackfillTypeOK' /\ Locals'
  BY <1>2
<1> USE <1>3 DEF BackfillTypeOK, Locals, EngineKnows, TasksKnow, historyVars,
                 RangePcs, BlockPcs, HashPcs, ManagerPcs, DetectPcs, SlotPcs, Goto
<1>4. CASE ManagerTick
  <2>1. root \in Slots
    BY RootIsSlot
  <2> QED
    BY <1>4, <2>1 DEF ManagerTick
<1>5. CASE ManagerStop
  BY <1>5 DEF ManagerStop, IdleEngine, NoSlot, Slots
<1>6. CASE PlanRange
  <2> DEFINE range == NextRange(Config, eng.latest, progress.last)
  <2>1. CASE range = NoRange
    BY <1>6, <2>1 DEF PlanRange, IdleEngine, NoSlot, Slots
  <2>2. CASE range # NoRange
    <3>1. range.start \in Nat /\ range.end \in Nat
      BY <2>2, NumberTypes, RangeIsBounded
    <3>2. eng' = [pc |-> "loop", latest |-> 0, cur |-> range.start,
                  start |-> range.start, end |-> range.end, hash |-> NoHash, todo |-> {}]
      BY <1>6, <2>2 DEF PlanRange, IdleEngine
    <3>3. eng.pc = "load"
      BY <1>6 DEF PlanRange
    <3> HIDE DEF range
    <3> QED
      BY <3>1, <3>2, <3>3 DEF Slots
  <2> QED
    BY <2>1, <2>2
<1>7. CASE StartBackfill
  <2> DEFINE from == IF Config.start # None THEN Config.start
                     ELSE IF progress.last # NoSlot THEN progress.last + 1 ELSE 0
  <2>1. from \in Nat
    BY NumberTypes DEF OptionNat, None, NoSlot
  <2>2. eng' = [pc |-> "latest", latest |-> 0, cur |-> from, start |-> from,
                end |-> NoSlot, hash |-> NoHash, todo |-> {}]
    BY <1>7 DEF StartBackfill, IdleEngine
  <2>3. eng.pc = "idle"
    BY <1>7 DEF StartBackfill
  <2> HIDE DEF from
  <2> QED
    BY <2>1, <2>2, <2>3 DEF IdleEngine, NoSlot, Slots
<1>8. CASE StartRange
  <2> DEFINE end == IF Config.end # None THEN Config.end ELSE root
  <2>1. end \in Int
    BY NumberTypes DEF OptionNat, None
  <2>2. eng' = [eng EXCEPT !.pc = "loop", !.end = end] /\ eng.pc = "latest"
    BY <1>8 DEF StartRange
  <2> HIDE DEF end
  <2> QED
    BY <2>1, <2>2
<1>9. CASE BeginSlot
  BY <1>9 DEF BeginSlot
<1>10. CASE EndRange
  BY <1>10 DEF EndRange
<1>11. CASE ReadFinalizedHash
  BY <1>11 DEF ReadFinalizedHash, StorageTypeOK, StoredHashes
<1>12. CASE ReadTentativeHash
  <2>1. CASE TentativeAt(eng.cur) = {} /\ Goto("fetch")
    BY <1>12, <2>1 DEF ReadTentativeHash
  <2>2. ASSUME NEW sig \in TentativeAt(eng.cur),
               eng' = [eng EXCEPT !.pc = "compare", !.hash = tentative[sig].hash]
        PROVE  BackfillTypeOK' /\ Locals'
    <3>1. eng.cur \in Nat /\ eng.pc = "hash2"
      BY <1>12 DEF ReadTentativeHash
    <3>2. tentative[sig] \in TentativeRow \union {NoRow} /\ tentative[sig].slot = eng.cur
      BY <2>2 DEF TentativeAt, StorageTypeOK
    <3>3. eng.cur \in Slots /\ tentative[sig].hash \in StoredHashes
      BY <3>1, <3>2 DEF TentativeRow, NoRow, NoSlot
    <3> QED
      BY <2>2, <3>1, <3>3
  <2> QED
    BY <1>12, <2>1, <2>2 DEF ReadTentativeHash
<1>13. CASE CompareHash
  BY <1>13 DEF CompareHash
<1>14. CASE FetchBlock
  BY <1>14, AvailableBlock, ChainAssumption
     DEF FetchBlock, ChainTypeOK, TxsAt, StoredHashes
<1>15. CASE JoinTasks
  BY <1>15 DEF JoinTasks, Running
<1> QED
  BY <1>4, <1>5, <1>6, <1>7, <1>8, <1>9, <1>10, <1>11, <1>12, <1>13, <1>14, <1>15

\* The engine's storage statements on the slot it is at.
LEMMA EngineTableType ==
  ASSUME IType,
         \/ RollbackTentative \/ RollbackProcessed \/ RollbackFinalized
         \/ FinalizeSlot \/ SaveSlot \/ CompleteBackfill
  PROVE  IType'
<1> USE TypesAssumption DEF IType, TypeOK
<1>1. ChainTypeOK' /\ ProcessTypeOK'
  <2>1. UNCHANGED <<chainVars, cancelled, faults>>
    BY DEF RollbackTentative, RollbackProcessed, RollbackFinalized, FinalizeSlot,
           SaveSlot, CompleteBackfill, Env
  <2> QED
    BY <2>1, ChainStep, ProcessFrame
<1>2. UNCHANGED <<task, calls, lost, notified>>
  BY DEF RollbackTentative, RollbackProcessed, RollbackFinalized, FinalizeSlot,
         SaveSlot, CompleteBackfill, Env, historyVars
<1>3. StorageTypeOK'
  <2> USE DEF Locals, EngineKnows, BlockPcs, HashPcs
  <2>2. CASE RollbackTentative
    BY <2>2, StatementTypes DEF RollbackTentative
  <2>3. CASE RollbackProcessed
    BY <2>3, StatementTypes DEF RollbackProcessed
  <2>4. CASE RollbackFinalized
    BY <2>4, StatementTypes DEF RollbackFinalized
  <2>5. CASE FinalizeSlot
    <3>1. eng.cur \in Slots /\ eng.hash \in StoredHashes
      BY <2>5 DEF FinalizeSlot, StoredHashes
    <3> QED
      BY <3>1, <2>5, StatementTypes DEF FinalizeSlot
  <2>6. CASE SaveSlot
    BY <2>6, StatementTypes DEF SaveSlot
  <2>7. CASE CompleteBackfill
    BY <2>7, MarkCompleteType DEF CompleteBackfill
  <2> QED
    BY <2>2, <2>3, <2>4, <2>5, <2>6, <2>7
<1>4. missed' \subseteq Slots
  BY DEF RollbackTentative, RollbackProcessed, RollbackFinalized, FinalizeSlot,
         SaveSlot, CompleteBackfill, Env, historyVars, BackfillTypeOK
<1> SUFFICES BackfillTypeOK' /\ Locals'
  BY <1>1, <1>3
<1> USE <1>2, <1>4 DEF BackfillTypeOK, Locals, EngineKnows, TasksKnow, Goto,
                 RangePcs, BlockPcs, HashPcs, ManagerPcs, DetectPcs, SlotPcs
<1>5. CASE RollbackTentative
  BY <1>5 DEF RollbackTentative
<1>6. CASE RollbackProcessed
  BY <1>6 DEF RollbackProcessed
<1>7. CASE RollbackFinalized
  BY <1>7 DEF RollbackFinalized
<1>8. CASE FinalizeSlot
  BY <1>8 DEF FinalizeSlot
<1>9. CASE SaveSlot
  <2>1. eng.cur \in Nat /\ eng.cur + 1 \in Int /\ eng.pc = "save"
    BY <1>9 DEF SaveSlot
  <2>2. eng' = [eng EXCEPT !.pc = "loop", !.cur = eng.cur + 1, !.hash = NoHash]
    BY <1>9 DEF SaveSlot
  <2>3. BackfillTypeOK'
    <3> DEFINE next == eng.cur + 1
    <3>1. next \in Int
      BY <2>1
    <3>2. eng' = [eng EXCEPT !.pc = "loop", !.cur = next, !.hash = NoHash]
      BY <2>2
    <3> HIDE DEF next
    <3> QED
      BY <3>1, <3>2
  <2>4. eng'.pc = "loop" /\ eng'.cur = eng.cur + 1
    BY <2>2
  <2>5. Locals'
    BY <2>1, <2>4
  <2> QED
    BY <2>3, <2>5
<1>10. CASE CompleteBackfill
  BY <1>10 DEF CompleteBackfill, IdleEngine, NoSlot, Slots
<1> QED
  BY <1>5, <1>6, <1>7, <1>8, <1>9, <1>10

\* Engine steps that record history or give up.
LEMMA EngineOtherType ==
  ASSUME IType, SkipSlot \/ NotifyRange \/ AbortRange
  PROVE  IType'
<1> USE TypesAssumption DEF IType, TypeOK
<1>1. StorageTypeOK' /\ ChainTypeOK' /\ UNCHANGED <<task, cancelled, calls, lost>>
  <2>1. UNCHANGED <<tables, chainVars, task, cancelled, calls, lost>>
    BY DEF SkipSlot, NotifyRange, AbortRange, historyVars
  <2> QED
    BY <2>1, StorageFrame, ChainStep
<1>2. ProcessTypeOK'
  <2>1. \/ UNCHANGED faults
        \/ \E kind \in {"crash", "cancel", "db", "rpc", "handler"} : Fault(kind)
    BY DEF SkipSlot, NotifyRange, AbortRange
  <2> QED
    BY <1>1, <2>1, FaultType DEF ProcessTypeOK
<1> SUFFICES BackfillTypeOK' /\ Locals'
  BY <1>1, <1>2
<1> USE <1>1 DEF BackfillTypeOK, Locals, EngineKnows, TasksKnow, historyVars,
                 RangePcs, BlockPcs, HashPcs, ManagerPcs, DetectPcs, SlotPcs
<1>3. CASE SkipSlot
  <2>1. eng.cur \in Nat /\ eng.cur + 1 \in Int /\ eng.pc = "fetch"
    BY <1>3 DEF SkipSlot
  <2>2. eng' = [eng EXCEPT !.pc = "loop", !.cur = eng.cur + 1]
    BY <1>3 DEF SkipSlot
  <2>3. missed' \subseteq Slots /\ UNCHANGED notified
    BY <1>3 DEF SkipSlot
  <2>4. BackfillTypeOK'
    <3> DEFINE next == eng.cur + 1
    <3>1. next \in Int
      BY <2>1
    <3>2. eng' = [eng EXCEPT !.pc = "loop", !.cur = next]
      BY <2>2
    <3> HIDE DEF next
    <3> QED
      BY <2>3, <3>1, <3>2
  <2>5. eng'.pc = "loop" /\ eng'.cur = eng.cur + 1
    BY <2>2
  <2>6. Locals'
    BY <2>1, <2>5
  <2> QED
    BY <2>4, <2>6
<1>4. CASE NotifyRange
  BY <1>4 DEF NotifyRange, IdleEngine, NoSlot, Slots
<1>5. CASE AbortRange
  BY <1>5 DEF AbortRange, IdleEngine, NoSlot, Slots
<1> QED
  BY <1>3, <1>4, <1>5

\* The steps of one transaction's task.
LEMMA TaskType ==
  ASSUME IType, NEW sig \in Sigs, TaskStep(sig)
  PROVE  IType'
<1> USE TypesAssumption DEF IType, TypeOK
<1>1. ChainTypeOK' /\ ProcessTypeOK' /\ UNCHANGED <<missed, notified>>
  <2>1. UNCHANGED <<chainVars, cancelled, missed, notified>>
    BY DEF TaskStep, SpawnTask, TaskFetch, TaskHandle, TaskFinalize, TaskMark, TaskFails,
           Env, historyVars
  <2>2. \/ UNCHANGED faults
        \/ \E kind \in {"crash", "cancel", "db", "rpc", "handler"} : Fault(kind)
    BY DEF TaskStep, SpawnTask, TaskFetch, TaskHandle, TaskFinalize, TaskMark, TaskFails, Env
  <2> QED
    BY <2>1, <2>2, ChainStep, FaultType DEF ProcessTypeOK
<1>2. task[sig].pc # "idle" => eng.pc = "tasks" /\ eng.hash \in StoredHashes
  BY DEF Locals, EngineKnows, TasksKnow, HashPcs, StoredHashes
<1>3. StorageTypeOK'
  <2>1. CASE TaskFinalize(sig)
    <3>1. task[sig].slot \in Slots /\ eng.hash \in StoredHashes
      BY <1>2, <2>1 DEF TaskFinalize, Locals, TasksKnow, PlacedTaskPcs
    <3> QED
      BY <2>1, <3>1, StatementTypes DEF TaskFinalize
  <2>2. CASE TaskMark(sig)
    <3>1. task[sig].slot \in Slots
      BY <2>2 DEF TaskMark, Locals, TasksKnow, PlacedTaskPcs
    <3> QED
      BY <2>2, <3>1, StatementTypes DEF TaskMark
  <2>3. CASE SpawnTask(sig) \/ TaskFetch(sig) \/ TaskHandle(sig) \/ TaskFails(sig)
    BY <2>3, StorageFrame DEF SpawnTask, TaskFetch, TaskHandle, TaskFails
  <2> QED
    BY <2>1, <2>2, <2>3 DEF TaskStep
<1>4. calls' \in [Sigs -> Nat] /\ lost' \subseteq Sigs
  BY BackfillAssumption
     DEF BackfillTypeOK, TaskStep, SpawnTask, TaskFetch, TaskHandle, TaskFinalize, TaskMark,
         TaskFails, Env, historyVars, Least
<1> SUFFICES BackfillTypeOK' /\ Locals'
  BY <1>1, <1>3
<1> USE <1>1, <1>4 DEF BackfillTypeOK, Locals, EngineKnows, TasksKnow, SetTask, IdleTask,
                       RangePcs, BlockPcs, HashPcs, TaskPcs, PlacedTaskPcs
<1>5. CASE SpawnTask(sig)
  BY <1>5 DEF SpawnTask
<1>6. CASE TaskFetch(sig)
  <2>1. PICK s \in Slots : task' = [task EXCEPT ![sig] = [pc |-> "handle", slot |-> s]]
    BY <1>6 DEF TaskFetch, SlotsOfTx
  <2> QED
    BY <1>2, <1>6, <2>1 DEF TaskFetch
<1>7. CASE TaskHandle(sig)
  BY <1>7 DEF TaskHandle
<1>8. CASE TaskFinalize(sig)
  BY <1>8 DEF TaskFinalize
<1>9. CASE TaskMark(sig)
  BY <1>9 DEF TaskMark
<1>10. CASE TaskFails(sig)
  BY <1>10 DEF TaskFails
<1> QED
  BY <1>5, <1>6, <1>7, <1>8, <1>9, <1>10 DEF TaskStep

\* A step outside the component, and the end of its process.
LEMMA TypeOutside ==
  ASSUME IType, StorageTypeOK', ChainTypeOK', ProcessTypeOK',
         ResetEngine \/ UNCHANGED <<engineVars, historyVars>>
  PROVE  IType'
<1>1. BackfillTypeOK' /\ Locals'
  <2>1. CASE UNCHANGED <<engineVars, historyVars>>
    BY <2>1 DEF IType, TypeOK, engineVars, historyVars, BackfillTypeOK, Locals, EngineKnows,
                TasksKnow
  <2>2. CASE ResetEngine
    BY <2>2, TypesAssumption
       DEF IType, TypeOK, ResetEngine, historyVars, BackfillTypeOK, Locals, EngineKnows,
           TasksKnow, IdleEngine, IdleTask, NoSlot, Slots, RangePcs, BlockPcs, HashPcs,
           PlacedTaskPcs, ManagerPcs, TaskPcs
  <2> QED
    BY <2>1, <2>2
<1> QED
  BY <1>1 DEF IType, TypeOK

\* Everything else.
LEMMA OtherType ==
  ASSUME IType, Restart \/ Cancel \/ ClusterStep \/ UNCHANGED vars
  PROVE  IType'
<1> USE DEF IType, TypeOK
<1>1. StorageTypeOK' /\ ChainTypeOK'
  <2>1. UNCHANGED tables /\ (ChainNext \/ UNCHANGED chainVars)
    BY DEF Restart, Cancel, ClusterStep, vars
  <2> QED
    BY <2>1, StorageFrame, ChainStep
<1>2. ProcessTypeOK'
  <2>1. CASE Restart
    BY <2>1, FaultType DEF Restart, NewProcess
  <2>2. CASE Cancel
    BY <2>2, FaultType DEF Cancel, CancelToken
  <2>3. CASE ClusterStep \/ UNCHANGED vars
    BY <2>3, ProcessFrame DEF ClusterStep, vars, processVars
  <2> QED
    BY <2>1, <2>2, <2>3
<1>3. ResetEngine \/ UNCHANGED <<engineVars, historyVars>>
  BY DEF Restart, Cancel, ClusterStep, vars
<1> QED
  BY <1>1, <1>2, <1>3, TypeOutside

LEMMA StepType == IType /\ [Next]_vars => IType'
  BY EngineOnlyType, EngineTableType, EngineOtherType, TaskType, OtherType
     DEF Next, EngineStep

\* Type correctness: in particular the saved progress and every stored slot
\* stay within the chain, and no fault budget is overdrawn.
THEOREM TypeCorrect == Spec => []TypeOK
<1>1. IType => TypeOK
  BY DEF IType
<1> QED
  BY InitType, StepType, <1>1, PTL DEF Spec

-----------------------------------------------------------------------------
(* ProcessedHasBlock.  mark_finalized records the block before it promotes *)
(* rows, and rollback_slot deletes the block after the rows: BlockFirst    *)
(* says what has already been done at each statement in between.           *)

HasBlock(s) == finalized[s] # NoHash

BlockFirst ==
  /\ eng.pc = "final2" => HasBlock(eng.cur)
  /\ eng.pc = "rollback3" => \A sig \in Sigs : processed[sig] # eng.cur
  /\ \A sig \in Sigs :
       task[sig].pc \in {"final2", "final3", "mark"} => HasBlock(task[sig].slot)

IBlock == IType /\ ProcessedHasBlock /\ BlockFirst

LEMMA InitBlock == Init => IBlock
  BY InitType
     DEF Init, EngineInit, IdleEngine, IdleTask, IBlock, ProcessedHasBlock, InProcessed,
         BlockFirst

\* Steps that touch neither the tables nor the tasks.
LEMMA BlockFrame ==
  ASSUME IBlock, IType', UNCHANGED <<tables, task>>,
         eng'.pc \notin {"final2", "rollback3"}
  PROVE  IBlock'
  BY DEF IBlock, ProcessedHasBlock, InProcessed, BlockFirst, HasBlock, tables

LEMMA BlockEngine ==
  ASSUME IBlock, EngineStep
  PROVE  IBlock'
<1> IType /\ IType'
  BY EngineOnlyType, EngineTableType, EngineOtherType DEF IBlock, EngineStep
<1> USE TypesAssumption
        DEF IBlock, ProcessedHasBlock, InProcessed, BlockFirst, HasBlock
<1>1. CASE \/ ManagerTick \/ ManagerStop \/ PlanRange \/ StartBackfill \/ StartRange
           \/ BeginSlot \/ EndRange \/ ReadFinalizedHash \/ ReadTentativeHash
           \/ CompareHash \/ FetchBlock \/ SkipSlot \/ JoinTasks \/ NotifyRange
           \/ AbortRange
  <2>1. UNCHANGED <<tables, task>>
    BY <1>1 DEF ManagerTick, ManagerStop, PlanRange, StartBackfill, StartRange, BeginSlot,
       EndRange, ReadFinalizedHash, ReadTentativeHash, CompareHash, FetchBlock, SkipSlot,
       JoinTasks, NotifyRange, AbortRange, OnlyEngine
  <2>2. eng'.pc \notin {"final2", "rollback3"}
    <3> USE DEF Goto, IdleEngine, IType, TypeOK, BackfillTypeOK
    <3>1. CASE ManagerTick \/ ManagerStop \/ StartRange
      BY <3>1 DEF ManagerTick, ManagerStop, StartRange
    <3>2. CASE BeginSlot \/ EndRange \/ ReadFinalizedHash \/ ReadTentativeHash
      BY <3>2 DEF BeginSlot, EndRange, ReadFinalizedHash, ReadTentativeHash
    <3>3. CASE CompareHash \/ FetchBlock \/ SkipSlot \/ JoinTasks
      BY <3>3 DEF CompareHash, FetchBlock, SkipSlot, JoinTasks
    <3>4. CASE NotifyRange \/ AbortRange
      BY <3>4 DEF NotifyRange, AbortRange
    <3>5. CASE PlanRange
      BY <3>5 DEF PlanRange
    <3>6. CASE StartBackfill
      BY <3>6 DEF StartBackfill
    <3> QED
      BY <1>1, <3>1, <3>2, <3>3, <3>4, <3>5, <3>6
  <2> QED
    BY <2>1, <2>2, BlockFrame
<1> USE DEF IType, TypeOK, BackfillTypeOK, StorageTypeOK, Locals, EngineKnows, TasksKnow,
            HashPcs, BlockPcs, Goto
<1>2. CASE RollbackTentative
  BY <1>2 DEF RollbackTentative, DeleteTentative
<1>3. CASE RollbackProcessed
  <2>1. /\ eng.cur \in Slots /\ eng.pc = "rollback2"
        /\ eng' = [eng EXCEPT !.pc = "rollback3"] /\ UNCHANGED <<task, finalized>>
        /\ processed' = [sig \in Sigs |->
                            IF processed[sig] = eng.cur THEN NoSlot ELSE processed[sig]]
    BY <1>3 DEF RollbackProcessed, DeleteProcessed
  <2>2. \A sig \in Sigs : processed'[sig] # eng.cur
    BY <2>1 DEF NoSlot, Slots
  <2>3. ProcessedHasBlock'
    BY <2>1
  <2>4. BlockFirst'
    BY <2>1, <2>2
  <2> QED
    BY <2>3, <2>4
<1>4. CASE RollbackFinalized
  BY <1>4 DEF RollbackFinalized, DeleteFinalized
<1>5. CASE FinalizeSlot
  <2>1. CASE eng.pc = "final1" /\ InsertFinalized(eng.cur, eng.hash) /\ Goto("final2")
    BY <1>5, <2>1 DEF FinalizeSlot, InsertFinalized
  <2>2. CASE eng.pc = "final2" /\ PromoteTentative(eng.cur) /\ Goto("final3")
    BY <1>5, <2>2 DEF FinalizeSlot, PromoteTentative, InProcessed
  <2>3. CASE eng.pc = "final3" /\ DeleteTentative(eng.cur) /\ Goto("save")
    BY <1>5, <2>3 DEF FinalizeSlot, DeleteTentative
  <2> QED
    BY <1>5, <2>1, <2>2, <2>3 DEF FinalizeSlot
<1>6. CASE SaveSlot
  BY <1>6 DEF SaveSlot, SaveProgress
<1>7. CASE CompleteBackfill
  BY <1>7 DEF CompleteBackfill, MarkComplete, IdleEngine
<1> QED
  BY <1>1, <1>2, <1>3, <1>4, <1>5, <1>6, <1>7 DEF EngineStep

LEMMA BlockTask ==
  ASSUME IBlock, NEW sig \in Sigs, TaskStep(sig)
  PROVE  IBlock'
<1> IType /\ IType'
  BY TaskType DEF IBlock
<1> USE TypesAssumption
        DEF IBlock, ProcessedHasBlock, InProcessed, BlockFirst, HasBlock, IType, TypeOK,
            BackfillTypeOK, StorageTypeOK, Locals, EngineKnows, TasksKnow, HashPcs,
            PlacedTaskPcs, SetTask, IdleTask
<1>1. CASE SpawnTask(sig)
  BY <1>1 DEF SpawnTask, tables
<1>2. CASE TaskFetch(sig)
  BY <1>2 DEF TaskFetch, tables
<1>3. CASE TaskHandle(sig)
  BY <1>3 DEF TaskHandle, tables
<1>4. CASE TaskFinalize(sig)
  <2> DEFINE s == task[sig].slot
  <2>1. CASE task[sig].pc = "final1"
    <3>1. /\ task' = [task EXCEPT ![sig] = [task[sig] EXCEPT !.pc = "final2"]]
          /\ UNCHANGED <<eng, processed>> /\ eng.hash # NoHash
          /\ finalized' = [finalized EXCEPT ![s] = IF @ = NoHash THEN eng.hash ELSE @]
      BY <1>4, <2>1 DEF TaskFinalize, InsertFinalized
    <3>2. /\ \A t \in Slots : HasBlock(t) => finalized'[t] # NoHash
          /\ s \in Slots /\ finalized'[s] # NoHash
      BY <2>1, <3>1
    <3>3. ProcessedHasBlock'
      BY <3>1, <3>2
    <3>4. BlockFirst'
      BY <2>1, <3>1, <3>2
    <3> QED
      BY <3>3, <3>4
  <2>2. CASE task[sig].pc = "final2"
    <3>1. /\ task' = [task EXCEPT ![sig] = [task[sig] EXCEPT !.pc = "final3"]]
          /\ UNCHANGED <<eng, finalized>> /\ eng.pc = "tasks" /\ HasBlock(s)
          /\ processed' = [x \in Sigs |-> IF x \in TentativeAt(s) /\ ~InProcessed(x)
                                          THEN s ELSE processed[x]]
      BY <1>4, <2>2 DEF TaskFinalize, PromoteTentative
    <3>2. ProcessedHasBlock'
      BY <3>1
    <3>3. BlockFirst'
      BY <2>2, <3>1
    <3> QED
      BY <3>2, <3>3
  <2>3. CASE task[sig].pc = "final3"
    <3>1. /\ task' = [task EXCEPT ![sig] = [task[sig] EXCEPT !.pc = "mark"]]
          /\ UNCHANGED <<eng, finalized, processed>>
      BY <1>4, <2>3 DEF TaskFinalize, DeleteTentative
    <3> QED
      BY <2>3, <3>1
  <2> QED
    BY <1>4, <2>1, <2>2, <2>3 DEF TaskFinalize
<1>5. CASE TaskMark(sig)
  BY <1>5 DEF TaskMark, InsertProcessed
<1>6. CASE TaskFails(sig)
  BY <1>6 DEF TaskFails, tables
<1> QED
  BY <1>1, <1>2, <1>3, <1>4, <1>5, <1>6 DEF TaskStep

LEMMA BlockOutside ==
  ASSUME IBlock, IType', UNCHANGED <<processed, finalized>>,
         ResetEngine \/ UNCHANGED engineVars
  PROVE  IBlock'
<1> USE DEF IBlock, ProcessedHasBlock, InProcessed, BlockFirst, HasBlock
<1>1. CASE ResetEngine
  BY <1>1 DEF ResetEngine, IdleEngine, IdleTask
<1>2. CASE UNCHANGED engineVars
  BY <1>2 DEF engineVars
<1> QED
  BY <1>1, <1>2

LEMMA BlockOther ==
  ASSUME IBlock, Restart \/ Cancel \/ ClusterStep \/ UNCHANGED vars
  PROVE  IBlock'
<1>1. IType'
  BY OtherType DEF IBlock
<1>2. UNCHANGED tables /\ (ResetEngine \/ UNCHANGED engineVars)
  BY DEF Restart, Cancel, ClusterStep, vars
<1> QED
  BY <1>1, <1>2, BlockOutside DEF tables

LEMMA StepBlock == IBlock /\ [Next]_vars => IBlock'
  BY BlockEngine, BlockTask, BlockOther DEF Next

\* Wherever a rollback_slot or a mark_finalized is interrupted, no processed
\* row is left without the hash of the block it was indexed under.
THEOREM ProcessedRowsHaveBlocks == Spec => []ProcessedHasBlock
<1>1. IBlock => ProcessedHasBlock
  BY DEF IBlock
<1> QED
  BY InitBlock, StepBlock, <1>1, PTL DEF Spec
=============================================================================
