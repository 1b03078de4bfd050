--------------------------- MODULE IndexerProofs ---------------------------
(***************************************************************************)
(* Proofs about the composition: what the live source and the backfill     *)
(* guarantee on their own, they still guarantee while the other one and    *)
(* the cleanup write to the same tables.                                   *)
(*                                                                         *)
(* The proofs of the parts are used again: their modules are instantiated  *)
(* here (LP and BP), so that every lemma about a step of a part is a lemma *)
(* about the step the composition takes.  What is left is that no part     *)
(* disturbs the invariant of another.                                      *)
(***************************************************************************)
EXTENDS Indexer, SharedProofs

LP == INSTANCE LiveRpcProofs
BP == INSTANCE BackfillFinality

-----------------------------------------------------------------------------
(* The instances: their assumptions hold, and the steps and types of the   *)
(* parts, as Indexer names them, are those the lemmas are about.           *)

LEMMA LiveAssumptions ==
  /\ LP!TypesAssumption /\ LP!ChainAssumption /\ LP!SignaturesAssumption
  /\ LP!ProcessAssumption /\ LP!LiveAssumption
  BY TypesAssumption, ChainAssumption, SignaturesAssumption, ProcessAssumption,
     IndexerAssumption
  DEF LP!TypesAssumption, LP!ChainAssumption, LP!SignaturesAssumption,
      LP!ProcessAssumption, LP!LiveAssumption, LP!Slots, Slots, LP!IsFiniteSet,
      IsFiniteSet, LP!Range, Range, LP!BudgetOf, BudgetOf

LEMMA BackfillAssumptions ==
  /\ BP!TypesAssumption /\ BP!ChainAssumption /\ BP!SignaturesAssumption
  /\ BP!ProcessAssumption /\ BP!BackfillAssumption
  BY TypesAssumption, ChainAssumption, SignaturesAssumption, ProcessAssumption,
     IndexerAssumption
  DEF BP!TypesAssumption, BP!ChainAssumption, BP!SignaturesAssumption,
      BP!ProcessAssumption, BP!BackfillAssumption, BP!Slots, Slots, BP!IsFiniteSet,
      IsFiniteSet, BP!Range, Range, BP!BudgetOf, BudgetOf, BP!TriggerConfig,
      TriggerConfig, BP!OptionNat, OptionNat, BP!None, None, BP!TentativeRow,
      TentativeRow, BP!NoRow, NoRow, BP!NoSlot, NoSlot, BP!StoredHashes, StoredHashes

\* The type invariants of what the parts share are the same formulas.
LEMMA SameShared ==
  /\ LP!StorageTypeOK <=> StorageTypeOK
  /\ LP!ChainTypeOK <=> ChainTypeOK
  /\ LP!ProcessTypeOK <=> ProcessTypeOK
  /\ BP!StorageTypeOK <=> StorageTypeOK
  /\ BP!ChainTypeOK <=> ChainTypeOK
  /\ BP!ProcessTypeOK <=> ProcessTypeOK
  BY DEF LP!StorageTypeOK, BP!StorageTypeOK, StorageTypeOK, LP!ChainTypeOK,
      BP!ChainTypeOK, ChainTypeOK, LP!ProcessTypeOK, BP!ProcessTypeOK, ProcessTypeOK,
      LP!Slots, BP!Slots, Slots, LP!NoSlot, BP!NoSlot, NoSlot, LP!TentativeRow,
      BP!TentativeRow, TentativeRow, LP!NoRow, BP!NoRow, NoRow, LP!StoredHashes,
      BP!StoredHashes, StoredHashes, LP!BudgetOf, BP!BudgetOf, BudgetOf

LEMMA SameSharedAfter ==
  /\ LP!StorageTypeOK' <=> StorageTypeOK'
  /\ LP!ChainTypeOK' <=> ChainTypeOK'
  /\ LP!ProcessTypeOK' <=> ProcessTypeOK'
  /\ BP!StorageTypeOK' <=> StorageTypeOK'
  /\ BP!ChainTypeOK' <=> ChainTypeOK'
  /\ BP!ProcessTypeOK' <=> ProcessTypeOK'
  BY SameShared, PTL

LEMMA SameReceived == Live!Received = LP!Received
  BY DEF Live!Received, LP!Received, Live!Answers, LP!Answers, Live!Found, LP!Found,
       Live!After, LP!After, Live!OnChain, LP!OnChain, Live!Newer, LP!Newer, Live!SlotOn,
       LP!SlotOn, Live!TxsAt, LP!TxsAt, Live!Slots, LP!Slots, Live!Range, LP!Range

LEMMA SameCardinality ==
  /\ \A S : Live!Cardinality(S) = LP!Cardinality(S)
  /\ \A S : Backfill!Cardinality(S) = BP!Cardinality(S)
  BY DEF Live!Cardinality, LP!Cardinality, Backfill!Cardinality, BP!Cardinality

LEMMA LiveSteps ==
  /\ Live!PollStep => LP!PollStep
  /\ \A j \in Jobs : Live!JobStep(j) => LP!JobStep(j)
<1> USE SameReceived, SameCardinality DEF Live!tables, LP!tables, Live!chainVars, LP!chainVars,
     Live!processVars, LP!processVars, Live!OnlyPoll, LP!OnlyPoll, Live!OnlyJob, LP!OnlyJob,
     Live!NoSlot, LP!NoSlot, Live!Slots, LP!Slots, Live!NoRow, LP!NoRow, Live!NoJob, LP!NoJob,
     Live!InProcessed, LP!InProcessed, Live!InTentative, LP!InTentative, Live!Joined, LP!Joined,
     Live!FreeJobs, LP!FreeJobs, Live!LastProgram, LP!LastProgram, Live!Fault, LP!Fault,
     Live!TxsAt, LP!TxsAt
<1>1. Live!Boot => LP!Boot
  BY DEF Live!Boot, LP!Boot, Live!StartFrom, LP!StartFrom, Live!LastProcessedSignatures,
       LP!LastProcessedSignatures, Live!LastProcessedSlot, LP!LastProcessedSlot
<1>2. \A pc : Live!NextProgram(pc) => LP!NextProgram(pc)
  BY DEF Live!NextProgram, LP!NextProgram
<1>3. Live!Checkpoint => LP!Checkpoint
  BY DEF Live!Checkpoint, LP!Checkpoint, Live!StartFrom, LP!StartFrom
<1>4. Live!Tick => LP!Tick
  BY DEF Live!Tick, LP!Tick
<1>5. Live!Receive => LP!Receive
  BY DEF Live!Receive, LP!Receive
<1>6. Live!CheckProcessed => LP!CheckProcessed
  BY DEF Live!CheckProcessed, LP!CheckProcessed
<1>7. Live!CheckTentative => LP!CheckTentative
  BY DEF Live!CheckTentative, LP!CheckTentative
<1>8. Live!SpawnJob => LP!SpawnJob
  BY DEF Live!SpawnJob, LP!SpawnJob
<1>9. Live!JoinJobs => LP!JoinJobs
  BY DEF Live!JoinJobs, LP!JoinJobs
<1>10. Live!AbandonPoll => LP!AbandonPoll
  BY DEF Live!AbandonPoll, LP!AbandonPoll, Live!Range, LP!Range
<1>11. Live!StopOnError => LP!StopOnError
  BY DEF Live!StopOnError, LP!StopOnError
<1>12. Live!PollStep => LP!PollStep
  BY <1>1, <1>2, <1>3, <1>4, <1>5, <1>6, <1>7, <1>8, <1>9, <1>10, <1>11 DEF Live!PollStep,
       LP!PollStep
<1>13. ASSUME NEW j \in Jobs PROVE Live!JobStep(j) => LP!JobStep(j)
  <2>1. Live!JobFetch(j) => LP!JobFetch(j)
    BY DEF Live!JobFetch, LP!JobFetch, Live!SlotsOfTx, LP!SlotsOfTx
  <2>2. Live!JobBlock(j) => LP!JobBlock(j)
    BY DEF Live!JobBlock, LP!JobBlock, Live!BlockAvailable, LP!BlockAvailable
  <2>3. Live!JobHandle(j) => LP!JobHandle(j)
    BY DEF Live!JobHandle, LP!JobHandle, Live!Min, LP!Min
  <2>4. Live!JobRetry(j) => LP!JobRetry(j)
    BY DEF Live!JobRetry, LP!JobRetry
  <2>5. Live!JobMark(j) => LP!JobMark(j)
    BY DEF Live!JobMark, LP!JobMark, Live!InsertTentative, LP!InsertTentative
  <2>6. Live!JobFails(j) => LP!JobFails(j)
    BY DEF Live!JobFails, LP!JobFails, Live!SlotsOfTx, LP!SlotsOfTx
  <2> QED
    BY <2>1, <2>2, <2>3, <2>4, <2>5, <2>6 DEF Live!JobStep, LP!JobStep
<1> QED
  BY <1>12, <1>13

LEMMA BackfillSteps ==
  /\ Backfill!EngineStep => BP!EngineStep
  /\ \A sig \in Sigs : Backfill!TaskStep(sig) => BP!TaskStep(sig)
<1> USE SameCardinality DEF Backfill!tables, BP!tables, Backfill!chainVars, BP!chainVars,
     Backfill!historyVars, BP!historyVars, Backfill!Env, BP!Env, Backfill!OnlyEngine,
     BP!OnlyEngine, Backfill!Goto, BP!Goto, Backfill!IdleEngine, BP!IdleEngine,
     Backfill!IdleTask, BP!IdleTask, Backfill!NoSlot, BP!NoSlot, Backfill!Slots, BP!Slots,
     Backfill!None, BP!None, Backfill!BlockAvailable, BP!BlockAvailable, Backfill!TxsAt,
     BP!TxsAt, Backfill!Fault, BP!Fault, Backfill!Running, BP!Running
<1>1. Backfill!ManagerTick => BP!ManagerTick
  BY DEF Backfill!ManagerTick, BP!ManagerTick
<1>2. Backfill!ManagerStop => BP!ManagerStop
  BY DEF Backfill!ManagerStop, BP!ManagerStop
<1>3. Backfill!PlanRange => BP!PlanRange
  BY DEF Backfill!PlanRange, BP!PlanRange, Backfill!NextRange, BP!NextRange, Backfill!NoRange,
       BP!NoRange, Backfill!StartSlot, BP!StartSlot, Backfill!EndSlot, BP!EndSlot,
       Backfill!ClampedEnd, BP!ClampedEnd, Backfill!BeyondDepth, BP!BeyondDepth,
       Backfill!ShouldBackfillByLag, BP!ShouldBackfillByLag, Backfill!CurrentLag, BP!CurrentLag,
       Backfill!SaturatingSub, BP!SaturatingSub, Backfill!Least, BP!Least, Backfill!Greatest,
       BP!Greatest
<1>4. Backfill!StartBackfill => BP!StartBackfill
  BY DEF Backfill!StartBackfill, BP!StartBackfill
<1>5. Backfill!StartRange => BP!StartRange
  BY DEF Backfill!StartRange, BP!StartRange
<1>6. Backfill!BeginSlot => BP!BeginSlot
  BY DEF Backfill!BeginSlot, BP!BeginSlot
<1>7. Backfill!EndRange => BP!EndRange
  BY DEF Backfill!EndRange, BP!EndRange
<1>8. Backfill!ReadFinalizedHash => BP!ReadFinalizedHash
  BY DEF Backfill!ReadFinalizedHash, BP!ReadFinalizedHash
<1>9. Backfill!ReadTentativeHash => BP!ReadTentativeHash
  BY DEF Backfill!ReadTentativeHash, BP!ReadTentativeHash, Backfill!TentativeAt, BP!TentativeAt
<1>10. Backfill!CompareHash => BP!CompareHash
  BY DEF Backfill!CompareHash, BP!CompareHash
<1>11. Backfill!RollbackTentative => BP!RollbackTentative
  BY DEF Backfill!RollbackTentative, BP!RollbackTentative, Backfill!DeleteTentative,
       BP!DeleteTentative, Backfill!TentativeAt, BP!TentativeAt, Backfill!NoRow, BP!NoRow
<1>12. Backfill!RollbackProcessed => BP!RollbackProcessed
  BY DEF Backfill!RollbackProcessed, BP!RollbackProcessed, Backfill!DeleteProcessed,
       BP!DeleteProcessed
<1>13. Backfill!RollbackFinalized => BP!RollbackFinalized
  BY DEF Backfill!RollbackFinalized, BP!RollbackFinalized, Backfill!DeleteFinalized,
       BP!DeleteFinalized
<1>14. Backfill!FetchBlock => BP!FetchBlock
  BY DEF Backfill!FetchBlock, BP!FetchBlock
<1>15. Backfill!SkipSlot => BP!SkipSlot
  BY DEF Backfill!SkipSlot, BP!SkipSlot
<1>16. Backfill!JoinTasks => BP!JoinTasks
  BY DEF Backfill!JoinTasks, BP!JoinTasks
<1>17. Backfill!FinalizeSlot => BP!FinalizeSlot
  BY DEF Backfill!FinalizeSlot, BP!FinalizeSlot, Backfill!InsertFinalized, BP!InsertFinalized,
       Backfill!PromoteTentative, BP!PromoteTentative, Backfill!DeleteTentative,
       BP!DeleteTentative, Backfill!TentativeAt, BP!TentativeAt, Backfill!InProcessed,
       BP!InProcessed, Backfill!NoRow, BP!NoRow
<1>18. Backfill!SaveSlot => BP!SaveSlot
  BY DEF Backfill!SaveSlot, BP!SaveSlot, Backfill!SaveProgress, BP!SaveProgress
<1>19. Backfill!NotifyRange => BP!NotifyRange
  BY DEF Backfill!NotifyRange, BP!NotifyRange
<1>20. Backfill!CompleteBackfill => BP!CompleteBackfill
  BY DEF Backfill!CompleteBackfill, BP!CompleteBackfill, Backfill!MarkComplete, BP!MarkComplete
<1>21. Backfill!AbortRange => BP!AbortRange
  BY DEF Backfill!AbortRange, BP!AbortRange
<1>22. Backfill!EngineStep => BP!EngineStep
  BY <1>1, <1>2, <1>3, <1>4, <1>5, <1>6, <1>7, <1>8, <1>9, <1>10, <1>11, <1>12, <1>13, <1>14,
       <1>15, <1>16, <1>17, <1>18, <1>19, <1>20, <1>21 DEF Backfill!EngineStep, BP!EngineStep
<1>23. ASSUME NEW sig \in Sigs PROVE Backfill!TaskStep(sig) => BP!TaskStep(sig)
  <2>1. Backfill!SpawnTask(sig) => BP!SpawnTask(sig)
    BY DEF Backfill!SpawnTask, BP!SpawnTask, Backfill!SetTask, BP!SetTask
  <2>2. Backfill!TaskFetch(sig) => BP!TaskFetch(sig)
    BY DEF Backfill!TaskFetch, BP!TaskFetch, Backfill!SetTask, BP!SetTask, Backfill!SlotsOfTx,
         BP!SlotsOfTx
  <2>3. Backfill!TaskHandle(sig) => BP!TaskHandle(sig)
    BY DEF Backfill!TaskHandle, BP!TaskHandle, Backfill!SetTask, BP!SetTask, Backfill!Least,
         BP!Least
  <2>4. Backfill!TaskFinalize(sig) => BP!TaskFinalize(sig)
    BY DEF Backfill!TaskFinalize, BP!TaskFinalize, Backfill!SetTask, BP!SetTask,
         Backfill!InsertFinalized, BP!InsertFinalized, Backfill!PromoteTentative,
         BP!PromoteTentative, Backfill!DeleteTentative, BP!DeleteTentative,
         Backfill!TentativeAt, BP!TentativeAt, Backfill!InProcessed, BP!InProcessed,
         Backfill!NoRow, BP!NoRow
  <2>5. Backfill!TaskMark(sig) => BP!TaskMark(sig)
    BY DEF Backfill!TaskMark, BP!TaskMark, Backfill!SetTask, BP!SetTask,
         Backfill!InsertProcessed, BP!InsertProcessed
  <2>6. Backfill!TaskFails(sig) => BP!TaskFails(sig)
    BY DEF Backfill!TaskFails, BP!TaskFails, Backfill!SetTask, BP!SetTask, Backfill!SlotsOfTx,
         BP!SlotsOfTx, Backfill!Least, BP!Least
  <2> QED
    BY <2>1, <2>2, <2>3, <2>4, <2>5, <2>6 DEF Backfill!TaskStep, BP!TaskStep
<1> QED
  BY <1>22, <1>23

-----------------------------------------------------------------------------
(* Types.  Each part keeps its own invariant; a step of another one leaves *)
(* it the tables, the chain and the process well typed, which is all that  *)
(* ILive asks of them.  IBlock also reads the processed and the finalized  *)
(* table, but only the backfill writes those two.                          *)

IShared ==
  /\ LP!ILive /\ BP!IBlock
  /\ cutoff \in Slots \union {NoSlot}
  /\ taken \in [Sigs -> 0..MaxHandled]

LEMMA SharedTypes ==
  ASSUME IShared
  PROVE  StorageTypeOK /\ ChainTypeOK /\ ProcessTypeOK
  BY SameShared DEF IShared, LP!ILive, LP!TypeOK

LEMMA InitLP == Init => LP!Init
  BY DEF Init, Live!Init, LP!Init, Live!ChainInit, LP!ChainInit, Live!WellFormed,
         LP!WellFormed, Live!TxsAt, LP!TxsAt, Live!IndexedUpTo, LP!IndexedUpTo,
         Live!SlotOn, LP!SlotOn, Live!InProcessed, LP!InProcessed, Live!ProcessInit,
         LP!ProcessInit, Live!LiveInit, LP!LiveInit, Live!NoJob, LP!NoJob, Live!NoSlot,
         LP!NoSlot, Live!NoRow, LP!NoRow, Live!Slots, LP!Slots

\* A row left by an earlier process is that of a stored block.
LEMMA InitRows ==
  ASSUME Init, NEW sig \in Sigs, InProcessed(sig)
  PROVE  \E s \in Slots : /\ processed[sig] = s /\ s <= InitialTip
                          /\ chain[s] # NoHash /\ finalized[s] = chain[s]
<1>1. PICK b \in -1..InitialTip : LP!IndexedUpTo(b)
  BY InitLP DEF LP!Init, LP!NoSlot
<1>2. PICK s \in 0..b : sig \in TxsAt(chain, s)
  BY <1>1 DEF LP!IndexedUpTo, InProcessed, NoSlot, LP!NoSlot, LP!TxsAt, TxsAt
<1>3. s \in Slots /\ s <= InitialTip
  BY <1>2, ChainAssumption, TypesAssumption DEF Slots
<1>4. processed[sig] = SlotOn(sig)
  BY <1>1, <1>2 DEF LP!IndexedUpTo, LP!SlotOn, SlotOn, LP!TxsAt, TxsAt, LP!Slots, Slots
<1>5. SlotOn(sig) \in Slots /\ sig \in TxsAt(chain, SlotOn(sig))
  BY <1>2, <1>3 DEF SlotOn
<1>6. \A u, v \in Slots : u # v => TxsAt(chain, u) \intersect TxsAt(chain, v) = {}
  BY InitLP DEF LP!Init, LP!ChainInit, LP!WellFormed, LP!TxsAt, TxsAt, LP!Slots, Slots
<1>7. SlotOn(sig) = s
  BY <1>2, <1>3, <1>5, <1>6
<1>8. finalized[s] = chain[s]
  BY <1>1, <1>2, <1>3 DEF LP!IndexedUpTo, LP!Slots, Slots
<1> QED
  BY <1>2, <1>3, <1>4, <1>7, <1>8 DEF TxsAt

LEMMA InitShared == Init => IShared
<1> SUFFICES ASSUME Init PROVE IShared
  OBVIOUS
<1>1. LP!Init
  BY InitLP
<1>2. LP!ILive
  BY <1>1, LiveAssumptions, LP!InitLive
<1>3. StorageTypeOK /\ ChainTypeOK /\ ProcessTypeOK
  BY <1>2, SameShared DEF LP!ILive, LP!TypeOK
<1>4. BP!EngineInit
  BY DEF Init, Backfill!EngineInit, BP!EngineInit, Backfill!IdleEngine, BP!IdleEngine,
         Backfill!IdleTask, BP!IdleTask, Backfill!NoSlot, BP!NoSlot
<1>5. BP!IType
  BY <1>3, <1>4, SameShared, BackfillAssumptions
  DEF BP!IType, BP!TypeOK, BP!BackfillTypeOK, BP!EngineInit, BP!IdleEngine, BP!IdleTask,
      BP!NoSlot, BP!ManagerPcs, BP!TaskPcs, BP!Locals, BP!EngineKnows, BP!TasksKnow,
      BP!RangePcs, BP!BlockPcs, BP!HashPcs, BP!PlacedTaskPcs, BP!Slots, BP!TypesAssumption
<1>6. \A sig \in Sigs : InProcessed(sig) => finalized[processed[sig]] # NoHash
  BY InitRows
<1>7. BP!IBlock
  BY <1>4, <1>5, <1>6
  DEF BP!IBlock, BP!ProcessedHasBlock, BP!InProcessed, InProcessed, BP!NoSlot, NoSlot,
      BP!BlockFirst, BP!EngineInit, BP!IdleEngine, BP!IdleTask
<1>8. cutoff \in Slots \union {NoSlot} /\ taken \in [Sigs -> 0..MaxHandled]
  BY IndexerAssumption DEF Init
<1> QED
  BY <1>2, <1>7, <1>8 DEF IShared

\* The backfill under a step of the rest of the indexer.
LEMMA BackfillAside ==
  ASSUME IShared, StorageTypeOK', ChainTypeOK', ProcessTypeOK',
         UNCHANGED <<processed, finalized>>,
         Backfill!ResetEngine \/ UNCHANGED backfillVars
  PROVE  BP!IBlock'
<1>1. BP!ResetEngine \/ UNCHANGED <<eng, task, calls, lost, missed, notified>>
  BY DEF Backfill!ResetEngine, BP!ResetEngine, Backfill!IdleEngine, BP!IdleEngine,
         Backfill!IdleTask, BP!IdleTask, Backfill!NoSlot, BP!NoSlot, Backfill!historyVars,
         BP!historyVars, backfillVars
<1>2. BP!IType'
  BY <1>1, SameSharedAfter, BackfillAssumptions, BP!TypeOutside
  DEF IShared, BP!IBlock, BP!engineVars, BP!historyVars
<1> QED
  BY <1>1, <1>2, BackfillAssumptions, BP!BlockOutside DEF IShared, BP!engineVars

\* The live source under a step of the rest of the indexer.
LEMMA LiveAside ==
  ASSUME IShared, StorageTypeOK', ChainTypeOK', ProcessTypeOK',
         Live!ResetLive \/ UNCHANGED liveVars
  PROVE  LP!ILive'
<1>1. CASE UNCHANGED liveVars
  BY <1>1, SameSharedAfter, LiveAssumptions, LP!LiveFrame DEF IShared, liveVars, LP!liveVars
<1>2. CASE Live!ResetLive
  <2>1. LP!ResetLive
    BY <1>2 DEF Live!ResetLive, LP!ResetLive, Live!NoJob, LP!NoJob, Live!NoSlot, LP!NoSlot
  <2> QED
    BY <2>1, SameSharedAfter, LiveAssumptions, LP!LiveReset DEF IShared
<1> QED
  BY <1>1, <1>2

LEMMA PollKeepsTables ==
  ASSUME PollStep
  PROVE  UNCHANGED <<tables, chainVars, cancelled, handled, failed>>
<1> USE DEF Live!tables, Live!chainVars, Live!processVars, tables, chainVars
<1>1. CASE Live!SpawnJob
  BY <1>1 DEF Live!SpawnJob
<1>2. CASE Live!AbandonPoll
  BY <1>2 DEF Live!AbandonPoll
<1>3. CASE Live!StopOnError
  BY <1>3 DEF Live!StopOnError
<1>4. CASE Live!OnlyPoll
  BY <1>4 DEF Live!OnlyPoll
<1>5. Live!Boot \/ Live!Checkpoint => Live!OnlyPoll
  BY Zenon DEF Live!Boot, Live!Checkpoint
<1>6. Live!NextProgram("latest") \/ Live!NextProgram("fetch") \/ Live!Receive => Live!OnlyPoll
  BY Zenon DEF Live!NextProgram, Live!Receive
<1>7. Live!Tick \/ Live!CheckProcessed \/ Live!CheckTentative \/ Live!JoinJobs => Live!OnlyPoll
  BY Zenon DEF Live!Tick, Live!CheckProcessed, Live!CheckTentative, Live!JoinJobs
<1> QED
  BY <1>1, <1>2, <1>3, <1>4, <1>5, <1>6, <1>7, Zenon DEF PollStep, Live!PollStep

LEMMA JobKeepsBlocks ==
  ASSUME NEW j \in Jobs, JobStep(j)
  PROVE  UNCHANGED <<processed, finalized, progress, chainVars, cancelled, poll>>
<1>1. Live!JobFetch(j) \/ Live!JobBlock(j) \/ Live!JobHandle(j) \/ Live!JobRetry(j)
        => UNCHANGED Live!tables /\ Live!OnlyJob
  BY Zenon DEF Live!JobFetch, Live!JobBlock, Live!JobHandle, Live!JobRetry
<1>2. Live!JobFails(j) => UNCHANGED Live!tables /\ Live!OnlyJob
  BY Zenon DEF Live!JobFails
<1>3. Live!JobMark(j) => UNCHANGED <<processed, finalized, progress>> /\ Live!OnlyJob
  BY Zenon DEF Live!JobMark, Live!InsertTentative
<1>4. UNCHANGED <<processed, finalized, progress>> /\ Live!OnlyJob
  BY <1>1, <1>2, <1>3 DEF JobStep, Live!JobStep, Live!tables
<1> QED
  BY <1>4 DEF Live!OnlyJob, Live!chainVars, chainVars

LEMMA PollShared ==
  ASSUME IShared, PollStep
  PROVE  LP!ILive' /\ BP!IBlock'
<1>1. LP!PollStep
  BY LiveSteps DEF PollStep
<1>2. LP!ILive'
  BY <1>1, LiveAssumptions, LP!PollOnlyLive, LP!PollJobsLive DEF IShared, LP!PollStep
<1>3. StorageTypeOK' /\ ChainTypeOK' /\ ProcessTypeOK'
  BY <1>2, SameSharedAfter DEF LP!ILive, LP!TypeOK
<1> QED
  BY <1>2, <1>3, PollKeepsTables, BackfillAside DEF PollStep, OnlyLive, tables

LEMMA JobShared ==
  ASSUME IShared, NEW j \in Jobs, JobStep(j)
  PROVE  LP!ILive' /\ BP!IBlock'
<1>1. LP!JobStep(j)
  BY LiveSteps DEF JobStep
<1>2. LP!ILive'
  BY <1>1, LiveAssumptions, LP!JobLive DEF IShared
<1>3. StorageTypeOK' /\ ChainTypeOK' /\ ProcessTypeOK'
  BY <1>2, SameSharedAfter DEF LP!ILive, LP!TypeOK
<1> QED
  BY <1>2, <1>3, JobKeepsBlocks, BackfillAside DEF JobStep, OnlyLive

LEMMA BackfillShared ==
  ASSUME IShared, EngineStep \/ \E sig \in Sigs : TaskStep(sig)
  PROVE  LP!ILive' /\ BP!IBlock'
<1>1. BP!EngineStep \/ \E sig \in Sigs : BP!TaskStep(sig)
  BY BackfillSteps DEF EngineStep, TaskStep
<1>2. BP!IBlock'
  BY <1>1, BackfillAssumptions, BP!BlockEngine, BP!BlockTask DEF IShared
<1>3. StorageTypeOK' /\ ChainTypeOK' /\ ProcessTypeOK'
  BY <1>2, SameSharedAfter DEF BP!IBlock, BP!IType, BP!TypeOK
<1> QED
  BY <1>2, <1>3, LiveAside DEF EngineStep, TaskStep, OnlyBackfill

LEMMA CleanupTypes ==
  ASSUME IShared, CleanupReads \/ CleanupDeletes
  PROVE  StorageTypeOK' /\ cutoff' \in Slots \union {NoSlot}
<1>1. CASE CleanupReads
  <2>1. LastProcessedSlot \in Slots
    BY SharedTypes, LastSlotType
  <2>2. cutoff' \in Slots
    BY <1>1, <2>1, IndexerAssumption, TypesAssumption DEF CleanupReads, Slots
  <2> QED
    BY <1>1, <2>2, SharedTypes, StorageFrame DEF CleanupReads
<1>2. CASE CleanupDeletes
  BY <1>2, SharedTypes
  DEF CleanupDeletes, DeleteStaleTentative, StorageTypeOK, TentativeRow, NoRow
<1> QED
  BY <1>1, <1>2

LEMMA OtherShared ==
  ASSUME IShared,
         CleanupReads \/ CleanupDeletes \/ Restart \/ ClusterStep \/ UNCHANGED vars
  PROVE  LP!ILive' /\ BP!IBlock'
<1> USE SharedTypes
<1>1. CASE CleanupReads \/ CleanupDeletes
  <2>1. UNCHANGED <<processed, finalized, chainVars, processVars, liveVars, backfillVars>>
    BY <1>1 DEF CleanupReads, CleanupDeletes, DeleteStaleTentative, OnlyCleanup, tables
  <2>2. ChainTypeOK' /\ ProcessTypeOK'
    BY <2>1, ChainStep, ProcessFrame DEF processVars
  <2> QED
    BY <1>1, <2>1, <2>2, CleanupTypes, LiveAside, BackfillAside
<1>2. CASE Restart
  <2>1. StorageTypeOK' /\ ChainTypeOK'
    BY <1>2, StorageFrame, ChainStep DEF Restart
  <2>2. ProcessTypeOK'
    BY <1>2, FaultType DEF Restart, NewProcess
  <2> QED
    BY <1>2, <2>1, <2>2, LiveAside, BackfillAside DEF Restart, tables
<1>3. CASE ClusterStep
  <2>1. /\ ChainNext
        /\ UNCHANGED <<tables, processVars, liveVars, backfillVars>>
    BY <1>3 DEF ClusterStep, Live!ClusterStep, OnlyLive, Live!ChainNext, ChainNext,
      Live!Confirm, Confirm, Live!Finalize, Finalize, Live!Reorg, Reorg, Live!WellFormed,
      WellFormed, Live!TxsAt, TxsAt, Live!Slots, Slots, Live!tables, tables,
      Live!processVars, processVars, Live!liveVars, liveVars
  <2>2. StorageTypeOK' /\ ChainTypeOK' /\ ProcessTypeOK'
    BY <2>1, StorageFrame, ChainStep, ProcessFrame DEF processVars
  <2> QED
    BY <2>1, <2>2, LiveAside, BackfillAside DEF tables
<1>4. CASE UNCHANGED vars
  <2>1. StorageTypeOK' /\ ChainTypeOK' /\ ProcessTypeOK'
    BY <1>4, StorageFrame, ChainStep, ProcessFrame DEF vars, processVars
  <2> QED
    BY <1>4, <2>1, LiveAside, BackfillAside DEF vars, tables
<1> QED
  BY <1>1, <1>2, <1>3, <1>4

LEMMA StepShared == IShared /\ [Next]_vars => IShared'
<1> SUFFICES ASSUME IShared, [Next]_vars PROVE IShared'
  OBVIOUS
<1>1. LP!ILive' /\ BP!IBlock'
  BY PollShared, JobShared, BackfillShared, OtherShared DEF Next, Step
<1>2. cutoff' \in Slots \union {NoSlot}
  BY CleanupTypes
  DEF IShared, Next, Step, PollStep, JobStep, EngineStep, TaskStep, Restart, ClusterStep,
      OnlyLive, OnlyBackfill, vars
<1>3. taken' \in [Sigs -> 0..MaxHandled]
  <2>1. CASE UNCHANGED vars
    BY <2>1 DEF IShared, vars
  <2>2. CASE Next
    BY <2>2, IndexerAssumption DEF IShared, Next, Least
  <2> QED
    BY <2>1, <2>2
<1> QED
  BY <1>1, <1>2, <1>3 DEF IShared

\* Every table, counter and program counter of the indexer keeps its type,
\* whatever its parts do to the tables they share.
THEOREM IndexerTypeCorrect == Spec => []TypeOK
<1>1. IShared => TypeOK
  BY DEF IShared, TypeOK, LP!ILive, LP!TypeOK, Live!TypeOK, LP!StorageTypeOK,
      Live!StorageTypeOK, LP!ChainTypeOK, Live!ChainTypeOK, LP!ProcessTypeOK,
      Live!ProcessTypeOK, LP!PollRecord, Live!PollRecord, LP!JobRecord, Live!JobRecord,
      LP!Slots, Live!Slots, LP!NoSlot, Live!NoSlot, LP!TentativeRow, Live!TentativeRow,
      LP!NoRow, Live!NoRow, LP!StoredHashes, Live!StoredHashes, LP!BudgetOf, Live!BudgetOf,
      BP!IBlock, BP!IType, BP!TypeOK, BP!BackfillTypeOK, Backfill!BackfillTypeOK,
      BP!ManagerPcs, Backfill!ManagerPcs, BP!DetectPcs, Backfill!DetectPcs, BP!SlotPcs,
      Backfill!SlotPcs, BP!TaskPcs, Backfill!TaskPcs, BP!Slots, Backfill!Slots, BP!NoSlot,
      Backfill!NoSlot, BP!StoredHashes, Backfill!StoredHashes
<1> QED
  BY <1>1, InitShared, StepShared, PTL DEF Spec

\* A processed row has the hash of its block, with the live source and the
\* cleanup writing between the statements of a rollback or a mark_finalized.
THEOREM IndexerRowsHaveBlocks == Spec => []Backfill!ProcessedHasBlock
<1>1. IShared => Backfill!ProcessedHasBlock
  BY DEF IShared, BP!IBlock, BP!ProcessedHasBlock, Backfill!ProcessedHasBlock,
      BP!InProcessed, Backfill!InProcessed, BP!NoSlot, Backfill!NoSlot
<1> QED
  BY <1>1, InitShared, StepShared, PTL DEF Spec

-----------------------------------------------------------------------------
(* The marker follows the effect.  A row is new in the database only when  *)
(* a job or a task marks its transaction: at mark a job has counted a call *)
(* of its handlers (JobsKnow), and a task from final1 on has (TasksCalled).*)
(* A promotion takes a row from one table to the other, the rest deletes.  *)

TasksCalled ==
  \A sig \in Sigs : task[sig].pc \in {"final1", "final2", "final3", "mark"} => calls[sig] > 0

IRecorded == IShared /\ RecordedWasHandled /\ TasksCalled

LEMMA InitRecorded == Init => IRecorded
<1> SUFFICES ASSUME Init PROVE IRecorded
  OBVIOUS
<1>1. RecordedWasHandled
  BY DEF Init, Live!Init, Live!IndexedUpTo, Live!InProcessed, Live!NoSlot, Live!NoRow,
         Backfill!EngineInit, RecordedWasHandled, Recorded, InProcessed, InTentative, NoSlot,
         NoRow
<1>2. TasksCalled
  BY DEF Init, Backfill!EngineInit, Backfill!IdleTask, TasksCalled
<1> QED
  BY <1>1, <1>2, InitShared DEF IRecorded

LEMMA CountTypes ==
  ASSUME IShared, NEW sig \in Sigs
  PROVE  handled[sig] \in Nat /\ calls[sig] \in Nat
  BY DEF IShared, LP!ILive, LP!TypeOK, BP!IBlock, BP!IType, BP!TypeOK, BP!BackfillTypeOK

LEMMA SlotsAtHand ==
  ASSUME IShared
  PROVE  /\ eng.pc \in {"rollback1", "rollback2", "rollback3", "final1", "final2", "final3"} =>
              eng.cur \in Slots
         /\ \A sig \in Sigs : task[sig].pc \in {"handle", "final1", "final2", "final3", "mark"} =>
              task[sig].slot \in Slots
  BY DEF IShared, BP!IBlock, BP!IType, BP!Locals, BP!EngineKnows, BP!TasksKnow, BP!BlockPcs,
         BP!HashPcs, BP!PlacedTaskPcs, BP!Slots, Slots

\* A step that deletes or promotes rows and calls no handler.
LEMMA NothingRecorded ==
  ASSUME IRecorded, UNCHANGED <<handled, calls>>,
         UNCHANGED task \/ Backfill!ResetEngine,
         \A sig \in Sigs : InProcessed(sig)' => InProcessed(sig) \/ InTentative(sig),
         \A sig \in Sigs : InTentative(sig)' => InTentative(sig)
  PROVE  RecordedWasHandled' /\ TasksCalled'
<1>1. RecordedWasHandled'
  BY DEF IRecorded, RecordedWasHandled, Recorded
<1>2. TasksCalled'
  BY DEF IRecorded, TasksCalled, Backfill!ResetEngine, Backfill!IdleTask
<1> QED
  BY <1>1, <1>2

LEMMA JobRecorded ==
  ASSUME IRecorded, NEW j \in Jobs, JobStep(j)
  PROVE  RecordedWasHandled' /\ TasksCalled'
<1> USE DEF IRecorded, JobStep
<1>1. UNCHANGED <<calls, task, processed>>
  BY JobKeepsBlocks DEF OnlyLive, backfillVars
<1>2. TasksCalled'
  BY <1>1 DEF TasksCalled
<1>3. CASE Live!JobHandle(j)
  <2>1. LP!JobKnows(job[j], handled) /\ job[j].pc = "handle"
    BY <1>3 DEF IShared, LP!ILive, LP!JobsKnow, Live!JobHandle
  <2>2. \A sig \in Sigs : handled'[sig] \in Nat /\ (handled[sig] > 0 => handled'[sig] > 0)
    <3>1. \A n \in Nat : Live!Min({n + 1, MaxHandled}) \in 1..MaxHandled
      BY LiveAssumptions, LP!HandledGrows DEF LP!Min, Live!Min
    <3>2. handled \in [Sigs -> 0..MaxHandled]
      BY DEF IShared, LP!ILive, LP!TypeOK
    <3> QED
      BY <1>3, <3>1, <3>2, IndexerAssumption DEF Live!JobHandle
  <2>3. UNCHANGED tentative
    BY <1>3 DEF Live!JobHandle, Live!tables
  <2> QED
    <3> SUFFICES ASSUME NEW sig \in Sigs, sig \in Recorded
                 PROVE  handled'[sig] + calls[sig] > 0
      BY <1>1, <1>2, <2>3 DEF RecordedWasHandled, Recorded, InProcessed, InTentative
    <3>1. handled[sig] \in Nat /\ calls[sig] \in Nat /\ handled[sig] + calls[sig] > 0
      BY CountTypes DEF RecordedWasHandled
    <3> QED
      BY <2>2, <3>1
<1>4. CASE Live!JobMark(j)
  <2>1. LP!JobKnows(job[j], handled) /\ job[j].pc = "mark"
    BY <1>4 DEF IShared, LP!ILive, LP!JobsKnow, Live!JobMark
  <2>2. job[j].sig \in Sigs /\ handled[job[j].sig] > 0
    BY <2>1 DEF LP!JobKnows
  <2>3. \A sig \in Sigs : InTentative(sig)' => InTentative(sig) \/ sig = job[j].sig
    BY <1>4, SharedTypes
    DEF Live!JobMark, Live!InsertTentative, InTentative, StorageTypeOK
  <2> QED
    BY <1>1, <1>2, <1>4, <2>2, <2>3, CountTypes
    DEF Live!JobMark, RecordedWasHandled, Recorded, InProcessed
<1>5. CASE Live!JobFetch(j) \/ Live!JobBlock(j) \/ Live!JobRetry(j) \/ Live!JobFails(j)
  <2>1. UNCHANGED <<handled, tentative>>
    BY <1>5 DEF Live!JobFetch, Live!JobBlock, Live!JobRetry, Live!JobFails, Live!tables
  <2> QED
    BY <1>1, <2>1, NothingRecorded DEF InProcessed, InTentative
<1> QED
  BY <1>3, <1>4, <1>5 DEF Live!JobStep

LEMMA EngineRecorded ==
  ASSUME IRecorded, EngineStep
  PROVE  RecordedWasHandled' /\ TasksCalled'
<1> USE DEF EngineStep
<1>1. UNCHANGED <<handled, calls, task>>
  BY DEF OnlyBackfill, liveVars, Backfill!EngineStep, Backfill!ManagerTick,
    Backfill!ManagerStop, Backfill!PlanRange, Backfill!StartBackfill, Backfill!StartRange,
    Backfill!BeginSlot, Backfill!EndRange, Backfill!ReadFinalizedHash,
    Backfill!ReadTentativeHash, Backfill!CompareHash, Backfill!RollbackTentative,
    Backfill!RollbackProcessed, Backfill!RollbackFinalized, Backfill!FetchBlock,
    Backfill!SkipSlot, Backfill!JoinTasks, Backfill!FinalizeSlot, Backfill!SaveSlot,
    Backfill!NotifyRange, Backfill!CompleteBackfill, Backfill!AbortRange,
    Backfill!OnlyEngine, Backfill!Env, Backfill!historyVars
<1>2. CASE UNCHANGED <<processed, tentative>>
  BY <1>1, <1>2, NothingRecorded, Zenon DEF InProcessed, InTentative
<1>3. CASE \/ Backfill!RollbackTentative \/ Backfill!RollbackProcessed
           \/ Backfill!FinalizeSlot
  <2>1. \A sig \in Sigs : InProcessed(sig)' => InProcessed(sig) \/ InTentative(sig)
    BY <1>3, SlotsAtHand
    DEF Backfill!RollbackTentative, Backfill!RollbackProcessed, Backfill!FinalizeSlot,
      Backfill!DeleteTentative, Backfill!DeleteProcessed, Backfill!PromoteTentative,
      Backfill!InsertFinalized, Backfill!TentativeAt, InProcessed, InTentative,
      Backfill!InProcessed, Backfill!NoSlot, NoSlot, NoRow, Slots
  <2>2. \A sig \in Sigs : InTentative(sig)' => InTentative(sig)
    BY <1>3
    DEF Backfill!RollbackTentative, Backfill!RollbackProcessed, Backfill!FinalizeSlot,
      Backfill!DeleteTentative, Backfill!DeleteProcessed, Backfill!PromoteTentative,
      Backfill!InsertFinalized, InTentative, Backfill!NoRow, NoRow, Backfill!NoSlot, NoSlot
  <2> QED
    BY <1>1, <2>1, <2>2, NothingRecorded
<1>4. \/ UNCHANGED <<processed, tentative>>
      \/ Backfill!RollbackTentative \/ Backfill!RollbackProcessed \/ Backfill!FinalizeSlot
  BY DEF Backfill!EngineStep, Backfill!ManagerTick,
    Backfill!ManagerStop, Backfill!PlanRange, Backfill!StartBackfill, Backfill!StartRange,
    Backfill!BeginSlot, Backfill!EndRange, Backfill!ReadFinalizedHash,
    Backfill!ReadTentativeHash, Backfill!CompareHash, Backfill!RollbackFinalized,
    Backfill!DeleteFinalized, Backfill!FetchBlock, Backfill!SkipSlot, Backfill!JoinTasks,
    Backfill!SaveSlot, Backfill!SaveProgress, Backfill!NotifyRange,
    Backfill!CompleteBackfill, Backfill!MarkComplete, Backfill!AbortRange,
    Backfill!OnlyEngine, Backfill!tables
<1> QED
  BY <1>2, <1>3, <1>4

LEMMA TaskRecorded ==
  ASSUME IRecorded, NEW x \in Sigs, TaskStep(x)
  PROVE  RecordedWasHandled' /\ TasksCalled'
<1> USE DEF IRecorded, TaskStep
<1>0. UNCHANGED handled
  BY DEF OnlyBackfill, liveVars
<1>1. /\ task \in [Sigs -> [pc : BP!TaskPcs, slot : BP!Slots \union {BP!NoSlot}]]
      /\ calls \in [Sigs -> Nat]
  BY DEF IShared, BP!IBlock, BP!IType, BP!TypeOK, BP!BackfillTypeOK
<1>2. \A n \in Nat : Backfill!Least(n + 1, MaxCalls) > 0
  BY IndexerAssumption DEF Backfill!Least
<1>3. CASE Backfill!TaskHandle(x) \/ Backfill!TaskFails(x)
  <2>1. calls' = calls \/ calls' = [calls EXCEPT ![x] = Backfill!Least(@ + 1, MaxCalls)]
    BY <1>3 DEF Backfill!TaskHandle, Backfill!TaskFails
  <2>2. \A sig \in Sigs : calls[sig] > 0 => calls'[sig] > 0
    BY <1>1, <1>2, <2>1
  <2>3. UNCHANGED <<processed, tentative>>
    BY <1>3 DEF Backfill!TaskHandle, Backfill!TaskFails, Backfill!tables
  <2>4. RecordedWasHandled'
    <3> SUFFICES ASSUME NEW sig \in Sigs, sig \in Recorded
                 PROVE  handled[sig] + calls'[sig] > 0
      BY <1>0, <2>3 DEF RecordedWasHandled, Recorded, InProcessed, InTentative
    <3>1. handled[sig] \in Nat /\ calls[sig] \in Nat /\ calls'[sig] \in Nat
      BY <1>1, <2>1, CountTypes, IndexerAssumption DEF Backfill!Least
    <3> QED
      BY <2>2, <3>1 DEF RecordedWasHandled
  <2>5. TasksCalled'
    <3> SUFFICES ASSUME NEW sig \in Sigs,
                        task'[sig].pc \in {"final1", "final2", "final3", "mark"}
                 PROVE  calls'[sig] > 0
      BY DEF TasksCalled
    <3>1. CASE sig = x
      BY <1>1, <1>2, <1>3, <3>1
      DEF Backfill!TaskHandle, Backfill!TaskFails, Backfill!SetTask, Backfill!IdleTask
    <3>2. CASE sig # x
      BY <1>1, <1>3, <2>2, <3>2
      DEF Backfill!TaskHandle, Backfill!TaskFails, Backfill!SetTask, TasksCalled
    <3> QED
      BY <3>1, <3>2
  <2> QED
    BY <2>4, <2>5
<1>4. CASE Backfill!SpawnTask(x) \/ Backfill!TaskFetch(x) \/ Backfill!TaskFinalize(x)
  <2>1. UNCHANGED calls
    BY <1>4 DEF Backfill!SpawnTask, Backfill!TaskFetch, Backfill!TaskFinalize, Backfill!Env,
      Backfill!historyVars
  <2>2. TasksCalled'
    BY <1>1, <1>4, <2>1
    DEF Backfill!SpawnTask, Backfill!TaskFetch, Backfill!TaskFinalize, Backfill!SetTask,
      TasksCalled
  <2>3. \A sig \in Sigs : InProcessed(sig)' => InProcessed(sig) \/ InTentative(sig)
    BY <1>4, SlotsAtHand
    DEF Backfill!SpawnTask, Backfill!TaskFetch, Backfill!TaskFinalize, Backfill!tables,
      Backfill!DeleteTentative, Backfill!PromoteTentative, Backfill!InsertFinalized,
      Backfill!TentativeAt, InProcessed, InTentative, Backfill!InProcessed,
      Backfill!NoSlot, NoSlot, NoRow, Slots
  <2>4. \A sig \in Sigs : InTentative(sig)' => InTentative(sig)
    BY <1>4
    DEF Backfill!SpawnTask, Backfill!TaskFetch, Backfill!TaskFinalize, Backfill!tables,
      Backfill!DeleteTentative, Backfill!PromoteTentative, Backfill!InsertFinalized,
      InTentative, Backfill!NoRow, NoRow, Backfill!NoSlot, NoSlot
  <2> QED
    BY <1>0, <2>1, <2>2, <2>3, <2>4 DEF RecordedWasHandled, Recorded
<1>5. CASE Backfill!TaskMark(x)
  <2>1. UNCHANGED <<calls, tentative>>
    BY <1>5 DEF Backfill!TaskMark, Backfill!InsertProcessed
  <2>2. task[x].pc = "mark" /\ calls[x] > 0
    BY <1>5 DEF Backfill!TaskMark, TasksCalled
  <2>3. TasksCalled'
    BY <1>1, <1>5, <2>1
    DEF Backfill!TaskMark, Backfill!SetTask, Backfill!IdleTask, TasksCalled
  <2>4. \A sig \in Sigs : InProcessed(sig)' => InProcessed(sig) \/ sig = x
    BY <1>5, SharedTypes
    DEF Backfill!TaskMark, Backfill!InsertProcessed, InProcessed, StorageTypeOK
  <2> QED
    BY <1>0, <2>1, <2>2, <2>3, <2>4, CountTypes
    DEF RecordedWasHandled, Recorded, InTentative
<1> QED
  BY <1>3, <1>4, <1>5 DEF Backfill!TaskStep

LEMMA StepRecorded == IRecorded /\ [Next]_vars => IRecorded'
<1> SUFFICES ASSUME IRecorded, [Next]_vars PROVE RecordedWasHandled' /\ TasksCalled'
  BY StepShared DEF IRecorded
<1>1. CASE PollStep \/ CleanupReads \/ Restart \/ ClusterStep \/ UNCHANGED vars
  <2>1. UNCHANGED <<processed, tentative, handled>>
    BY <1>1, PollKeepsTables
    DEF CleanupReads, OnlyCleanup, Restart, ClusterStep, Live!ClusterStep, Live!ResetLive,
      vars, liveVars, Live!liveVars, tables, Live!tables
  <2>2. UNCHANGED calls /\ (UNCHANGED task \/ Backfill!ResetEngine)
    BY <1>1
    DEF PollStep, OnlyLive, CleanupReads, OnlyCleanup, Restart, ClusterStep, vars,
      backfillVars, Backfill!ResetEngine, Backfill!historyVars
  <2> QED
    BY <2>1, <2>2, NothingRecorded, Zenon DEF InProcessed, InTentative
<1>2. CASE CleanupDeletes
  <2>1. UNCHANGED <<processed, handled, calls, task>>
    BY <1>2
    DEF CleanupDeletes, DeleteStaleTentative, OnlyCleanup, liveVars, backfillVars
  <2>2. \A sig \in Sigs : InTentative(sig)' => InTentative(sig)
    BY <1>2 DEF CleanupDeletes, DeleteStaleTentative, InTentative
  <2> QED
    BY <2>1, <2>2, NothingRecorded DEF InProcessed
<1> QED
  BY <1>1, <1>2, JobRecorded, EngineRecorded, TaskRecorded DEF Next, Step

\* A transaction the database knows has been through the handlers of the live
\* source or of the backfill, whichever of them wrote, promoted or found its
\* row, and whatever the other did meanwhile.
THEOREM IndexerMarkerFollowsEffect == Spec => []RecordedWasHandled
<1>1. IRecorded => RecordedWasHandled
  BY DEF IRecorded
<1> QED
  BY <1>1, InitRecorded, StepRecorded, PTL DEF Spec

-----------------------------------------------------------------------------
(* The live handlers see a transaction once while its row is kept.  As for *)
(* the live source alone, what is counted is calls done and calls a job    *)
(* still owes.  A transaction may be started when the poll has found it in *)
(* neither table, or may find that: then only crashes, database errors and *)
(* deleted tentative rows have been paid for, and otherwise one call more. *)
(*                                                                         *)
(* The processed table does not protect a transaction from that for ever,  *)
(* since rollback_slot deletes from it.  It does if the row is Original,   *)
(* one of a block that was finalized before this process started and is    *)
(* stored: such a slot always compares equal in detect_reorg.              *)

Settled == {s \in Slots : s <= InitialTip /\ chain[s] # NoHash /\ finalized[s] = chain[s]}

Original(sig) == processed[sig] \in Settled

SettledStays ==
  /\ InitialTip <= root
  /\ eng.cur \in Settled =>
       /\ eng.pc \notin {"hash2", "rollback1", "rollback2", "rollback3"}
       /\ eng.pc = "compare" => eng.hash = chain[eng.cur]

MayStart(sig) ==
  \/ poll.pc = "spawn" /\ Head(poll.batch) = sig
  \/ poll.pc = "check2" /\ Head(poll.batch) = sig /\ ~InTentative(sig)
  \/ /\ poll.pc # "stopped" /\ ~InTentative(sig) /\ ~Original(sig)
     /\ \A j \in LP!Joined : job[j].sig # sig

Interrupted == Used("crash") + Used("db")

\* taken stops counting at MaxHandled, and so does handled.
Covered(sig) ==
  taken[sig] < MaxHandled =>
    /\ LP!Owed(sig) <= 1 + Interrupted + taken[sig]
    /\ MayStart(sig) => LP!Owed(sig) <= Interrupted + taken[sig]

IKept ==
  /\ IShared /\ LP!IFresh /\ SettledStays
  /\ 0 <= Interrupted
  /\ \A sig \in Sigs : Covered(sig)

LEMMA InitKept == Init => IKept
<1> SUFFICES ASSUME Init PROVE IKept
  OBVIOUS
<1>1. IShared
  BY InitShared
<1>2. LP!IFresh
  BY InitLP, LiveAssumptions, LP!InitFresh
<1>3. SettledStays
  BY ChainAssumption
  DEF Init, Live!Init, Live!ChainInit, Backfill!EngineInit, Backfill!IdleEngine,
    SettledStays, Slots
<1>4. ASSUME NEW y \in Sigs PROVE Covered(y)
  <2>1. PICK b \in -1..InitialTip : LP!IndexedUpTo(b)
    BY InitLP DEF LP!Init, LP!NoSlot
  <2>2. LP!Waiting(y) = {}
    BY DEF Init, Live!Init, Live!LiveInit, Live!NoJob, LP!Waiting
  <2>3. LP!Owed(y) = handled[y] /\ handled[y] = IF InProcessed(y) THEN 1 ELSE 0
    <3>1. LP!Cardinality(LP!Waiting(y)) = 0
      BY <2>2, FS_EmptySet DEF LP!Cardinality, Cardinality
    <3>2. handled[y] = IF InProcessed(y) THEN 1 ELSE 0
      BY <2>1 DEF LP!IndexedUpTo, LP!InProcessed, InProcessed, LP!NoSlot, NoSlot
    <3> QED
      BY <3>1, <3>2 DEF LP!Owed
  <2>4. InProcessed(y) => Original(y)
    BY InitRows DEF Original, Settled
  <2>5. Interrupted = 0 /\ taken[y] = 0 /\ poll.pc = "boot"
    BY ProcessAssumption
    DEF Init, Live!Init, Live!ProcessInit, Live!LiveInit, Interrupted, Used, BudgetOf
  <2> QED
    BY <2>3, <2>4, <2>5 DEF Covered, MayStart
<1>5. Interrupted = 0
  BY ProcessAssumption DEF Init, Live!Init, Live!ProcessInit, Interrupted, Used, BudgetOf
<1> QED
  BY <1>1, <1>2, <1>3, <1>4, <1>5 DEF IKept

\* What a step of the engine does to the blocks and to the evidence of one.
LEMMA EngineMoves ==
  ASSUME IShared, EngineStep
  PROVE  /\ UNCHANGED chainVars
         /\ eng'.pc \in {"hash2", "compare", "rollback1", "rollback2", "rollback3"} =>
              /\ eng'.cur = eng.cur /\ UNCHANGED finalized
              /\ eng'.pc = "hash2" /\ eng.cur \in Slots => finalized[eng.cur] = NoHash
              /\ eng'.pc = "compare" => eng.pc = "hash2" \/ eng'.hash = finalized[eng.cur]
              /\ eng'.pc = "rollback1" => eng.pc = "compare" /\ eng.hash # chain[eng.cur]
              /\ eng'.pc \in {"rollback2", "rollback3"} => eng.pc \in {"rollback1", "rollback2"}
         /\ UNCHANGED finalized \/ Backfill!RollbackFinalized \/ Backfill!FinalizeSlot
         /\ UNCHANGED processed \/ Backfill!RollbackProcessed \/ Backfill!FinalizeSlot
<1> DEFINE P == eng'.pc \in {"hash2", "compare", "rollback1", "rollback2", "rollback3"}
<1>0. eng \in [pc : BP!ManagerPcs \union BP!DetectPcs \union BP!SlotPcs,
               latest : BP!Slots, cur : Int, start : Int, end : Int,
               hash : BP!StoredHashes \union {NoHash}, todo : SUBSET Sigs]
  BY DEF IShared, BP!IBlock, BP!IType, BP!TypeOK, BP!BackfillTypeOK
<1> USE <1>0 DEF EngineStep, Backfill!OnlyEngine, Backfill!Env, Backfill!Goto, Backfill!tables,
      Backfill!chainVars, chainVars
<1>1. CASE \/ Backfill!ManagerTick \/ Backfill!ManagerStop \/ Backfill!PlanRange
           \/ Backfill!StartBackfill \/ Backfill!StartRange \/ Backfill!BeginSlot
           \/ Backfill!EndRange \/ Backfill!FetchBlock \/ Backfill!SkipSlot
           \/ Backfill!JoinTasks \/ Backfill!SaveSlot \/ Backfill!NotifyRange
           \/ Backfill!CompleteBackfill \/ Backfill!AbortRange
  <2>1. UNCHANGED <<processed, finalized, chainVars>>
    BY <1>1
    DEF Backfill!ManagerTick, Backfill!ManagerStop, Backfill!PlanRange,
      Backfill!StartBackfill, Backfill!StartRange, Backfill!BeginSlot, Backfill!EndRange,
      Backfill!FetchBlock, Backfill!SkipSlot, Backfill!JoinTasks, Backfill!SaveSlot,
      Backfill!SaveProgress, Backfill!NotifyRange, Backfill!CompleteBackfill,
      Backfill!MarkComplete, Backfill!AbortRange
  <2>2. ~P
    <3>1. CASE \/ Backfill!ManagerTick \/ Backfill!ManagerStop \/ Backfill!StartBackfill
               \/ Backfill!StartRange \/ Backfill!BeginSlot \/ Backfill!EndRange
      BY <3>1
      DEF Backfill!ManagerTick, Backfill!ManagerStop, Backfill!StartBackfill,
        Backfill!StartRange, Backfill!BeginSlot, Backfill!EndRange, Backfill!IdleEngine
    <3>2. CASE Backfill!PlanRange
      <4>1. eng'.pc \in {"idle", "loop"}
        <5>1. \A v : [Backfill!IdleEngine EXCEPT !.pc = "loop", !.cur = v.start,
                                                 !.start = v.start, !.end = v.end].pc = "loop"
          BY DEF Backfill!IdleEngine
        <5> QED
          BY <3>2, <5>1 DEF Backfill!PlanRange, Backfill!IdleEngine
      <4> QED
        BY <4>1
    <3>3. CASE \/ Backfill!FetchBlock \/ Backfill!SkipSlot \/ Backfill!JoinTasks
               \/ Backfill!SaveSlot
      BY <3>3
      DEF Backfill!FetchBlock, Backfill!SkipSlot, Backfill!JoinTasks, Backfill!SaveSlot
    <3>4. CASE \/ Backfill!NotifyRange \/ Backfill!CompleteBackfill \/ Backfill!AbortRange
      BY <3>4
      DEF Backfill!NotifyRange, Backfill!CompleteBackfill, Backfill!AbortRange,
        Backfill!IdleEngine
    <3> QED
      BY <1>1, <3>1, <3>2, <3>3, <3>4
  <2> QED
    BY <2>1, <2>2
<1>2. CASE Backfill!ReadFinalizedHash
  BY <1>2 DEF Backfill!ReadFinalizedHash, Backfill!Slots, Slots
<1>3. CASE Backfill!ReadTentativeHash
  BY <1>3 DEF Backfill!ReadTentativeHash
<1>4. CASE Backfill!CompareHash
  BY <1>4 DEF Backfill!CompareHash
<1>5. CASE \/ Backfill!RollbackTentative \/ Backfill!RollbackProcessed
           \/ Backfill!RollbackFinalized
  BY <1>5
  DEF Backfill!RollbackTentative, Backfill!RollbackProcessed, Backfill!RollbackFinalized,
    Backfill!DeleteTentative, Backfill!DeleteProcessed, Backfill!DeleteFinalized
<1>6. CASE Backfill!FinalizeSlot
  BY <1>6 DEF Backfill!FinalizeSlot
<1> QED
  BY <1>1, <1>2, <1>3, <1>4, <1>5, <1>6 DEF Backfill!EngineStep

LEMMA SettledEngine ==
  ASSUME IShared, SettledStays, EngineStep
  PROVE  /\ SettledStays' /\ Settled \subseteq Settled'
         /\ \A sig \in Sigs : Original(sig) => UNCHANGED processed[sig]
<1>1. UNCHANGED <<chain, root>>
  BY EngineMoves DEF chainVars
<1>2. StorageTypeOK
  BY SharedTypes
<1>3. \A s \in Settled : finalized'[s] = finalized[s]
  <2>1. CASE Backfill!RollbackFinalized
    BY <1>2, <2>1
    DEF Backfill!RollbackFinalized, Backfill!DeleteFinalized, SettledStays, Settled,
      StorageTypeOK
  <2>2. CASE Backfill!FinalizeSlot
    BY <1>2, <2>2
    DEF Backfill!FinalizeSlot, Backfill!InsertFinalized, Backfill!PromoteTentative,
      Backfill!DeleteTentative, Settled, StorageTypeOK
  <2> QED
    BY <2>1, <2>2, EngineMoves
<1>4. Settled \subseteq Settled'
  BY <1>1, <1>3 DEF Settled
<1>5. SettledStays'
  <2>1. CASE eng'.pc \in {"hash2", "compare", "rollback1", "rollback2", "rollback3"}
    <3>1. Settled' = Settled
      BY <1>1, <2>1, EngineMoves DEF Settled
    <3>2. CASE eng'.cur \in Settled'
      <4>1. eng.cur \in Settled /\ eng.cur \in Slots
        BY <2>1, <3>1, <3>2, EngineMoves DEF Settled
      <4>2. finalized[eng.cur] = chain[eng.cur] /\ finalized[eng.cur] # NoHash
        BY <4>1 DEF Settled
      <4> QED
        BY <1>1, <2>1, <4>1, <4>2, EngineMoves DEF SettledStays
    <3> QED
      BY <1>1, <3>2 DEF SettledStays
  <2> QED
    BY <1>1, <2>1 DEF SettledStays
<1>6. \A sig \in Sigs : Original(sig) => UNCHANGED processed[sig]
  <2> SUFFICES ASSUME NEW sig \in Sigs, Original(sig) PROVE processed'[sig] = processed[sig]
    OBVIOUS
  <2>1. processed[sig] \in Slots /\ processed[sig] # NoSlot
    BY DEF Original, Settled, Slots, NoSlot
  <2>2. CASE Backfill!RollbackProcessed
    BY <2>2 DEF Backfill!RollbackProcessed, Backfill!DeleteProcessed, SettledStays, Original
  <2>3. CASE Backfill!FinalizeSlot
    BY <2>1, <2>3
    DEF Backfill!FinalizeSlot, Backfill!InsertFinalized, Backfill!PromoteTentative,
      Backfill!DeleteTentative, Backfill!InProcessed, Backfill!NoSlot, NoSlot
  <2> QED
    BY <2>2, <2>3, EngineMoves
<1> QED
  BY <1>4, <1>5, <1>6

LEMMA SettledTask ==
  ASSUME IShared, SettledStays, NEW x \in Sigs, TaskStep(x)
  PROVE  /\ SettledStays' /\ Settled \subseteq Settled'
         /\ \A sig \in Sigs : Original(sig) => UNCHANGED processed[sig]
<1> USE DEF TaskStep
<1>1. StorageTypeOK
  BY SharedTypes
<1>2. eng.pc = "tasks" /\ eng'.pc = "tasks"
  <2>1. eng.pc = "tasks"
    BY DEF Backfill!TaskStep, Backfill!SpawnTask, Backfill!TaskFetch, Backfill!TaskHandle,
      Backfill!TaskFinalize, Backfill!TaskMark, Backfill!TaskFails, IShared, BP!IBlock,
      BP!IType, BP!Locals, BP!TasksKnow
  <2>2. eng'.pc = eng.pc
    BY DEF Backfill!TaskStep, Backfill!SpawnTask, Backfill!TaskFetch, Backfill!TaskHandle,
      Backfill!TaskFinalize, Backfill!TaskMark, Backfill!TaskFails, IShared, BP!IBlock,
      BP!IType, BP!TypeOK, BP!BackfillTypeOK
  <2> QED
    BY <2>1, <2>2
<1>3. UNCHANGED <<chain, root>>
  BY DEF Backfill!TaskStep, Backfill!SpawnTask, Backfill!TaskFetch, Backfill!TaskHandle,
    Backfill!TaskFinalize, Backfill!TaskMark, Backfill!TaskFails, Backfill!Env,
    Backfill!chainVars
<1>4. \/ UNCHANGED <<processed, finalized>>
      \/ Backfill!TaskFinalize(x) \/ Backfill!TaskMark(x)
  BY DEF Backfill!TaskStep, Backfill!SpawnTask, Backfill!TaskFetch, Backfill!TaskHandle,
    Backfill!TaskFails, Backfill!tables
<1>5. \A s \in Settled : finalized'[s] = finalized[s]
  BY <1>1, <1>4
  DEF Backfill!TaskFinalize, Backfill!TaskMark, Backfill!InsertFinalized,
    Backfill!PromoteTentative, Backfill!DeleteTentative, Backfill!InsertProcessed,
    Settled, StorageTypeOK
<1>6. \A sig \in Sigs : Original(sig) => UNCHANGED processed[sig]
  <2> SUFFICES ASSUME NEW sig \in Sigs, Original(sig) PROVE processed'[sig] = processed[sig]
    OBVIOUS
  <2>1. processed[sig] # NoSlot
    BY DEF Original, Settled, Slots, NoSlot
  <2> QED
    BY <1>1, <1>4, <2>1
    DEF Backfill!TaskFinalize, Backfill!TaskMark, Backfill!InsertFinalized,
      Backfill!PromoteTentative, Backfill!DeleteTentative, Backfill!InsertProcessed,
      Backfill!InProcessed, Backfill!NoSlot, NoSlot, StorageTypeOK
<1>7. SettledStays'
  BY <1>2, <1>3 DEF SettledStays
<1> QED
  BY <1>3, <1>5, <1>6, <1>7 DEF Settled

\* Nobody else touches the processed or the finalized table.
LEMMA SettledOther ==
  ASSUME IShared, SettledStays,
         \/ PollStep \/ (\E j \in Jobs : JobStep(j)) \/ CleanupReads \/ CleanupDeletes
         \/ Restart \/ ClusterStep \/ UNCHANGED vars
  PROVE  /\ SettledStays' /\ Settled \subseteq Settled'
         /\ UNCHANGED processed
<1>1. UNCHANGED <<processed, finalized>>
  BY PollKeepsTables, JobKeepsBlocks
  DEF CleanupReads, CleanupDeletes, DeleteStaleTentative, Restart, ClusterStep,
    Live!ClusterStep, Live!tables, vars, tables
<1>2. /\ root \in Int /\ root' \in Int /\ root <= root'
      /\ \A s \in Slots : s <= root => chain'[s] = chain[s]
  <2>1. CASE ClusterStep
    <3>1. BP!ChainTypeOK /\ BP!ChainNext
      BY <2>1, SharedTypes, SameShared
      DEF ClusterStep, Live!ClusterStep, Live!ChainNext, BP!ChainNext, Live!Confirm,
        BP!Confirm, Live!Finalize, BP!Finalize, Live!Reorg, BP!Reorg, Live!WellFormed,
        BP!WellFormed, Live!TxsAt, BP!TxsAt, Live!Slots, BP!Slots
    <3> QED
      BY <3>1, SharedTypes, BackfillAssumptions, BP!FinalPrefix
      DEF BP!Slots, Slots, ChainTypeOK, BP!ChainNext, BP!Confirm, BP!Finalize, BP!Reorg
  <2>2. CASE ~ClusterStep
    <3>1. UNCHANGED chainVars
      BY <2>2, PollKeepsTables, JobKeepsBlocks
      DEF CleanupReads, CleanupDeletes, OnlyCleanup, Restart, vars
    <3> QED
      BY <3>1, SharedTypes, RootIsSlot DEF chainVars, Slots
  <2> QED
    BY <2>1, <2>2
<1>3. Settled' = Settled
  <2>1. root \in Int /\ InitialTip \in Int /\ \A s \in Slots : s \in Int
    BY SharedTypes, RootIsSlot, ChainAssumption DEF Slots
  <2>2. \A s \in Slots : s <= InitialTip => chain'[s] = chain[s]
    BY <1>2, <2>1 DEF SettledStays
  <2> QED
    BY <1>1, <2>2 DEF Settled
<1>4. eng'.pc = "idle" \/ UNCHANGED eng
  BY DEF PollStep, JobStep, OnlyLive, CleanupReads, CleanupDeletes, OnlyCleanup, Restart,
    ClusterStep, vars, backfillVars, Backfill!ResetEngine, Backfill!IdleEngine
<1>5. SettledStays'
  <2>1. InitialTip <= root'
    <3>1. InitialTip \in Int
      BY ChainAssumption DEF Slots
    <3> QED
      BY <1>2, <3>1 DEF SettledStays
  <2>2. CASE UNCHANGED eng
    <3>1. eng.cur \in Settled => chain'[eng.cur] = chain[eng.cur]
      <4>1. root \in Int /\ InitialTip \in Int /\ \A s \in Slots : s \in Int
        BY SharedTypes, RootIsSlot, ChainAssumption DEF Slots
      <4> QED
        BY <1>2, <4>1 DEF SettledStays, Settled
    <3> QED
      BY <1>3, <2>1, <2>2, <3>1 DEF SettledStays
  <2>3. CASE eng'.pc = "idle"
    BY <2>1, <2>3 DEF SettledStays
  <2> QED
    BY <1>4, <2>2, <2>3
<1> QED
  BY <1>1, <1>3, <1>5

LEMMA OriginalStays ==
  ASSUME IShared, SettledStays, [Next]_vars
  PROVE  SettledStays' /\ \A sig \in Sigs : Original(sig) => Original(sig)'
<1>1. /\ SettledStays' /\ Settled \subseteq Settled'
      /\ \A sig \in Sigs : Original(sig) => UNCHANGED processed[sig]
  BY SettledEngine, SettledTask, SettledOther DEF Next, Step
<1> QED
  BY <1>1 DEF Original

LEMMA StepFresh ==
  ASSUME LP!OneProgramEach, IKept, [Next]_vars
  PROVE  LP!IFresh'
<1>1. LP!ILive'
  BY StepShared DEF IKept, IShared
<1>2. /\ LP!IdleEmpty' /\ LP!BatchFresh'
      /\ \A sig \in Sigs : LP!IsFiniteSet(LP!Waiting(sig)')
  <2>1. CASE PollStep
    <3>1. LP!PollStep
      BY <2>1, LiveSteps DEF PollStep
    <3>2. LP!IdleEmpty' /\ LP!BatchFresh'
      BY <3>1, LiveAssumptions, LP!PollFresh DEF IKept
    <3>3. ASSUME NEW y \in Sigs PROVE LP!IsFiniteSet(LP!Waiting(y)')
      BY <3>1, LiveAssumptions, LP!PollOwed DEF IKept
    <3> QED
      BY <3>2, <3>3
  <2>2. ASSUME NEW j \in Jobs, JobStep(j)
        PROVE  /\ LP!IdleEmpty' /\ LP!BatchFresh'
               /\ \A sig \in Sigs : LP!IsFiniteSet(LP!Waiting(sig)')
    <3>1. LP!JobStep(j)
      BY <2>2, LiveSteps DEF JobStep
    <3>2. LP!IdleEmpty' /\ LP!BatchFresh'
      BY <3>1, LiveAssumptions, LP!JobFresh DEF IKept
    <3>3. ASSUME NEW y \in Sigs PROVE LP!IsFiniteSet(LP!Waiting(y)')
      BY <3>1, LiveAssumptions, LP!JobOwed DEF IKept
    <3> QED
      BY <3>2, <3>3
  <2>3. CASE Restart
    <3>1. LP!ResetLive
      BY <2>3 DEF Restart, Live!ResetLive, LP!ResetLive, Live!NoJob, LP!NoJob, Live!NoSlot,
        LP!NoSlot
    <3>2. /\ LP!IdleEmpty' /\ LP!BatchFresh'
          /\ \A sig : LP!Waiting(sig)' = {}
      BY <3>1, LiveAssumptions, LP!ResetFresh
    <3>3. LP!IsFiniteSet({})
      BY FS_EmptySet DEF LP!IsFiniteSet, IsFiniteSet
    <3> QED
      BY <3>2, <3>3
  <2>4. CASE \/ EngineStep \/ (\E sig \in Sigs : TaskStep(sig)) \/ CleanupReads
             \/ CleanupDeletes \/ ClusterStep \/ UNCHANGED vars
    <3>1. UNCHANGED <<poll, job>>
      BY <2>4
      DEF EngineStep, TaskStep, OnlyBackfill, CleanupReads, CleanupDeletes, OnlyCleanup,
        ClusterStep, Live!ClusterStep, Live!liveVars, vars, liveVars
    <3> QED
      BY <3>1, LiveAssumptions, LP!FreshFrame DEF IKept, LP!IFresh
  <2> QED
    BY <2>1, <2>2, <2>3, <2>4 DEF Next, Step
<1> QED
  BY <1>1, <1>2 DEF LP!IFresh

Kinds == {"crash", "cancel", "db", "rpc", "handler"}

LEMMA FaultSteps ==
  ASSUME [Next]_vars
  PROVE  UNCHANGED faults \/ \E kind \in Kinds : Fault(kind)
<1> USE DEF Kinds
<1>1. CASE PollStep
  BY <1>1
  DEF PollStep, Live!PollStep, Live!Boot, Live!NextProgram, Live!Checkpoint, Live!Tick,
    Live!Receive, Live!CheckProcessed, Live!CheckTentative, Live!SpawnJob, Live!JoinJobs,
    Live!AbandonPoll, Live!StopOnError, Live!processVars, Live!Fault, Fault
<1>2. ASSUME NEW j \in Jobs, JobStep(j)
      PROVE  UNCHANGED faults \/ \E kind \in Kinds : Fault(kind)
  BY <1>2
  DEF JobStep, Live!JobStep, Live!JobFetch, Live!JobBlock, Live!JobHandle, Live!JobRetry,
    Live!JobMark, Live!JobFails, Live!Fault, Fault
<1>3. CASE EngineStep
  BY <1>3
  DEF EngineStep, Backfill!EngineStep, Backfill!ManagerTick, Backfill!ManagerStop,
    Backfill!PlanRange, Backfill!StartBackfill, Backfill!StartRange, Backfill!BeginSlot,
    Backfill!EndRange, Backfill!ReadFinalizedHash, Backfill!ReadTentativeHash,
    Backfill!CompareHash, Backfill!RollbackTentative, Backfill!RollbackProcessed,
    Backfill!RollbackFinalized, Backfill!FetchBlock, Backfill!SkipSlot,
    Backfill!JoinTasks, Backfill!FinalizeSlot, Backfill!SaveSlot, Backfill!NotifyRange,
    Backfill!CompleteBackfill, Backfill!AbortRange, Backfill!OnlyEngine, Backfill!Env,
    Backfill!Fault, Fault
<1>4. ASSUME NEW sig \in Sigs, TaskStep(sig)
      PROVE  UNCHANGED faults \/ \E kind \in Kinds : Fault(kind)
  BY <1>4
  DEF TaskStep, Backfill!TaskStep, Backfill!SpawnTask, Backfill!TaskFetch,
    Backfill!TaskHandle, Backfill!TaskFinalize, Backfill!TaskMark, Backfill!TaskFails,
    Backfill!Env, Backfill!Fault, Fault
<1>5. CASE CleanupReads \/ CleanupDeletes \/ Restart \/ ClusterStep \/ UNCHANGED vars
  BY <1>5
  DEF CleanupReads, CleanupDeletes, OnlyCleanup, Restart, NewProcess, ClusterStep,
    Live!ClusterStep, Live!processVars, processVars, vars
<1> QED
  BY <1>1, <1>2, <1>3, <1>4, <1>5 DEF Next, Step

LEMMA InterruptedSteps ==
  ASSUME IShared, [Next]_vars
  PROVE  /\ Interrupted \in Int /\ Interrupted' \in Int /\ Interrupted <= Interrupted'
         /\ Restart \/ Fault("db") => Interrupted' = Interrupted + 1
<1>1. PICK fault \in Kinds : UNCHANGED faults \/ Fault(fault)
  BY FaultSteps DEF Kinds
<1>2. ASSUME NEW kind \in {"crash", "db"}
      PROVE  /\ Used(kind) \in Int /\ Used(kind)' \in Int /\ Used(kind) <= Used(kind)'
             /\ Fault(kind) => Used(kind)' = Used(kind) + 1
  <2>1. /\ Used(kind) \in Int /\ Used(kind)' \in Int /\ Used(kind) <= Used(kind)'
    BY <1>1, SharedTypes, FaultCounts DEF Kinds
  <2>2. Fault(kind) => Used(kind)' = Used(kind) + 1
    BY SharedTypes, FaultCounts
  <2> QED
    BY <2>1, <2>2
<1>3. Used("crash") \in Int /\ Used("db") \in Int /\ Used("crash")' \in Int /\ Used("db")' \in Int
  BY <1>2
<1>4. /\ Fault("crash") => UNCHANGED Used("db")
      /\ Fault("db") => UNCHANGED Used("crash")
  <2>1. Fault("crash") => Used("db")' = Used("db")
    BY SharedTypes, FaultCounts, <1>3
  <2>2. Fault("db") => Used("crash")' = Used("crash")
    BY SharedTypes, FaultCounts, <1>3
  <2> QED
    BY <2>1, <2>2
<1>5. Restart => Fault("crash")
  BY DEF Restart, NewProcess
<1> QED
  BY <1>2, <1>3, <1>4, <1>5 DEF Interrupted

LEMMA TakenCounts ==
  ASSUME IShared, [Next]_vars, NEW y \in Sigs
  PROVE  /\ taken[y] \in Nat /\ taken'[y] \in Nat /\ taken[y] <= taken'[y]
         /\ Deleted(y) /\ taken'[y] < MaxHandled => taken'[y] = taken[y] + 1
<1>1. taken \in [Sigs -> 0..MaxHandled] /\ MaxHandled \in Nat
  BY IndexerAssumption DEF IShared
<1>2. CASE UNCHANGED vars
  <2>1. ~Deleted(y)
    BY <1>2 DEF Deleted, InTentative, vars, tables
  <2> QED
    BY <1>1, <1>2, <2>1 DEF vars
<1>3. CASE Next
  <2>1. taken'[y] = IF Deleted(y) THEN Least(taken[y] + 1, MaxHandled) ELSE taken[y]
    BY <1>3 DEF Next
  <2> QED
    BY <1>1, <2>1 DEF Least
<1> QED
  BY <1>2, <1>3

LEMMA FaultNumbers ==
  ASSUME IShared
  PROVE  Used("crash") \in Int /\ Used("db") \in Int /\ Interrupted \in Int
  BY SharedTypes, ProcessAssumption DEF ProcessTypeOK, BudgetOf, Used, Interrupted

Pays(y) ==
  \/ LP!Owed(y)' <= LP!Owed(y) /\ (MayStart(y)' => MayStart(y))
  \/ LP!Owed(y)' <= LP!Owed(y) /\ (Restart \/ Fault("db") \/ Deleted(y))
  \/ LP!Owed(y)' <= LP!Owed(y) - 1
  \/ LP!Owed(y)' <= LP!Owed(y) + 1 /\ MayStart(y) /\ ~MayStart(y)'

LEMMA OwedIsNat == LP!IFresh => \A y \in Sigs : LP!Owed(y) \in Nat
  BY LiveAssumptions, LP!OwedType

LEMMA OwedIsNatAfter == LP!IFresh' => (\A y \in Sigs : LP!Owed(y) \in Nat)'
  BY OwedIsNat, PTL

LEMMA OwedTypes ==
  ASSUME LP!OneProgramEach, IKept, [Next]_vars, NEW y \in Sigs
  PROVE  /\ LP!Owed(y) \in Nat /\ LP!Owed(y)' \in Nat
         /\ handled'[y] \in 0..MaxHandled
<1>1. LP!Owed(y) \in Nat
  BY OwedIsNat DEF IKept
<1>2. LP!IFresh'
  BY StepFresh
<1>3. LP!Owed(y)' \in Nat
  BY <1>2, OwedIsNatAfter
<1>4. handled'[y] \in 0..MaxHandled
  BY StepShared DEF IKept, IShared, LP!ILive, LP!TypeOK
<1> QED
  BY <1>1, <1>3, <1>4

LEMMA CoveredOne ==
  ASSUME LP!OneProgramEach, IKept, [Next]_vars, NEW y \in Sigs, Pays(y)
  PROVE  Covered(y)'
<1> SUFFICES ASSUME taken'[y] < MaxHandled
             PROVE  /\ LP!Owed(y)' <= 1 + Interrupted' + taken'[y]
                    /\ MayStart(y)' => LP!Owed(y)' <= Interrupted' + taken'[y]
  BY DEF Covered
<1>1. /\ taken[y] \in Nat /\ taken'[y] \in Nat /\ taken[y] <= taken'[y]
      /\ Deleted(y) => taken'[y] = taken[y] + 1
  BY TakenCounts DEF IKept
<1>2. /\ Interrupted \in Int /\ Interrupted' \in Int /\ Interrupted <= Interrupted'
      /\ Restart \/ Fault("db") => Interrupted' = Interrupted + 1
  BY InterruptedSteps DEF IKept
<1>3. LP!Owed(y) \in Nat /\ LP!Owed(y)' \in Nat
  BY OwedTypes
<1>4. /\ LP!Owed(y) <= 1 + Interrupted + taken[y]
      /\ MayStart(y) => LP!Owed(y) <= Interrupted + taken[y]
  BY <1>1, IndexerAssumption DEF IKept, Covered
<1>5. CASE LP!Owed(y)' <= LP!Owed(y) /\ (MayStart(y)' => MayStart(y))
  BY <1>1, <1>2, <1>3, <1>4, <1>5
<1>6. CASE LP!Owed(y)' <= LP!Owed(y) /\ (Restart \/ Fault("db") \/ Deleted(y))
  BY <1>1, <1>2, <1>3, <1>4, <1>6
<1>7. CASE LP!Owed(y)' <= LP!Owed(y) - 1
  BY <1>1, <1>2, <1>3, <1>4, <1>7
<1>8. CASE LP!Owed(y)' <= LP!Owed(y) + 1 /\ MayStart(y) /\ ~MayStart(y)'
  BY <1>1, <1>2, <1>3, <1>4, <1>8
<1> QED
  BY <1>5, <1>6, <1>7, <1>8 DEF Pays

LEMMA PollPaysOnce ==
  ASSUME LP!OneProgramEach, IKept, [Next]_vars, PollStep, NEW y \in Sigs
  PROVE  Pays(y)
<1>1. LP!PollStep
  BY LiveSteps DEF PollStep
<1>2. LP!Owed(y)' <= LP!Owed(y) + IF LP!Starts(y) THEN 1 ELSE 0
  BY <1>1, LiveAssumptions, LP!PollOwed DEF IKept
<1>3. LP!Owed(y) \in Int /\ LP!Owed(y)' \in Int
  BY OwedTypes
<1>4. UNCHANGED <<processed, tentative, finalized, chain>>
  BY PollKeepsTables DEF tables, chainVars
<1>5. (InTentative(y)' <=> InTentative(y)) /\ (Original(y)' <=> Original(y))
  BY <1>4 DEF InTentative, Original, Settled
<1>6. CASE LP!AbandonPoll
  <2>1. Fault("db") /\ ~LP!Starts(y)
    BY <1>6 DEF LP!AbandonPoll, LP!Starts, LP!SpawnJob, LP!Fault, Fault
  <2> QED
    BY <1>2, <1>3, <2>1 DEF Pays
<1>7. CASE LP!StopOnError
  <2>1. poll'.pc = "stopped" /\ ~LP!Starts(y)
    BY <1>7 DEF LP!StopOnError, LP!Starts, LP!SpawnJob, IKept, IShared, LP!ILive, LP!TypeOK,
      LP!PollRecord
  <2> QED
    BY <1>2, <1>3, <2>1 DEF Pays, MayStart
<1>8. CASE ~LP!AbandonPoll /\ ~LP!StopOnError
  <2>1. /\ poll.pc # "stopped"
        /\ poll'.pc = "check2" => /\ poll.pc = "check1" /\ poll'.batch = poll.batch
                                  /\ poll.batch # <<>> /\ ~LP!InProcessed(Head(poll.batch))
        /\ poll'.pc = "spawn" => /\ poll.pc = "check2" /\ poll'.batch = poll.batch
                                 /\ poll.batch # <<>> /\ ~LP!InTentative(Head(poll.batch))
        /\ \A k \in LP!Joined : k \in LP!Joined' /\ job'[k].sig = job[k].sig
        /\ LP!SpawnJob => /\ poll.pc = "spawn" /\ poll'.pc = "check1"
                          /\ \E k \in LP!Joined' : job'[k].sig = Head(poll.batch)
    BY <1>1, <1>8, LiveAssumptions, LP!PollTurns DEF IKept
  <2>2. CASE LP!Starts(y)
    <3>1. MayStart(y) /\ ~MayStart(y)'
      BY <2>1, <2>2 DEF LP!Starts, MayStart
    <3> QED
      BY <1>2, <1>3, <2>2, <3>1 DEF Pays
  <2>3. CASE ~LP!Starts(y)
    <3>1. ASSUME poll'.pc = "spawn", Head(poll'.batch) = y PROVE MayStart(y)
      BY <2>1, <3>1 DEF MayStart, LP!InTentative, InTentative, LP!NoRow, NoRow, LP!NoSlot, NoSlot
    <3>2. ASSUME poll'.pc = "check2", Head(poll'.batch) = y, ~InTentative(y)' PROVE MayStart(y)
      <4>1. \A k \in LP!Joined : job[k].sig # y
        BY <2>1, <3>2, LiveAssumptions, LP!HeadNotStarted DEF IKept
      <4>2. ~Original(y)
        BY <2>1, <3>2 DEF LP!InProcessed, LP!NoSlot, Original, Settled, Slots
      <4> QED
        BY <1>5, <2>1, <3>2, <4>1, <4>2 DEF MayStart
    <3>3. ASSUME ~InTentative(y)', ~Original(y)', \A k \in LP!Joined' : job'[k].sig # y
          PROVE  MayStart(y)
      BY <1>5, <2>1, <3>3 DEF MayStart
    <3>4. MayStart(y)' => MayStart(y)
      BY <3>1, <3>2, <3>3 DEF MayStart
    <3> QED
      BY <1>2, <1>3, <2>3, <3>4 DEF Pays
  <2> QED
    BY <2>2, <2>3
<1> QED
  BY <1>6, <1>7, <1>8

LEMMA JobPaysOnce ==
  ASSUME IKept, NEW j \in Jobs, JobStep(j), NEW y \in Sigs
  PROVE  Pays(y)
<1>1. LP!JobStep(j)
  BY LiveSteps DEF JobStep
<1>2. /\ UNCHANGED <<poll, processed>>
      /\ LP!Owed(y)' <= LP!Owed(y)
      /\ LP!InTentative(y) => LP!InTentative(y)'
      /\ \/ \A k \in LP!Joined : job[k].sig = y => k \in LP!Joined' /\ job'[k].sig = y
         \/ LP!InTentative(y)' \/ LP!Fault("db") \/ LP!Owed(y)' <= LP!Owed(y) - 1
  BY <1>1, LiveAssumptions, LP!JobOwed DEF IKept
<1>3. /\ LP!InTentative(y) <=> InTentative(y)
      /\ LP!InTentative(y)' <=> InTentative(y)'
  BY DEF LP!InTentative, InTentative, LP!NoRow, NoRow, LP!NoSlot, NoSlot
<1>4. Original(y)' <=> Original(y)
  BY JobKeepsBlocks DEF Original, Settled, chainVars
<1>5. CASE \A k \in LP!Joined : job[k].sig = y => k \in LP!Joined' /\ job'[k].sig = y
  BY <1>2, <1>3, <1>4, <1>5 DEF Pays, MayStart
<1>6. CASE LP!InTentative(y)'
  BY <1>2, <1>3, <1>6 DEF Pays, MayStart
<1>7. CASE LP!Fault("db")
  BY <1>2, <1>7 DEF Pays, LP!Fault, Fault
<1>8. CASE LP!Owed(y)' <= LP!Owed(y) - 1
  BY <1>8 DEF Pays
<1> QED
  BY <1>2, <1>5, <1>6, <1>7, <1>8

LEMMA RestPaysOnce ==
  ASSUME IKept, [Next]_vars, NEW y \in Sigs,
         \/ EngineStep \/ (\E sig \in Sigs : TaskStep(sig)) \/ CleanupReads \/ CleanupDeletes
         \/ Restart \/ ClusterStep \/ UNCHANGED vars
  PROVE  Pays(y)
<1>1. CASE Restart
  <2>1. LP!Owed(y) \in Nat /\ handled[y] \in Nat /\ LP!Cardinality(LP!Waiting(y)) \in Nat
    BY LiveAssumptions, LP!OwedType DEF IKept
  <2>2. LP!Waiting(y)' = {} /\ UNCHANGED handled
    BY <1>1 DEF Restart, Live!ResetLive, Live!NoJob, LP!Waiting
  <2>3. LP!Cardinality(LP!Waiting(y)') = 0
    BY <2>2, FS_EmptySet DEF LP!Cardinality, Cardinality
  <2>4. LP!Owed(y)' = handled[y] + 0
    BY <2>2, <2>3 DEF LP!Owed
  <2>5. LP!Owed(y) = handled[y] + LP!Cardinality(LP!Waiting(y))
    BY DEF LP!Owed
  <2>6. LP!Owed(y)' <= LP!Owed(y)
    BY <2>1, <2>4, <2>5
  <2> QED
    BY <1>1, <2>6 DEF Pays
<1>2. CASE ~Restart
  <2>1. UNCHANGED <<poll, job, handled>>
    BY <1>2
    DEF EngineStep, TaskStep, OnlyBackfill, CleanupReads, CleanupDeletes, OnlyCleanup,
      ClusterStep, Live!ClusterStep, Live!liveVars, vars, liveVars
  <2>2. LP!Owed(y)' = LP!Owed(y) /\ LP!Joined' = LP!Joined
    BY <2>1 DEF LP!Owed, LP!Waiting, LP!Joined
  <2>3. LP!Owed(y) \in Nat
    BY LiveAssumptions, LP!OwedType DEF IKept
  <2>4. Original(y) => Original(y)'
    BY OriginalStays DEF IKept
  <2>5. CASE InTentative(y) /\ ~InTentative(y)'
    <3>1. Deleted(y)
      BY <2>5 DEF Deleted, InTentative
    <3> QED
      BY <2>2, <2>3, <3>1 DEF Pays
  <2>6. CASE InTentative(y) => InTentative(y)'
    <3>1. MayStart(y)' => MayStart(y)
      BY <2>1, <2>2, <2>4, <2>6 DEF MayStart
    <3> QED
      BY <2>2, <2>3, <3>1 DEF Pays
  <2> QED
    BY <2>5, <2>6
<1> QED
  BY <1>1, <1>2

LEMMA StepKept ==
  ASSUME LP!OneProgramEach, IKept, [Next]_vars
  PROVE  IKept'
<1>1. IShared' /\ SettledStays'
  BY StepShared, OriginalStays DEF IKept
<1>2. LP!IFresh'
  BY StepFresh
<1>3. ASSUME NEW y \in Sigs PROVE Covered(y)'
  BY PollPaysOnce, JobPaysOnce, RestPaysOnce, CoveredOne DEF Next, Step
<1>4. 0 <= Interrupted'
  BY InterruptedSteps DEF IKept
<1> QED
  BY <1>1, <1>2, <1>3, <1>4 DEF IKept

\* The live handlers see a transaction once, and once more for every crash,
\* every database error and every deletion of its tentative row: promotions,
\* rollbacks and cleanups between the two statements of is_processed cost no
\* further call.
THEOREM IndexerHandledOnce ==
  ASSUME LP!OneProgramEach
  PROVE  Spec => []HandledOnceWhileKept
<1>1. IKept => HandledOnceWhileKept
  <2> SUFFICES ASSUME IKept, NEW y \in Sigs
               PROVE  handled[y] <= 1 + taken[y] + Used("crash") + Used("db")
    BY DEF HandledOnceWhileKept
  <2>1. handled[y] \in 0..MaxHandled /\ taken[y] \in 0..MaxHandled
    BY DEF IKept, IShared, LP!ILive, LP!TypeOK
  <2>2. 0 <= Interrupted /\ Interrupted \in Int
    BY FaultNumbers DEF IKept
  <2>3. LP!Owed(y) = handled[y] + LP!Cardinality(LP!Waiting(y))
        /\ LP!Cardinality(LP!Waiting(y)) \in Nat
    BY LiveAssumptions, LP!OwedType DEF IKept, LP!Owed
  <2> QED
    BY <2>1, <2>2, <2>3, FaultNumbers, IndexerAssumption DEF IKept, Covered, Interrupted
<1>2. IKept /\ [Next]_vars => IKept'
  BY StepKept
<1> QED
  BY <1>1, <1>2, InitKept, PTL DEF Spec

-----------------------------------------------------------------------------
(* What the backfill guarantees over finalized slots it guarantees here.   *)
(* Every step of the indexer is one of the backfill, or writes nothing but *)
(* tentative rows, and those tell the backfill only which slots to look at *)
(* once more: a slot without a stored block has no processed rows to lose. *)

\* All that the backfill's invariants speak of, but for its own state.
Aside ==
  UNCHANGED <<processed, finalized, progress, BP!chainVars, BP!historyVars, cancelled>>

LEMMA StepOfBackfill ==
  ASSUME [Next]_vars
  PROVE  \/ [BP!Next]_(BP!vars)
         \/ /\ Aside
            /\ UNCHANGED BP!engineVars \/ (BP!ResetEngine /\ poll'.pc = "stopped")
<1>1. Backfill!ResetEngine => BP!ResetEngine
  BY DEF Backfill!ResetEngine, BP!ResetEngine, Backfill!IdleEngine, BP!IdleEngine,
         Backfill!IdleTask, BP!IdleTask, Backfill!NoSlot, BP!NoSlot, Backfill!historyVars,
         BP!historyVars
<1>2. CASE EngineStep \/ \E sig \in Sigs : TaskStep(sig)
  BY <1>2, BackfillSteps DEF EngineStep, TaskStep, BP!Next
<1>3. CASE Restart
  <2>1. BP!NewProcess /\ UNCHANGED <<BP!tables, BP!chainVars>>
    BY <1>3 DEF Restart, NewProcess, BP!NewProcess, Fault, BP!Fault, tables, BP!tables,
      chainVars, BP!chainVars
  <2> QED
    BY <1>1, <1>3, <2>1 DEF Restart, BP!Restart, BP!Next
<1>4. CASE ClusterStep
  <2>1. /\ Live!ChainNext
        /\ UNCHANGED <<BP!tables, BP!processVars, BP!engineVars, BP!historyVars>>
    BY <1>4 DEF ClusterStep, Live!ClusterStep, OnlyLive, Live!tables, BP!tables,
      Live!processVars, BP!processVars, backfillVars, BP!engineVars, BP!historyVars
  <2>2. BP!ChainNext
    BY <2>1 DEF Live!ChainNext, BP!ChainNext, Live!Confirm, BP!Confirm, Live!Finalize,
      BP!Finalize, Live!Reorg, BP!Reorg, Live!WellFormed, BP!WellFormed, Live!TxsAt,
      BP!TxsAt, Live!Slots, BP!Slots
  <2> QED
    BY <2>1, <2>2 DEF BP!ClusterStep, BP!Next
<1>5. CASE UNCHANGED vars
  BY <1>5 DEF vars, tables, chainVars, processVars, backfillVars, BP!vars, BP!tables,
    BP!chainVars, BP!processVars, BP!engineVars, BP!historyVars
<1>6. CASE PollStep
  <2>1. UNCHANGED backfillVars \/ (Backfill!ResetEngine /\ poll'.pc = "stopped")
    BY <1>6 DEF PollStep, OnlyLive
  <2>2. UNCHANGED BP!historyVars
    BY <2>1 DEF Backfill!ResetEngine, Backfill!historyVars, backfillVars, BP!historyVars
  <2> QED
    BY <1>1, <1>6, <2>1, <2>2, PollKeepsTables
    DEF Aside, tables, chainVars, backfillVars, BP!chainVars, BP!engineVars
<1>7. ASSUME NEW j \in Jobs, JobStep(j) PROVE Aside /\ UNCHANGED BP!engineVars
  BY <1>7, JobKeepsBlocks
  DEF Aside, JobStep, OnlyLive, backfillVars, chainVars, BP!chainVars, BP!engineVars,
    BP!historyVars
<1>8. CASE CleanupReads \/ CleanupDeletes
  BY <1>8 DEF Aside, CleanupReads, CleanupDeletes, DeleteStaleTentative, OnlyCleanup,
    tables, chainVars, processVars, backfillVars, BP!chainVars, BP!engineVars,
    BP!historyVars
<1> QED
  BY <1>2, <1>3, <1>4, <1>5, <1>6, <1>7, <1>8 DEF Next, Step

ISwept == IShared /\ BP!IFinal /\ BP!Swept

LEMMA InitSweptShared == Init => ISwept
<1> SUFFICES ASSUME Init PROVE BP!IFinal /\ BP!Swept
  BY InitShared DEF ISwept
<1>1. BP!IBlock /\ StorageTypeOK
  BY InitShared, SharedTypes DEF IShared
<1>2. /\ eng.pc = "idle" /\ eng.cur = -1 /\ lost = {} /\ missed = {}
      /\ \A sig \in Sigs : task[sig].pc = "idle"
  BY DEF Init, Backfill!EngineInit, Backfill!IdleEngine, Backfill!IdleTask, Backfill!NoSlot
<1>3. BP!WellFormed(chain) /\ root = InitialTip
  BY DEF Init, Live!Init, Live!ChainInit, Live!WellFormed, BP!WellFormed, Live!TxsAt,
    BP!TxsAt, Live!Slots, BP!Slots
<1>4. PICK b \in -1..InitialTip : LP!IndexedUpTo(b)
  BY InitLP DEF LP!Init, LP!NoSlot
<1>5. InitialTip \in Int /\ InitialTip <= root /\ progress.last = b /\ b <= root
  BY <1>3, <1>4, ChainAssumption, TypesAssumption DEF LP!IndexedUpTo, Slots
<1>6. \A s \in BP!Slots : BP!HasBlock(s) => s <= root /\ finalized[s] = chain[s]
  <2>1. finalized = [s \in BP!Slots |-> IF s <= b THEN chain[s] ELSE NoHash]
    BY <1>4 DEF LP!IndexedUpTo, BP!Slots, LP!Slots
  <2>2. \A s \in BP!Slots : s \in Int
    BY TypesAssumption DEF BP!Slots
  <2>3. b \in Int /\ root \in Int
    BY <1>3, <1>5
  <2> QED
    BY <1>5, <2>1, <2>2, <2>3 DEF BP!HasBlock
<1>7. BP!IFinal
  <2>1. BP!Cursor
    BY <1>2, <1>5 DEF BP!Cursor, BP!InRange, BP!DetectPcs, BP!SlotPcs
  <2>2. BP!AtHand /\ BP!Evidence
    BY <1>2 DEF BP!AtHand, BP!Evidence, BP!HashPcs, BP!PlacedTaskPcs
  <2> QED
    BY <1>1, <1>3, <1>6, <2>1, <2>2 DEF BP!IFinal, BP!StoredOnChain
<1>8. BP!SweptSlotsIndexed
  <2> SUFFICES ASSUME NEW s \in BP!Slots, s <= progress.last, NEW sig \in BP!TxsAt(chain, s)
               PROVE  BP!InProcessed(sig)
    BY DEF BP!SweptSlotsIndexed, BP!Indexed
  <2>1. sig \in Sigs
    BY BackfillAssumptions, <1>1, BP!TxsAreSigs DEF BP!IBlock, BP!IType, BP!TypeOK
  <2>2. s \in 0..b
    BY <1>5, TypesAssumption DEF BP!Slots
  <2>3. s \in LP!Slots /\ sig \in LP!TxsAt(chain, s)
    BY DEF BP!Slots, LP!Slots, BP!TxsAt, LP!TxsAt
  <2>4. processed[sig] = LP!SlotOn(sig)
    BY <1>4, <2>1, <2>2, <2>3 DEF LP!IndexedUpTo
  <2>5. LP!SlotOn(sig) \in LP!Slots
    BY <2>3 DEF LP!SlotOn
  <2> QED
    BY <2>4, <2>5, TypesAssumption DEF LP!Slots, BP!InProcessed, BP!NoSlot
<1>9. BP!Swept
  BY <1>2, <1>8
  DEF BP!Swept, BP!AtSlot, BP!Behind, BP!Ahead, BP!WorkPcs, BP!InRange, BP!DetectPcs,
    BP!SlotPcs, BP!HashPcs
<1> QED
  BY <1>7, <1>9

LEMMA StepSweptShared ==
  ASSUME BP!FinalRange, ISwept, [Next]_vars
  PROVE  ISwept'
<1>1. IShared' /\ BP!IBlock'
  BY StepShared DEF ISwept, IShared
<1>2. CASE [BP!Next]_(BP!vars)
  BY <1>1, <1>2, BackfillAssumptions, BP!StepFinal, BP!StepSwept DEF ISwept
<1>3. CASE Aside /\ (UNCHANGED BP!engineVars \/ BP!ResetEngine)
  BY <1>1, <1>3, BackfillAssumptions, BP!FinalOutside, BP!SweptOutside
  DEF ISwept, Aside, BP!historyVars
<1> QED
  BY <1>2, <1>3, StepOfBackfill

\* Nobody cancels, so the loop only ends at the end of its range.
LEMMA StepEndShared ==
  ASSUME BP!FinalRange, ISwept, BP!ToTheEnd, [Next]_vars
  PROVE  BP!ToTheEnd'
<1>1. CASE [BP!Next]_(BP!vars)
  BY <1>1, BackfillAssumptions, BP!StepEnd DEF ISwept
<1>2. CASE Aside /\ (UNCHANGED BP!engineVars \/ BP!ResetEngine)
  <2>1. ~cancelled /\ faults.cancel = 0 /\ ProcessTypeOK
    BY SharedTypes DEF BP!ToTheEnd, ISwept
  <2>2. PICK kind \in Kinds : UNCHANGED faults \/ Fault(kind)
    BY FaultSteps DEF Kinds
  <2>3. faults'.cancel = 0
    BY <2>1, <2>2 DEF Fault, Kinds, ProcessTypeOK, BudgetOf
  <2> QED
    BY <1>2, <2>1, <2>3, BackfillAssumptions, BP!EndOutside DEF Aside, BP!historyVars
<1> QED
  BY <1>1, <1>2, StepOfBackfill

(* A stopped process takes the backfill's tasks with it without a crash;   *)
(* until it is restarted they have nothing to be counted for.              *)
OnceEach ==
  /\ Alive => BP!Handled
  /\ \A sig \in Sigs : calls[sig] <= 1 + BP!Interruptions

LEMMA InterruptionsGrow ==
  ASSUME IShared, [Next]_vars
  PROVE  /\ BP!Interruptions \in Int /\ BP!Interruptions' \in Int
         /\ BP!Interruptions <= BP!Interruptions'
         /\ Restart => BP!Interruptions' = BP!Interruptions + 1
<1>1. PICK fault \in Kinds : UNCHANGED faults \/ Fault(fault)
  BY FaultSteps DEF Kinds
<1>2. \A kind \in Kinds :
        /\ Used(kind) \in Int /\ Used(kind)' \in Int /\ Used(kind) <= Used(kind)'
  BY <1>1, SharedTypes, FaultCounts DEF Kinds
<1>3. Restart => /\ Used("crash")' = Used("crash") + 1
                 /\ Used("db")' = Used("db") + 0 /\ Used("handler")' = Used("handler") + 0
  <2> SUFFICES ASSUME Restart
               PROVE  /\ Used("crash")' = Used("crash") + 1
                      /\ Used("db")' = Used("db") + 0 /\ Used("handler")' = Used("handler") + 0
    OBVIOUS
  <2>1. Fault("crash")
    BY DEF Restart, NewProcess
  <2> QED
    BY <2>1, SharedTypes, FaultCounts
<1>4. /\ BP!Interruptions = Used("crash") + Used("db") + Used("handler")
      /\ BP!Interruptions' = Used("crash")' + Used("db")' + Used("handler")'
  BY DEF BP!Interruptions, BP!Used, Used
<1> QED
  BY <1>2, <1>3, <1>4 DEF Kinds

LEMMA StoppedStays ==
  ASSUME ~Alive, [Next]_vars, ~Restart
  PROVE  ~Alive' /\ UNCHANGED calls
<1> USE DEF Alive
<1>1. ~PollStep
  <2>1. Live!Boot \/ Live!Checkpoint \/ Live!Tick \/ Live!Receive => FALSE
    BY Zenon DEF Live!Boot, Live!Checkpoint, Live!Tick, Live!Receive
  <2>2. Live!CheckProcessed \/ Live!CheckTentative \/ Live!SpawnJob \/ Live!JoinJobs => FALSE
    BY Zenon DEF Live!CheckProcessed, Live!CheckTentative, Live!SpawnJob, Live!JoinJobs
  <2>3. Live!NextProgram("latest") \/ Live!NextProgram("fetch") => FALSE
    BY Zenon DEF Live!NextProgram
  <2>4. Live!AbandonPoll \/ Live!StopOnError => FALSE
    BY DEF Live!AbandonPoll, Live!StopOnError
  <2> QED
    BY <2>1, <2>2, <2>3, <2>4, Zenon DEF PollStep, Live!PollStep
<1>2. ASSUME NEW j \in Jobs, JobStep(j) PROVE UNCHANGED <<poll, calls>>
  BY <1>2, JobKeepsBlocks, Zenon DEF JobStep, OnlyLive, backfillVars
<1>3. CASE CleanupReads \/ CleanupDeletes \/ ClusterStep \/ UNCHANGED vars
  BY <1>3 DEF CleanupReads, CleanupDeletes, OnlyCleanup, ClusterStep, Live!ClusterStep,
    Live!liveVars, OnlyLive, liveVars, backfillVars, vars
<1> QED
  BY <1>1, <1>2, <1>3 DEF Next, Step, EngineStep, TaskStep

LEMMA StepOnceEach ==
  ASSUME BP!FinalRange, BP!FromProgress, ISwept, OnceEach, [Next]_vars
  PROVE  OnceEach'
<1>1. /\ BP!Interruptions \in Int /\ BP!Interruptions' \in Int
      /\ BP!Interruptions <= BP!Interruptions'
      /\ Restart => BP!Interruptions' = BP!Interruptions + 1
  BY InterruptionsGrow DEF ISwept
<1>2. \A sig \in Sigs : calls[sig] \in Int
  BY CountTypes DEF ISwept
<1>3. CASE UNCHANGED calls
  <2>1. \A sig \in Sigs : calls'[sig] <= 1 + BP!Interruptions'
    BY <1>1, <1>2, <1>3 DEF OnceEach
  <2>2. CASE Restart
    <3>1. /\ \A sig \in Sigs : task'[sig].pc = "idle"
          /\ \A sig \in Sigs : calls'[sig] <= BP!Interruptions'
      BY <1>1, <1>2, <1>3, <2>2
      DEF Restart, Backfill!ResetEngine, Backfill!IdleTask, OnceEach
    <3> QED
      BY <2>1, <3>1 DEF OnceEach, BP!Handled
  <2>3. CASE ~Restart /\ ~Alive
    BY <2>1, <2>3, StoppedStays DEF OnceEach
  <2>4. CASE ~Restart /\ Alive /\ [BP!Next]_(BP!vars)
    BY <2>1, <2>4, BackfillAssumptions, BP!StepHandled DEF ISwept, OnceEach
  <2>5. CASE ~Restart /\ Alive /\ Aside
             /\ (UNCHANGED BP!engineVars \/ (BP!ResetEngine /\ poll'.pc = "stopped"))
    <3>1. CASE poll'.pc = "stopped"
      BY <2>1, <3>1 DEF OnceEach, Alive
    <3>2. CASE UNCHANGED BP!engineVars
      <4>1. BP!Handled'
        BY <1>1, <1>2, <2>5, <3>2, BackfillAssumptions, BP!HandledOutside
        DEF OnceEach, Aside, BP!historyVars
      <4> QED
        BY <2>1, <4>1 DEF OnceEach
    <3> QED
      BY <2>5, <3>1, <3>2
  <2> QED
    BY <2>2, <2>3, <2>4, <2>5, StepOfBackfill
<1>4. CASE calls' # calls
  <2>1. ~Restart /\ Alive /\ ~Aside
    BY <1>4, StoppedStays
    DEF Restart, Backfill!ResetEngine, Backfill!historyVars, Aside, BP!historyVars
  <2>2. BP!Handled'
    BY <2>1, StepOfBackfill, BackfillAssumptions, BP!StepHandled DEF ISwept, OnceEach
  <2> QED
    BY <2>2 DEF OnceEach, BP!Handled
<1> QED
  BY <1>3, <1>4

\* What the backfill promises for finalized slots it promises beside the live
\* source and the cleanup: rows keep their block and never change, whatever
\* tentative rows of another fork the jobs put before detect_reorg; nothing is
\* stored before it is final; no step of the others makes the engine save or
\* announce a slot it has not done, or do one twice.
THEOREM IndexerBackfillUndisturbed ==
  ASSUME BP!FinalRange, BP!FromProgress, BP!Uninterrupted
  PROVE  Spec => BackfillUndisturbed
<1> DEFINE Inv == ISwept /\ BP!ToTheEnd /\ OnceEach
<1>1. Init => Inv
  <2> SUFFICES ASSUME Init PROVE ISwept /\ BP!ToTheEnd /\ OnceEach
    OBVIOUS
  <2>1. ISwept
    BY InitSweptShared
  <2>2. /\ eng.pc = "idle" /\ notified = {} /\ calls = [sig \in Sigs |-> 0]
        /\ \A sig \in Sigs : task[sig].pc = "idle"
    BY DEF Init, Backfill!EngineInit, Backfill!IdleEngine, Backfill!IdleTask
  <2>3. ~cancelled /\ faults = FaultBudget /\ progress.complete = FALSE
    BY InitLP DEF LP!Init, LP!IndexedUpTo, LP!ProcessInit
  <2>4. BP!ToTheEnd
    BY <2>2, <2>3
    DEF BP!ToTheEnd, BP!Uninterrupted, BP!AnnouncedRangesIndexed, BP!CompleteMeansSwept,
      BP!InRange, BP!DetectPcs, BP!SlotPcs, BP!WorkPcs
  <2>5. BP!Interruptions = 0
    BY <2>3, ProcessAssumption DEF BP!Interruptions, BP!Used, BudgetOf
  <2>6. OnceEach
    BY <2>2, <2>5 DEF OnceEach, BP!Handled
  <2> QED
    BY <2>1, <2>4, <2>6
<1>2. Inv /\ [Next]_vars => Inv'
  BY StepSweptShared, StepEndShared, StepOnceEach
<1>3. Inv => /\ Backfill!ProcessedHasBlock /\ Backfill!OnlyFinalizedStored
             /\ Backfill!SweptSlotsIndexed /\ Backfill!AnnouncedRangesIndexed
             /\ Backfill!HandledOncePerInterruption
  <2> SUFFICES ASSUME ISwept, BP!ToTheEnd, OnceEach
               PROVE  /\ Backfill!ProcessedHasBlock /\ Backfill!OnlyFinalizedStored
                      /\ Backfill!SweptSlotsIndexed /\ Backfill!AnnouncedRangesIndexed
                      /\ Backfill!HandledOncePerInterruption
    OBVIOUS
  <2> USE DEF BP!Slots, Backfill!Slots, BP!NoSlot, Backfill!NoSlot, BP!InProcessed,
        Backfill!InProcessed, BP!TxsAt, Backfill!TxsAt, BP!Indexed, Backfill!Indexed
  <2>1. Backfill!ProcessedHasBlock
    BY DEF ISwept, BP!IFinal, BP!IBlock, BP!ProcessedHasBlock, Backfill!ProcessedHasBlock
  <2>2. Backfill!OnlyFinalizedStored
    BY DEF ISwept, BP!IFinal, BP!StoredOnChain, BP!HasBlock, Backfill!OnlyFinalizedStored
  <2>3. Backfill!SweptSlotsIndexed
    BY DEF ISwept, BP!Swept, BP!Ahead, BP!SweptSlotsIndexed, Backfill!SweptSlotsIndexed
  <2>4. Backfill!AnnouncedRangesIndexed
    BY DEF BP!ToTheEnd, BP!AnnouncedRangesIndexed, Backfill!AnnouncedRangesIndexed
  <2>5. Backfill!HandledOncePerInterruption
    <3>1. \A kind \in Kinds : BP!Used(kind) \in Int
      BY SharedTypes, ProcessAssumption DEF ISwept, BP!Used, Kinds, ProcessTypeOK, BudgetOf
    <3> QED
      BY <3>1 DEF OnceEach, Kinds, BP!Interruptions, BP!Used, Backfill!Used,
        Backfill!HandledOncePerInterruption
  <2> QED
    BY <2>1, <2>2, <2>3, <2>4, <2>5
<1>4. Inv /\ [Next]_vars =>
        /\ [\A sig \in Sigs : Backfill!InProcessed(sig) =>
               processed'[sig] = processed[sig]]_(Backfill!vars)
        /\ [progress'.last >= progress.last]_(Backfill!vars)
  <2> SUFFICES ASSUME ISwept, [Next]_vars
               PROVE  /\ \A sig \in Sigs : Backfill!InProcessed(sig) =>
                                            processed'[sig] = processed[sig]
                      /\ progress'.last >= progress.last
    OBVIOUS
  <2>1. CASE [BP!Next]_(BP!vars)
    BY <2>1, BackfillAssumptions, BP!RowsStay, BP!ProgressGrows
    DEF ISwept, BP!InProcessed, Backfill!InProcessed, BP!NoSlot, Backfill!NoSlot
  <2>2. CASE Aside
    <3>1. progress.last \in Int
      BY SharedTypes, TypesAssumption DEF ISwept, StorageTypeOK, Slots, NoSlot
    <3> QED
      BY <2>2, <3>1 DEF Aside
  <2> QED
    BY <2>1, <2>2, StepOfBackfill
<1> HIDE DEF Inv
<1> QED
  BY <1>1, <1>2, <1>3, <1>4, PTL
  DEF Spec, BackfillUndisturbed, Backfill!ProcessedRowsImmutable,
    Backfill!ProgressNeverRegresses

-----------------------------------------------------------------------------
(* At the commitment level "finalized" nothing is ever said about a block  *)
(* that may still be replaced: the orphans that NoOrphanProcessed excludes *)
(* come from live rows of confirmed blocks alone.                          *)

\* The transaction is in the finalized block of this slot, for good.
OnFinal(sig, s) == s \in Slots /\ s <= root /\ sig \in TxsAt(chain, s)

RowsFinal ==
  \A sig \in Sigs : /\ InTentative(sig) => OnFinal(sig, tentative[sig].slot)
                    /\ InProcessed(sig) => OnFinal(sig, processed[sig])

JobsFinal ==
  \A j \in Jobs : job[j].pc \in {"block", "handle", "mark"} => OnFinal(job[j].sig, job[j].slot)

TasksFinal ==
  \A sig \in Sigs : task[sig].pc \notin {"idle", "fetch"} => OnFinal(sig, task[sig].slot)

IPlaced == IShared /\ RowsFinal /\ JobsFinal /\ TasksFinal

LEMMA InitPlaced == Init => IPlaced
<1> SUFFICES ASSUME Init PROVE RowsFinal /\ JobsFinal /\ TasksFinal
  BY InitShared DEF IPlaced
<1>1. PICK b \in -1..InitialTip : LP!IndexedUpTo(b)
  BY InitLP DEF LP!Init, LP!NoSlot
<1>2. root = InitialTip
  BY InitLP DEF LP!Init, LP!ChainInit
<1>3. \A sig \in Sigs : ~InTentative(sig)
  BY <1>1 DEF LP!IndexedUpTo, LP!NoRow, NoRow, LP!NoSlot, NoSlot, InTentative
<1>4. ASSUME NEW sig \in Sigs, InProcessed(sig) PROVE OnFinal(sig, processed[sig])
  <2>1. PICK s \in 0..b : sig \in TxsAt(chain, s)
    BY <1>1, <1>4 DEF LP!IndexedUpTo, InProcessed, NoSlot, LP!NoSlot, LP!TxsAt, TxsAt
  <2>2. s \in Slots
    BY <2>1, ChainAssumption, TypesAssumption DEF Slots
  <2>3. processed[sig] = SlotOn(sig)
    BY <1>1, <2>1 DEF LP!IndexedUpTo, LP!SlotOn, SlotOn, LP!TxsAt, TxsAt, LP!Slots, Slots
  <2>4. SlotOn(sig) \in Slots /\ sig \in TxsAt(chain, SlotOn(sig))
    BY <2>1, <2>2 DEF SlotOn
  <2>5. processed[sig] <= InitialTip
    BY <1>4, InitRows
  <2> QED
    BY <1>2, <2>3, <2>4, <2>5 DEF OnFinal
<1>5. JobsFinal /\ TasksFinal
  BY DEF Init, Live!Init, Live!LiveInit, Live!NoJob, Backfill!EngineInit, Backfill!IdleTask,
         JobsFinal, TasksFinal
<1> QED
  BY <1>3, <1>4, <1>5 DEF RowsFinal

\* What is finalized is not replaced.
LEMMA FinalStays ==
  ASSUME IShared, ChainNext \/ UNCHANGED chainVars, NEW sig, NEW s, OnFinal(sig, s)
  PROVE  OnFinal(sig, s)'
<1> USE SharedTypes, TypesAssumption DEF OnFinal, ChainTypeOK, Slots
<1>1. s \in Int /\ root \in Int /\ tip \in Int /\ root <= tip
  OBVIOUS
<1>2. chain'[s] = chain[s] /\ s <= root'
  <2>1. CASE Confirm
    BY <1>1, <2>1 DEF Confirm
  <2>2. CASE Finalize
    BY <1>1, <2>2 DEF Finalize
  <2>3. CASE Reorg
    BY <1>1, <2>3 DEF Reorg
  <2>4. CASE UNCHANGED chainVars
    BY <2>4 DEF chainVars
  <2> QED
    BY <2>1, <2>2, <2>3, <2>4 DEF ChainNext
<1> QED
  BY <1>2 DEF TxsAt

\* The node answers for a finalized transaction, or not at all.
LEMMA AnswersFinal ==
  ASSUME Commitment = "finalized", NEW sig
  PROVE  /\ \A s \in Live!SlotsOfTx(sig) : OnFinal(sig, s)
         /\ \A s \in Backfill!SlotsOfTx(sig) : OnFinal(sig, s)
  BY DEF Live!SlotsOfTx, Backfill!SlotsOfTx, OnFinal, Live!TxsAt, Backfill!TxsAt, TxsAt,
     Live!Slots, Backfill!Slots, Slots

\* A step that deletes rows, or moves them from one table to the other.
LEMMA RowsMoved ==
  ASSUME IPlaced, UNCHANGED chainVars,
         \A sig \in Sigs : InTentative(sig)' => tentative'[sig] = tentative[sig],
         \A sig \in Sigs : InProcessed(sig)' =>
           \/ processed'[sig] = processed[sig]
           \/ InTentative(sig) /\ processed'[sig] = tentative[sig].slot
  PROVE  RowsFinal'
  BY DEF IPlaced, RowsFinal, OnFinal, InTentative, InProcessed, chainVars, TxsAt

LEMMA JobPlaced ==
  ASSUME Commitment = "finalized", IPlaced, NEW j \in Jobs, JobStep(j)
  PROVE  RowsFinal' /\ JobsFinal' /\ TasksFinal'
<1> USE DEF IPlaced, JobStep
<1>1. UNCHANGED <<processed, task, chain, root>>
  BY JobKeepsBlocks DEF OnlyLive, backfillVars, chainVars
<1>2. \A sig, s : OnFinal(sig, s) => OnFinal(sig, s)'
  BY <1>1 DEF OnFinal, TxsAt
<1>3. TasksFinal'
  BY <1>1, <1>2 DEF TasksFinal
<1>5. job \in [Jobs -> LP!JobRecord] /\ LP!JobKnows(job[j], handled)
  BY DEF IShared, LP!ILive, LP!TypeOK, LP!JobsKnow
<1>6. ASSUME \A k \in Jobs : k # j => job'[k] = job[k],
             job'[j].pc \in {"block", "handle", "mark"} => OnFinal(job'[j].sig, job'[j].slot)
      PROVE  JobsFinal'
  BY <1>2, <1>6 DEF JobsFinal
<1>7. CASE Live!JobFetch(j)
  <2>1. PICK s \in Live!SlotsOfTx(job[j].sig) :
           job' = [job EXCEPT ![j] = [@ EXCEPT !.pc = "block", !.slot = s]]
    BY <1>7 DEF Live!JobFetch
  <2>2. /\ job'[j].sig = job[j].sig /\ job'[j].slot = s
        /\ \A k \in Jobs : k # j => job'[k] = job[k]
    BY <1>5, <2>1 DEF LP!JobRecord
  <2>3. OnFinal(job[j].sig, s)
    BY AnswersFinal
  <2>4. JobsFinal'
    BY <1>6, <2>2, <2>3
  <2>5. UNCHANGED tentative
    BY <1>7 DEF Live!JobFetch, Live!tables
  <2> QED
    BY <1>1, <1>2, <1>3, <2>4, <2>5 DEF RowsFinal, InTentative, InProcessed
<1>8. CASE Live!JobMark(j)
  <2>1. job[j].pc = "mark" /\ OnFinal(job[j].sig, job[j].slot)
    BY <1>8 DEF Live!JobMark, JobsFinal
  <2>2. JobsFinal'
    BY <1>5, <1>6, <1>8 DEF Live!JobMark, Live!NoJob
  <2>3. tentative' = [tentative EXCEPT ![job[j].sig] =
           IF @ = NoRow THEN [slot |-> job[j].slot, hash |-> job[j].hash] ELSE @]
    BY <1>8 DEF Live!JobMark, Live!InsertTentative, Live!NoRow, NoRow, Live!NoSlot, NoSlot
  <2>4. \A sig \in Sigs : tentative'[sig] = tentative[sig]
                          \/ (sig = job[j].sig /\ tentative'[sig].slot = job[j].slot)
    BY <2>3, SharedTypes DEF StorageTypeOK
  <2> QED
    BY <1>1, <1>2, <1>3, <2>1, <2>2, <2>4 DEF RowsFinal, InTentative, InProcessed
<1>9. CASE Live!JobBlock(j) \/ Live!JobHandle(j) \/ Live!JobRetry(j) \/ Live!JobFails(j)
  <2>1. UNCHANGED tentative
    BY <1>9 DEF Live!JobBlock, Live!JobHandle, Live!JobRetry, Live!JobFails, Live!tables
  <2>2. /\ \A k \in Jobs : k # j => job'[k] = job[k]
        /\ job'[j].pc = "idle" \/ /\ job'[j].sig = job[j].sig /\ job'[j].slot = job[j].slot
                                  /\ job[j].pc \in {"block", "handle"}
    <3>1. CASE Live!JobBlock(j)
      BY <1>5, <3>1 DEF Live!JobBlock, LP!JobRecord
    <3>2. CASE Live!JobHandle(j)
      BY <1>5, <3>2 DEF Live!JobHandle, LP!JobRecord
    <3>3. CASE Live!JobRetry(j)
      BY <1>5, <3>3 DEF Live!JobRetry, LP!JobRecord
    <3>4. CASE Live!JobFails(j)
      BY <1>5, <3>4 DEF Live!JobFails, Live!NoJob
    <3> QED
      BY <1>9, <3>1, <3>2, <3>3, <3>4
  <2>3. JobsFinal'
    BY <1>6, <2>2 DEF JobsFinal
  <2> QED
    BY <1>1, <1>2, <1>3, <2>1, <2>3 DEF RowsFinal, InTentative, InProcessed
<1> QED
  BY <1>7, <1>8, <1>9 DEF Live!JobStep

LEMMA EnginePlaced ==
  ASSUME IPlaced, EngineStep
  PROVE  RowsFinal' /\ JobsFinal' /\ TasksFinal'
<1> USE DEF IPlaced, EngineStep
<1>1. UNCHANGED <<job, task, chainVars>>
  BY DEF OnlyBackfill, liveVars, chainVars, Backfill!chainVars,
    Backfill!EngineStep, Backfill!ManagerTick,
    Backfill!ManagerStop, Backfill!PlanRange, Backfill!StartBackfill, Backfill!StartRange,
    Backfill!BeginSlot, Backfill!EndRange, Backfill!ReadFinalizedHash,
    Backfill!ReadTentativeHash, Backfill!CompareHash, Backfill!RollbackTentative,
    Backfill!RollbackProcessed, Backfill!RollbackFinalized, Backfill!FetchBlock,
    Backfill!SkipSlot, Backfill!JoinTasks, Backfill!FinalizeSlot, Backfill!SaveSlot,
    Backfill!NotifyRange, Backfill!CompleteBackfill, Backfill!AbortRange,
    Backfill!OnlyEngine, Backfill!Env
<1>2. JobsFinal' /\ TasksFinal'
  BY <1>1 DEF JobsFinal, TasksFinal, OnFinal, TxsAt, chainVars
<1>3. CASE UNCHANGED <<processed, tentative>>
  BY <1>1, <1>2, <1>3, RowsMoved DEF InProcessed, InTentative
<1>4. CASE \/ Backfill!RollbackTentative \/ Backfill!RollbackProcessed
           \/ Backfill!FinalizeSlot
  <2>1. \A sig \in Sigs : InTentative(sig)' => tentative'[sig] = tentative[sig]
    BY <1>4
    DEF Backfill!RollbackTentative, Backfill!RollbackProcessed, Backfill!FinalizeSlot,
      Backfill!DeleteTentative, Backfill!DeleteProcessed, Backfill!PromoteTentative,
      Backfill!InsertFinalized, InTentative, Backfill!NoRow, NoRow, Backfill!NoSlot, NoSlot
  <2>2. \A sig \in Sigs : InProcessed(sig)' =>
          \/ processed'[sig] = processed[sig]
          \/ InTentative(sig) /\ processed'[sig] = tentative[sig].slot
    BY <1>4, SlotsAtHand
    DEF Backfill!RollbackTentative, Backfill!RollbackProcessed, Backfill!FinalizeSlot,
      Backfill!DeleteTentative, Backfill!DeleteProcessed, Backfill!PromoteTentative,
      Backfill!InsertFinalized, Backfill!TentativeAt, InProcessed, InTentative,
      Backfill!InProcessed, Backfill!NoSlot, NoSlot, NoRow, Slots
  <2> QED
    BY <1>1, <1>2, <2>1, <2>2, RowsMoved
<1>5. \/ UNCHANGED <<processed, tentative>>
      \/ Backfill!RollbackTentative \/ Backfill!RollbackProcessed \/ Backfill!FinalizeSlot
  BY DEF Backfill!EngineStep, Backfill!ManagerTick,
    Backfill!ManagerStop, Backfill!PlanRange, Backfill!StartBackfill, Backfill!StartRange,
    Backfill!BeginSlot, Backfill!EndRange, Backfill!ReadFinalizedHash,
    Backfill!ReadTentativeHash, Backfill!CompareHash, Backfill!RollbackFinalized,
    Backfill!DeleteFinalized, Backfill!FetchBlock, Backfill!SkipSlot, Backfill!JoinTasks,
    Backfill!SaveSlot, Backfill!SaveProgress, Backfill!NotifyRange,
    Backfill!CompleteBackfill, Backfill!MarkComplete, Backfill!AbortRange,
    Backfill!OnlyEngine, Backfill!tables
<1> QED
  BY <1>3, <1>4, <1>5

LEMMA TaskPlaced ==
  ASSUME Commitment = "finalized", IPlaced, NEW x \in Sigs, TaskStep(x)
  PROVE  RowsFinal' /\ JobsFinal' /\ TasksFinal'
<1> USE DEF IPlaced, TaskStep
<1>1. UNCHANGED <<job, chainVars>>
  BY DEF OnlyBackfill, liveVars, chainVars, Backfill!chainVars, Backfill!TaskStep,
    Backfill!SpawnTask, Backfill!TaskFetch, Backfill!TaskHandle, Backfill!TaskFinalize,
    Backfill!TaskMark, Backfill!TaskFails, Backfill!Env
<1>2. \A sig, s : OnFinal(sig, s) => OnFinal(sig, s)'
  BY <1>1 DEF OnFinal, TxsAt, chainVars
<1>3. JobsFinal'
  BY <1>1, <1>2 DEF JobsFinal
<1>4. task \in [Sigs -> [pc : BP!TaskPcs, slot : BP!Slots \union {BP!NoSlot}]]
  BY DEF IShared, BP!IBlock, BP!IType, BP!TypeOK, BP!BackfillTypeOK
<1>5. ASSUME \A sig \in Sigs : sig # x => task'[sig] = task[sig],
             task'[x].pc \notin {"idle", "fetch"} => OnFinal(x, task'[x].slot)
      PROVE  TasksFinal'
  BY <1>2, <1>5 DEF TasksFinal
<1>6. CASE Backfill!TaskFetch(x)
  <2>1. PICK s \in Backfill!SlotsOfTx(x) :
           task' = [task EXCEPT ![x] = [pc |-> "handle", slot |-> s]]
    BY <1>6 DEF Backfill!TaskFetch, Backfill!SetTask
  <2>2. TasksFinal'
    BY <1>4, <1>5, <2>1, AnswersFinal
  <2>3. UNCHANGED <<processed, tentative>>
    BY <1>6 DEF Backfill!TaskFetch, Backfill!tables
  <2> QED
    BY <1>1, <1>3, <2>2, <2>3, RowsMoved DEF InProcessed, InTentative
<1>7. CASE Backfill!TaskMark(x)
  <2>1. task[x].pc = "mark" /\ OnFinal(x, task[x].slot)
    BY <1>7 DEF Backfill!TaskMark, TasksFinal
  <2>2. TasksFinal'
    BY <1>4, <1>5, <1>7 DEF Backfill!TaskMark, Backfill!SetTask, Backfill!IdleTask
  <2>3. \A sig \in Sigs : processed'[sig] = processed[sig]
                          \/ (sig = x /\ processed'[sig] = task[x].slot)
    BY <1>7, SharedTypes DEF Backfill!TaskMark, Backfill!InsertProcessed, StorageTypeOK
  <2>4. UNCHANGED tentative
    BY <1>7 DEF Backfill!TaskMark, Backfill!InsertProcessed
  <2> QED
    BY <1>2, <1>3, <2>1, <2>2, <2>3, <2>4 DEF RowsFinal, InTentative, InProcessed
<1>8. CASE \/ Backfill!SpawnTask(x) \/ Backfill!TaskHandle(x) \/ Backfill!TaskFinalize(x)
           \/ Backfill!TaskFails(x)
  <2>1. /\ \A sig \in Sigs : sig # x => task'[sig] = task[sig]
        /\ \/ task'[x].pc \in {"idle", "fetch"}
           \/ task'[x].slot = task[x].slot /\ task[x].pc \notin {"idle", "fetch"}
    <3>1. CASE Backfill!SpawnTask(x)
      BY <1>4, <3>1 DEF Backfill!SpawnTask, Backfill!SetTask
    <3>2. CASE Backfill!TaskHandle(x)
      BY <1>4, <3>2 DEF Backfill!TaskHandle, Backfill!SetTask
    <3>3. CASE Backfill!TaskFinalize(x)
      BY <1>4, <3>3 DEF Backfill!TaskFinalize, Backfill!SetTask
    <3>4. CASE Backfill!TaskFails(x)
      BY <1>4, <3>4 DEF Backfill!TaskFails, Backfill!SetTask, Backfill!IdleTask
    <3> QED
      BY <1>8, <3>1, <3>2, <3>3, <3>4
  <2>2. TasksFinal'
    BY <1>5, <2>1 DEF TasksFinal
  <2>3. \A sig \in Sigs : InTentative(sig)' => tentative'[sig] = tentative[sig]
    BY <1>8
    DEF Backfill!SpawnTask, Backfill!TaskHandle, Backfill!TaskFinalize, Backfill!TaskFails,
      Backfill!tables, Backfill!DeleteTentative, Backfill!PromoteTentative,
      Backfill!InsertFinalized, InTentative, Backfill!NoRow, NoRow, Backfill!NoSlot, NoSlot
  <2>4. \A sig \in Sigs : InProcessed(sig)' =>
          \/ processed'[sig] = processed[sig]
          \/ InTentative(sig) /\ processed'[sig] = tentative[sig].slot
    BY <1>8, SlotsAtHand
    DEF Backfill!SpawnTask, Backfill!TaskHandle, Backfill!TaskFinalize, Backfill!TaskFails,
      Backfill!tables, Backfill!DeleteTentative, Backfill!PromoteTentative,
      Backfill!InsertFinalized, Backfill!TentativeAt, InProcessed, InTentative,
      Backfill!InProcessed, Backfill!NoSlot, NoSlot, NoRow, Slots
  <2> QED
    BY <1>1, <1>3, <2>2, <2>3, <2>4, RowsMoved
<1> QED
  BY <1>6, <1>7, <1>8 DEF Backfill!TaskStep

LEMMA PollPlaced ==
  ASSUME IPlaced, PollStep
  PROVE  RowsFinal' /\ JobsFinal' /\ TasksFinal'
<1> USE DEF IPlaced
<1>1. UNCHANGED <<tables, chainVars>>
  BY PollKeepsTables
<1>2. \A sig, s : OnFinal(sig, s) => OnFinal(sig, s)'
  BY <1>1 DEF OnFinal, TxsAt, chainVars
<1>3. RowsFinal'
  BY <1>1, RowsMoved DEF tables, InProcessed, InTentative
<1>4. UNCHANGED task \/ \A sig \in Sigs : task'[sig].pc = "idle"
  BY DEF PollStep, OnlyLive, backfillVars, Backfill!ResetEngine, Backfill!IdleTask
<1>5. TasksFinal'
  BY <1>2, <1>4 DEF TasksFinal
<1>6. \A k \in Jobs : job'[k].pc \in {"block", "handle", "mark"} =>
        job'[k].pc = job[k].pc /\ job'[k].sig = job[k].sig /\ job'[k].slot = job[k].slot
  <2>1. job \in [Jobs -> LP!JobRecord]
    BY DEF IShared, LP!ILive, LP!TypeOK
  <2>2. CASE Live!SpawnJob
    <3> DEFINE free == CHOOSE k \in Live!FreeJobs : TRUE
    <3>1. free \in Jobs
      BY <2>2 DEF Live!SpawnJob, Live!FreeJobs
    <3>2. job'[free].pc = "fetch" /\ \A k \in Jobs : k # free => job'[k] = job[k]
      BY <2>1, <2>2, <3>1 DEF Live!SpawnJob, Live!NoJob
    <3> HIDE DEF free
    <3> QED
      BY <3>2
  <2>3. CASE Live!AbandonPoll
    BY <2>1, <2>3 DEF Live!AbandonPoll, LP!JobRecord
  <2>4. CASE Live!StopOnError
    BY <2>4 DEF Live!StopOnError, Live!NoJob
  <2>5. CASE UNCHANGED job
    BY <2>5
  <2>6. Live!SpawnJob \/ Live!AbandonPoll \/ Live!StopOnError \/ UNCHANGED job
    BY DEF PollStep, Live!PollStep, Live!Boot, Live!NextProgram, Live!Checkpoint, Live!Tick,
       Live!Receive, Live!CheckProcessed, Live!CheckTentative, Live!JoinJobs, Live!OnlyPoll
  <2> QED
    BY <2>2, <2>3, <2>4, <2>5, <2>6
<1>7. JobsFinal'
  BY <1>2, <1>6 DEF JobsFinal
<1> QED
  BY <1>3, <1>5, <1>7

LEMMA StepPlaced ==
  ASSUME Commitment = "finalized", IPlaced, [Next]_vars
  PROVE  IPlaced'
<1> SUFFICES RowsFinal' /\ JobsFinal' /\ TasksFinal'
  BY StepShared DEF IPlaced
<1> USE DEF IPlaced
<1>1. ASSUME UNCHANGED <<tables, job, task>>, ChainNext \/ UNCHANGED chainVars
      PROVE  RowsFinal' /\ JobsFinal' /\ TasksFinal'
  <2>1. \A sig, s : OnFinal(sig, s) => OnFinal(sig, s)'
    BY <1>1, FinalStays
  <2> QED
    BY <1>1, <2>1 DEF RowsFinal, JobsFinal, TasksFinal, tables, InProcessed, InTentative
<1>2. CASE CleanupReads \/ UNCHANGED vars
  BY <1>1, <1>2 DEF CleanupReads, OnlyCleanup, vars, liveVars, backfillVars
<1>3. CASE ClusterStep
  <2>1. UNCHANGED <<tables, job, task>>
    BY <1>3 DEF ClusterStep, Live!ClusterStep, OnlyLive, Live!tables, tables, backfillVars,
       Live!liveVars
  <2>2. ChainNext
    BY <1>3 DEF ClusterStep, Live!ClusterStep, Live!ChainNext, ChainNext, Live!Confirm, Confirm,
       Live!Finalize, Finalize, Live!Reorg, Reorg, Live!WellFormed, WellFormed, Live!TxsAt,
       TxsAt, Live!Slots, Slots
  <2> QED
    BY <1>1, <2>1, <2>2
<1>4. CASE CleanupDeletes
  <2>1. UNCHANGED <<processed, job, task, chainVars>>
    BY <1>4 DEF CleanupDeletes, DeleteStaleTentative, OnlyCleanup, liveVars, backfillVars
  <2>2. \A sig \in Sigs : InTentative(sig)' => tentative'[sig] = tentative[sig]
    BY <1>4 DEF CleanupDeletes, DeleteStaleTentative, InTentative
  <2>3. JobsFinal' /\ TasksFinal'
    BY <2>1 DEF JobsFinal, TasksFinal, OnFinal, TxsAt, chainVars
  <2> QED
    BY <2>1, <2>2, <2>3, RowsMoved
<1>5. CASE Restart
  <2>1. /\ UNCHANGED <<tables, chainVars>>
        /\ \A j \in Jobs : job'[j].pc = "idle"
        /\ \A sig \in Sigs : task'[sig].pc = "idle"
    BY <1>5 DEF Restart, Live!ResetLive, Live!NoJob, Backfill!ResetEngine, Backfill!IdleTask
  <2> QED
    BY <2>1, RowsMoved DEF tables, InTentative, InProcessed, JobsFinal, TasksFinal
<1> QED
  BY <1>2, <1>3, <1>4, <1>5, PollPlaced, JobPlaced, EnginePlaced, TaskPlaced DEF Next, Step

\* At the commitment level "finalized", and for all other settings, whatever
\* live tasks, the backfill and the cleanup do to each other's rows, no
\* transaction of a block that was replaced reaches the processed table.
THEOREM IndexerNoOrphans ==
  ASSUME Commitment = "finalized"
  PROVE  Spec => []Backfill!NoOrphanProcessed
<1>1. IPlaced => Backfill!NoOrphanProcessed
  BY DEF IPlaced, RowsFinal, OnFinal, Backfill!NoOrphanProcessed, Backfill!InProcessed,
     InProcessed, Backfill!NoSlot, NoSlot, Backfill!TxsAt, TxsAt
<1>2. IPlaced /\ [Next]_vars => IPlaced'
  BY StepPlaced
<1> QED
  BY InitPlaced, <1>1, <1>2, PTL DEF Spec
=============================================================================
