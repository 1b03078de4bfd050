-------------------------- MODULE BackfillFinality --------------------------
(***************************************************************************)
(* What the backfill guarantees when it is only ever asked for finalized   *)
(* slots (FinalRange): the manager without max_depth, or start_backfill,   *)
(* with an end_slot that was finalized when the process was deployed, or   *)
(* none, as by default.  For every chain, commitment level, concurrency,   *)
(* lag threshold and fault budget.                                         *)
(*                                                                         *)
(* The argument: the cursor stays within the finalized prefix, so the      *)
(* block at hand cannot change under the engine and its tasks (AtHand);    *)
(* hence every stored hash is the chain's (StoredOnChain), and a rollback  *)
(* can only start at a slot without one (Evidence); by ProcessedHasBlock   *)
(* such a slot has no processed rows, so none is ever deleted.  What is    *)
(* then left to show is that no slot is passed over (Swept), that none is  *)
(* done twice (Handled), and that a slot's tentative rows are its block's  *)
(* by the time they are promoted (Clean).                                  *)
(***************************************************************************)
EXTENDS BackfillProofs

FinalRange ==
  /\ EntryPoint = "manager" => Config.maxDepth = None
  /\ Config.end # None => Config.end <= InitialTip

InRange == DetectPcs \union SlotPcs

Cursor ==
  /\ EntryPoint = "manager" => eng.pc \notin {"latest", "complete"}
  /\ eng.pc = "load" => EntryPoint = "manager" /\ eng.latest <= root
  /\ InitialTip <= root /\ progress.last <= root
  /\ eng.pc \in InRange => eng.end <= root
  /\ eng.pc \in InRange \ {"loop"} => eng.cur <= eng.end

AtHand ==
  /\ eng.pc \in HashPcs => eng.hash = chain[eng.cur]
  /\ eng.pc = "tasks" => eng.todo \subseteq TxsAt(chain, eng.cur)
  /\ \A sig \in Sigs :
       /\ task[sig].pc # "idle" => sig \in TxsAt(chain, eng.cur)
       /\ task[sig].pc \in PlacedTaskPcs => task[sig].slot = eng.cur

StoredOnChain ==
  \A s \in Slots : HasBlock(s) => s <= root /\ finalized[s] = chain[s]

Evidence ==
  /\ eng.pc \in {"hash2", "rollback1", "rollback2", "rollback3"} => ~HasBlock(eng.cur)
  /\ eng.pc = "compare" => ~HasBlock(eng.cur) \/ eng.hash = chain[eng.cur]

IFinal == IBlock /\ WellFormed(chain) /\ Cursor /\ AtHand /\ StoredOnChain /\ Evidence

-----------------------------------------------------------------------------
LEMMA InitFinal == FinalRange /\ Init => IFinal
<1> SUFFICES ASSUME FinalRange, Init PROVE IFinal
  OBVIOUS
<1> USE TypesAssumption, ChainAssumption
<1>1. IBlock /\ WellFormed(chain)
  BY InitBlock DEF Init, ChainInit
<1>2. /\ eng = IdleEngine /\ eng.pc = "idle" /\ \A sig \in Sigs : task[sig].pc = "idle"
      /\ \A s \in Slots : finalized[s] = NoHash
      /\ progress.last = -1 /\ root = InitialTip /\ root \in Nat
  BY DEF Init, EngineInit, ChainInit, IdleEngine, IdleTask, NoSlot, Slots
<1>3. Cursor /\ AtHand /\ StoredOnChain /\ Evidence
  BY <1>2 DEF Cursor, AtHand, StoredOnChain, Evidence, HasBlock, InRange, DetectPcs, SlotPcs,
              HashPcs, PlacedTaskPcs
<1> QED
  BY <1>1, <1>3 DEF IFinal

\* On a well-formed chain a transaction is found where it is, and only there.
LEMMA OneSlot ==
  ASSUME WellFormed(chain), NEW s \in Slots, NEW sig \in TxsAt(chain, s),
         NEW t \in SlotsOfTx(sig)
  PROVE  t = s
  BY DEF WellFormed, SlotsOfTx

\* The finalized prefix of the chain does not change.
LEMMA FinalPrefix ==
  ASSUME ChainTypeOK, ChainNext
  PROVE  /\ root' >= root
         /\ \A s \in Slots : s <= root => chain'[s] = chain[s]
         /\ WellFormed(chain) => WellFormed(chain')
<1> USE TypesAssumption DEF ChainTypeOK, Slots
<1>1. CASE Confirm
  BY <1>1 DEF Confirm
<1>2. CASE Finalize
  BY <1>2 DEF Finalize
<1>3. CASE Reorg
  BY <1>3 DEF Reorg
<1> QED
  BY <1>1, <1>2, <1>3 DEF ChainNext

\* What a step of the cluster leaves of the invariant.
LEMMA FinalCluster ==
  ASSUME IFinal, ClusterStep
  PROVE  IFinal'
<1> USE DEF IFinal
<1>1. IBlock'
  BY BlockOther
<1>2. UNCHANGED <<processed, tentative, finalized, progress, eng, task>> /\ ChainNext
  BY DEF ClusterStep, tables, engineVars
<1>3. IType /\ ChainTypeOK
  BY DEF IBlock, IType, TypeOK
<1>4. /\ WellFormed(chain')
      /\ root \in Nat /\ root' \in Nat /\ root' >= root
      /\ \A s \in Slots : s <= root => chain'[s] = chain[s]
  <2>1. ChainTypeOK'
    BY <1>1 DEF IBlock, IType, TypeOK
  <2> QED
    BY <1>2, <1>3, <2>1, FinalPrefix DEF ChainTypeOK
<1>5. eng.cur \in Int /\ eng.end \in Int /\ progress.last \in Int /\ eng.latest \in Int
  BY <1>3, TypesAssumption
     DEF IType, TypeOK, BackfillTypeOK, StorageTypeOK, Slots, NoSlot
<1>6. eng.pc \in HashPcs \union BlockPcs => eng.cur \in Slots /\ eng.cur <= root
  BY <1>3, <1>4, <1>5
     DEF Cursor, InRange, DetectPcs, SlotPcs, HashPcs, BlockPcs, IType, Locals, EngineKnows
<1>7. Cursor'
  BY <1>2, <1>4, <1>5, ChainAssumption DEF Cursor, Slots
<1>8. eng.pc \in HashPcs \union BlockPcs => chain'[eng.cur] = chain[eng.cur]
  BY <1>4, <1>6
<1>9. \A sig \in Sigs : task[sig].pc # "idle" => eng.pc = "tasks"
  BY <1>3 DEF IType, Locals, TasksKnow
<1>10. AtHand'
  BY <1>2, <1>8, <1>9 DEF AtHand, HashPcs, TxsAt
<1>11. StoredOnChain'
  BY <1>2, <1>4, <1>5 DEF StoredOnChain, HasBlock, Slots
<1>12. Evidence'
  BY <1>2, <1>8 DEF Evidence, HasBlock, BlockPcs
<1> QED
  BY <1>1, <1>4, <1>7, <1>10, <1>11, <1>12

-----------------------------------------------------------------------------
LEMMA Numbers ==
  ASSUME IBlock
  PROVE  /\ eng.cur \in Int /\ eng.end \in Int /\ eng.latest \in Nat
         /\ progress.last \in Int /\ root \in Nat /\ root <= MaxSlot
         /\ progress.last \in OptionNat
         /\ eng.pc \in RangePcs => eng.cur \in Nat
         /\ eng.pc \in BlockPcs \union HashPcs => eng.cur \in Slots
<1>1. IType
  BY DEF IBlock
<1>2. TypeOK
  BY <1>1 DEF IType
<1>3. root \in Nat /\ root <= MaxSlot /\ progress.last \in OptionNat /\ eng.latest \in Nat
  BY <1>2, NumberTypes, TypesAssumption DEF Slots
<1>4. eng.cur \in Int /\ eng.end \in Int /\ progress.last \in Int
  BY <1>2, <1>3 DEF TypeOK, BackfillTypeOK, OptionNat, None
<1> QED
  BY <1>1, <1>3, <1>4 DEF IType, Locals, EngineKnows

\* The steps that leave the tables and the tasks alone.
LEMMA FinalQuiet ==
  ASSUME FinalRange, IFinal, IBlock', UNCHANGED <<tables, task, chainVars>>,
         \/ ManagerTick \/ ManagerStop \/ PlanRange \/ StartBackfill \/ StartRange
         \/ BeginSlot \/ EndRange \/ ReadFinalizedHash \/ ReadTentativeHash
         \/ CompareHash \/ FetchBlock \/ SkipSlot \/ JoinTasks \/ NotifyRange
         \/ AbortRange
  PROVE  IFinal'
<1>1. IBlock /\ IType /\ TypeOK /\ ChainTypeOK /\ BackfillTypeOK
  BY DEF IFinal, IBlock, IType, TypeOK
<1>2. UNCHANGED <<processed, tentative, finalized, progress, chain, root>>
  BY DEF tables, chainVars
<1>3. WellFormed(chain') /\ StoredOnChain'
  BY <1>2 DEF IFinal, StoredOnChain, HasBlock, WellFormed, TxsAt
<1>4. \A sig \in Sigs : task[sig].pc # "idle" => eng.pc = "tasks"
  BY <1>1 DEF IType, Locals, TasksKnow
<1> SUFFICES Cursor' /\ AtHand' /\ Evidence'
  BY <1>3 DEF IFinal
<1>5. /\ eng \in [pc : ManagerPcs \union DetectPcs \union SlotPcs, latest : Slots, cur : Int,
                  start : Int, end : Int, hash : StoredHashes \union {NoHash}, todo : SUBSET Sigs]
      /\ Cursor /\ AtHand /\ Evidence
  BY <1>1 DEF BackfillTypeOK, IFinal
<1> USE <1>2, <1>4, <1>5, Numbers, <1>1
        DEF Cursor, AtHand, Evidence, HasBlock, InRange, DetectPcs, SlotPcs, HashPcs,
            BlockPcs, RangePcs, PlacedTaskPcs, Goto
<1>6. CASE ManagerTick
  BY <1>6 DEF ManagerTick
<1>7. CASE ManagerStop
  BY <1>7 DEF ManagerStop, IdleEngine
<1>8. CASE PlanRange
  <2> DEFINE range == NextRange(Config, eng.latest, progress.last)
  <2>1. CASE range = NoRange
    BY <1>8, <2>1 DEF PlanRange, IdleEngine
  <2>2. CASE range # NoRange
    <3>1. eng.pc = "load" /\ EntryPoint = "manager" /\ eng.latest <= root /\ InitialTip <= root
      BY <1>8 DEF PlanRange
    <3>2. range.end <= root /\ range.end \in Nat /\ range.start \in Nat
      <4>1. range.end \in Nat /\ range.start \in Nat /\ Config \in TriggerConfig
        BY <2>2, RangeIsBounded, BackfillAssumption
      <4>2. CASE Config.end = None
        BY <2>2, <3>1, <4>1, <4>2, StaysFinalized DEF FinalRange
      <4>3. CASE Config.end # None
        BY <2>2, <3>1, <4>1, <4>3, StaysWithinEnd, ChainAssumption
           DEF FinalRange, TriggerConfig, OptionNat, Slots
      <4> QED
        BY <4>2, <4>3
    <3>3. eng' = [pc |-> "loop", latest |-> 0, cur |-> range.start,
                  start |-> range.start, end |-> range.end, hash |-> NoHash, todo |-> {}]
      BY <1>8, <2>2 DEF PlanRange, IdleEngine
    <3> HIDE DEF range
    <3> QED
      BY <3>1, <3>2, <3>3
  <2> QED
    BY <2>1, <2>2
<1>9. CASE StartBackfill
  BY <1>9 DEF StartBackfill, IdleEngine
<1>20. CASE StartRange
  <2>1. (IF Config.end # None THEN Config.end ELSE root) <= root
    BY BackfillAssumption, ChainAssumption
       DEF FinalRange, TriggerConfig, OptionNat, None, Slots
  <2> QED
    BY <1>20, <2>1 DEF StartRange
<1>10. CASE BeginSlot
  BY <1>10 DEF BeginSlot
<1>11. CASE EndRange
  BY <1>11 DEF EndRange
<1>12. CASE ReadFinalizedHash
  <2>1. eng.pc = "hash1" /\ eng.cur \in Slots
    BY <1>12, TypesAssumption DEF ReadFinalizedHash, Slots
  <2>2. CASE HasBlock(eng.cur)
    <3>1. eng' = [eng EXCEPT !.pc = "compare", !.hash = finalized[eng.cur]]
      BY <1>12, <2>1, <2>2 DEF ReadFinalizedHash
    <3>2. finalized[eng.cur] = chain[eng.cur]
      BY <2>1, <2>2 DEF IFinal, StoredOnChain
    <3> QED
      BY <2>1, <3>1, <3>2
  <2>3. CASE ~HasBlock(eng.cur)
    <3>1. eng' = [eng EXCEPT !.pc = "hash2"]
      BY <1>12, <2>1, <2>3 DEF ReadFinalizedHash
    <3> QED
      BY <2>1, <2>3, <3>1
  <2> QED
    BY <2>2, <2>3
<1>13. CASE ReadTentativeHash
  BY <1>13 DEF ReadTentativeHash
<1>14. CASE CompareHash
  BY <1>14 DEF CompareHash
<1>15. CASE FetchBlock
  BY <1>15 DEF FetchBlock
<1>16. CASE SkipSlot
  <2>1. eng.pc = "fetch" /\ eng' = [eng EXCEPT !.pc = "loop", !.cur = eng.cur + 1]
    BY <1>16 DEF SkipSlot
  <2>2. eng'.pc = "loop" /\ eng'.cur = eng.cur + 1 /\ eng'.end = eng.end
    BY <2>1
  <2> QED
    BY <2>1, <2>2
<1>17. CASE JoinTasks
  BY <1>17 DEF JoinTasks
<1>18. CASE NotifyRange
  BY <1>18 DEF NotifyRange, IdleEngine
<1>19. CASE AbortRange
  BY <1>19 DEF AbortRange, IdleEngine
<1> QED
  BY <1>6, <1>7, <1>8, <1>9, <1>10, <1>11, <1>12, <1>13, <1>14, <1>15, <1>16, <1>17,
     <1>18, <1>19, <1>20

\* The engine's storage statements.
LEMMA FinalTables ==
  ASSUME FinalRange, IFinal, IBlock',
         \/ RollbackTentative \/ RollbackProcessed \/ RollbackFinalized
         \/ FinalizeSlot \/ SaveSlot \/ CompleteBackfill
  PROVE  IFinal'
<1>1. IBlock /\ IType /\ TypeOK /\ BackfillTypeOK /\ StorageTypeOK
  BY DEF IFinal, IBlock, IType, TypeOK
<1>2. UNCHANGED <<chain, root, task>>
  BY DEF RollbackTentative, RollbackProcessed, RollbackFinalized, FinalizeSlot, SaveSlot,
         CompleteBackfill, Env, chainVars
<1>3. \A sig \in Sigs : task[sig].pc # "idle" => eng.pc = "tasks"
  BY <1>1 DEF IType, Locals, TasksKnow
<1>4. WellFormed(chain')
  BY <1>2 DEF IFinal, WellFormed, TxsAt
<1> SUFFICES Cursor' /\ AtHand' /\ StoredOnChain' /\ Evidence'
  BY <1>4 DEF IFinal
<1>5. /\ eng \in [pc : ManagerPcs \union DetectPcs \union SlotPcs, latest : Slots, cur : Int,
                  start : Int, end : Int, hash : StoredHashes \union {NoHash}, todo : SUBSET Sigs]
      /\ finalized \in [Slots -> StoredHashes \union {NoHash}]
      /\ Cursor /\ AtHand /\ StoredOnChain /\ Evidence
  BY <1>1 DEF BackfillTypeOK, StorageTypeOK, IFinal
<1> USE <1>2, <1>3, <1>5, Numbers, <1>1
        DEF Cursor, AtHand, StoredOnChain, Evidence, HasBlock, InRange, DetectPcs, SlotPcs,
            HashPcs, BlockPcs, RangePcs, PlacedTaskPcs, Goto
<1>6. CASE RollbackTentative
  BY <1>6 DEF RollbackTentative, DeleteTentative
<1>7. CASE RollbackProcessed
  BY <1>7 DEF RollbackProcessed, DeleteProcessed
<1>8. CASE RollbackFinalized
  BY <1>8 DEF RollbackFinalized, DeleteFinalized
<1>9. CASE FinalizeSlot
  <2>1. CASE eng.pc = "final1"
    <3>1. /\ eng' = [eng EXCEPT !.pc = "final2"] /\ UNCHANGED progress
          /\ finalized' = [finalized EXCEPT ![eng.cur] = IF @ = NoHash THEN eng.hash ELSE @]
      BY <1>9, <2>1 DEF FinalizeSlot, InsertFinalized
    <3>2. eng.cur \in Slots /\ eng.cur <= root /\ eng.hash = chain[eng.cur]
      BY <2>1
    <3>3. StoredOnChain'
      BY <3>1, <3>2
    <3> QED
      BY <2>1, <3>1, <3>3
  <2>2. CASE eng.pc = "final2"
    BY <1>9, <2>2 DEF FinalizeSlot, PromoteTentative
  <2>3. CASE eng.pc = "final3"
    BY <1>9, <2>3 DEF FinalizeSlot, DeleteTentative
  <2> QED
    BY <1>9, <2>1, <2>2, <2>3 DEF FinalizeSlot
<1>10. CASE SaveSlot
  <2>1. /\ eng.pc = "save" /\ UNCHANGED finalized
        /\ eng' = [eng EXCEPT !.pc = "loop", !.cur = eng.cur + 1, !.hash = NoHash]
        /\ progress' = [progress EXCEPT !.last = eng.cur]
    BY <1>10 DEF SaveSlot, SaveProgress
  <2>2. eng'.pc = "loop" /\ eng'.cur = eng.cur + 1 /\ eng'.end = eng.end
    BY <2>1
  <2>3. progress'.last = eng.cur
    BY <2>1 DEF StorageTypeOK
  <2> QED
    BY <2>1, <2>2, <2>3
<1>11. CASE CompleteBackfill
  BY <1>11 DEF CompleteBackfill, MarkComplete, StorageTypeOK, IdleEngine
<1> QED
  BY <1>6, <1>7, <1>8, <1>9, <1>10, <1>11

LEMMA FinalTask ==
  ASSUME IFinal, NEW sig \in Sigs, TaskStep(sig)
  PROVE  IFinal'
<1>1. IBlock /\ IType /\ TypeOK /\ BackfillTypeOK /\ StorageTypeOK /\ IBlock'
  BY BlockTask DEF IFinal, IBlock, IType, TypeOK
<1>2. UNCHANGED <<chain, root, progress>>
  BY DEF TaskStep, SpawnTask, TaskFetch, TaskHandle, TaskFinalize, TaskMark, TaskFails, Env,
         chainVars, tables, InsertFinalized, PromoteTentative, DeleteTentative, InsertProcessed
<1>3. task[sig].pc # "idle" => eng.pc = "tasks"
  BY <1>1 DEF IType, Locals, TasksKnow
<1>4. WellFormed(chain) /\ WellFormed(chain')
  BY <1>2 DEF IFinal, WellFormed, TxsAt
<1> SUFFICES Cursor' /\ AtHand' /\ StoredOnChain' /\ Evidence'
  BY <1>1, <1>4 DEF IFinal
<1>5. /\ eng \in [pc : ManagerPcs \union DetectPcs \union SlotPcs, latest : Slots, cur : Int,
                  start : Int, end : Int, hash : StoredHashes \union {NoHash}, todo : SUBSET Sigs]
      /\ task \in [Sigs -> [pc : TaskPcs, slot : Slots \union {NoSlot}]]
      /\ finalized \in [Slots -> StoredHashes \union {NoHash}]
      /\ Cursor /\ AtHand /\ StoredOnChain /\ Evidence
  BY <1>1 DEF BackfillTypeOK, StorageTypeOK, IFinal
<1> USE <1>1, <1>2, <1>3, <1>4, <1>5, Numbers
        DEF Cursor, AtHand, StoredOnChain, Evidence, HasBlock, InRange, DetectPcs, SlotPcs,
            HashPcs, BlockPcs, RangePcs, PlacedTaskPcs, SetTask, IdleTask
<1>6. CASE SpawnTask(sig)
  BY <1>6 DEF SpawnTask, tables
<1>7. CASE TaskFetch(sig)
  <2>1. PICK s \in SlotsOfTx(sig) : task' = [task EXCEPT ![sig] = [pc |-> "handle", slot |-> s]]
    BY <1>7 DEF TaskFetch
  <2>2. s = eng.cur
    BY <1>7, <2>1, OneSlot DEF TaskFetch
  <2> QED
    BY <1>7, <2>1, <2>2 DEF TaskFetch, tables
<1>8. CASE TaskHandle(sig)
  BY <1>8 DEF TaskHandle, tables
<1>9. CASE TaskFinalize(sig)
  <2>1. CASE task[sig].pc = "final1"
    <3>1. /\ task' = [task EXCEPT ![sig] = [task[sig] EXCEPT !.pc = "final2"]] /\ UNCHANGED eng
          /\ finalized' = [finalized EXCEPT ![eng.cur] = IF @ = NoHash THEN eng.hash ELSE @]
      BY <1>9, <2>1 DEF TaskFinalize, InsertFinalized
    <3>2. eng.cur \in Slots /\ eng.cur <= root /\ eng.hash = chain[eng.cur]
      BY <2>1
    <3>3. StoredOnChain'
      BY <3>1, <3>2
    <3> QED
      BY <2>1, <3>1, <3>3
  <2>2. CASE task[sig].pc = "final2"
    BY <1>9, <2>2 DEF TaskFinalize, PromoteTentative
  <2>3. CASE task[sig].pc = "final3"
    BY <1>9, <2>3 DEF TaskFinalize, DeleteTentative
  <2> QED
    BY <1>9, <2>1, <2>2, <2>3 DEF TaskFinalize
<1>10. CASE TaskMark(sig)
  BY <1>10 DEF TaskMark, InsertProcessed
<1>11. CASE TaskFails(sig)
  BY <1>11 DEF TaskFails, tables
<1> QED
  BY <1>6, <1>7, <1>8, <1>9, <1>10, <1>11 DEF TaskStep

LEMMA StepFinal == FinalRange /\ IFinal /\ [Next]_vars => IFinal'
<1> SUFFICES ASSUME FinalRange, IFinal, [Next]_vars PROVE IFinal'
  OBVIOUS
<1>1. IBlock'
  BY StepBlock DEF IFinal
<1>2. CASE EngineStep
  <2>1. CASE \/ RollbackTentative \/ RollbackProcessed \/ RollbackFinalized
             \/ FinalizeSlot \/ SaveSlot \/ CompleteBackfill
    BY <1>1, <2>1, FinalTables
  <2>2. CASE \/ ManagerTick \/ ManagerStop \/ PlanRange \/ StartBackfill \/ StartRange
             \/ BeginSlot \/ EndRange \/ ReadFinalizedHash \/ ReadTentativeHash
             \/ CompareHash \/ FetchBlock \/ SkipSlot \/ JoinTasks \/ NotifyRange
             \/ AbortRange
    <3>1. UNCHANGED <<tables, task, chainVars>>
      BY <2>2 DEF ManagerTick, ManagerStop, PlanRange, StartBackfill, StartRange, BeginSlot,
         EndRange, ReadFinalizedHash, ReadTentativeHash, CompareHash, FetchBlock, SkipSlot,
         JoinTasks, NotifyRange, AbortRange, OnlyEngine, Env
    <3> QED
      BY <1>1, <2>2, <3>1, FinalQuiet
  <2> QED
    BY <1>2, <2>1, <2>2 DEF EngineStep
<1>3. ASSUME NEW sig \in Sigs, TaskStep(sig) PROVE IFinal'
  BY <1>3, FinalTask
<1>4. CASE ClusterStep
  BY <1>4, FinalCluster
<1>5. CASE Restart
  BY <1>1, <1>5
     DEF Restart, ResetEngine, tables, chainVars, IFinal, Cursor, AtHand, StoredOnChain,
         Evidence, HasBlock, WellFormed, TxsAt, IdleEngine, IdleTask, InRange, DetectPcs,
         SlotPcs, HashPcs, PlacedTaskPcs
<1>6. CASE Cancel \/ UNCHANGED vars
  <2>1. UNCHANGED <<processed, tentative, finalized, progress, chain, root, eng, task>>
    BY <1>6 DEF Cancel, vars, tables, chainVars, engineVars
  <2> QED
    BY <1>1, <2>1 DEF IFinal, Cursor, AtHand, StoredOnChain, Evidence, HasBlock, WellFormed,
                      TxsAt
<1> QED
  BY <1>2, <1>3, <1>4, <1>5, <1>6 DEF Next

\* What the rest of an indexer may do: write tentative rows, and end this part.
LEMMA FinalOutside ==
  ASSUME IFinal, IBlock', UNCHANGED <<processed, finalized, progress, chainVars>>,
         ResetEngine \/ UNCHANGED engineVars
  PROVE  IFinal'
<1>1. CASE ResetEngine
  BY <1>1
     DEF ResetEngine, chainVars, IFinal, Cursor, AtHand, StoredOnChain, Evidence, HasBlock,
         WellFormed, TxsAt, IdleEngine, IdleTask, InRange, DetectPcs, SlotPcs, HashPcs,
         PlacedTaskPcs
<1>2. CASE UNCHANGED engineVars
  BY <1>2 DEF engineVars, chainVars, IFinal, Cursor, AtHand, StoredOnChain, Evidence,
              HasBlock, WellFormed, TxsAt
<1> QED
  BY <1>1, <1>2

-----------------------------------------------------------------------------
\* The backfill only records finalized blocks.
THEOREM OnlyFinalized ==
  ASSUME FinalRange
  PROVE  Spec => []OnlyFinalizedStored
<1>1. IFinal => OnlyFinalizedStored
  BY DEF IFinal, StoredOnChain, HasBlock, OnlyFinalizedStored
<1>2. Init => IFinal
  BY InitFinal
<1>3. IFinal /\ [Next]_vars => IFinal'
  BY StepFinal
<1> QED
  BY <1>1, <1>2, <1>3, PTL DEF Spec

\* A rollback that deletes by slot number never deletes a processed row: it
\* only starts at a slot without a recorded block, and such a slot has none.
LEMMA RowsStay ==
  ASSUME IFinal, [Next]_vars
  PROVE  \A sig \in Sigs : InProcessed(sig) => processed'[sig] = processed[sig]
<1>1. IBlock /\ IType /\ StorageTypeOK
  BY DEF IFinal, IBlock, IType, TypeOK
<1>2. CASE RollbackProcessed
  <2>1. eng.pc = "rollback2" /\ ~HasBlock(eng.cur)
    BY <1>2 DEF RollbackProcessed, IFinal, Evidence
  <2>2. \A sig \in Sigs : InProcessed(sig) => processed[sig] # eng.cur
    BY <1>1, <2>1 DEF IBlock, ProcessedHasBlock, HasBlock
  <2> QED
    BY <1>1, <1>2, <2>2 DEF RollbackProcessed, DeleteProcessed, StorageTypeOK
<1> USE <1>1 DEF StorageTypeOK, InProcessed
<1>3. CASE FinalizeSlot
  BY <1>3 DEF FinalizeSlot, InsertFinalized, PromoteTentative, DeleteTentative
<1>4. ASSUME NEW sig \in Sigs, TaskStep(sig)
      PROVE  \A x \in Sigs : InProcessed(x) => processed'[x] = processed[x]
  <2>1. CASE TaskFinalize(sig)
    BY <2>1 DEF TaskFinalize, InsertFinalized, PromoteTentative, DeleteTentative
  <2>2. CASE TaskMark(sig)
    BY <2>2 DEF TaskMark, InsertProcessed
  <2>3. CASE SpawnTask(sig) \/ TaskFetch(sig) \/ TaskHandle(sig) \/ TaskFails(sig)
    BY <2>3 DEF SpawnTask, TaskFetch, TaskHandle, TaskFails, tables
  <2> QED
    BY <1>4, <2>1, <2>2, <2>3 DEF TaskStep
<1>5. CASE RollbackTentative \/ RollbackFinalized \/ SaveSlot \/ CompleteBackfill
  BY <1>5 DEF RollbackTentative, RollbackFinalized, SaveSlot, CompleteBackfill,
              DeleteTentative, DeleteFinalized, SaveProgress, MarkComplete
<1>6. CASE \/ ManagerTick \/ ManagerStop \/ PlanRange \/ StartBackfill \/ StartRange
           \/ BeginSlot \/ EndRange \/ ReadFinalizedHash \/ ReadTentativeHash
           \/ CompareHash \/ FetchBlock \/ SkipSlot \/ JoinTasks \/ NotifyRange
           \/ AbortRange \/ Restart \/ Cancel \/ ClusterStep \/ UNCHANGED vars
  BY <1>6 DEF ManagerTick, ManagerStop, PlanRange, StartBackfill, StartRange, BeginSlot,
     EndRange, ReadFinalizedHash, ReadTentativeHash, CompareHash, FetchBlock, SkipSlot,
     JoinTasks, NotifyRange, AbortRange, Restart, Cancel, ClusterStep, vars, OnlyEngine, tables
<1> QED
  BY <1>2, <1>3, <1>4, <1>5, <1>6 DEF Next, EngineStep

\* A processed row is never removed or changed.
THEOREM RowsImmutable ==
  ASSUME FinalRange
  PROVE  Spec => ProcessedRowsImmutable
<1>1. Init => IFinal
  BY InitFinal
<1>2. IFinal /\ [Next]_vars => IFinal'
  BY StepFinal
<1>3. IFinal /\ [Next]_vars =>
        [\A sig \in Sigs : InProcessed(sig) => processed'[sig] = processed[sig]]_vars
  BY RowsStay
<1> QED
  BY <1>1, <1>2, <1>3, PTL DEF Spec, ProcessedRowsImmutable

-----------------------------------------------------------------------------
(* No slot is passed over.                                                 *)

\* Backfilling resumes from the saved progress, as by default.
FromProgress == Config.start = None

WorkPcs == InRange \union {"latest", "notify", "complete"}

Accounted(sig) == InProcessed(sig) \/ sig \in lost

\* The transactions of the block at hand are to be spawned, being worked on,
\* or accounted for.
AtSlot ==
  /\ eng.pc = "tasks" => \A sig \in TxsAt(chain, eng.cur) :
       sig \in eng.todo \/ task[sig].pc # "idle" \/ Accounted(sig)
  /\ eng.pc \in HashPcs \ {"tasks"} => \A sig \in TxsAt(chain, eng.cur) : Accounted(sig)

\* The slots of the range that lie behind the cursor are done.
Behind ==
  eng.pc \in WorkPcs =>
    \A s \in Slots : eng.start <= s /\ s < eng.cur => s <= root /\ Indexed(s)

\* The range starts where the saved progress ends, or before.
Ahead ==
  /\ SweptSlotsIndexed
  /\ eng.pc \in WorkPcs \ {"notify"} => eng.start <= progress.last + 1
  /\ eng.pc \in InRange \union {"latest"} => progress.last < eng.cur

Swept == AtSlot /\ Behind /\ (FromProgress => Ahead)

LEMMA InitSwept == Init => Swept
<1> SUFFICES ASSUME Init PROVE Swept
  OBVIOUS
<1> eng.pc = "idle" /\ progress.last = -1
  BY DEF Init, EngineInit, IdleEngine, NoSlot
<1> QED
  BY TypesAssumption
     DEF Swept, AtSlot, Behind, Ahead, SweptSlotsIndexed, WorkPcs, InRange, DetectPcs, SlotPcs,
         HashPcs, Slots

LEMMA AccountedStays ==
  ASSUME IFinal, [Next]_vars, NEW sig \in Sigs, Accounted(sig)
  PROVE  Accounted(sig)'
<1>1. InProcessed(sig) => InProcessed(sig)'
  BY RowsStay DEF InProcessed
<1>2. StorageTypeOK
  BY DEF IFinal, IBlock, IType, TypeOK
<1>3. ASSUME NEW x \in Sigs, TaskMark(x) PROVE Accounted(sig)'
  <2>1. lost' = lost \ {x}
    BY <1>3 DEF TaskMark
  <2>2. x = sig => InProcessed(sig)'
    <3> SUFFICES ASSUME x = sig PROVE InProcessed(sig)'
      OBVIOUS
    <3>1. task[x].slot \in Slots
      BY <1>3 DEF TaskMark, IFinal, IBlock, IType, Locals, TasksKnow, PlacedTaskPcs
    <3> QED
      BY <1>2, <1>3, <3>1, TypesAssumption
         DEF TaskMark, InsertProcessed, InProcessed, StorageTypeOK, NoSlot, Slots
  <2> QED
    BY <1>1, <2>1, <2>2 DEF Accounted
<1>4. \/ lost \subseteq lost'
      \/ \E x \in Sigs : TaskMark(x)
  <2>1. ASSUME NEW x \in Sigs, TaskStep(x) PROVE lost \subseteq lost' \/ TaskMark(x)
    BY <2>1 DEF TaskStep, SpawnTask, TaskFetch, TaskHandle, TaskFinalize, TaskFails, Env,
                historyVars
  <2>2. CASE EngineStep
    BY <2>2 DEF EngineStep, ManagerTick, ManagerStop, PlanRange, StartBackfill, StartRange,
       BeginSlot, EndRange, ReadFinalizedHash, ReadTentativeHash, CompareHash,
       RollbackTentative, RollbackProcessed, RollbackFinalized, FetchBlock, SkipSlot,
       JoinTasks, FinalizeSlot, SaveSlot, NotifyRange, CompleteBackfill, AbortRange,
       OnlyEngine, Env, historyVars
  <2>3. CASE Restart \/ Cancel \/ ClusterStep \/ UNCHANGED vars
    BY <2>3 DEF Restart, ResetEngine, Cancel, ClusterStep, vars, historyVars
  <2> QED
    BY <2>1, <2>2, <2>3 DEF Next
<1> QED
  BY <1>1, <1>3, <1>4 DEF Accounted

LEMMA TxsAreSigs ==
  ASSUME ChainTypeOK, NEW s \in Slots
  PROVE  TxsAt(chain, s) \subseteq Sigs
  BY ChainAssumption DEF ChainTypeOK, TxsAt

\* What is finalized stays as it is.
LEMMA RootStays ==
  ASSUME IFinal, [Next]_vars
  PROVE  /\ root \in Nat /\ root' \in Nat /\ root <= root'
         /\ \A s \in Slots : s <= root => chain'[s] = chain[s]
<1>1. ChainNext \/ UNCHANGED <<chain, root>>
  <2>1. ASSUME NEW x \in Sigs, TaskStep(x) PROVE UNCHANGED <<chain, root>>
    BY <2>1 DEF TaskStep, SpawnTask, TaskFetch, TaskHandle, TaskFinalize, TaskMark,
                TaskFails, Env, chainVars
  <2>2. CASE EngineStep
    BY <2>2 DEF EngineStep, ManagerTick, ManagerStop, PlanRange, StartBackfill, StartRange,
       BeginSlot, EndRange, ReadFinalizedHash, ReadTentativeHash, CompareHash,
       RollbackTentative, RollbackProcessed, RollbackFinalized, FetchBlock, SkipSlot,
       JoinTasks, FinalizeSlot, SaveSlot, NotifyRange, CompleteBackfill, AbortRange,
       OnlyEngine, Env, chainVars
  <2>3. CASE Restart \/ Cancel \/ ClusterStep \/ UNCHANGED vars
    BY <2>3 DEF Restart, Cancel, ClusterStep, vars, chainVars
  <2> QED
    BY <2>1, <2>2, <2>3 DEF Next
<1>2. IBlock /\ IBlock'
  BY StepBlock DEF IFinal
<1>3. ChainTypeOK /\ root \in Nat /\ root' \in Nat
  BY <1>2, Numbers DEF IBlock, IType, TypeOK, ChainTypeOK
<1> QED
  BY <1>1, <1>3, FinalPrefix

\* A finalized slot that is indexed stays so: missed only shrinks when the slot
\* it loses has been done after all.
LEMMA IndexedStays ==
  ASSUME IFinal, AtSlot, [Next]_vars, NEW s \in Slots, s <= root, Indexed(s)
  PROVE  s <= root' /\ Indexed(s)'
<1>1. s <= root' /\ TxsAt(chain', s) = TxsAt(chain, s)
  BY RootStays DEF TxsAt, Slots
<1>2. TxsAt(chain, s) \subseteq Sigs
  BY TxsAreSigs DEF IFinal, IBlock, IType, TypeOK
<1>3. \A sig \in Sigs : Accounted(sig) => Accounted(sig)'
  BY AccountedStays
<1>4. CASE missed \subseteq missed'
  BY <1>1, <1>2, <1>3, <1>4 DEF Indexed, Accounted, TxsAt
<1>5. CASE SaveSlot
  <2>1. missed' = missed \ {eng.cur} /\ eng.pc = "save"
    BY <1>5 DEF SaveSlot
  <2>2. CASE s = eng.cur
    BY <1>1, <1>2, <1>3, <2>1, <2>2 DEF AtSlot, HashPcs, Indexed, Accounted, TxsAt
  <2>3. CASE s # eng.cur
    BY <1>1, <1>2, <1>3, <2>1, <2>3 DEF Indexed, Accounted, TxsAt
  <2> QED
    BY <2>2, <2>3
<1>6. missed \subseteq missed' \/ SaveSlot
  <2>1. ASSUME NEW x \in Sigs, TaskStep(x) PROVE UNCHANGED missed
    BY <2>1 DEF TaskStep, SpawnTask, TaskFetch, TaskHandle, TaskFinalize, TaskMark, TaskFails,
       Env, historyVars
  <2>2. EngineStep => missed \subseteq missed' \/ SaveSlot
    BY DEF EngineStep, ManagerTick, ManagerStop, PlanRange, StartBackfill,
       StartRange, BeginSlot, EndRange, ReadFinalizedHash, ReadTentativeHash, CompareHash,
       RollbackTentative, RollbackProcessed, RollbackFinalized, FetchBlock, SkipSlot,
       JoinTasks, FinalizeSlot, NotifyRange, CompleteBackfill, AbortRange, OnlyEngine, Env,
       historyVars
  <2>3. Restart \/ Cancel \/ ClusterStep \/ UNCHANGED vars => UNCHANGED missed
    BY DEF Restart, ResetEngine, Cancel, ClusterStep, vars, historyVars
  <2> QED
    BY <2>1, <2>2, <2>3 DEF Next
<1> QED
  BY <1>4, <1>5, <1>6

\* Only save_progress moves last_slot.
LEMMA ProgressFrame ==
  ASSUME StorageTypeOK, [Next]_vars, ~SaveSlot
  PROVE  progress'.last = progress.last
<1>1. ASSUME NEW x \in Sigs, TaskStep(x) PROVE UNCHANGED progress
  BY <1>1 DEF TaskStep, SpawnTask, TaskFetch, TaskHandle, TaskFinalize, TaskMark, TaskFails,
     tables, InsertFinalized, PromoteTentative, DeleteTentative, InsertProcessed
<1>2. CASE CompleteBackfill
  BY <1>2 DEF CompleteBackfill, MarkComplete, StorageTypeOK
<1>3. CASE EngineStep /\ ~CompleteBackfill
  BY <1>3 DEF EngineStep, ManagerTick, ManagerStop, PlanRange, StartBackfill,
     StartRange, BeginSlot, EndRange, ReadFinalizedHash, ReadTentativeHash, CompareHash,
     RollbackTentative, RollbackProcessed, RollbackFinalized, FetchBlock, SkipSlot,
     JoinTasks, FinalizeSlot, NotifyRange, AbortRange, OnlyEngine, tables,
     DeleteTentative, DeleteProcessed, DeleteFinalized, InsertFinalized, PromoteTentative
<1>4. CASE Restart \/ Cancel \/ ClusterStep \/ UNCHANGED vars
  BY <1>4 DEF Restart, Cancel, ClusterStep, vars, tables
<1> QED
  BY <1>1, <1>2, <1>3, <1>4 DEF Next

LEMMA AtSlotBlock ==
  ASSUME IFinal, AtSlot, [Next]_vars, FetchBlock \/ JoinTasks \/ FinalizeSlot
  PROVE  AtSlot'
<1>1. /\ UNCHANGED <<progress, missed, chain, task>>
      /\ eng \in [pc : ManagerPcs \union DetectPcs \union SlotPcs, latest : Slots, cur : Int,
                  start : Int, end : Int, hash : StoredHashes \union {NoHash}, todo : SUBSET Sigs]
      /\ AtSlot /\ ChainTypeOK
  BY DEF FetchBlock, JoinTasks, FinalizeSlot, OnlyEngine, tables, Env, historyVars, chainVars,
         InsertFinalized, PromoteTentative, DeleteTentative, IFinal, IBlock, IType, TypeOK,
         BackfillTypeOK
<1>2. eng.pc \in HashPcs => TxsAt(chain, eng.cur) \subseteq Sigs
  BY <1>1, TxsAreSigs, Numbers DEF IFinal
<1> USE <1>1, <1>2 DEF AtSlot, InRange, DetectPcs, SlotPcs, HashPcs, Goto
<1>3. CASE FetchBlock
  BY <1>3 DEF FetchBlock, TxsAt
<1>4. CASE JoinTasks
  <2>1. \A sig \in Sigs : Accounted(sig) => Accounted(sig)'
    BY AccountedStays
  <2>2. \A sig \in TxsAt(chain, eng.cur) : Accounted(sig)
    BY <1>4 DEF JoinTasks, Running
  <2>3. eng' = [eng EXCEPT !.pc = "final1"] /\ eng.pc = "tasks"
    BY <1>4 DEF JoinTasks
  <2>4. \A sig \in TxsAt(chain, eng.cur) : Accounted(sig)'
    BY <2>1, <2>2, <2>3
  <2> QED
    BY <2>3, <2>4 DEF TxsAt
<1>5. CASE FinalizeSlot
  <2>1. \A sig \in Sigs : Accounted(sig) => Accounted(sig)'
    BY AccountedStays
  <2>2. eng.pc \in {"final1", "final2", "final3"} /\ eng'.pc \in {"final2", "final3", "save"}
        /\ eng'.cur = eng.cur
    BY <1>5 DEF FinalizeSlot
  <2>3. \A sig \in TxsAt(chain, eng.cur) : Accounted(sig)'
    BY <2>1, <2>2
  <2> QED
    BY <2>2, <2>3 DEF TxsAt
<1> QED
  BY <1>3, <1>4, <1>5

LEMMA AtSlotTask ==
  ASSUME IFinal, AtSlot, [Next]_vars, NEW x \in Sigs, TaskStep(x)
  PROVE  AtSlot'
<1>1. /\ UNCHANGED <<progress, missed, chain>> /\ UNCHANGED <<eng.pc, eng.cur>>
      /\ \A sig \in Sigs \ {x} : task'[sig] = task[sig] /\ (sig \in eng.todo => sig \in eng'.todo)
      /\ AtSlot /\ ChainTypeOK
  BY DEF TaskStep, SpawnTask, TaskFetch, TaskHandle, TaskFinalize, TaskMark, TaskFails, SetTask,
         Env, chainVars, historyVars, tables, InsertFinalized, PromoteTentative, DeleteTentative,
         InsertProcessed, IFinal, IBlock, IType, TypeOK,
         BackfillTypeOK
<1>2. eng.pc \in HashPcs => TxsAt(chain, eng.cur) \subseteq Sigs
  BY <1>1, TxsAreSigs, Numbers DEF IFinal
<1>3. \A sig \in Sigs : Accounted(sig) => Accounted(sig)'
  BY AccountedStays
<1>4. x \in eng.todo \/ task[x].pc # "idle" =>
        x \in eng'.todo \/ task'[x].pc # "idle" \/ Accounted(x)'
  <2> task \in [Sigs -> [pc : TaskPcs, slot : Slots \union {NoSlot}]]
    BY DEF IFinal, IBlock, IType, TypeOK, BackfillTypeOK
  <2>1. CASE SpawnTask(x) \/ TaskFetch(x) \/ TaskHandle(x) \/ TaskFinalize(x)
    BY <2>1 DEF SpawnTask, TaskFetch, TaskHandle, TaskFinalize, SetTask
  <2>2. CASE TaskMark(x)
    <3>1. task[x].slot \in Slots
      BY <2>2 DEF TaskMark, IFinal, IBlock, IType, Locals, TasksKnow, PlacedTaskPcs
    <3>2. StorageTypeOK
      BY DEF IFinal, IBlock, IType, TypeOK
    <3> QED
      BY <2>2, <3>1, <3>2
         DEF TaskMark, InsertProcessed, InProcessed, Accounted, NoSlot, Slots, StorageTypeOK
  <2>3. CASE TaskFails(x)
    BY <2>3 DEF TaskFails, Accounted
  <2> QED
    BY <2>1, <2>2, <2>3 DEF TaskStep
<1>5. \A sig \in TxsAt(chain', eng'.cur) : sig \in TxsAt(chain, eng.cur)
  BY <1>1 DEF TxsAt
<1>6. eng'.pc = "tasks" => \A sig \in TxsAt(chain', eng'.cur) :
        sig \in eng'.todo \/ task'[sig].pc # "idle" \/ Accounted(sig)'
  <2> SUFFICES ASSUME eng'.pc = "tasks", NEW sig \in TxsAt(chain', eng'.cur)
               PROVE  sig \in eng'.todo \/ task'[sig].pc # "idle" \/ Accounted(sig)'
    OBVIOUS
  <2>1. eng.pc = "tasks" /\ sig \in TxsAt(chain, eng.cur) /\ sig \in Sigs
    BY <1>1, <1>2, <1>5 DEF HashPcs
  <2>2. sig \in eng.todo \/ task[sig].pc # "idle" \/ Accounted(sig)
    BY <1>1, <2>1 DEF AtSlot
  <2> QED
    BY <1>1, <1>3, <1>4, <2>1, <2>2
<1>7. eng'.pc \in HashPcs \ {"tasks"} => \A sig \in TxsAt(chain', eng'.cur) : Accounted(sig)'
  BY <1>1, <1>2, <1>3, <1>5 DEF AtSlot, TxsAt
<1> QED
  BY <1>6, <1>7 DEF AtSlot, TxsAt

LEMMA AtSlotCluster ==
  ASSUME IFinal, AtSlot, [Next]_vars, ClusterStep
  PROVE  AtSlot'
<1>1. /\ UNCHANGED <<processed, progress, eng, task, lost, missed>> /\ ChainNext
      /\ AtSlot /\ ChainTypeOK
  BY DEF ClusterStep, tables, engineVars, historyVars, IFinal, IBlock, IType, TypeOK
<1>2. eng.pc \in HashPcs => eng.cur \in Slots /\ eng.cur <= root
  BY Numbers DEF IFinal, Cursor, InRange, DetectPcs, SlotPcs, HashPcs
<1>3. eng.pc \in HashPcs => chain'[eng.cur] = chain[eng.cur]
  BY <1>1, <1>2, FinalPrefix
<1> QED
  BY <1>1, <1>3 DEF AtSlot, TxsAt, Accounted, InProcessed, HashPcs

LEMMA GivesUp ==
  ASSUME ManagerStop \/ NotifyRange \/ CompleteBackfill \/ AbortRange \/ Restart
  PROVE  eng'.pc \in {"idle", "stopped"}
<1>1. \/ eng' = [IdleEngine EXCEPT !.pc = IF EntryPoint = "manager" THEN "idle" ELSE "stopped"]
      \/ eng' = [IdleEngine EXCEPT !.pc = "stopped"]
      \/ eng' = IdleEngine
  BY DEF ManagerStop, NotifyRange, CompleteBackfill, AbortRange, Restart, ResetEngine
<1> QED
  BY <1>1 DEF IdleEngine

\* Where a step takes the engine.
LEMMA Moves ==
  ASSUME IFinal, [Next]_vars
  PROVE  \/ eng'.pc \notin WorkPcs
         \/ /\ eng.pc \in WorkPcs
            /\ eng'.start = eng.start /\ eng'.cur = eng.cur
            /\ eng'.pc \in InRange \union {"latest"} => eng.pc \in InRange \union {"latest"}
            /\ eng'.pc # "notify" => eng.pc # "notify"
            /\ \/ StartRange
               \/ eng'.end = eng.end /\ (eng'.pc # "latest" => eng.pc # "latest")
            /\ eng'.pc \in {"notify", "complete"} => EndRange \/ eng.pc = eng'.pc
         \/ SkipSlot \/ SaveSlot \/ PlanRange \/ StartBackfill
<1>1. eng \in [pc : ManagerPcs \union DetectPcs \union SlotPcs, latest : Slots, cur : Int,
               start : Int, end : Int, hash : StoredHashes \union {NoHash}, todo : SUBSET Sigs]
  BY DEF IFinal, IBlock, IType, TypeOK, BackfillTypeOK
<1> USE <1>1 DEF WorkPcs, InRange, DetectPcs, SlotPcs, Goto, IdleEngine
<1>2. CASE ManagerTick
  BY <1>2 DEF ManagerTick
<1>8. CASE ManagerStop \/ NotifyRange \/ CompleteBackfill \/ AbortRange \/ Restart
  BY <1>8, GivesUp
<1>3. CASE StartRange \/ BeginSlot \/ EndRange
  BY <1>3 DEF StartRange, BeginSlot, EndRange
<1>4. CASE ReadFinalizedHash \/ ReadTentativeHash \/ CompareHash
  BY <1>4 DEF ReadFinalizedHash, ReadTentativeHash, CompareHash
<1>5. CASE RollbackTentative \/ RollbackProcessed \/ RollbackFinalized
  BY <1>5 DEF RollbackTentative, RollbackProcessed, RollbackFinalized
<1>6. CASE FetchBlock \/ JoinTasks \/ FinalizeSlot
  BY <1>6 DEF FetchBlock, JoinTasks, FinalizeSlot
<1>7. ASSUME NEW x \in Sigs, TaskStep(x) PROVE UNCHANGED <<eng.pc, eng.start, eng.cur, eng.end>>
  BY <1>7 DEF TaskStep, SpawnTask, TaskFetch, TaskHandle, TaskFinalize, TaskMark, TaskFails
<1>9. CASE Cancel \/ ClusterStep \/ UNCHANGED vars
  BY <1>9 DEF Cancel, ClusterStep, vars, engineVars
<1> QED
  BY <1>2, <1>3, <1>4, <1>5, <1>6, <1>7, <1>8, <1>9 DEF Next, EngineStep

\* The slot at hand is finalized.
LEMMA AtHandFinal ==
  ASSUME IFinal, eng.pc \in {"fetch"} \union BlockPcs \union HashPcs
  PROVE  eng.cur \in Slots /\ eng.cur <= root
<1>1. /\ eng.cur \in Int /\ eng.end \in Int /\ root \in Nat /\ root <= MaxSlot
      /\ eng.cur \in Nat
  BY Numbers DEF IFinal, RangePcs
<1>2. eng.cur <= eng.end /\ eng.end <= root
  BY DEF IFinal, Cursor, InRange, DetectPcs, SlotPcs, BlockPcs, HashPcs
<1> QED
  BY <1>1, <1>2, TypesAssumption DEF Slots

LEMMA StepAtSlot ==
  ASSUME IFinal, AtSlot, [Next]_vars
  PROVE  AtSlot'
<1>1. eng \in [pc : ManagerPcs \union DetectPcs \union SlotPcs, latest : Slots, cur : Int,
               start : Int, end : Int, hash : StoredHashes \union {NoHash}, todo : SUBSET Sigs]
  BY DEF IFinal, IBlock, IType, TypeOK, BackfillTypeOK
<1>2. CASE FetchBlock \/ JoinTasks \/ FinalizeSlot
  BY <1>2, AtSlotBlock
<1>3. ASSUME NEW x \in Sigs, TaskStep(x) PROVE AtSlot'
  BY <1>3, AtSlotTask
<1>4. CASE ClusterStep
  BY <1>4, AtSlotCluster
<1>5. CASE Cancel \/ UNCHANGED vars
  <2>1. UNCHANGED <<processed, eng, task, chain, lost>>
    BY <1>5 DEF Cancel, vars, tables, chainVars, engineVars, historyVars
  <2> QED
    BY <2>1 DEF AtSlot, TxsAt, Accounted, InProcessed
<1>6. eng'.pc \notin HashPcs => AtSlot'
  BY DEF AtSlot, HashPcs
<1> USE <1>1, <1>6 DEF HashPcs, Goto, IdleEngine
<1>7. CASE ManagerTick
  BY <1>7 DEF ManagerTick
<1>11. CASE ManagerStop \/ NotifyRange \/ CompleteBackfill \/ AbortRange \/ Restart
  BY <1>11, GivesUp
<1>8. CASE StartRange \/ BeginSlot \/ EndRange
  BY <1>8 DEF StartRange, BeginSlot, EndRange
<1>12. CASE PlanRange
  BY <1>12 DEF PlanRange
<1>13. CASE StartBackfill
  BY <1>13 DEF StartBackfill
<1>9. CASE ReadFinalizedHash \/ ReadTentativeHash \/ CompareHash
  BY <1>9 DEF ReadFinalizedHash, ReadTentativeHash, CompareHash
<1>10. CASE \/ RollbackTentative \/ RollbackProcessed \/ RollbackFinalized
            \/ SkipSlot \/ SaveSlot
  BY <1>10 DEF RollbackTentative, RollbackProcessed, RollbackFinalized, SkipSlot, SaveSlot
<1> QED
  BY <1>2, <1>3, <1>4, <1>5, <1>7, <1>8, <1>9, <1>10, <1>11, <1>12, <1>13
     DEF Next, EngineStep

\* A range starts after the saved progress, or at a configured slot before that.
LEMMA PlannedStart ==
  ASSUME IFinal, PlanRange \/ StartBackfill, eng'.pc \in WorkPcs
  PROVE  /\ eng'.start \in Int /\ eng'.cur = eng'.start
         /\ FromProgress => eng'.start = progress.last + 1
         /\ eng'.pc \in {"loop", "latest"} /\ UNCHANGED progress
         /\ StartBackfill /\ ~FromProgress => eng'.start = Config.start
<1>1. /\ eng.latest \in Nat /\ progress.last \in OptionNat
      /\ progress.last \in Int /\ Config.start \in OptionNat /\ Config \in TriggerConfig
  BY Numbers, BackfillAssumption DEF IFinal, TriggerConfig
<1>2. UNCHANGED progress
  BY DEF PlanRange, StartBackfill, OnlyEngine, tables
<1>3. CASE PlanRange
  <2> DEFINE range == NextRange(Config, eng.latest, progress.last)
  <2>1. range # NoRange
    BY <1>3 DEF PlanRange, IdleEngine, WorkPcs, InRange, DetectPcs, SlotPcs
  <2>2. range.start \in Nat /\ (FromProgress => range.start = progress.last + 1)
    BY <1>1, <2>1, RangeIsBounded, ResumesAfterProgress DEF FromProgress
  <2>3. eng' = [pc |-> "loop", latest |-> 0, cur |-> range.start,
                start |-> range.start, end |-> range.end, hash |-> NoHash, todo |-> {}]
    BY <1>3, <2>1 DEF PlanRange, IdleEngine
  <2>4. ~StartBackfill
    BY <1>3 DEF PlanRange, StartBackfill
  <2> HIDE DEF range
  <2> QED
    BY <1>2, <2>2, <2>3, <2>4
<1>4. CASE StartBackfill
  <2> DEFINE from == IF Config.start # None THEN Config.start
                     ELSE IF progress.last # NoSlot THEN progress.last + 1 ELSE 0
  <2>1. /\ from \in Int /\ (FromProgress => from = progress.last + 1)
        /\ ~FromProgress => from = Config.start
    BY <1>1 DEF OptionNat, None, NoSlot, FromProgress
  <2>2. eng' = [pc |-> "latest", latest |-> 0, cur |-> from, start |-> from,
                end |-> NoSlot, hash |-> NoHash, todo |-> {}]
    BY <1>4 DEF StartBackfill, IdleEngine
  <2> HIDE DEF from
  <2> QED
    BY <1>2, <2>1, <2>2
<1> QED
  BY <1>3, <1>4

\* The two steps that move the cursor on.
LEMMA MovesOn ==
  ASSUME IFinal, SkipSlot \/ SaveSlot
  PROVE  /\ eng.pc \in {"fetch", "save"} /\ eng'.pc = "loop"
         /\ eng'.cur = eng.cur + 1 /\ eng'.start = eng.start /\ eng'.end = eng.end
         /\ SkipSlot => UNCHANGED progress /\ missed' = missed \union ({eng.cur} \intersect Slots)
         /\ SaveSlot => progress'.last = eng.cur
<1>1. /\ eng \in [pc : ManagerPcs \union DetectPcs \union SlotPcs, latest : Slots, cur : Int,
                  start : Int, end : Int, hash : StoredHashes \union {NoHash}, todo : SUBSET Sigs]
      /\ StorageTypeOK
  BY DEF IFinal, IBlock, IType, TypeOK, BackfillTypeOK
<1>2. CASE SkipSlot
  <2>1. eng' = [eng EXCEPT !.pc = "loop", !.cur = eng.cur + 1] /\ eng.pc = "fetch"
        /\ UNCHANGED progress /\ missed' = missed \union ({eng.cur} \intersect Slots)
    BY <1>2 DEF SkipSlot, tables
  <2>2. ~SaveSlot
    BY <2>1 DEF SaveSlot
  <2> QED
    BY <1>1, <2>1, <2>2
<1>3. CASE SaveSlot
  <2>1. eng' = [eng EXCEPT !.pc = "loop", !.cur = eng.cur + 1, !.hash = NoHash]
        /\ eng.pc = "save" /\ progress' = [progress EXCEPT !.last = eng.cur]
    BY <1>3 DEF SaveSlot, SaveProgress
  <2>2. progress'.last = eng.cur
    BY <1>1, <2>1 DEF StorageTypeOK
  <2>3. ~SkipSlot
    BY <2>1 DEF SkipSlot
  <2> QED
    BY <1>1, <2>1, <2>2, <2>3
<1> QED
  BY <1>2, <1>3

\* The slot just done, or just passed over, is indexed.
LEMMA SlotDone ==
  ASSUME IFinal, AtSlot, [Next]_vars, SkipSlot \/ SaveSlot, NEW s, s = eng.cur
  PROVE  s \in Slots /\ s <= root' /\ Indexed(s)'
<1>1. s \in Slots /\ s <= root
  BY MovesOn, AtHandFinal DEF HashPcs
<1>2. s <= root' /\ TxsAt(chain', s) = TxsAt(chain, s)
  BY <1>1, RootStays DEF TxsAt, Slots
<1>3. CASE SkipSlot
  <2>1. s \in missed'
    BY <1>1, <1>3, MovesOn
  <2> QED
    BY <1>1, <1>2, <2>1 DEF Indexed, TxsAt
<1>4. CASE SaveSlot
  <2>1. \A sig \in TxsAt(chain, s) : sig \in Sigs /\ Accounted(sig)
    <3>1. eng.pc = "save"
      BY <1>4 DEF SaveSlot
    <3> QED
      BY <1>1, <3>1, TxsAreSigs DEF AtSlot, HashPcs, IFinal, IBlock, IType, TypeOK
  <2>2. \A sig \in TxsAt(chain, s) : Accounted(sig)'
    BY <2>1, AccountedStays
  <2> QED
    BY <1>1, <1>2, <2>2 DEF Indexed, TxsAt, Accounted
<1> QED
  BY <1>3, <1>4

LEMMA StepBehind ==
  ASSUME IFinal, AtSlot, Behind, [Next]_vars
  PROVE  Behind'
<1>1. ASSUME NEW s \in Slots, eng.pc \in WorkPcs, eng.start <= s, s < eng.cur
      PROVE  s <= root' /\ Indexed(s)'
  BY <1>1, IndexedStays DEF Behind
<1>2. CASE eng'.pc \notin WorkPcs
  BY <1>2 DEF Behind
<1>3. CASE eng.pc \in WorkPcs /\ eng'.start = eng.start /\ eng'.cur = eng.cur
  BY <1>1, <1>3 DEF Behind, Indexed, TxsAt
<1>4. CASE SkipSlot \/ SaveSlot
  <2>1. /\ eng.pc \in WorkPcs /\ eng.cur \in Int
        /\ eng'.cur = eng.cur + 1 /\ eng'.start = eng.start
    BY <1>4, MovesOn, Numbers DEF WorkPcs, InRange, SlotPcs, IFinal
  <2>2. ASSUME NEW s \in Slots, eng'.start <= s, s < eng'.cur
        PROVE  s <= root' /\ Indexed(s)'
    <3>1. CASE s = eng.cur
      BY <1>4, <3>1, SlotDone
    <3>2. CASE s # eng.cur
      <4>1. s < eng.cur
        BY <2>1, <2>2, <3>2 DEF Slots
      <4> QED
        BY <1>1, <2>1, <2>2, <4>1
    <3> QED
      BY <3>1, <3>2
  <2> QED
    BY <2>2 DEF Behind, Indexed, TxsAt
<1>5. CASE (PlanRange \/ StartBackfill) /\ eng'.pc \in WorkPcs
  <2>1. eng'.start \in Int /\ eng'.cur = eng'.start
    BY <1>5, PlannedStart
  <2>2. \A s \in Slots : ~(eng'.start <= s /\ s < eng'.cur)
    BY <2>1 DEF Slots
  <2> QED
    BY <2>2 DEF Behind
<1> QED
  BY <1>2, <1>3, <1>4, <1>5, Moves

LEMMA StepAhead ==
  ASSUME FromProgress, IFinal, AtSlot, Behind, Ahead, [Next]_vars
  PROVE  Ahead'
<1>1. /\ progress.last \in Int /\ progress.last <= root /\ root \in Nat /\ eng.cur \in Int
      /\ StorageTypeOK
  BY Numbers DEF IFinal, Cursor, IBlock, IType, TypeOK
<1>2. \A s \in Slots : s <= progress.last => Indexed(s)'
  BY <1>1, IndexedStays DEF Ahead, SweptSlotsIndexed, Slots
<1>3. CASE SaveSlot
  <2>1. /\ eng.pc = "save" /\ eng'.pc = "loop" /\ eng'.cur = eng.cur + 1
        /\ eng'.start = eng.start /\ progress'.last = eng.cur
    BY <1>3, MovesOn DEF SaveSlot
  <2>2. eng.start <= progress.last + 1 /\ progress.last < eng.cur /\ eng.start \in Int
    BY <2>1 DEF Ahead, WorkPcs, InRange, SlotPcs, IFinal, IBlock, IType, TypeOK, BackfillTypeOK
  <2>3. ASSUME NEW s \in Slots, s <= eng.cur PROVE Indexed(s)'
    <3>1. CASE s <= progress.last
      BY <1>2, <3>1
    <3>2. CASE s = eng.cur
      BY <1>3, <3>2, SlotDone
    <3>3. CASE progress.last < s /\ s < eng.cur
      <4>1. eng.start <= s
        BY <1>1, <2>2, <3>3 DEF Slots
      <4> QED
        BY <2>1, <3>3, <4>1, IndexedStays DEF Behind, WorkPcs, InRange, SlotPcs
    <3> QED
      BY <1>1, <2>3, <3>1, <3>2, <3>3 DEF Slots
  <2>4. SweptSlotsIndexed'
    BY <2>1, <2>3 DEF SweptSlotsIndexed, Indexed, TxsAt
  <2>5. eng'.start <= progress'.last + 1 /\ progress'.last < eng'.cur
    BY <1>1, <2>1, <2>2
  <2> QED
    BY <2>4, <2>5 DEF Ahead
<1>4. CASE ~SaveSlot
  <2>1. progress'.last = progress.last
    BY <1>1, <1>4, ProgressFrame
  <2>2. SweptSlotsIndexed'
    BY <1>2, <2>1 DEF SweptSlotsIndexed, Indexed, TxsAt
  <2>3. CASE eng'.pc \notin WorkPcs
    BY <2>2, <2>3 DEF Ahead, WorkPcs
  <2>4. CASE /\ eng.pc \in WorkPcs
             /\ eng'.start = eng.start /\ eng'.cur = eng.cur
             /\ eng'.pc \in InRange \union {"latest"} => eng.pc \in InRange \union {"latest"}
             /\ eng'.pc # "notify" => eng.pc # "notify"
    BY <2>1, <2>2, <2>4 DEF Ahead
  <2>5. CASE SkipSlot
    <3>1. /\ eng.pc \in {"fetch", "save"} /\ eng'.cur = eng.cur + 1
          /\ eng'.start = eng.start /\ eng'.pc = "loop"
      BY <2>5, MovesOn
    <3>2. eng.start <= progress.last + 1 /\ progress.last < eng.cur
      BY <3>1 DEF Ahead, WorkPcs, InRange, SlotPcs
    <3> QED
      BY <1>1, <2>1, <2>2, <3>1, <3>2 DEF Ahead
  <2>6. CASE (PlanRange \/ StartBackfill) /\ eng'.pc \in WorkPcs
    BY <1>1, <2>2, <2>6, PlannedStart DEF Ahead
  <2> QED
    BY <1>4, <2>3, <2>4, <2>5, <2>6, Moves
<1> QED
  BY <1>3, <1>4

LEMMA StepSwept ==
  ASSUME IFinal, Swept, [Next]_vars
  PROVE  Swept'
<1>1. AtSlot'
  BY StepAtSlot DEF Swept
<1>2. Behind'
  BY StepBehind DEF Swept
<1>3. FromProgress => Ahead'
  BY StepAhead DEF Swept
<1> QED
  BY <1>1, <1>2, <1>3 DEF Swept, FromProgress

\* What the rest of an indexer may do leaves no slot behind either.
LEMMA SweptOutside ==
  ASSUME Swept, UNCHANGED <<processed, progress, chainVars, lost, missed>>,
         ResetEngine \/ UNCHANGED engineVars
  PROVE  Swept'
<1>1. UNCHANGED SweptSlotsIndexed
  BY DEF chainVars, SweptSlotsIndexed, Indexed, TxsAt, InProcessed
<1>2. CASE ResetEngine
  BY <1>1, <1>2
     DEF ResetEngine, IdleEngine, Swept, AtSlot, Behind, Ahead, WorkPcs, InRange, DetectPcs,
         SlotPcs, HashPcs
<1>3. CASE UNCHANGED engineVars
  BY <1>1, <1>3 DEF engineVars, chainVars, Swept, AtSlot, Behind, Ahead, Accounted,
                    InProcessed, Indexed, TxsAt
<1> QED
  BY <1>2, <1>3

\* The saved progress never runs ahead of the work: crashes, failed ranges,
\* cancellation and races of the tasks lose no transaction of a slot at or
\* below last_slot, except those whose own task or block fetch failed.
THEOREM NoSlotPassedOver ==
  ASSUME FinalRange, FromProgress
  PROVE  Spec => []SweptSlotsIndexed
<1> DEFINE Inv == IFinal /\ Swept
<1>1. Init => Inv
  BY InitFinal, InitSwept
<1>2. Inv /\ [Next]_vars => Inv'
  BY StepFinal, StepSwept
<1>3. Inv => SweptSlotsIndexed
  BY DEF Swept, Ahead
<1> QED
  BY <1>1, <1>2, <1>3, PTL DEF Spec

LEMMA ProgressGrows ==
  ASSUME FromProgress, IFinal, Swept, [Next]_vars
  PROVE  progress'.last >= progress.last
<1>1. StorageTypeOK /\ progress.last \in Int /\ eng.cur \in Int
  BY Numbers DEF IFinal, IBlock, IType, TypeOK
<1>2. CASE SaveSlot
  <2>1. eng.pc = "save" /\ progress'.last = eng.cur
    BY <1>2, MovesOn DEF SaveSlot
  <2>2. progress.last < eng.cur
    BY <2>1 DEF Swept, Ahead, InRange, SlotPcs
  <2> QED
    BY <1>1, <2>1, <2>2
<1>3. CASE ~SaveSlot
  BY <1>1, <1>3, ProgressFrame
<1> QED
  BY <1>2, <1>3

\* last_slot only moves forward when every range resumes from it.
THEOREM ProgressMonotone ==
  ASSUME FinalRange, FromProgress
  PROVE  Spec => ProgressNeverRegresses
<1> DEFINE Inv == IFinal /\ Swept
<1>1. Init => Inv
  BY InitFinal, InitSwept
<1>2. Inv /\ [Next]_vars => Inv'
  BY StepFinal, StepSwept
<1>3. Inv /\ [Next]_vars => [progress'.last >= progress.last]_vars
  BY ProgressGrows
<1> QED
  BY <1>1, <1>2, <1>3, PTL DEF Spec, ProgressNeverRegresses

\* handle_reorg only deletes records of finalized slots, whatever
\* commitment the evidence was fetched at.
THEOREM RollbackFinal ==
  ASSUME FinalRange
  PROVE  Spec => RollbackOnlyFinalized
<1>1. Init => IFinal
  BY InitFinal
<1>2. IFinal /\ [Next]_vars => IFinal'
  BY StepFinal
<1>3. ASSUME IFinal, [Next]_vars, NEW sig \in Sigs,
             InTentative(sig), eng.pc = "rollback1", tentative'[sig] = NoRow
      PROVE  tentative[sig].slot <= root
  <2>1. eng.cur <= root
    BY <1>3, AtHandFinal DEF BlockPcs
  <2>2. \A x \in Sigs : task[x].pc = "idle"
    BY <1>3 DEF IFinal, IBlock, IType, Locals, TasksKnow
  <2>3. CASE RollbackTentative
    BY <1>3, <2>1, <2>3 DEF RollbackTentative, DeleteTentative, TentativeAt, InTentative
  <2>4. CASE ~RollbackTentative
    <3>1. ASSUME NEW x \in Sigs, TaskStep(x) PROVE UNCHANGED tentative
      BY <3>1, <2>2, <1>3 DEF TaskStep, SpawnTask, TaskFetch, TaskHandle, TaskFinalize,
         TaskMark, TaskFails
    <3>2. EngineStep => UNCHANGED tentative
      BY <1>3, <2>4 DEF EngineStep, ManagerTick, ManagerStop, PlanRange, StartBackfill,
         StartRange, BeginSlot, EndRange, ReadFinalizedHash, ReadTentativeHash, CompareHash,
         RollbackProcessed, RollbackFinalized, FetchBlock, SkipSlot,
         JoinTasks, FinalizeSlot, SaveSlot, NotifyRange, CompleteBackfill, AbortRange, tables
    <3>3. Restart \/ Cancel \/ ClusterStep \/ UNCHANGED vars => UNCHANGED tentative
      BY DEF Restart, Cancel, ClusterStep, vars, tables
    <3> QED
      BY <1>3, <3>1, <3>2, <3>3 DEF Next, InTentative
  <2> QED
    BY <2>3, <2>4
<1>4. IFinal /\ [Next]_vars =>
        [\A sig \in Sigs : InTentative(sig) /\ eng.pc = "rollback1" /\ tentative'[sig] = NoRow
           => tentative[sig].slot <= root]_vars
  BY <1>3
<1> QED
  BY <1>1, <1>2, <1>4, PTL DEF Spec, RollbackOnlyFinalized

-----------------------------------------------------------------------------
(* What is announced as complete is complete.                              *)

\* What start_backfill is to sweep.
RangeStart == IF Config.start = None THEN 0 ELSE Config.start
RangeEnd == IF Config.end = None THEN InitialTip ELSE Config.end

Uninterrupted == FaultBudget.cancel = 0

\* Without a shutdown the loop over a range only ends at its end.
ToTheEnd ==
  /\ ~cancelled /\ faults.cancel = 0
  /\ eng.pc \in {"notify", "complete"} => eng.end < eng.cur /\ eng.end <= root
  /\ eng.pc = "complete" => EntryPoint = "start"
  /\ EntryPoint = "start" => /\ eng.pc \in InRange \union {"complete"} => RangeEnd <= eng.end
                             /\ eng.pc \in WorkPcs /\ ~FromProgress => eng.start = Config.start
  /\ \A n \in notified : n.end <= root
  /\ AnnouncedRangesIndexed
  /\ CompleteMeansSwept

LEMMA InitEnd == Uninterrupted /\ Init => ToTheEnd
<1> SUFFICES ASSUME Uninterrupted, Init PROVE ToTheEnd
  OBVIOUS
<1>1. eng.pc = "idle" /\ ~cancelled /\ faults.cancel = 0 /\ notified = {} /\ ~progress.complete
  BY DEF Init, EngineInit, IdleEngine, ProcessInit, Uninterrupted
<1> QED
  BY <1>1 DEF ToTheEnd, AnnouncedRangesIndexed, CompleteMeansSwept, WorkPcs, InRange, DetectPcs,
              SlotPcs

\* A step draws on at most one fault budget; only a shutdown draws on "cancel".
LEMMA FaultSteps ==
  ASSUME [Next]_vars
  PROVE  \/ UNCHANGED <<cancelled, faults>>
         \/ Cancel
         \/ Restart /\ Fault("crash") /\ cancelled' = FALSE
         \/ UNCHANGED cancelled /\ \E kind \in {"db", "rpc", "handler"} : Fault(kind)
<1>1. ASSUME NEW x \in Sigs, TaskStep(x)
      PROVE  /\ UNCHANGED cancelled
             /\ UNCHANGED faults \/ \E kind \in {"db", "rpc", "handler"} : Fault(kind)
  BY <1>1 DEF TaskStep, SpawnTask, TaskFetch, TaskHandle, TaskFinalize, TaskMark, TaskFails, Env
<1>2. CASE EngineStep
  BY <1>2 DEF EngineStep, ManagerTick, ManagerStop, PlanRange, StartBackfill,
     StartRange, BeginSlot, EndRange, ReadFinalizedHash, ReadTentativeHash, CompareHash,
     RollbackTentative, RollbackProcessed, RollbackFinalized, FetchBlock, SkipSlot,
     JoinTasks, FinalizeSlot, SaveSlot, NotifyRange, CompleteBackfill, AbortRange, OnlyEngine, Env
<1>3. CASE Restart
  BY <1>3 DEF Restart, NewProcess
<1>4. CASE ClusterStep \/ UNCHANGED vars
  BY <1>4 DEF ClusterStep, vars, processVars
<1> QED
  BY <1>1, <1>2, <1>3, <1>4 DEF Next

LEMMA NeverCancelled ==
  ASSUME IFinal, ~cancelled, faults.cancel = 0, [Next]_vars
  PROVE  ~cancelled' /\ faults'.cancel = 0
<1>1. faults \in BudgetOf
  BY DEF IFinal, IBlock, IType, TypeOK, ProcessTypeOK
<1>2. ~Cancel
  BY DEF Cancel, CancelToken, Fault
<1>3. ASSUME NEW kind \in {"crash", "db", "rpc", "handler"}, Fault(kind)
      PROVE  faults'.cancel = faults.cancel
  BY <1>1, <1>3 DEF Fault, BudgetOf
<1>4. CASE UNCHANGED <<cancelled, faults>>
  BY <1>4
<1>5. CASE Fault("crash") /\ cancelled' = FALSE
  BY <1>3, <1>5
<1>6. CASE UNCHANGED cancelled /\ \E kind \in {"db", "rpc", "handler"} : Fault(kind)
  BY <1>3, <1>6
<1> QED
  BY <1>2, <1>4, <1>5, <1>6, FaultSteps

LEMMA CompleteFrame ==
  ASSUME StorageTypeOK, [Next]_vars, ~CompleteBackfill
  PROVE  progress'.complete = progress.complete
<1>1. ASSUME NEW x \in Sigs, TaskStep(x) PROVE UNCHANGED progress
  BY <1>1 DEF TaskStep, SpawnTask, TaskFetch, TaskHandle, TaskFinalize, TaskMark, TaskFails,
     tables, InsertFinalized, PromoteTentative, DeleteTentative, InsertProcessed
<1>2. CASE SaveSlot
  BY <1>2 DEF SaveSlot, SaveProgress, StorageTypeOK
<1>3. CASE EngineStep /\ ~SaveSlot
  BY <1>3 DEF EngineStep, ManagerTick, ManagerStop, PlanRange, StartBackfill,
     StartRange, BeginSlot, EndRange, ReadFinalizedHash, ReadTentativeHash, CompareHash,
     RollbackTentative, RollbackProcessed, RollbackFinalized, FetchBlock, SkipSlot,
     JoinTasks, FinalizeSlot, NotifyRange, AbortRange, OnlyEngine, tables,
     DeleteTentative, DeleteProcessed, DeleteFinalized, InsertFinalized, PromoteTentative
<1>4. CASE Restart \/ Cancel \/ ClusterStep \/ UNCHANGED vars
  BY <1>4 DEF Restart, Cancel, ClusterStep, vars, tables
<1> QED
  BY <1>1, <1>2, <1>3, <1>4 DEF Next

LEMMA NotifiedFrame ==
  ASSUME [Next]_vars, ~NotifyRange
  PROVE  notified' = notified
<1>1. ASSUME NEW x \in Sigs, TaskStep(x) PROVE UNCHANGED notified
  BY <1>1 DEF TaskStep, SpawnTask, TaskFetch, TaskHandle, TaskFinalize, TaskMark, TaskFails,
     Env, historyVars
<1>2. CASE EngineStep
  BY <1>2 DEF EngineStep, ManagerTick, ManagerStop, PlanRange, StartBackfill,
     StartRange, BeginSlot, EndRange, ReadFinalizedHash, ReadTentativeHash, CompareHash,
     RollbackTentative, RollbackProcessed, RollbackFinalized, FetchBlock, SkipSlot,
     JoinTasks, FinalizeSlot, SaveSlot, CompleteBackfill, AbortRange, OnlyEngine, Env,
     historyVars
<1>3. CASE Restart \/ Cancel \/ ClusterStep \/ UNCHANGED vars
  BY <1>3 DEF Restart, ResetEngine, Cancel, ClusterStep, vars, historyVars
<1> QED
  BY <1>1, <1>2, <1>3 DEF Next

\* The engine's part of ToTheEnd.
EndsAtEnd ==
  /\ eng.pc \in {"notify", "complete"} => eng.end < eng.cur /\ eng.end <= root
  /\ eng.pc = "complete" => EntryPoint = "start"
  /\ EntryPoint = "start" => /\ eng.pc \in InRange \union {"complete"} => RangeEnd <= eng.end
                             /\ eng.pc \in WorkPcs /\ ~FromProgress => eng.start = Config.start

LEMMA StepEndsAtEnd ==
  ASSUME FinalRange, IFinal, EndsAtEnd, ~cancelled, [Next]_vars
  PROVE  EndsAtEnd'
<1>1. /\ root <= root' /\ root \in Nat /\ root' \in Nat
      /\ eng.end \in Int /\ eng.cur \in Int /\ InitialTip <= root /\ InitialTip \in Nat
      /\ Config.end \in OptionNat
  BY RootStays, Numbers, ChainAssumption, BackfillAssumption
     DEF IFinal, Cursor, Slots, TriggerConfig
<1>2. CASE eng'.pc \notin WorkPcs
  BY <1>2 DEF EndsAtEnd, WorkPcs
<1>3. CASE SkipSlot \/ SaveSlot
  BY <1>3, MovesOn DEF EndsAtEnd, WorkPcs, InRange, SlotPcs, FromProgress, RangeEnd
<1>4. CASE (PlanRange \/ StartBackfill) /\ eng'.pc \in WorkPcs
  <2>1. eng'.pc = "latest" \/ (eng'.pc = "loop" /\ EntryPoint = "manager")
    BY <1>4, PlannedStart
       DEF PlanRange, StartBackfill, IdleEngine, IFinal, Cursor
  <2>2. EntryPoint = "start" => StartBackfill
    BY <1>4 DEF PlanRange, IFinal, Cursor
  <2> QED
    BY <1>4, <2>1, <2>2, PlannedStart DEF EndsAtEnd, InRange, DetectPcs, SlotPcs, FromProgress
<1>5. ASSUME eng.pc \in WorkPcs,
             eng'.start = eng.start, eng'.cur = eng.cur,
             eng'.pc \in InRange \union {"latest"} => eng.pc \in InRange \union {"latest"},
             eng'.pc # "notify" => eng.pc # "notify",
             \/ StartRange
             \/ eng'.end = eng.end /\ (eng'.pc # "latest" => eng.pc # "latest"),
             eng'.pc \in {"notify", "complete"} => EndRange \/ eng.pc = eng'.pc
      PROVE  EndsAtEnd'
  <2>1. CASE StartRange
    <3>1. eng' = [eng EXCEPT !.pc = "loop",
                             !.end = IF Config.end # None THEN Config.end ELSE root]
      BY <2>1 DEF StartRange
    <3>2. eng'.pc = "loop" /\ eng'.end = IF Config.end # None THEN Config.end ELSE root
      BY <3>1 DEF IFinal, IBlock, IType, TypeOK, BackfillTypeOK
    <3>3. RangeEnd <= eng'.end
      BY <1>1, <3>2 DEF RangeEnd, OptionNat
    <3> QED
      BY <1>5, <3>2, <3>3 DEF EndsAtEnd, FromProgress, RangeEnd
  <2>2. CASE EndRange
    <3>1. eng.pc = "loop" /\ eng.end < eng.cur
      BY <1>1, <2>2 DEF EndRange
    <3>2. eng'.end = eng.end
      BY <1>5, <3>1 DEF StartRange
    <3>3. eng.end <= root
      BY <3>1 DEF IFinal, Cursor, InRange, SlotPcs
    <3>4. eng'.pc \in {"notify", "complete"} /\ (eng'.pc = "complete" => EntryPoint = "start")
      BY <2>2, BackfillAssumption
         DEF EndRange, Goto, IFinal, IBlock, IType, TypeOK, BackfillTypeOK
    <3> QED
      BY <1>1, <1>5, <3>1, <3>2, <3>3, <3>4
         DEF EndsAtEnd, InRange, SlotPcs, FromProgress, RangeEnd
  <2>3. CASE ~StartRange /\ ~EndRange
    <3>1. eng'.end = eng.end
      BY <1>5, <2>3
    <3>2. eng'.pc \in InRange \union {"complete"} => eng.pc \in InRange \union {"complete"}
      BY <1>5, <2>3 DEF WorkPcs, InRange, DetectPcs, SlotPcs
    <3> QED
      BY <1>1, <1>5, <2>3, <3>1, <3>2 DEF EndsAtEnd, FromProgress, RangeEnd
  <2> QED
    BY <2>1, <2>2, <2>3
<1> QED
  BY <1>2, <1>3, <1>4, <1>5, Moves

LEMMA StepEnd ==
  ASSUME FinalRange, IFinal, Swept, ToTheEnd, [Next]_vars
  PROVE  ToTheEnd'
<1>1. /\ root <= root' /\ root \in Nat /\ root' \in Nat
      /\ eng.end \in Int /\ eng.cur \in Int /\ eng.start \in Int
      /\ progress.last \in Int /\ progress.last <= root
      /\ Config.end \in OptionNat /\ Config.start \in OptionNat /\ InitialTip \in Nat
      /\ notified \subseteq [start : Int, end : Int, reached : Int] /\ StorageTypeOK
  BY RootStays, Numbers, BackfillAssumption, ChainAssumption
     DEF IFinal, IBlock, IType, TypeOK, BackfillTypeOK, Cursor, TriggerConfig, Slots
<1>2. EndsAtEnd /\ EndsAtEnd'
  BY StepEndsAtEnd DEF ToTheEnd, EndsAtEnd
<1>3. ~cancelled' /\ faults'.cancel = 0
  BY NeverCancelled DEF ToTheEnd
<1>4. \A s \in Slots : s <= root /\ Indexed(s) => Indexed(s)'
  BY IndexedStays DEF Swept
<1>5. ASSUME NEW n \in notified'
      PROVE  n.end <= root /\ \A s \in Slots : s \in n.start..n.end => Indexed(s)
  <2>1. CASE n \in notified
    BY <1>1, <2>1 DEF ToTheEnd, AnnouncedRangesIndexed
  <2>2. CASE n \notin notified
    <3>1. eng.pc = "notify" /\ n = [start |-> eng.start, end |-> eng.end, reached |-> eng.cur]
      BY <1>5, <2>2, NotifiedFrame DEF NotifyRange
    <3>2. eng.end < eng.cur /\ eng.end <= root
      BY <1>2, <3>1 DEF EndsAtEnd
    <3>3. ASSUME NEW s \in Slots, s \in n.start..n.end PROVE Indexed(s)
      <4>1. eng.start <= s /\ s < eng.cur
        BY <1>1, <3>1, <3>2, <3>3 DEF Slots
      <4> QED
        BY <3>1, <4>1 DEF Swept, Behind, WorkPcs
    <3> QED
      BY <3>1, <3>2, <3>3
  <2> QED
    BY <2>1, <2>2
<1>6. \A n \in notified' : n.start \in Int /\ n.end \in Int
  BY StepFinal DEF IFinal, IBlock, IType, TypeOK, BackfillTypeOK
<1>7. AnnouncedRangesIndexed' /\ \A n \in notified' : n.end <= root'
  <2>1. ASSUME NEW n \in notified' PROVE n.end <= root'
    BY <1>1, <1>5, <1>6
  <2>2. ASSUME NEW n \in notified', NEW s \in Slots, s \in n.start..n.end PROVE Indexed(s)'
    <3>1. s <= root
      BY <1>1, <1>5, <1>6, <2>2 DEF Slots
    <3> QED
      BY <1>4, <1>5, <2>2, <3>1
  <2> QED
    BY <2>1, <2>2 DEF AnnouncedRangesIndexed, Indexed, TxsAt
<1>8. CompleteMeansSwept'
  <2> SUFFICES ASSUME progress'.complete,
                      NEW s \in Slots, RangeStart <= s, s <= RangeEnd
               PROVE  Indexed(s)'
    BY <1>1 DEF CompleteMeansSwept, Indexed, TxsAt, RangeStart, RangeEnd, OptionNat, Slots
  <2>1. s <= root
    BY <1>1, ChainAssumption
       DEF IFinal, Cursor, FinalRange, RangeEnd, OptionNat, None, Slots
  <2>2. CASE progress.complete
    <3>1. s \in RangeStart..RangeEnd
      BY <1>1 DEF RangeStart, RangeEnd, OptionNat, None, Slots
    <3> QED
      BY <1>4, <2>1, <2>2, <3>1 DEF ToTheEnd, CompleteMeansSwept, RangeStart, RangeEnd
  <2>3. CASE ~progress.complete
    <3>1. eng.pc = "complete"
      BY <1>1, <2>3, CompleteFrame DEF CompleteBackfill
    <3>2. /\ EntryPoint = "start" /\ RangeEnd <= eng.end /\ eng.end < eng.cur
          /\ ~FromProgress => eng.start = Config.start
      BY <1>2, <3>1 DEF EndsAtEnd, WorkPcs
    <3>3. s < eng.cur
      BY <1>1, <3>2 DEF RangeEnd, OptionNat, Slots
    <3>4. CASE eng.start <= s
      BY <1>4, <2>1, <3>1, <3>3, <3>4 DEF Swept, Behind, WorkPcs
    <3>5. CASE s < eng.start
      <4>1. FromProgress
        BY <1>1, <3>2, <3>5 DEF RangeStart, FromProgress, OptionNat, None, Slots
      <4>2. s <= progress.last
        BY <1>1, <3>1, <3>5, <4>1 DEF Swept, Ahead, WorkPcs, Slots
      <4> QED
        BY <1>4, <2>1, <4>1, <4>2 DEF Swept, Ahead, SweptSlotsIndexed
    <3> QED
      BY <1>1, <3>4, <3>5 DEF Slots
  <2> QED
    BY <2>2, <2>3
<1> QED
  BY <1>2, <1>3, <1>7, <1>8 DEF ToTheEnd, EndsAtEnd

\* What the rest of an indexer may do announces nothing.
LEMMA EndOutside ==
  ASSUME ToTheEnd, ~cancelled', faults'.cancel = 0,
         UNCHANGED <<processed, progress, chainVars, lost, missed, notified>>,
         ResetEngine \/ UNCHANGED engineVars
  PROVE  ToTheEnd'
<1>1. UNCHANGED <<AnnouncedRangesIndexed, CompleteMeansSwept>>
  BY DEF chainVars, AnnouncedRangesIndexed, CompleteMeansSwept, Indexed, TxsAt, InProcessed
<1>2. CASE ResetEngine
  BY <1>1, <1>2 DEF ResetEngine, IdleEngine, ToTheEnd, WorkPcs, InRange, DetectPcs, SlotPcs,
                    chainVars
<1>3. CASE UNCHANGED engineVars
  BY <1>1, <1>3 DEF engineVars, ToTheEnd, chainVars
<1> QED
  BY <1>2, <1>3

\* on_backfill_range_complete is only called with a range every slot of which
\* has been processed, unless the indexer was shut down in the middle of it.
THEOREM AnnouncedIsIndexed ==
  ASSUME FinalRange, Uninterrupted
  PROVE  Spec => []AnnouncedRangesIndexed
<1> DEFINE Inv == IFinal /\ Swept /\ ToTheEnd
<1>1. Init => Inv
  BY InitFinal, InitSwept, InitEnd
<1>2. Inv /\ [Next]_vars => Inv'
  BY StepFinal, StepSwept, StepEnd
<1>3. Inv => AnnouncedRangesIndexed
  BY DEF ToTheEnd
<1> QED
  BY <1>1, <1>2, <1>3, PTL DEF Spec

\* is_complete is only ever set once the whole configured range is swept, over
\* however many runs of the process that took.
THEOREM CompleteIsSwept ==
  ASSUME FinalRange, Uninterrupted
  PROVE  Spec => []CompleteMeansSwept
<1> DEFINE Inv == IFinal /\ Swept /\ ToTheEnd
<1>1. Init => Inv
  BY InitFinal, InitSwept, InitEnd
<1>2. Inv /\ [Next]_vars => Inv'
  BY StepFinal, StepSwept, StepEnd
<1>3. Inv => CompleteMeansSwept
  BY DEF ToTheEnd
<1> QED
  BY <1>1, <1>2, <1>3, PTL DEF Spec

-----------------------------------------------------------------------------
(* No transaction is handled twice without an interruption.                *)

Interruptions == Used("crash") + Used("db") + Used("handler")

\* The engine may still come to handle the transaction.
Free(sig) ==
  /\ \A s \in Slots : s <= progress.last => sig \notin TxsAt(chain, s)
  /\ eng.pc \in HashPcs /\ sig \in TxsAt(chain, eng.cur) =>
       eng.pc = "tasks" /\ (sig \in eng.todo \/ task[sig].pc \in {"fetch", "handle"})

Handled ==
  \A sig \in Sigs :
    /\ calls[sig] <= 1 + Interruptions
    /\ Free(sig) => calls[sig] <= Interruptions
    /\ task[sig].pc # "idle" => sig \notin eng.todo

LEMMA InitHandled == Init => Handled
  BY ProcessAssumption
     DEF Init, ProcessInit, EngineInit, IdleTask, Handled, Interruptions, Used, BudgetOf

\* Interruptions are counted by the budget they draw on.
LEMMA InterruptionSteps ==
  ASSUME IFinal, [Next]_vars
  PROVE  /\ Interruptions \in Int /\ Interruptions' \in Int
         /\ Interruptions <= Interruptions'
         /\ \A kind \in {"crash", "db", "handler"} :
              Fault(kind) => Interruptions' = Interruptions + 1
<1>1. faults \in BudgetOf /\ FaultBudget \in BudgetOf
  BY ProcessAssumption DEF IFinal, IBlock, IType, TypeOK, ProcessTypeOK
<1>2. /\ \A k \in {"crash", "cancel", "db", "rpc", "handler"} :
           faults[k] \in Nat /\ FaultBudget[k] \in Nat
  BY <1>1 DEF BudgetOf
<1>3. ASSUME NEW kind \in {"crash", "cancel", "db", "rpc", "handler"}, Fault(kind)
      PROVE  /\ faults' \in BudgetOf
             /\ Interruptions' = IF kind \in {"crash", "db", "handler"}
                                 THEN Interruptions + 1 ELSE Interruptions
  BY <1>1, <1>2, <1>3 DEF Fault, BudgetOf, Interruptions, Used
<1>4. Interruptions \in Int
  BY <1>2 DEF Interruptions, Used
<1>5. \/ UNCHANGED faults
      \/ \E kind \in {"crash", "cancel", "db", "rpc", "handler"} : Fault(kind)
  BY FaultSteps DEF Cancel, CancelToken
<1>6. Interruptions' \in Int /\ Interruptions <= Interruptions'
  <2>1. CASE UNCHANGED faults
    BY <1>4, <2>1 DEF Interruptions, Used
  <2>2. CASE \E kind \in {"crash", "cancel", "db", "rpc", "handler"} : Fault(kind)
    BY <1>3, <1>4, <2>2
  <2> QED
    BY <1>5, <2>1, <2>2
<1> QED
  BY <1>3, <1>4, <1>6

\* The steps that hand no transaction to a handler and interrupt nothing.
LEMMA FreeStays ==
  ASSUME FinalRange, FromProgress, IFinal, Swept, Handled, [Next]_vars,
         ~Restart, \A kind \in {"db", "handler"} : ~(AbortRange /\ Fault(kind)),
         NEW y \in Sigs, ~TaskHandle(y), ~TaskFails(y),
         Free(y)'
  PROVE  Free(y)
<1>1. /\ eng \in [pc : ManagerPcs \union DetectPcs \union SlotPcs, latest : Slots, cur : Int,
                  start : Int, end : Int, hash : StoredHashes \union {NoHash}, todo : SUBSET Sigs]
      /\ task \in [Sigs -> [pc : TaskPcs, slot : Slots \union {NoSlot}]]
      /\ progress.last \in Int /\ progress.last <= root /\ root \in Nat
      /\ eng.cur \in Int /\ StorageTypeOK
  BY Numbers DEF IFinal, IBlock, IType, TypeOK, BackfillTypeOK, Cursor
<1>2. \A s \in Slots : s <= root => TxsAt(chain', s) = TxsAt(chain, s)
  BY RootStays DEF TxsAt
<1>3. progress'.last = progress.last \/ (SaveSlot /\ progress'.last = eng.cur)
  BY <1>1, ProgressFrame, MovesOn
<1>4. progress.last <= progress'.last
  <2>1. SaveSlot => progress.last < eng.cur
    BY DEF SaveSlot, Swept, Ahead, InRange, SlotPcs
  <2> QED
    BY <1>1, <1>3, <2>1
<1>5. progress'.last \in Int
  BY <1>1, <1>3
<1>6. ASSUME NEW s \in Slots, s <= progress.last PROVE y \notin TxsAt(chain, s)
  <2>1. s <= root /\ s <= progress'.last
    BY <1>1, <1>4, <1>5, <1>6 DEF Slots
  <2>2. y \notin TxsAt(chain', s)
    BY <2>1 DEF Free, TxsAt
  <2> QED
    BY <1>2, <2>1, <2>2
<1>7. ASSUME eng.pc \in HashPcs, y \in TxsAt(chain, eng.cur)
      PROVE  eng.pc = "tasks" /\ (y \in eng.todo \/ task[y].pc \in {"fetch", "handle"})
  <2>1. eng.cur \in Slots /\ eng.cur <= root /\ y \in TxsAt(chain', eng.cur)
    BY <1>2, <1>7, AtHandFinal
  <2>2. CASE UNCHANGED <<eng, task>>
    BY <1>7, <2>1, <2>2 DEF Free, TxsAt
  <2>3. CASE SaveSlot
    <3>1. progress'.last = eng.cur
      BY <2>3, MovesOn
    <3> QED
      BY <1>1, <2>1, <3>1 DEF Free, TxsAt
  <2>4. CASE FinalizeSlot \/ JoinTasks
    <3>1. eng'.cur = eng.cur /\ eng'.pc \in HashPcs \ {"tasks"}
      BY <1>1, <2>4 DEF FinalizeSlot, JoinTasks, Goto, HashPcs
    <3> QED
      BY <2>1, <3>1 DEF Free, TxsAt
  <2>5. CASE AbortRange
    BY <1>7, <2>5 DEF AbortRange, HashPcs
  <2>6. CASE \/ ManagerTick \/ ManagerStop \/ PlanRange \/ StartBackfill \/ StartRange
             \/ BeginSlot \/ EndRange \/ ReadFinalizedHash \/ ReadTentativeHash \/ CompareHash
             \/ RollbackTentative \/ RollbackProcessed \/ RollbackFinalized
             \/ FetchBlock \/ SkipSlot \/ NotifyRange \/ CompleteBackfill
    BY <1>7, <2>6 DEF HashPcs, ManagerTick, ManagerStop, PlanRange, StartBackfill, StartRange,
       BeginSlot, EndRange, ReadFinalizedHash, ReadTentativeHash, CompareHash,
       RollbackTentative, RollbackProcessed, RollbackFinalized, FetchBlock, SkipSlot,
       NotifyRange, CompleteBackfill
  <2>7. ASSUME NEW x \in Sigs, TaskStep(x)
        PROVE  eng.pc = "tasks" /\ (y \in eng.todo \/ task[y].pc \in {"fetch", "handle"})
    <3>1. UNCHANGED <<eng.pc, eng.cur>> /\ eng'.todo \subseteq eng.todo
      BY <1>1, <2>7 DEF TaskStep, SpawnTask, TaskFetch, TaskHandle, TaskFinalize, TaskMark,
                        TaskFails
    <3>2. eng'.pc = "tasks" /\ (y \in eng'.todo \/ task'[y].pc \in {"fetch", "handle"})
      BY <1>7, <2>1, <3>1 DEF Free, TxsAt
    <3>3. y \in eng.todo \/ task[y].pc \in {"fetch", "handle"}
      <4>1. CASE x # y
        <5>1. task'[y] = task[y]
          BY <1>1, <2>7, <4>1 DEF TaskStep, SpawnTask, TaskFetch, TaskHandle, TaskFinalize,
             TaskMark, TaskFails, SetTask
        <5> QED
          BY <3>1, <3>2, <5>1
      <4>2. CASE x = y
        BY <1>1, <2>7, <3>1, <3>2, <4>2
           DEF TaskStep, SpawnTask, TaskFetch, TaskFinalize, TaskMark, SetTask, IdleTask
      <4> QED
        BY <4>1, <4>2
    <3> QED
      BY <3>1, <3>2, <3>3
  <2>8. CASE Cancel \/ ClusterStep \/ UNCHANGED vars
    BY <2>2, <2>8 DEF Cancel, ClusterStep, vars, engineVars
  <2> QED
    BY <2>3, <2>4, <2>5, <2>6, <2>7, <2>8 DEF Next, EngineStep
<1> QED
  BY <1>6, <1>7 DEF Free

\* A task that is running handles a transaction of the slot at hand, of which
\* the engine holds no second copy: once it is past its handler it is not free.
LEMMA PastHandler ==
  ASSUME FinalRange, FromProgress, IFinal, Swept, Handled, [Next]_vars,
         NEW y \in Sigs, TaskHandle(y) \/ TaskFails(y)
  PROVE  /\ ~Free(y)'
         /\ TaskHandle(y) => Free(y)
<1>1. /\ eng \in [pc : ManagerPcs \union DetectPcs \union SlotPcs, latest : Slots, cur : Int,
                  start : Int, end : Int, hash : StoredHashes \union {NoHash}, todo : SUBSET Sigs]
      /\ task \in [Sigs -> [pc : TaskPcs, slot : Slots \union {NoSlot}]]
      /\ progress.last \in Int /\ eng.cur \in Int
  BY Numbers DEF IFinal, IBlock, IType, TypeOK, BackfillTypeOK
<1>2. task[y].pc # "idle" /\ UNCHANGED <<eng, chain, progress>>
      /\ task'[y].pc \in {"final1", "idle"} /\ (TaskHandle(y) => task[y].pc = "handle")
  BY <1>1 DEF TaskHandle, TaskFails, SetTask, IdleTask, tables, chainVars
<1>3. eng.pc = "tasks" /\ y \in TxsAt(chain, eng.cur) /\ y \notin eng.todo
  BY <1>2 DEF Handled, IFinal, AtHand, IBlock, IType, Locals, TasksKnow
<1>4. ~Free(y)'
  BY <1>2, <1>3 DEF Free, HashPcs, TxsAt
<1>5. ASSUME TaskHandle(y) PROVE Free(y)
  <2>1. eng.cur \in Slots /\ progress.last < eng.cur
    BY <1>3, AtHandFinal DEF Swept, Ahead, InRange, SlotPcs, HashPcs
  <2>2. \A s \in Slots : s <= progress.last => y \notin TxsAt(chain, s)
    BY <1>1, <1>3, <2>1 DEF IFinal, WellFormed, Slots
  <2> QED
    BY <1>2, <1>3, <1>5, <2>2 DEF Free
<1> QED
  BY <1>4, <1>5

\* Only the handler's step and its failure count a call.
LEMMA CallsFrame ==
  ASSUME IFinal, [Next]_vars, NEW y \in Sigs
  PROVE  /\ calls[y] \in Nat /\ calls'[y] \in Nat
         /\ ~TaskHandle(y) /\ ~TaskFails(y) => calls'[y] = calls[y]
         /\ TaskHandle(y) => calls'[y] <= calls[y] + 1
         /\ TaskFails(y) =>
              calls'[y] = calls[y] \/ (Fault("handler") /\ calls'[y] <= calls[y] + 1)
<1>1. calls \in [Sigs -> Nat] /\ calls' \in [Sigs -> Nat]
  BY StepBlock DEF IFinal, IBlock, IType, TypeOK, BackfillTypeOK
<1>2. ASSUME NEW x \in Sigs, TaskStep(x), ~TaskHandle(y), ~TaskFails(y)
      PROVE  calls'[y] = calls[y]
  BY <1>1, <1>2 DEF TaskStep, SpawnTask, TaskFetch, TaskHandle, TaskFinalize, TaskMark, TaskFails,
     Env, historyVars
<1>3. EngineStep => UNCHANGED calls
  BY DEF EngineStep, ManagerTick, ManagerStop, PlanRange, StartBackfill,
     StartRange, BeginSlot, EndRange, ReadFinalizedHash, ReadTentativeHash, CompareHash,
     RollbackTentative, RollbackProcessed, RollbackFinalized, FetchBlock, SkipSlot,
     JoinTasks, FinalizeSlot, SaveSlot, NotifyRange, CompleteBackfill, AbortRange, OnlyEngine,
     Env, historyVars
<1>4. Restart \/ Cancel \/ ClusterStep \/ UNCHANGED vars => UNCHANGED calls
  BY DEF Restart, ResetEngine, Cancel, ClusterStep, vars, historyVars
<1>5. ~TaskHandle(y) /\ ~TaskFails(y) => calls'[y] = calls[y]
  BY <1>2, <1>3, <1>4 DEF Next
<1>6. TaskHandle(y) => calls'[y] <= calls[y] + 1
  BY <1>1, BackfillAssumption DEF TaskHandle, Least
<1>7. TaskFails(y) =>
        calls'[y] = calls[y] \/ (Fault("handler") /\ calls'[y] <= calls[y] + 1)
  BY <1>1, BackfillAssumption DEF TaskFails, Least
<1> QED
  BY <1>1, <1>5, <1>6, <1>7

\* A transaction is never to be spawned while its task runs.
LEMMA NoSecondCopy ==
  ASSUME IFinal, Handled, [Next]_vars, NEW y \in Sigs, task'[y].pc # "idle"
  PROVE  y \notin eng'.todo
<1>1. /\ eng \in [pc : ManagerPcs \union DetectPcs \union SlotPcs, latest : Slots, cur : Int,
                  start : Int, end : Int, hash : StoredHashes \union {NoHash}, todo : SUBSET Sigs]
      /\ task \in [Sigs -> [pc : TaskPcs, slot : Slots \union {NoSlot}]]
  BY DEF IFinal, IBlock, IType, TypeOK, BackfillTypeOK
<1>2. /\ task[y].pc # "idle" => y \notin eng.todo
      /\ task[y].pc # "idle" => eng.pc = "tasks"
  BY DEF Handled, IFinal, IBlock, IType, Locals, TasksKnow
<1>3. ASSUME NEW x \in Sigs, TaskStep(x) PROVE y \notin eng'.todo
  <2>1. CASE SpawnTask(x)
    BY <1>1, <1>2, <2>1 DEF SpawnTask, SetTask
  <2>2. CASE TaskFetch(x) \/ TaskHandle(x) \/ TaskFinalize(x) \/ TaskMark(x) \/ TaskFails(x)
    BY <1>1, <1>2, <2>2 DEF TaskFetch, TaskHandle, TaskFinalize, TaskMark, TaskFails, SetTask,
                            IdleTask
  <2> QED
    BY <1>3, <2>1, <2>2 DEF TaskStep
<1>4. CASE EngineStep
  <2>1. task' = task
    BY <1>4 DEF EngineStep, ManagerTick, ManagerStop, PlanRange, StartBackfill,
       StartRange, BeginSlot, EndRange, ReadFinalizedHash, ReadTentativeHash, CompareHash,
       RollbackTentative, RollbackProcessed, RollbackFinalized, FetchBlock, SkipSlot,
       JoinTasks, FinalizeSlot, SaveSlot, NotifyRange, CompleteBackfill, AbortRange, OnlyEngine
  <2>2. eng.pc = "tasks" /\ y \notin eng.todo
    BY <1>2, <2>1
  <2>3. JoinTasks
    BY <1>4, <2>2, <2>1 DEF EngineStep, ManagerTick, ManagerStop, PlanRange, StartBackfill,
       StartRange, BeginSlot, EndRange, ReadFinalizedHash, ReadTentativeHash, CompareHash,
       RollbackTentative, RollbackProcessed, RollbackFinalized, FetchBlock, SkipSlot,
       FinalizeSlot, SaveSlot, NotifyRange, CompleteBackfill, AbortRange
  <2> QED
    BY <1>1, <2>2, <2>3 DEF JoinTasks, Goto
<1>5. CASE Restart
  BY <1>5 DEF Restart, ResetEngine, IdleTask, IdleEngine
<1>6. CASE Cancel \/ ClusterStep \/ UNCHANGED vars
  BY <1>2, <1>6 DEF Cancel, ClusterStep, vars, engineVars
<1> QED
  BY <1>3, <1>4, <1>5, <1>6 DEF Next

LEMMA StepHandled ==
  ASSUME FinalRange, FromProgress, IFinal, Swept, Handled, [Next]_vars
  PROVE  Handled'
<1> SUFFICES ASSUME NEW y \in Sigs
             PROVE  /\ calls'[y] <= 1 + Interruptions'
                    /\ Free(y)' => calls'[y] <= Interruptions'
  BY NoSecondCopy DEF Handled, Free, TxsAt
<1>1. /\ Interruptions \in Int /\ Interruptions' \in Int /\ Interruptions <= Interruptions'
      /\ calls[y] \in Nat /\ calls'[y] \in Nat
      /\ \A kind \in {"crash", "db", "handler"} :
           Fault(kind) => Interruptions' = Interruptions + 1
  BY InterruptionSteps, CallsFrame
<1>2. calls[y] <= 1 + Interruptions /\ (Free(y) => calls[y] <= Interruptions)
  BY DEF Handled
<1>3. CASE TaskHandle(y)
  BY <1>1, <1>2, <1>3, PastHandler, CallsFrame
<1>4. CASE TaskFails(y)
  BY <1>1, <1>2, <1>4, PastHandler, CallsFrame
<1>5. CASE ~TaskHandle(y) /\ ~TaskFails(y)
  <2>1. calls'[y] = calls[y]
    BY <1>5, CallsFrame
  <2>2. CASE Interruptions' = Interruptions + 1
    BY <1>1, <1>2, <2>1, <2>2
  <2>3. CASE Interruptions' # Interruptions + 1
    <3>1. ~Restart /\ \A kind \in {"db", "handler"} : ~(AbortRange /\ Fault(kind))
      BY <1>1, <2>3 DEF Restart, NewProcess
    <3>2. Free(y)' => Free(y)
      BY <1>5, <3>1, FreeStays
    <3> QED
      BY <1>1, <1>2, <2>1, <3>2
  <2> QED
    BY <2>2, <2>3
<1> QED
  BY <1>3, <1>4, <1>5

\* What the rest of an indexer may do hands out no transaction.
LEMMA HandledOutside ==
  ASSUME Handled, UNCHANGED <<progress, chainVars, engineVars, calls>>,
         \A sig \in Sigs : calls[sig] \in Int,
         Interruptions \in Int, Interruptions' \in Int, Interruptions <= Interruptions'
  PROVE  Handled'
<1> SUFFICES ASSUME NEW sig \in Sigs
             PROVE  /\ calls'[sig] <= 1 + Interruptions'
                    /\ Free(sig)' => calls'[sig] <= Interruptions'
                    /\ task'[sig].pc # "idle" => sig \notin eng'.todo
  BY DEF Handled
<1>1. Free(sig)' <=> Free(sig)
  BY DEF Free, chainVars, engineVars, TxsAt
<1>2. /\ calls[sig] <= 1 + Interruptions
      /\ Free(sig) => calls[sig] <= Interruptions
      /\ task[sig].pc # "idle" => sig \notin eng.todo
  BY DEF Handled
<1> QED
  BY <1>1, <1>2 DEF engineVars

\* A transaction is handed to its handlers again only after a crash, a failed
\* statement or a failed handler: one more time for each of them at most, and
\* never because two ranges overlap.
THEOREM HandledOnce ==
  ASSUME FinalRange, FromProgress
  PROVE  Spec => []HandledOncePerInterruption
<1> DEFINE Inv == IFinal /\ Swept /\ Handled
<1>1. Init => Inv
  BY InitFinal, InitSwept, InitHandled
<1>2. Inv /\ [Next]_vars => Inv'
  BY StepFinal, StepSwept, StepHandled
<1>3. Inv => HandledOncePerInterruption
  <2> SUFFICES ASSUME Inv, NEW sig \in Sigs
               PROVE  calls[sig] <= 1 + Used("crash") + Used("db") + Used("handler")
    BY DEF HandledOncePerInterruption
  <2>1. faults \in BudgetOf /\ FaultBudget \in BudgetOf
    BY ProcessAssumption DEF IFinal, IBlock, IType, TypeOK, ProcessTypeOK
  <2>2. Used("crash") \in Int /\ Used("db") \in Int /\ Used("handler") \in Int
    BY <2>1 DEF Used, BudgetOf
  <2> QED
    BY <2>2 DEF Handled, Interruptions
<1> QED
  BY <1>1, <1>2, <1>3, PTL DEF Spec

-----------------------------------------------------------------------------
(* A slot's tentative rows are its block's by the time they are promoted.  *)

\* Rows as a live run leaves them: a row with a block's hash belongs to that
\* block, and a slot's rows are of one block.
OfTheirBlock(rows) ==
  /\ \A sig \in Sigs : rows[sig].hash \in Hashes =>
       sig \in TxsOf[rows[sig].hash] /\ SlotOf[rows[sig].hash] = rows[sig].slot
  /\ \A a, b \in Sigs : rows[a].slot = rows[b].slot => rows[a].hash = rows[b].hash

InitialRowsOfTheirBlock == \A rows \in InitialTentative : OfTheirBlock(rows)

Clean(s) == TentativeAt(s) \subseteq TxsAt(chain, s)

\* What detect_reorg has established at each statement: the rows of the slot
\* at hand are its block's, or there are none left.
CleanAtHand ==
  /\ eng.pc \in {"fetch"} \union HashPcs => Clean(eng.cur)
  /\ eng.pc = "compare" /\ eng.hash = chain[eng.cur] => Clean(eng.cur)
  /\ eng.pc \in {"rollback2", "rollback3"} => TentativeAt(eng.cur) = {}

Pure ==
  /\ OfTheirBlock(tentative)
  /\ \A s \in Slots : HasBlock(s) => Clean(s)
  /\ CleanAtHand
  /\ \A sig \in Sigs : InProcessed(sig) =>
       processed[sig] <= root /\ sig \in TxsAt(chain, processed[sig])

LEMMA InitPure == InitialRowsOfTheirBlock /\ Init => Pure
<1> SUFFICES ASSUME InitialRowsOfTheirBlock, Init PROVE Pure
  OBVIOUS
<1>1. /\ eng.pc = "idle" /\ tentative \in InitialTentative
      /\ \A sig \in Sigs : ~InProcessed(sig)
      /\ \A s \in Slots : ~HasBlock(s)
  BY DEF Init, EngineInit, IdleEngine, InProcessed, HasBlock
<1> QED
  BY <1>1 DEF Pure, CleanAtHand, InitialRowsOfTheirBlock, HashPcs

\* The backfill adds no tentative row.
LEMMA TentativeShrinks ==
  ASSUME IFinal, [Next]_vars, NEW sig \in Sigs
  PROVE  tentative'[sig] = tentative[sig] \/ tentative'[sig] = NoRow
<1>1. tentative \in [Sigs -> TentativeRow \union {NoRow}]
  BY DEF IFinal, IBlock, IType, TypeOK, StorageTypeOK
<1>2. ASSUME NEW s, DeleteTentative(s)
      PROVE  tentative'[sig] = tentative[sig] \/ tentative'[sig] = NoRow
  BY <1>1, <1>2 DEF DeleteTentative
<1>3. ASSUME NEW x \in Sigs, TaskStep(x)
      PROVE  UNCHANGED tentative \/ \E s : DeleteTentative(s)
  <2>1. CASE TaskFinalize(x)
    BY <2>1 DEF TaskFinalize, InsertFinalized, PromoteTentative
  <2>2. CASE TaskMark(x)
    BY <2>2 DEF TaskMark, InsertProcessed
  <2>3. CASE SpawnTask(x) \/ TaskFetch(x) \/ TaskHandle(x) \/ TaskFails(x)
    BY <2>3 DEF SpawnTask, TaskFetch, TaskHandle, TaskFails, tables
  <2> QED
    BY <1>3, <2>1, <2>2, <2>3 DEF TaskStep
<1>4. CASE RollbackTentative \/ FinalizeSlot
  <2>1. UNCHANGED tentative \/ \E s : DeleteTentative(s)
    BY <1>4 DEF RollbackTentative, FinalizeSlot, InsertFinalized, PromoteTentative
  <2> QED
    BY <1>2, <2>1
<1>5. CASE \/ RollbackProcessed \/ RollbackFinalized \/ SaveSlot \/ CompleteBackfill
           \/ ManagerTick \/ ManagerStop \/ PlanRange \/ StartBackfill \/ StartRange
           \/ BeginSlot \/ EndRange \/ ReadFinalizedHash \/ ReadTentativeHash
           \/ CompareHash \/ FetchBlock \/ SkipSlot \/ JoinTasks \/ NotifyRange
           \/ AbortRange \/ Restart \/ Cancel \/ ClusterStep \/ UNCHANGED vars
  <2>1. UNCHANGED tentative
    BY <1>5 DEF RollbackProcessed, RollbackFinalized, SaveSlot, CompleteBackfill,
       DeleteProcessed, DeleteFinalized, SaveProgress, MarkComplete,
       ManagerTick, ManagerStop, PlanRange, StartBackfill, StartRange,
       BeginSlot, EndRange, ReadFinalizedHash, ReadTentativeHash, CompareHash, FetchBlock,
       SkipSlot, JoinTasks, NotifyRange, AbortRange, Restart, Cancel, ClusterStep, vars,
       OnlyEngine, tables
  <2> QED
    BY <2>1
<1> QED
  BY <1>2, <1>3, <1>4, <1>5 DEF Next, EngineStep

LEMMA RowsStayOfTheirBlock ==
  ASSUME IFinal, OfTheirBlock(tentative), [Next]_vars
  PROVE  OfTheirBlock(tentative')
<1>1. /\ tentative \in [Sigs -> TentativeRow \union {NoRow}]
      /\ \A sig \in Sigs : tentative'[sig] = tentative[sig] \/ tentative'[sig] = NoRow
  BY TentativeShrinks DEF IFinal, IBlock, IType, TypeOK, StorageTypeOK
<1>2. NoRow.hash = NoHash /\ NoRow.slot = -1 /\ NoHash \notin Hashes
  BY TypesAssumption DEF NoRow, NoSlot
<1>3. \A sig \in Sigs : tentative[sig] = NoRow \/ tentative[sig].slot \in Slots
  BY <1>1 DEF TentativeRow
<1>4. -1 \notin Slots
  BY DEF Slots
<1>5. ASSUME NEW sig \in Sigs, tentative'[sig].hash \in Hashes
      PROVE  /\ sig \in TxsOf[tentative'[sig].hash]
             /\ SlotOf[tentative'[sig].hash] = tentative'[sig].slot
  BY <1>1, <1>2, <1>5 DEF OfTheirBlock
<1>6. ASSUME NEW a \in Sigs, NEW b \in Sigs, tentative'[a].slot = tentative'[b].slot
      PROVE  tentative'[a].hash = tentative'[b].hash
  <2>1. CASE tentative'[a] = tentative[a] /\ tentative'[b] = tentative[b]
    BY <1>6, <2>1 DEF OfTheirBlock
  <2>2. CASE tentative'[a] = NoRow /\ tentative'[b] = NoRow
    BY <2>2
  <2>3. CASE tentative'[a] = NoRow /\ tentative'[b] = tentative[b]
    BY <1>2, <1>3, <1>4, <1>6, <2>3
  <2>4. CASE tentative'[a] = tentative[a] /\ tentative'[b] = NoRow
    BY <1>2, <1>3, <1>4, <1>6, <2>4
  <2> QED
    BY <1>1, <2>1, <2>2, <2>3, <2>4
<1> QED
  BY <1>5, <1>6 DEF OfTheirBlock

LEMMA CleanStays ==
  ASSUME IFinal, [Next]_vars, NEW s \in Slots, s <= root, Clean(s)
  PROVE  Clean(s)'
<1>1. TxsAt(chain', s) = TxsAt(chain, s)
  BY RootStays DEF TxsAt
<1>2. \A sig \in Sigs : tentative'[sig].slot = s => tentative[sig].slot = s
  <2>1. NoRow.slot # s
    BY DEF NoRow, NoSlot, Slots
  <2> QED
    BY <2>1, TentativeShrinks
<1> QED
  BY <1>1, <1>2 DEF Clean, TentativeAt, TxsAt

\* A hash is only recorded for the slot at hand.
LEMMA NewBlocks ==
  ASSUME IFinal, [Next]_vars, NEW s \in Slots, HasBlock(s)', ~HasBlock(s)
  PROVE  s = eng.cur /\ eng.pc \in HashPcs
<1>1. finalized \in [Slots -> StoredHashes \union {NoHash}]
  BY DEF IFinal, IBlock, IType, TypeOK, StorageTypeOK
<1>2. finalized' # finalized
  BY DEF HasBlock
<1>3. ASSUME NEW x \in Sigs, TaskStep(x) PROVE s = eng.cur /\ eng.pc \in HashPcs
  <2>1. task[x].pc = "final1" /\ InsertFinalized(task[x].slot, eng.hash)
    BY <1>2, <1>3 DEF TaskStep, SpawnTask, TaskFetch, TaskHandle, TaskFinalize, TaskMark, TaskFails,
       tables, PromoteTentative, DeleteTentative, InsertProcessed
  <2>2. task[x].slot = eng.cur /\ eng.pc = "tasks"
    BY <2>1 DEF IFinal, AtHand, PlacedTaskPcs, IBlock, IType, Locals, TasksKnow
  <2> QED
    BY <1>1, <2>1, <2>2 DEF InsertFinalized, HasBlock, HashPcs
<1>4. CASE FinalizeSlot
  <2>1. eng.pc = "final1" /\ InsertFinalized(eng.cur, eng.hash)
    BY <1>2, <1>4 DEF FinalizeSlot, PromoteTentative, DeleteTentative
  <2> QED
    BY <1>1, <2>1 DEF InsertFinalized, HasBlock, HashPcs
<1>5. CASE RollbackFinalized
  BY <1>1, <1>5 DEF RollbackFinalized, DeleteFinalized, HasBlock
<1>6. CASE \/ RollbackTentative \/ RollbackProcessed \/ SaveSlot \/ CompleteBackfill
           \/ ManagerTick \/ ManagerStop \/ PlanRange \/ StartBackfill \/ StartRange
           \/ BeginSlot \/ EndRange \/ ReadFinalizedHash \/ ReadTentativeHash
           \/ CompareHash \/ FetchBlock \/ SkipSlot \/ JoinTasks \/ NotifyRange
           \/ AbortRange \/ Restart \/ Cancel \/ ClusterStep \/ UNCHANGED vars
  BY <1>2, <1>6 DEF RollbackTentative, RollbackProcessed, SaveSlot, CompleteBackfill,
     DeleteTentative, DeleteProcessed, SaveProgress, MarkComplete,
     ManagerTick, ManagerStop, PlanRange, StartBackfill, StartRange,
     BeginSlot, EndRange, ReadFinalizedHash, ReadTentativeHash, CompareHash, FetchBlock,
     SkipSlot, JoinTasks, NotifyRange, AbortRange, Restart, Cancel, ClusterStep, vars,
     OnlyEngine, tables
<1> QED
  BY <1>3, <1>4, <1>5, <1>6 DEF Next, EngineStep

\* A processed row is only added for the slot at hand: the transaction of a
\* task, or one with a tentative row of that slot.
LEMMA NewRows ==
  ASSUME IFinal, [Next]_vars, NEW sig \in Sigs, InProcessed(sig)', ~InProcessed(sig)
  PROVE  /\ eng.pc \in HashPcs /\ processed'[sig] = eng.cur
         /\ sig \in TentativeAt(eng.cur) \union TxsAt(chain, eng.cur)
<1>1. processed \in [Sigs -> Slots \union {NoSlot}]
  BY DEF IFinal, IBlock, IType, TypeOK, StorageTypeOK
<1>2. processed'[sig] # processed[sig]
  BY DEF InProcessed
<1>3. ASSUME NEW x \in Sigs, TaskStep(x)
      PROVE  /\ eng.pc \in HashPcs /\ processed'[sig] = eng.cur
             /\ sig \in TentativeAt(eng.cur) \union TxsAt(chain, eng.cur)
  <2>1. \/ task[x].pc = "final2" /\ PromoteTentative(task[x].slot)
        \/ task[x].pc = "mark" /\ InsertProcessed(x, task[x].slot)
    BY <1>2, <1>3 DEF TaskStep, SpawnTask, TaskFetch, TaskHandle, TaskFinalize, TaskMark, TaskFails,
       tables, InsertFinalized, DeleteTentative
  <2>2. task[x].slot = eng.cur /\ eng.pc = "tasks" /\ x \in TxsAt(chain, eng.cur)
    BY <2>1 DEF IFinal, AtHand, PlacedTaskPcs, IBlock, IType, Locals, TasksKnow
  <2>3. CASE task[x].pc = "final2"
    BY <1>1, <1>2, <2>1, <2>2, <2>3 DEF PromoteTentative, HashPcs
  <2>4. CASE task[x].pc = "mark"
    <3>1. processed' = [processed EXCEPT ![x] = IF @ = NoSlot THEN eng.cur ELSE @]
      BY <2>1, <2>2, <2>4 DEF InsertProcessed
    <3>2. sig = x
      BY <1>1, <1>2, <3>1
    <3> QED
      BY <1>1, <1>2, <2>2, <3>1, <3>2 DEF HashPcs
  <2> QED
    BY <2>1, <2>3, <2>4
<1>4. CASE FinalizeSlot
  <2>1. eng.pc = "final2" /\ PromoteTentative(eng.cur)
    BY <1>2, <1>4 DEF FinalizeSlot, InsertFinalized, DeleteTentative
  <2> QED
    BY <1>1, <1>2, <2>1 DEF PromoteTentative, HashPcs
<1>5. CASE RollbackProcessed
  BY <1>1, <1>5 DEF RollbackProcessed, DeleteProcessed, InProcessed
<1>6. CASE \/ RollbackTentative \/ RollbackFinalized \/ SaveSlot \/ CompleteBackfill
           \/ ManagerTick \/ ManagerStop \/ PlanRange \/ StartBackfill \/ StartRange
           \/ BeginSlot \/ EndRange \/ ReadFinalizedHash \/ ReadTentativeHash
           \/ CompareHash \/ FetchBlock \/ SkipSlot \/ JoinTasks \/ NotifyRange
           \/ AbortRange \/ Restart \/ Cancel \/ ClusterStep \/ UNCHANGED vars
  BY <1>2, <1>6 DEF RollbackTentative, RollbackFinalized, SaveSlot, CompleteBackfill,
     DeleteTentative, DeleteFinalized, SaveProgress, MarkComplete,
     ManagerTick, ManagerStop, PlanRange, StartBackfill, StartRange,
     BeginSlot, EndRange, ReadFinalizedHash, ReadTentativeHash, CompareHash, FetchBlock,
     SkipSlot, JoinTasks, NotifyRange, AbortRange, Restart, Cancel, ClusterStep, vars,
     OnlyEngine, tables
<1> QED
  BY <1>3, <1>4, <1>5, <1>6 DEF Next, EngineStep

LEMMA StepCleanAtHand ==
  ASSUME IFinal, Pure, [Next]_vars
  PROVE  CleanAtHand'
<1>1. /\ eng \in [pc : ManagerPcs \union DetectPcs \union SlotPcs, latest : Slots, cur : Int,
                  start : Int, end : Int, hash : StoredHashes \union {NoHash}, todo : SUBSET Sigs]
      /\ CleanAtHand /\ StorageTypeOK /\ ChainTypeOK
  BY DEF IFinal, IBlock, IType, TypeOK, BackfillTypeOK, Pure
<1>2. eng.pc \in {"fetch"} \union BlockPcs \union HashPcs => eng.cur \in Slots /\ eng.cur <= root
  BY AtHandFinal
<1>3. ASSUME NEW c, c = eng.cur, c \in Slots, c <= root, Clean(c) PROVE Clean(c)'
  BY <1>3, CleanStays
<1>4. CASE eng'.pc \notin {"fetch", "compare", "rollback2", "rollback3"} \union HashPcs
  BY <1>4 DEF CleanAtHand
<1>5. CASE /\ eng'.pc = eng.pc /\ eng'.cur = eng.cur /\ eng'.hash = eng.hash
           /\ eng.pc \in {"fetch"} \union BlockPcs \union HashPcs
  <2>1. \A c : c = eng.cur => chain'[c] = chain[c] /\ (Clean(c) => Clean(c)')
    BY <1>2, <1>3, <1>5, RootStays
  <2>2. ASSUME TentativeAt(eng.cur) = {}, NEW c, c = eng.cur PROVE TentativeAt(c)' = {}
    <3>1. c \in Slots /\ NoRow.slot # c
      BY <1>2, <1>5, <2>2 DEF NoRow, NoSlot, Slots
    <3> QED
      BY <2>2, <3>1, TentativeShrinks DEF TentativeAt
  <2> QED
    BY <1>1, <1>5, <2>1, <2>2 DEF CleanAtHand, Clean, TentativeAt
<1>6. CASE ReadFinalizedHash
  <2>1. eng.cur \in Slots /\ HasBlock(eng.cur) => Clean(eng.cur)
    BY DEF Pure
  <2>2. UNCHANGED <<chain, tentative>> /\ eng.pc = "hash1"
    BY <1>6 DEF ReadFinalizedHash, OnlyEngine, tables, Env, chainVars
  <2>3. \/ eng.cur \in Slots /\ HasBlock(eng.cur) /\ eng'.pc = "compare" /\ eng'.cur = eng.cur
        \/ eng'.pc = "hash2"
    BY <1>1, <1>6 DEF ReadFinalizedHash, HasBlock
  <2> QED
    BY <2>1, <2>2, <2>3 DEF CleanAtHand, Clean, TentativeAt, TxsAt, HashPcs
<1>7. CASE ReadTentativeHash
  <2>1. UNCHANGED <<chain, tentative>> /\ eng.pc = "hash2"
    BY <1>7 DEF ReadTentativeHash, OnlyEngine, tables, Env, chainVars
  <2>2. CASE TentativeAt(eng.cur) = {} /\ Goto("fetch")
    <3>1. eng'.pc = "fetch" /\ eng'.cur = eng.cur
      BY <1>1, <2>2 DEF Goto
    <3> QED
      BY <2>1, <2>2, <3>1 DEF CleanAtHand, Clean, TentativeAt, HashPcs
  <2>3. ASSUME NEW sig \in TentativeAt(eng.cur),
               eng' = [eng EXCEPT !.pc = "compare", !.hash = tentative[sig].hash]
        PROVE  CleanAtHand'
    <3>1. eng'.pc = "compare" /\ eng'.cur = eng.cur /\ eng'.hash = tentative[sig].hash
      BY <1>1, <2>3
    <3>2. sig \in Sigs /\ tentative[sig].slot = eng.cur /\ eng.cur \in Nat
      BY <2>1, Numbers DEF TentativeAt, IFinal, RangePcs
    <3>3. tentative[sig].hash \in StoredHashes /\ eng.cur \in Slots
      BY <1>1, <3>2 DEF StorageTypeOK, TentativeRow, NoRow, NoSlot
    <3>4. ASSUME tentative[sig].hash = chain[eng.cur] PROVE Clean(eng.cur)
      <4>1. chain[eng.cur] \in Hashes
        BY <1>1, <3>3, <3>4, TypesAssumption DEF ChainTypeOK, StoredHashes
      <4>2. \A x \in TentativeAt(eng.cur) : x \in TxsOf[chain[eng.cur]]
        BY <3>2, <3>4, <4>1 DEF Pure, OfTheirBlock, TentativeAt
      <4> QED
        BY <4>1, <4>2, TypesAssumption DEF Clean, TxsAt
    <3> QED
      BY <2>1, <3>1, <3>4 DEF CleanAtHand, Clean, TentativeAt, TxsAt, HashPcs
  <2> QED
    BY <1>7, <2>2, <2>3 DEF ReadTentativeHash
<1>8. CASE CompareHash
  <2>1. UNCHANGED <<chain, tentative>> /\ eng.pc = "compare"
    BY <1>8 DEF CompareHash, OnlyEngine, tables, Env, chainVars
  <2>2. /\ eng'.cur = eng.cur
        /\ \/ eng'.pc = "rollback1"
           \/ eng'.pc = "fetch" /\ eng.hash = chain[eng.cur]
    BY <1>1, <1>8 DEF CompareHash
  <2> QED
    BY <1>1, <2>1, <2>2 DEF CleanAtHand, Clean, TentativeAt, TxsAt, HashPcs
<1>9. CASE RollbackTentative
  <2>1. eng.cur \in Slots /\ eng'.pc = "rollback2" /\ eng'.cur = eng.cur
    BY <1>1, <1>2, <1>9 DEF RollbackTentative, Goto, BlockPcs
  <2>2. \A sig \in Sigs : tentative'[sig].slot # eng.cur
    BY <1>1, <1>9, <2>1
       DEF RollbackTentative, DeleteTentative, TentativeAt, NoRow, NoSlot, Slots, StorageTypeOK
  <2> QED
    BY <2>1, <2>2 DEF CleanAtHand, TentativeAt, HashPcs
<1>10. CASE RollbackProcessed \/ RollbackFinalized
  <2>1. UNCHANGED tentative /\ TentativeAt(eng.cur) = {}
    BY <1>1, <1>10 DEF RollbackProcessed, RollbackFinalized, DeleteProcessed, DeleteFinalized,
                       CleanAtHand
  <2>2. eng'.pc \in {"rollback3", "fetch"} /\ eng'.cur = eng.cur
    BY <1>1, <1>10 DEF RollbackProcessed, RollbackFinalized, Goto
  <2> QED
    BY <2>1, <2>2 DEF CleanAtHand, Clean, TentativeAt, HashPcs
<1>11. CASE FetchBlock \/ JoinTasks \/ FinalizeSlot
  <2>1. eng.pc \in {"fetch"} \union HashPcs /\ eng'.pc \in HashPcs /\ eng'.cur = eng.cur
    BY <1>1, <1>11 DEF FetchBlock, JoinTasks, FinalizeSlot, Goto, HashPcs
  <2>2. \A c : c = eng.cur => Clean(c)'
    BY <1>1, <1>2, <1>3, <2>1 DEF CleanAtHand
  <2> QED
    BY <2>1, <2>2 DEF CleanAtHand, Clean, TentativeAt, TxsAt, HashPcs
<1>12. ASSUME NEW x \in Sigs, TaskStep(x) PROVE CleanAtHand'
  <2>1. UNCHANGED <<eng.pc, eng.cur, eng.hash>>
    BY <1>1, <1>12 DEF TaskStep, SpawnTask, TaskFetch, TaskHandle, TaskFinalize, TaskMark, TaskFails
  <2>2. eng.pc = "tasks"
    BY <1>12 DEF TaskStep, SpawnTask, TaskFetch, TaskHandle, TaskFinalize, TaskMark, TaskFails,
                 IFinal, IBlock, IType, Locals, TasksKnow
  <2> QED
    BY <1>5, <2>1, <2>2 DEF HashPcs
<1>13. CASE Cancel \/ ClusterStep \/ UNCHANGED vars
  <2>1. UNCHANGED eng
    BY <1>13 DEF Cancel, ClusterStep, vars, engineVars
  <2> QED
    BY <1>4, <1>5, <2>1 DEF BlockPcs
<1>14. CASE ManagerStop \/ NotifyRange \/ CompleteBackfill \/ AbortRange \/ Restart
  BY <1>4, <1>14, GivesUp DEF HashPcs
<1>15. CASE ManagerTick \/ StartRange \/ BeginSlot \/ EndRange \/ SkipSlot \/ SaveSlot
  <2>1. eng'.pc \in {"load", "loop", "hash1", "notify", "complete"}
    BY <1>1, <1>15, MovesOn DEF ManagerTick, StartRange, BeginSlot, EndRange, Goto
  <2> QED
    BY <1>4, <2>1 DEF HashPcs
<1>16. CASE PlanRange \/ StartBackfill
  BY <1>4, <1>16, PlannedStart DEF HashPcs, WorkPcs, InRange, DetectPcs, SlotPcs
<1> QED
  BY <1>6, <1>7, <1>8, <1>9, <1>10, <1>11, <1>12, <1>13, <1>14, <1>15, <1>16
     DEF Next, EngineStep

LEMMA StepPure ==
  ASSUME IFinal, Pure, [Next]_vars
  PROVE  Pure'
<1>1. OfTheirBlock(tentative)'
  BY RowsStayOfTheirBlock DEF Pure, OfTheirBlock
<1>2. CleanAtHand'
  BY StepCleanAtHand
<1>3. ASSUME NEW s \in Slots, HasBlock(s)' PROVE Clean(s)'
  <2>1. s <= root /\ Clean(s)
    <3>1. CASE HasBlock(s)
      BY <3>1 DEF Pure, IFinal, StoredOnChain
    <3>2. CASE ~HasBlock(s)
      BY <1>3, <3>2, NewBlocks, AtHandFinal DEF Pure, CleanAtHand
    <3> QED
      BY <3>1, <3>2
  <2> QED
    BY <2>1, CleanStays
<1>4. ASSUME NEW sig \in Sigs, InProcessed(sig)'
      PROVE  processed'[sig] <= root' /\ sig \in TxsAt(chain', processed'[sig])
  <2>1. /\ processed'[sig] \in Slots /\ processed'[sig] <= root
        /\ sig \in TxsAt(chain, processed'[sig])
    <3>1. CASE InProcessed(sig)
      <4>1. processed'[sig] = processed[sig]
        BY <3>1, RowsStay
      <4>2. processed[sig] \in Slots
        BY <3>1 DEF InProcessed, IFinal, IBlock, IType, TypeOK, StorageTypeOK
      <4> QED
        BY <3>1, <4>1, <4>2 DEF Pure
    <3>2. CASE ~InProcessed(sig)
      BY <1>4, <3>2, NewRows, AtHandFinal DEF Pure, CleanAtHand, Clean
    <3> QED
      BY <3>1, <3>2
  <2> QED
    BY <2>1, RootStays DEF TxsAt, Slots
<1> QED
  BY <1>1, <1>2, <1>3, <1>4 DEF Pure, HasBlock, InProcessed, TxsAt

\* No transaction of an abandoned fork is ever promoted into the processed
\* table of a finalized slot: whatever fork of the slot the live run saw, and
\* wherever a rollback or a mark_finalized is interrupted.
THEOREM NoOrphans ==
  ASSUME FinalRange, InitialRowsOfTheirBlock
  PROVE  Spec => []NoOrphanProcessed
<1> DEFINE Inv == IFinal /\ Pure
<1>1. Init => Inv
  BY InitFinal, InitPure
<1>2. Inv /\ [Next]_vars => Inv'
  BY StepFinal, StepPure
<1>3. Inv => NoOrphanProcessed
  BY DEF Pure, NoOrphanProcessed
<1> QED
  BY <1>1, <1>2, <1>3, PTL DEF Spec
=============================================================================
