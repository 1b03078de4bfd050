SPECIFICATION Spec

CONSTANTS
  A0 = A0
  A1 = A1
  B1 = B1
  A2 = A2
  t1 = t1
  t2 = t2
  t3 = t3
  NoHash = NoHash
  UnknownHash = UnknownHash
  MaxSlot = 2
  Hashes <- MCHashes
  Sigs <- MCSigs
  SlotOf <- MCSlotOf
  TxsOf <- MCTxsOf
  Config <- Open
  EntryPoint = "manager"
  Concurrency = 2
  InitialTentative <- OneForkTentative
  MaxCalls = 4
  FaultBudget <- Crashes
  InitialTip = 0
  Commitment = "confirmed"
  MaxReorgs = 1

INVARIANTS
  TypeOK
  ProcessedHasBlock
  SweptSlotsIndexed
  NoOrphanProcessed
  OnlyFinalizedStored
  HandledOncePerInterruption
  AnnouncedRangesIndexed
PROPERTIES
  ProgressNeverRegresses
  ProcessedRowsImmutable
