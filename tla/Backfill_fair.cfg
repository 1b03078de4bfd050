SPECIFICATION FairSpec

CONSTANTS
  A0 = A0
  A1 = A1
  B1 = B1
  A2 = A2
  t1 = t1
  t2 = t2
  t3 = t3
  NoHash = NoHash
  UnknownHash = UnknownHash
  MaxSlot = 2
  Hashes <- MCHashes
  Sigs <- MCSigs
  SlotOf <- MCSlotOf
  TxsOf <- MCTxsOf
  Config <- Wide
  EntryPoint = "manager"
  Concurrency = 2
  InitialTentative <- NoTentative
  MaxCalls = 4
  FaultBudget <- Failures
  InitialTip = 0
  Commitment = "confirmed"
  MaxReorgs = 0

PROPERTIES
  FinalizedSlotsGetIndexed

CHECK_DEADLOCK FALSE
