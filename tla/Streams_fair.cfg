SPECIFICATION FairSpec

CONSTANTS
  A0 = A0
  A1 = A1
  t1 = t1
  t2 = t2
  p = p
  NoHash = NoHash
  UnknownHash = UnknownHash
  NoSig = NoSig
  MaxSlot = 1
  Hashes <- MCHashes
  Sigs <- MCSigs
  SlotOf <- MCSlotOf
  TxsOf <- MCTxsOf
  Rank <- MCRank
  Programs <- OneProgram
  ProgramsOf <- OnlyP
  Reverted <- MCReverted
  Mode = "hybrid"
  LogsOnly = TRUE
  BatchLimit = 1
  PollLimit = 3
  Capacity = 1
  MaxDrops = 1
  MaxHandled = 4
  FaultBudget <- Failures
  InitialTip = 0
  Commitment = "confirmed"
  MaxReorgs = 0

PROPERTIES
  GapsAreFilled
  CancellationStops

CHECK_DEADLOCK FALSE
