SPECIFICATION FairSpec

CONSTANTS
  A1 = A1
  B1 = B1
  t1 = t1
  t2 = t2
  j1 = j1
  j2 = j2
  j3 = j3
  NoHash = NoHash
  UnknownHash = UnknownHash
  MaxSlot = 1
  Hashes <- MCHashes
  Sigs <- MCSigs
  SlotOf <- MCSlotOf
  TxsOf <- MCTxsOf
  Jobs <- MCJobs
  Sources <- Both
  Leftovers <- MCLeftovers
  Capacity = 1
  BatchLimit = 1
  Permits = 2
  MaxDrops = 1
  MaxHandled = 3
  FaultBudget <- Faults
  InitialTip = 0
  Commitment = "confirmed"
  MaxReorgs = 1

INVARIANTS
  TypeOK
  OncePerDelivery
  NothingDropped
  ProcessedHasBlock

PROPERTIES
  Settles
  CancellationStops

CHECK_DEADLOCK FALSE
