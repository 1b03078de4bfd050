SPECIFICATION FairSpec

CONSTANTS
  A0 = A0
  A1 = A1
  B1 = B1
  A2 = A2
  t1 = t1
  t2 = t2
  t3 = t3
  p = p
  q = q
  j1 = j1
  j2 = j2
  NoHash = NoHash
  UnknownHash = UnknownHash
  NoSig = NoSig
  MaxSlot = 2
  Hashes <- MCHashes
  Sigs <- MCSigs
  SlotOf <- MCSlotOf
  Rank <- MCRank
  Jobs <- MCJobs
  TxsOf <- MCTxsOf
  Programs <- OneProgram
  ProgramsOf <- OnlyP
  Strategy = t1
  BatchSize = 3
  Workers = 2
  MaxRetries = 1
  MaxHandled = 4
  FaultBudget <- CrashHandler
  InitialTip = 1
  Commitment = "confirmed"
  MaxReorgs = 0

PROPERTIES
  EveryTransactionRecorded
  Delivers
