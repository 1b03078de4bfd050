SPECIFICATION Spec

CONSTANTS
  A0 = A0
  A1 = A1
  B1 = B1
  A2 = A2
  t1 = t1
  t2 = t2
  t3 = t3
  p = p
  q = q
  j1 = j1
  j2 = j2
  NoHash = NoHash
  UnknownHash = UnknownHash
  NoSig = NoSig
  MaxSlot = 2
  Hashes <- MCHashes
  Sigs <- MCSigs
  SlotOf <- MCSlotOf
  Rank <- MCRank
  Jobs <- MCJobs
  TxsOf <- Spread
  Programs <- OneProgram
  ProgramsOf <- OnlyP
  Strategy = "resume"
  BatchSize = 3
  Workers = 1
  MaxRetries = 1
  MaxHandled = 4
  FaultBudget <- OneCrash
  InitialTip = 0
  Commitment = "confirmed"
  MaxReorgs = 0

INVARIANTS
  ResumeLeavesNoGap
