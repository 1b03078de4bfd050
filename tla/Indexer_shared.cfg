SPECIFICATION Spec

CONSTANTS
  A0 = A0
  A1 = A1
  B1 = B1
  t0 = t0
  t1 = t1
  t2 = t2
  p = p
  j1 = j1
  j2 = j2
  NoHash = NoHash
  UnknownHash = UnknownHash
  NoSig = NoSig
  MaxSlot = 1
  Hashes <- MCHashes
  Sigs <- MCSigs
  SlotOf <- MCSlotOf
  TxsOf <- MCTxsOf
  Rank <- MCRank
  Programs <- OneProgram
  ProgramsOf <- OnlyP
  Jobs <- MCJobs
  Strategy = t0
  BatchSize = 2
  Workers = 1
  MaxRetries = 0
  MaxHandled = 4
  Config <- Open
  EntryPoint = "manager"
  Concurrency = 1
  InitialTentative <- NoTentative
  MaxCalls = 3
  StaleThreshold = 0
  FaultBudget <- Faults
  InitialTip = 0
  Commitment = "confirmed"
  MaxReorgs = 1

INVARIANTS
  RecordedWasHandled
  HandledOnceWhileKept

PROPERTIES
  BackfillUndisturbed

CHECK_DEADLOCK FALSE
