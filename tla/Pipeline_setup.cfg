SPECIFICATION FairSpec

CONSTANTS
  p = p
  q = q
  bad = bad
  token = token
  e1 = e1
  e2 = e2
  e3 = e3
  x = x
  y = y
  plain = plain
  t1 = t1
  t2 = t2
  t3 = t3
  t4 = t4
  any = any
  Unset = Unset
  BadId = bad
  NoProgram = NoProgram
  NoEvent = NoEvent
  AnyAccount = any
  ProgramIds <- MCPrograms
  Programs <- MCPrograms
  Keys <- MCKeys
  Forms <- MCForms
  Events <- MCEvents
  Transactions <- MCTransactions
  Content <- MCContent
  Registrations <- MCRegistrations
  Settings <- MCSettings
  ProviderErrors <- MCErrors
  MaxSettings = 5
  MaxRegistrations = 4

INVARIANTS
  TypeOK
  RpcSettingsAgree
  WithinLimits
  Attribution
  RetriesAsConfigured
  RecordedIsComplete
  HandledInOrder

PROPERTIES
  RunsEnd

CHECK_DEADLOCK FALSE
