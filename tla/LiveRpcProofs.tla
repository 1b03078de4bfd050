--------------------------- MODULE LiveRpcProofs ---------------------------
(***************************************************************************)
(* Proofs about the live RPC source, for every chain, strategy, number of  *)
(* workers, batch size and fault budget.                                   *)
(***************************************************************************)
EXTENDS LiveRpc, SharedProofs

\* What the loop and its tasks know at each program counter.
PollKnows == poll.pc \in {"check2", "spawn"} => poll.batch # <<>>
JobKnows(r, count) ==
  /\ r.pc # "idle" => r.sig \in Sigs
  /\ r.pc \in {"block", "handle", "mark"} => r.slot \in Slots
  /\ r.pc \in {"handle", "mark"} => r.hash \in StoredHashes
  /\ r.pc = "mark" => count[r.sig] > 0
JobsKnow == \A j \in Jobs : JobKnows(job[j], handled)

ILive == TypeOK /\ PollKnows /\ JobsKnow

-----------------------------------------------------------------------------
(* Type correctness.                                                       *)

LEMMA ReceivedType ==
  ASSUME TypeOK, NEW batch \in Received
  PROVE  batch \in Seq(Sigs)
<1>1. PICK q \in Answers(Programs[poll.program], poll.cursor, BatchSize) : batch = poll.batch \o q
  BY DEF Received
<1>2. q \in Seq(Sigs)
  BY AnswerType, LiveAssumption
<1>3. poll.batch \in Seq(Sigs)
  BY DEF TypeOK, PollRecord
<1> QED
  BY <1>1, <1>2, <1>3

LEMMA ProgramsType == Len(Programs) \in Nat /\ 1 \in 1..Len(Programs)
  BY LiveAssumption, SignaturesAssumption

LEMMA InitLive == Init => ILive
<1> SUFFICES ASSUME Init PROVE ILive
  OBVIOUS
<1> USE TypesAssumption, ChainAssumption, LiveAssumption, SignaturesAssumption, ProcessAssumption
<1>1. ChainTypeOK
  BY DEF Init, ChainInit, ChainTypeOK, Slots
<1>2. PICK b \in NoSlot..InitialTip : IndexedUpTo(b)
  BY DEF Init
<1>3. StorageTypeOK
  <2>1. \A sig \in Sigs : OnChain(sig) => SlotOn(sig) \in Slots
    BY DEF OnChain, SlotOn
  <2>2. processed \in [Sigs -> Slots \union {NoSlot}]
    <3> SUFFICES ASSUME NEW sig \in Sigs, NEW s \in 0..b, sig \in TxsAt(chain, s)
                 PROVE  SlotOn(sig) \in Slots
      BY <1>2 DEF IndexedUpTo
    <3>1. s \in Slots
      BY <1>2 DEF Slots, NoSlot
    <3> QED
      BY <2>1, <3>1 DEF OnChain
  <2>3. tentative \in [Sigs -> TentativeRow \union {NoRow}]
    BY <1>2 DEF IndexedUpTo
  <2>4. finalized \in [Slots -> StoredHashes \union {NoHash}]
    BY <1>1, <1>2 DEF IndexedUpTo, ChainTypeOK, StoredHashes
  <2>5. b \in Slots \union {NoSlot}
    BY DEF Slots, NoSlot
  <2>6. progress \in [last : Slots \union {NoSlot}, complete : BOOLEAN]
    BY <1>2, <2>5 DEF IndexedUpTo
  <2> QED
    BY <2>2, <2>3, <2>4, <2>6 DEF StorageTypeOK
<1>4. ProcessTypeOK
  BY DEF Init, ProcessInit, ProcessTypeOK
<1>5. handled \in [Sigs -> 0..MaxHandled]
  BY <1>2 DEF IndexedUpTo
<1>6. LiveInit
  BY DEF Init
<1>7. <<>> \in Seq(Sigs)
  OBVIOUS
<1>8. TypeOK
  BY <1>1, <1>3, <1>4, <1>5, <1>6, <1>7, ProgramsType
     DEF LiveInit, TypeOK, NoJob, PollRecord, JobRecord
<1> QED
  BY <1>6, <1>8 DEF ILive, LiveInit, PollKnows, JobsKnow, JobKnows, NoJob

\* Steps of the loop that start no task.
LEMMA PollOnlyLive ==
  ASSUME ILive,
         \/ Boot \/ NextProgram("latest") \/ Checkpoint \/ Tick \/ NextProgram("fetch")
         \/ Receive \/ CheckProcessed \/ CheckTentative \/ JoinJobs
  PROVE  ILive'
<1> USE LiveAssumption, SignaturesAssumption, ProgramsType DEF ILive, TypeOK
<1>1. UNCHANGED <<tables, chainVars, processVars, job, handled, failed, dropped>>
  BY DEF Boot, NextProgram, Checkpoint, Tick, Receive, CheckProcessed, CheckTentative,
         JoinJobs, OnlyPoll, processVars
<1>2. StorageTypeOK' /\ ChainTypeOK' /\ ProcessTypeOK'
  BY <1>1, StorageFrame, ChainStep, ProcessFrame DEF processVars
<1>3. JobsKnow'
  BY <1>1 DEF JobsKnow, JobKnows
<1> DEFINE OriginType(o) ==
      o \in Sigs \union {NoSig}
    Done == poll' \in PollRecord /\ OriginType(origin') /\ PollKnows'
<1> SUFFICES Done
  BY <1>1, <1>2, <1>3
<1> USE DEF PollKnows, PollRecord
<1>4. ASSUME NEW cursor \in Sigs \union {NoSig}, StartFrom(cursor)
      PROVE  Done
  BY <1>4 DEF StartFrom
<1>5. CASE Boot
  <2>1. CASE Strategy \in Sigs /\ StartFrom(Strategy)
    BY <2>1, <1>4
  <2>2. CASE \E sig \in LastProcessedSignatures : StartFrom(sig)
    BY <2>2, <1>4 DEF LastProcessedSignatures
  <2>3. CASE poll' = [poll EXCEPT !.pc = "latest"] /\ UNCHANGED origin
    BY <2>3
  <2> QED
    BY <1>5, <2>1, <2>2, <2>3 DEF Boot
<1>6. ASSUME NEW pc \in {"latest", "fetch"}, NextProgram(pc)
      PROVE  Done
  <2>1. PICK batch \in Received : poll' = [poll EXCEPT !.program = @ + 1, !.batch = batch]
    BY <1>6 DEF NextProgram
  <2>2. batch \in Seq(Sigs)
    BY ReceivedType
  <2>3. poll.program + 1 \in 1..Len(Programs) /\ poll.pc = pc /\ UNCHANGED origin
    <3>1. poll.program \in 1..Len(Programs) /\ poll.program # Len(Programs)
      BY <1>6 DEF NextProgram, LastProgram
    <3>2. poll.pc = pc /\ UNCHANGED origin
      BY <1>6 DEF NextProgram
    <3> QED
      BY <3>1, <3>2, ProgramsType
  <2>4. poll' = [poll EXCEPT !.program = poll.program + 1, !.batch = batch]
    BY <2>1
  <2> DEFINE next == poll.program + 1
  <2>5. next \in 1..Len(Programs) /\ poll' = [poll EXCEPT !.program = next, !.batch = batch]
    BY <2>3, <2>4
  <2> HIDE DEF next
  <2> QED
    BY <2>2, <2>3, <2>5
<1>7. CASE Checkpoint
  <2>1. PICK batch \in Received : StartFrom(IF batch = <<>> THEN NoSig ELSE Head(batch))
    BY <1>7 DEF Checkpoint
  <2>2. batch \in Seq(Sigs)
    BY ReceivedType
  <2>3. batch # <<>> => Head(batch) \in Sigs
    BY <2>2
  <2> QED
    BY <2>1, <2>3, <1>4
<1>8. CASE Tick
  BY <1>8 DEF Tick
<1>9. CASE Receive
  <2>1. PICK batch \in Received :
           poll' = IF batch = <<>>
                   THEN [poll EXCEPT !.pc = "tick", !.program = 1]
                   ELSE [pc |-> "check1", cursor |-> Head(batch), program |-> 1,
                         batch |-> batch]
    BY <1>9 DEF Receive
  <2>2. batch \in Seq(Sigs)
    BY ReceivedType
  <2>3. batch # <<>> => Head(batch) \in Sigs
    BY <2>2
  <2>4. UNCHANGED origin
    BY <1>9 DEF Receive
  <2> QED
    BY <2>1, <2>2, <2>3, <2>4
<1>10. CASE CheckProcessed
  <2>1. poll.batch # <<>> => Tail(poll.batch) \in Seq(Sigs)
    OBVIOUS
  <2> QED
    BY <1>10, <2>1 DEF CheckProcessed
<1>11. CASE CheckTentative
  <2>1. poll.batch # <<>> /\ Tail(poll.batch) \in Seq(Sigs)
    BY <1>11 DEF CheckTentative
  <2> QED
    BY <1>11, <2>1 DEF CheckTentative
<1>12. CASE JoinJobs
  BY <1>12 DEF JoinJobs
<1> QED
  BY <1>5, <1>6, <1>7, <1>8, <1>9, <1>10, <1>11, <1>12

\* A task's record may be replaced by any that knows what its counter requires.
LEMMA JobReplaced ==
  ASSUME TypeOK, JobsKnow, NEW j \in Jobs, NEW r \in JobRecord,
         job' = [job EXCEPT ![j] = r], JobKnows(r, handled'),
         \A sig \in Sigs : handled[sig] > 0 => handled'[sig] > 0
  PROVE  job' \in [Jobs -> JobRecord] /\ JobsKnow'
<1>1. job' \in [Jobs -> JobRecord] /\ job'[j] = r
      /\ \A k \in Jobs : k # j => job'[k] = job[k]
  BY DEF TypeOK
<1>2. ASSUME NEW k \in Jobs, k # j
      PROVE  JobKnows(job[k], handled')
  BY <1>1, <1>2 DEF JobsKnow, JobKnows
<1> QED
  BY <1>1, <1>2 DEF JobsKnow, JobKnows

LEMMA NoJobKnows == NoJob \in JobRecord /\ JobKnows(NoJob, handled) /\ JobKnows(NoJob, handled')
  BY LiveAssumption, SignaturesAssumption DEF NoJob, JobRecord, JobKnows

\* Steps of the loop that start or let go of tasks.
LEMMA PollJobsLive ==
  ASSUME ILive, SpawnJob \/ AbandonPoll \/ StopOnError
  PROVE  ILive'
<1> USE LiveAssumption, SignaturesAssumption DEF ILive
<1>1. UNCHANGED <<tables, chainVars, cancelled, handled, failed, origin>>
  BY DEF SpawnJob, AbandonPoll, StopOnError, processVars
<1>2. \/ UNCHANGED faults
      \/ \E kind \in {"crash", "cancel", "db", "rpc", "handler"} : Fault(kind)
  BY DEF SpawnJob, AbandonPoll, StopOnError, processVars
<1>3. StorageTypeOK' /\ ChainTypeOK' /\ ProcessTypeOK'
  <2>1. cancelled' \in BOOLEAN
    BY <1>1 DEF TypeOK, ProcessTypeOK
  <2> QED
    BY <1>1, <1>2, <2>1, StorageFrame, ChainStep, FaultType DEF TypeOK
<1> SUFFICES /\ poll' \in PollRecord /\ PollKnows'
             /\ job' \in [Jobs -> JobRecord] /\ JobsKnow'
             /\ dropped' \subseteq Sigs
  BY <1>1, <1>3 DEF TypeOK
<1>4. CASE SpawnJob
  <2> DEFINE free == CHOOSE j \in FreeJobs : TRUE
             r == [NoJob EXCEPT !.sig = Head(poll.batch), !.pc = "fetch", !.joined = TRUE]
  <2>1. free \in Jobs
    BY <1>4 DEF SpawnJob, FreeJobs
  <2>2. Head(poll.batch) \in Sigs /\ Tail(poll.batch) \in Seq(Sigs)
    BY <1>4 DEF SpawnJob, TypeOK, PollRecord, PollKnows
  <2>3. job' = [job EXCEPT ![free] = r]
    BY <1>4 DEF SpawnJob
  <2>4. poll' = [poll EXCEPT !.pc = "check1", !.batch = Tail(poll.batch)]
        /\ UNCHANGED dropped
    BY <1>4 DEF SpawnJob
  <2>5. r \in JobRecord /\ JobKnows(r, handled')
    <3>1. ASSUME NEW q \in JobRecord, NEW sig \in Sigs
          PROVE  LET x == [q EXCEPT !.sig = sig, !.pc = "fetch", !.joined = TRUE]
                 IN  x \in JobRecord /\ x.sig = sig /\ x.pc = "fetch"
      BY DEF JobRecord
    <3>2. r \in JobRecord /\ r.sig \in Sigs /\ r.pc = "fetch"
      BY <2>2, <3>1, NoJobKnows
    <3> HIDE DEF r
    <3> QED
      BY <3>2 DEF JobKnows
  <2>6. poll' \in PollRecord /\ PollKnows'
    <3>1. poll \in PollRecord
      BY DEF TypeOK
    <3> QED
      BY <2>2, <2>4, <3>1 DEF PollRecord, PollKnows
  <2> HIDE DEF free, r
  <2> QED
    BY <1>1, <2>1, <2>3, <2>4, <2>5, <2>6, JobReplaced DEF TypeOK
<1>5. CASE AbandonPoll
  <2>1. Range(poll.batch) \subseteq Sigs
    BY DEF Range, TypeOK, PollRecord
  <2>2. job' = [j \in Jobs |-> [job[j] EXCEPT !.joined = FALSE]]
        /\ poll' = [poll EXCEPT !.pc = "tick", !.batch = <<>>]
        /\ dropped' = dropped \union Range(poll.batch)
    BY <1>5 DEF AbandonPoll
  <2>3. <<>> \in Seq(Sigs)
    OBVIOUS
  <2>4. poll' \in PollRecord /\ PollKnows'
    BY <2>2, <2>3 DEF TypeOK, PollRecord, PollKnows
  <2>5. job' \in [Jobs -> JobRecord]
    <3>1. \A r \in JobRecord : [r EXCEPT !.joined = FALSE] \in JobRecord
      BY DEF JobRecord
    <3> QED
      BY <2>2, <3>1 DEF TypeOK
  <2>6. ASSUME NEW j \in Jobs PROVE JobKnows(job'[j], handled')
    <3>1. JobKnows(job[j], handled) /\ job[j] \in JobRecord
          /\ job'[j] = [job[j] EXCEPT !.joined = FALSE]
      BY <2>2 DEF JobsKnow, TypeOK
    <3> QED
      BY <1>1, <3>1 DEF JobKnows, JobRecord
  <2> QED
    BY <2>1, <2>2, <2>4, <2>5, <2>6 DEF TypeOK, JobsKnow
<1>6. CASE StopOnError
  <2>1. job' = [j \in Jobs |-> NoJob] /\ UNCHANGED dropped
        /\ poll' = [poll EXCEPT !.pc = "stopped", !.batch = <<>>]
    BY <1>6 DEF StopOnError
  <2>2. <<>> \in Seq(Sigs)
    OBVIOUS
  <2>3. poll' \in PollRecord /\ PollKnows'
    BY <2>1, <2>2 DEF TypeOK, PollRecord, PollKnows
  <2>4. job' \in [Jobs -> JobRecord] /\ JobsKnow'
    BY <2>1, NoJobKnows DEF JobsKnow, JobKnows
  <2> QED
    BY <2>1, <2>3, <2>4 DEF TypeOK
<1> QED
  BY <1>4, <1>5, <1>6

LEMMA HandledGrows ==
  ASSUME NEW n \in Nat PROVE Min({n + 1, MaxHandled}) \in 1..MaxHandled
<1>1. MaxHandled \in Nat \ {0}
  BY LiveAssumption, SignaturesAssumption
<1>2. \E x \in {n + 1, MaxHandled} : \A y \in {n + 1, MaxHandled} : x <= y
  BY <1>1
<1>3. Min({n + 1, MaxHandled}) \in {n + 1, MaxHandled}
      /\ Min({n + 1, MaxHandled}) <= MaxHandled
  BY <1>2 DEF Min
<1> QED
  BY <1>1, <1>3

LEMMA JobLive ==
  ASSUME ILive, NEW j \in Jobs, JobStep(j)
  PROVE  ILive'
<1> USE LiveAssumption, SignaturesAssumption DEF ILive
<1>1. UNCHANGED <<chainVars, cancelled, poll, dropped, origin>>
  BY DEF JobStep, JobFetch, JobBlock, JobHandle, JobRetry, JobMark, JobFails, OnlyJob
<1>2. \/ UNCHANGED faults
      \/ \E kind \in {"crash", "cancel", "db", "rpc", "handler"} : Fault(kind)
  BY DEF JobStep, JobFetch, JobBlock, JobHandle, JobRetry, JobMark, JobFails
<1>3. ChainTypeOK' /\ ProcessTypeOK' /\ PollKnows'
  <2>1. cancelled' \in BOOLEAN
    BY <1>1 DEF TypeOK, ProcessTypeOK
  <2> QED
    BY <1>1, <1>2, <2>1, ChainStep, FaultType DEF PollKnows, TypeOK
<1>4. job[j] \in JobRecord /\ JobKnows(job[j], handled) /\ JobsKnow /\ TypeOK
  BY DEF TypeOK, JobsKnow
<1>5. ASSUME NEW r \in JobRecord, job' = [job EXCEPT ![j] = r], JobKnows(r, handled'),
             StorageTypeOK', handled' \in [Sigs -> 0..MaxHandled], failed' \subseteq Sigs,
             \A sig \in Sigs : handled[sig] > 0 => handled'[sig] > 0
      PROVE  ILive'
  BY <1>1, <1>3, <1>4, <1>5, JobReplaced DEF TypeOK
<1>6. ASSUME NEW r \in JobRecord, job' = [job EXCEPT ![j] = r], JobKnows(r, handled),
             UNCHANGED <<tables, handled, failed>>
      PROVE  ILive'
  <2>1. StorageTypeOK' /\ handled' \in [Sigs -> 0..MaxHandled] /\ failed' \subseteq Sigs
    BY <1>6, StorageFrame DEF TypeOK
  <2>2. JobKnows(r, handled')
    BY <1>6 DEF JobKnows
  <2> QED
    BY <1>5, <1>6, <2>1, <2>2
<1>7. CASE JobFetch(j)
  <2>1. PICK s \in SlotsOfTx(job[j].sig) :
               job' = [job EXCEPT ![j] = [job[j] EXCEPT !.pc = "block", !.slot = s]]
    BY <1>7, <1>4 DEF JobFetch, TypeOK
  <2>2. s \in Slots /\ job[j].pc = "fetch" /\ UNCHANGED <<tables, handled, failed>>
    BY <1>7 DEF JobFetch, SlotsOfTx
  <2> DEFINE r == [job[j] EXCEPT !.pc = "block", !.slot = s]
  <2>3. r \in JobRecord /\ JobKnows(r, handled)
    BY <1>4, <2>2 DEF JobRecord, JobKnows
  <2> HIDE DEF r
  <2> QED
    BY <1>6, <2>1, <2>2, <2>3 DEF r
<1>8. CASE JobBlock(j)
  <2>1. job[j].slot \in Slots /\ job[j].pc = "block" /\ UNCHANGED <<tables, handled, failed>>
    BY <1>8, <1>4 DEF JobBlock, JobKnows
  <2>2. BlockAvailable(job[j].slot) => chain[job[j].slot] \in StoredHashes
    BY <2>1, AvailableBlock, TypesAssumption DEF Slots, StoredHashes, TypeOK
  <2>3. PICK h \in StoredHashes :
               job' = [job EXCEPT ![j] = [job[j] EXCEPT !.pc = "handle", !.hash = h]]
    BY <1>8, <1>4, <2>2 DEF JobBlock, StoredHashes, TypeOK
  <2> DEFINE r == [job[j] EXCEPT !.pc = "handle", !.hash = h]
  <2>4. r \in JobRecord /\ JobKnows(r, handled)
    BY <1>4, <2>1 DEF JobRecord, JobKnows
  <2> HIDE DEF r
  <2> QED
    BY <1>6, <2>1, <2>3, <2>4 DEF r
<1>9. CASE JobHandle(j)
  <2> DEFINE r == [job[j] EXCEPT !.pc = "mark"]
             n == Min({handled[job[j].sig] + 1, MaxHandled})
  <2>1. job' = [job EXCEPT ![j] = r] /\ job[j].pc = "handle" /\ UNCHANGED <<tables, failed>>
        /\ handled' = [handled EXCEPT ![job[j].sig] = n]
    BY <1>9, <1>4 DEF JobHandle, TypeOK
  <2>2. job[j].sig \in Sigs /\ r \in JobRecord
    BY <1>4, <2>1 DEF JobRecord, JobKnows
  <2>3. n \in 1..MaxHandled
    <3>1. handled[job[j].sig] \in Nat
      BY <2>2 DEF TypeOK
    <3> QED
      BY <3>1, HandledGrows
  <2> HIDE DEF n
  <2>4. /\ handled' \in [Sigs -> 0..MaxHandled]
        /\ handled'[job[j].sig] > 0
        /\ \A sig \in Sigs : handled[sig] > 0 => handled'[sig] > 0
    BY <2>1, <2>2, <2>3 DEF TypeOK
  <2>5. JobKnows(r, handled')
    BY <1>4, <2>1, <2>2, <2>4 DEF JobRecord, JobKnows
  <2>6. StorageTypeOK' /\ failed' \subseteq Sigs
    BY <2>1, StorageFrame DEF TypeOK
  <2> HIDE DEF r
  <2> QED
    BY <1>5, <2>1, <2>2, <2>4, <2>5, <2>6
<1>10. CASE JobRetry(j)
  <2> DEFINE r == [job[j] EXCEPT !.tries = job[j].tries + 1]
  <2>1. job' = [job EXCEPT ![j] = r] /\ job[j].tries < MaxRetries
        /\ UNCHANGED <<tables, handled, failed>>
    BY <1>10, <1>4 DEF JobRetry, TypeOK
  <2>2. job[j].tries + 1 \in 0..MaxRetries
    BY <1>4, <2>1 DEF JobRecord
  <2>3. r \in JobRecord /\ JobKnows(r, handled)
    BY <1>4, <2>2 DEF JobRecord, JobKnows
  <2> HIDE DEF r
  <2> QED
    BY <1>6, <2>1, <2>3
<1>11. CASE JobMark(j)
  <2>1. job' = [job EXCEPT ![j] = NoJob] /\ UNCHANGED <<handled, failed>>
    BY <1>11 DEF JobMark
  <2>2. job[j].sig \in Sigs /\ job[j].slot \in Slots /\ job[j].hash \in StoredHashes
    BY <1>11, <1>4 DEF JobMark, JobKnows
  <2>3. StorageTypeOK'
    BY <1>11, <2>2, StatementTypes DEF JobMark, TypeOK
  <2> QED
    BY <1>5, <2>1, <2>3, NoJobKnows DEF TypeOK
<1>12. CASE JobFails(j)
  <2>1. job' = [job EXCEPT ![j] = NoJob] /\ UNCHANGED <<tables, handled>>
        /\ failed' = failed \union {job[j].sig}
    BY <1>12 DEF JobFails
  <2>2. job[j].sig \in Sigs
    BY <1>12, <1>4 DEF JobFails, JobKnows
  <2>3. StorageTypeOK' /\ failed' \subseteq Sigs
    BY <2>1, <2>2, StorageFrame DEF TypeOK
  <2> QED
    BY <1>5, <2>1, <2>3, NoJobKnows DEF TypeOK
<1> QED
  BY <1>7, <1>8, <1>9, <1>10, <1>11, <1>12 DEF JobStep

LEMMA LiveFrame ==
  ASSUME ILive, UNCHANGED liveVars, StorageTypeOK', ChainTypeOK', ProcessTypeOK'
  PROVE  ILive'
  BY DEF ILive, TypeOK, liveVars, PollKnows, JobsKnow, JobKnows

LEMMA LiveReset ==
  ASSUME ILive, ResetLive, StorageTypeOK', ChainTypeOK', ProcessTypeOK'
  PROVE  ILive'
<1> USE LiveAssumption, SignaturesAssumption DEF ILive, TypeOK
<1>1. poll' = [pc |-> "boot", cursor |-> NoSig, program |-> 1, batch |-> <<>>]
      /\ job' = [j \in Jobs |-> NoJob] /\ UNCHANGED <<handled, failed, dropped, origin>>
  BY DEF ResetLive
<1>2. <<>> \in Seq(Sigs)
  OBVIOUS
<1>3. poll' \in PollRecord /\ PollKnows'
  BY <1>1, <1>2, ProgramsType DEF PollRecord, PollKnows
<1>4. job' \in [Jobs -> JobRecord] /\ JobsKnow'
  BY <1>1, NoJobKnows DEF JobsKnow, JobKnows
<1> QED
  BY <1>1, <1>3, <1>4

LEMMA OtherLive ==
  ASSUME ILive, Restart \/ Cancel \/ ClusterStep \/ UNCHANGED vars
  PROVE  ILive'
<1> USE LiveAssumption, SignaturesAssumption DEF ILive, TypeOK
<1>1. StorageTypeOK' /\ ChainTypeOK'
  <2>1. UNCHANGED tables /\ (ChainNext \/ UNCHANGED chainVars)
    BY DEF Restart, Cancel, ClusterStep, vars
  <2> QED
    BY <2>1, StorageFrame, ChainStep
<1>2. ProcessTypeOK'
  <2>1. cancelled' \in BOOLEAN
    BY DEF Restart, NewProcess, Cancel, CancelToken, ClusterStep, vars, processVars,
           ProcessTypeOK
  <2>2. \/ UNCHANGED faults
        \/ \E kind \in {"crash", "cancel", "db", "rpc", "handler"} : Fault(kind)
    BY DEF Restart, NewProcess, Cancel, CancelToken, ClusterStep, vars, processVars
  <2> QED
    BY <2>1, <2>2, FaultType
<1>3. CASE Restart
  BY <1>1, <1>2, <1>3, LiveReset DEF Restart
<1>4. CASE UNCHANGED liveVars
  BY <1>1, <1>2, <1>4, LiveFrame
<1> QED
  BY <1>3, <1>4 DEF Cancel, ClusterStep, vars

LEMMA StepLive == ILive /\ [Next]_vars => ILive'
  BY PollOnlyLive, PollJobsLive, JobLive, OtherLive DEF Next, PollStep

\* The tables, the loop, its tasks and the histories keep their types, under
\* every interleaving of the poll's steps with the tasks it spawns.
THEOREM LiveTypeCorrect == Spec => []TypeOK
<1>1. ILive => TypeOK
  BY DEF ILive
<1> QED
  BY InitLive, StepLive, <1>1, PTL DEF Spec

-----------------------------------------------------------------------------
(* The marker is never ahead of the effect.                                *)

IMarked == ILive /\ RecordedWasHandled

LEMMA InitMarked == Init => IMarked
<1> SUFFICES ASSUME Init PROVE RecordedWasHandled
  BY InitLive DEF IMarked
<1>1. PICK b \in NoSlot..InitialTip : IndexedUpTo(b)
  BY DEF Init
<1> QED
  BY <1>1 DEF IndexedUpTo, RecordedWasHandled, Recorded, InTentative

LEMMA StepMarked == IMarked /\ [Next]_vars => IMarked'
<1> SUFFICES ASSUME IMarked, [Next]_vars PROVE RecordedWasHandled'
  BY StepLive DEF IMarked
<1> USE DEF IMarked, ILive, RecordedWasHandled, Recorded, InProcessed, InTentative
<1>1. CASE UNCHANGED <<tables, handled>>
  BY <1>1 DEF tables
<1>2. ASSUME NEW j \in Jobs, JobHandle(j)
      PROVE  RecordedWasHandled'
  <2>1. UNCHANGED tables /\ JobsKnow' /\ TypeOK'
    BY <1>2, StepLive DEF JobHandle
  <2>2. job'[j].pc = "mark" /\ job'[j].sig = job[j].sig
    BY <1>2 DEF JobHandle, TypeOK
  <2>3. handled'[job[j].sig] > 0
    BY <2>1, <2>2 DEF JobsKnow, JobKnows
  <2>4. \A sig \in Sigs : sig # job[j].sig => handled'[sig] = handled[sig]
    BY <1>2 DEF JobHandle, TypeOK
  <2>5. \A sig \in Sigs : handled[sig] > 0 => handled'[sig] > 0
    BY <2>3, <2>4
  <2> QED
    BY <2>1, <2>5 DEF tables
<1>3. ASSUME NEW j \in Jobs, JobMark(j)
      PROVE  RecordedWasHandled'
  <2>1. handled[job[j].sig] > 0 /\ UNCHANGED <<processed, handled>>
    BY <1>3 DEF JobMark, JobsKnow, JobKnows, InsertTentative
  <2>2. \A sig \in Sigs : sig # job[j].sig => tentative'[sig] = tentative[sig]
    BY <1>3 DEF JobMark, InsertTentative, TypeOK, StorageTypeOK
  <2> QED
    BY <2>1, <2>2
<1>4. ASSUME NEW j \in Jobs, JobStep(j)
      PROVE  RecordedWasHandled'
  BY <1>1, <1>2, <1>3, <1>4 DEF JobStep, JobFetch, JobBlock, JobRetry, JobFails
<1>5. CASE PollStep
  BY <1>1, <1>5 DEF PollStep, Boot, NextProgram, Checkpoint, Tick, Receive, CheckProcessed,
     CheckTentative, JoinJobs, SpawnJob, AbandonPoll, StopOnError, OnlyPoll
<1>6. CASE Restart \/ Cancel \/ ClusterStep \/ UNCHANGED vars
  BY <1>1, <1>6 DEF Restart, ResetLive, Cancel, ClusterStep, vars, liveVars
<1> QED
  BY <1>4, <1>5, <1>6 DEF Next

\* A transaction in either table has been through its handlers, for every
\* schedule of polls, tasks, faults and restarts.
THEOREM MarkerFollowsEffect == Spec => []RecordedWasHandled
<1>1. IMarked => RecordedWasHandled
  BY DEF IMarked
<1> QED
  BY InitMarked, StepMarked, <1>1, PTL DEF Spec

-----------------------------------------------------------------------------
(* A transaction is handled again only after an interruption.              *)

\* No transaction names two of the configured programs: one that does is
\* received once for each of them in the same poll.
OneProgramEach ==
  \A sig \in Sigs, i, k \in 1..Len(Programs) :
    Programs[i] \in ProgramsOf[sig] /\ Programs[k] \in ProgramsOf[sig] => i = k

Asking == {"latest", "fetch"}
Polling == {"check1", "check2", "spawn", "join"}

\* An empty slot holds no task of this poll, nor a signature.
IdleEmpty == \A j \in Jobs : job[j].pc = "idle" => job[j].sig = NoSig /\ ~job[j].joined

\* The loop's batch holds a signature once, and none it has started a task for.
BatchFresh ==
  /\ poll.pc \in {"boot", "tick", "join"} => poll.batch = <<>>
  /\ poll.pc \notin Polling => Joined = {}
  /\ IsInjective(poll.batch)
  /\ \A j \in Joined, i \in DOMAIN poll.batch : job[j].sig # poll.batch[i]
  /\ poll.pc \in Asking =>
       \A i \in DOMAIN poll.batch : \E m \in 1..(poll.program - 1) :
         Programs[m] \in ProgramsOf[poll.batch[i]]

\* The tasks of a transaction that have not called its handlers yet.
Waiting(sig) == {j \in Jobs : job[j].sig = sig /\ job[j].pc \in {"fetch", "block", "handle"}}

\* What is known whoever else writes the tables.
IFresh ==
  /\ ILive /\ IdleEmpty /\ BatchFresh
  /\ \A sig \in Sigs : IsFiniteSet(Waiting(sig))

\* Only the loop's own tasks write the tables, and not the processed one.
Unseen == poll.pc = "check2" => ~InProcessed(Head(poll.batch))

Interruptions == Used("crash") + Used("db")

\* One more task of the transaction may be started: its last one is over and
\* left no row, or the loop has just looked for one.
Free(sig) ==
  \/ poll.pc = "spawn" /\ Head(poll.batch) = sig
  \/ /\ poll.pc # "stopped" /\ sig \notin Recorded
     /\ \A j \in Joined : job[j].sig # sig

\* Every call made or still due is paid for by an interruption, but for one;
\* and for that one too as long as another task may be started.
Paid ==
  \A sig \in Sigs :
    /\ handled[sig] + Cardinality(Waiting(sig)) <= 1 + Interruptions
    /\ Free(sig) => handled[sig] + Cardinality(Waiting(sig)) <= Interruptions

IPaid == IFresh /\ Unseen /\ Paid

LEMMA InitFresh == Init => IFresh
<1> SUFFICES ASSUME Init PROVE IFresh
  OBVIOUS
<1>1. ILive
  BY InitLive
<1>2. /\ poll.pc = "boot" /\ poll.batch = <<>>
      /\ \A j \in Jobs : job[j] = NoJob
  BY DEF Init, LiveInit
<1>3. IdleEmpty /\ BatchFresh
  BY <1>2 DEF IdleEmpty, BatchFresh, Joined, NoJob, Polling, Asking, IsInjective
<1>4. \A sig \in Sigs : Waiting(sig) = {}
  BY <1>2 DEF Waiting, NoJob
<1> QED
  BY <1>1, <1>3, <1>4, FS_EmptySet DEF IFresh

LEMMA InitPaid == Init => IPaid
<1> SUFFICES ASSUME Init PROVE IPaid
  OBVIOUS
<1>1. IFresh
  BY InitFresh
<1>2. poll.pc = "boot" /\ \A j \in Jobs : job[j] = NoJob
  BY DEF Init, LiveInit
<1>3. PICK b \in NoSlot..InitialTip : IndexedUpTo(b)
  BY DEF Init
<1>4. Interruptions = 0
  BY ProcessAssumption DEF Init, ProcessInit, Interruptions, Used, BudgetOf
<1>5. \A sig \in Sigs : Cardinality(Waiting(sig)) = 0
  <2>1. \A sig \in Sigs : Waiting(sig) = {}
    BY <1>2 DEF Waiting, NoJob
  <2> QED
    BY <2>1, FS_EmptySet
<1>6. \A sig \in Sigs :
        /\ handled[sig] \in Nat /\ handled[sig] <= 1
        /\ sig \notin Recorded => handled[sig] = 0
  BY <1>3 DEF IndexedUpTo, Recorded
<1>7. \A sig \in Sigs : Free(sig) => sig \notin Recorded
  BY <1>2 DEF Free
<1>8. Paid
  BY <1>4, <1>5, <1>6, <1>7 DEF Paid
<1> QED
  BY <1>1, <1>2, <1>8 DEF IPaid, Unseen

LEMMA ReceivedFresh ==
  ASSUME OneProgramEach, TypeOK, BatchFresh, poll.pc \in Asking, NEW batch \in Received
  PROVE  /\ IsInjective(batch)
         /\ \A i \in DOMAIN batch : \E m \in 1..poll.program :
              Programs[m] \in ProgramsOf[batch[i]]
<1> DEFINE n == poll.program
           old == poll.batch
           Below(sig) == \E m \in 1..(n - 1) : Programs[m] \in ProgramsOf[sig]
<1>1. PICK q \in Answers(Programs[n], poll.cursor, BatchSize) : batch = old \o q
  BY DEF Received
<1>2. /\ q \in Seq(Sigs) /\ IsInjective(q)
      /\ \A i \in DOMAIN q : Programs[n] \in ProgramsOf[q[i]]
  BY AnswerDistinct, LiveAssumption DEF Found
<1>3. /\ old \in Seq(Sigs) /\ IsInjective(old) /\ n \in 1..Len(Programs)
      /\ \A i \in DOMAIN old : Below(old[i])
  BY DEF TypeOK, PollRecord, BatchFresh
<1>4. Len(Programs) \in Nat
  BY ProgramsType
<1>5. \A i \in DOMAIN old, k \in DOMAIN q : old[i] # q[k]
  <2> SUFFICES ASSUME NEW i \in DOMAIN old, NEW k \in DOMAIN q, old[i] = q[k]
               PROVE  FALSE
    OBVIOUS
  <2>1. PICK m \in 1..(n - 1) : Programs[m] \in ProgramsOf[q[k]]
    BY <1>3
  <2>2. m \in 1..Len(Programs) /\ m # n /\ q[k] \in Sigs
    BY <1>2, <1>3, <1>4, <2>1
  <2> QED
    BY <1>2, <1>3, <2>1, <2>2 DEF OneProgramEach
<1> HIDE DEF old, Below
<1>6. batch \in Seq(Sigs) /\ Len(batch) = Len(old) + Len(q)
      /\ Len(old) \in Nat /\ Len(q) \in Nat
  BY <1>1, <1>2, <1>3, ConcatProperties
<1>7. ASSUME NEW i \in DOMAIN batch
      PROVE  IF i <= Len(old) THEN i \in DOMAIN old /\ batch[i] = old[i]
             ELSE i - Len(old) \in DOMAIN q /\ batch[i] = q[i - Len(old)]
  <2>1. i \in 1..(Len(old) + Len(q))
    BY <1>6, <1>7
  <2> QED
    BY <1>1, <1>2, <1>3, <1>6, <2>1, ConcatProperties
<1>8. \A i, k \in DOMAIN batch : batch[i] = batch[k] => i = k
  <2> SUFFICES ASSUME NEW i \in DOMAIN batch, NEW k \in DOMAIN batch, batch[i] = batch[k]
               PROVE  i = k
    OBVIOUS
  <2>1. i \in Int /\ k \in Int
    BY <1>6
  <2> QED
    BY <1>2, <1>3, <1>5, <1>6, <1>7, <2>1 DEF IsInjective
<1>9. ASSUME NEW i \in DOMAIN batch
      PROVE  \E m \in 1..n : Programs[m] \in ProgramsOf[batch[i]]
  <2>1. CASE i <= Len(old)
    <3>1. Below(batch[i])
      BY <1>3, <1>7, <2>1
    <3> QED
      BY <1>3, <3>1 DEF Below
  <2>2. CASE ~(i <= Len(old))
    <3>1. Programs[n] \in ProgramsOf[batch[i]]
      BY <1>2, <1>7, <2>2
    <3> QED
      BY <1>3, <3>1
  <2> QED
    BY <2>1, <2>2
<1> QED
  BY <1>8, <1>9 DEF IsInjective

LEMMA TailFresh ==
  ASSUME NEW b \in Seq(Sigs), b # <<>>
  PROVE  /\ Tail(b) \in Seq(Sigs) /\ Head(b) = b[1] /\ 1 \in DOMAIN b
         /\ \A i \in DOMAIN Tail(b) : i + 1 \in DOMAIN b /\ Tail(b)[i] = b[i + 1]
         /\ IsInjective(b) => /\ IsInjective(Tail(b))
                              /\ \A i \in DOMAIN Tail(b) : Tail(b)[i] # Head(b)
<1>1. /\ Tail(b) \in Seq(Sigs) /\ Head(b) = b[1] /\ 1 \in DOMAIN b
      /\ \A i \in DOMAIN Tail(b) : i \in Nat \ {0} /\ i + 1 \in DOMAIN b /\ Tail(b)[i] = b[i + 1]
  BY HeadTailProperties
<1>2. ASSUME IsInjective(b) PROVE IsInjective(Tail(b))
  <2> SUFFICES ASSUME NEW i \in DOMAIN Tail(b), NEW k \in DOMAIN Tail(b), Tail(b)[i] = Tail(b)[k]
               PROVE  i = k
    BY DEF IsInjective
  <2>1. i + 1 = k + 1
    BY <1>1, <1>2 DEF IsInjective
  <2> QED
    BY <1>1, <2>1
<1>3. ASSUME IsInjective(b), NEW i \in DOMAIN Tail(b) PROVE Tail(b)[i] # Head(b)
  <2>1. i + 1 # 1
    BY <1>1
  <2> QED
    BY <1>1, <1>3, <2>1 DEF IsInjective
<1> QED
  BY <1>1, <1>2, <1>3

\* A step of a task leaves the loop alone, and the tasks of this poll are
\* those that were and have not ended.
LEMMA JobFrame ==
  ASSUME IFresh, NEW j \in Jobs, JobStep(j)
  PROVE  /\ UNCHANGED <<poll, processed>>
         /\ \A k \in Jobs : k # j => job'[k] = job[k]
         /\ job'[j] = NoJob \/ /\ job'[j].sig = job[j].sig /\ job'[j].joined = job[j].joined
                               /\ job'[j].pc # "idle"
         /\ \A k \in Joined' : k \in Joined /\ job'[k].sig = job[k].sig
         /\ IdleEmpty'
<1> USE DEF IFresh, ILive
<1>1. job \in [Jobs -> JobRecord]
  BY DEF TypeOK
<1>2. UNCHANGED <<poll, processed>>
  BY DEF JobStep, JobFetch, JobBlock, JobHandle, JobRetry, JobMark, JobFails, OnlyJob, tables,
         InsertTentative
<1>3. \E r : job' = [job EXCEPT ![j] = r]
  BY DEF JobStep, JobFetch, JobBlock, JobHandle, JobRetry, JobMark, JobFails
<1>4. \A k \in Jobs : k # j => job'[k] = job[k]
  BY <1>1, <1>3
<1>5. job'[j] = NoJob \/ /\ job'[j].sig = job[j].sig /\ job'[j].joined = job[j].joined
                         /\ job'[j].pc # "idle"
  <2>1. CASE JobFetch(j)
    BY <1>1, <2>1 DEF JobFetch, JobRecord
  <2>2. CASE JobBlock(j)
    BY <1>1, <2>2 DEF JobBlock, JobRecord
  <2>3. CASE JobHandle(j) \/ JobRetry(j)
    BY <1>1, <2>3 DEF JobHandle, JobRetry, JobRecord
  <2>4. CASE JobMark(j) \/ JobFails(j)
    BY <1>1, <2>4 DEF JobMark, JobFails
  <2> QED
    BY <2>1, <2>2, <2>3, <2>4 DEF JobStep
<1>6. \A k \in Joined' : k \in Joined /\ job'[k].sig = job[k].sig
  BY <1>4, <1>5 DEF Joined, NoJob
<1>7. IdleEmpty'
  BY <1>4, <1>5 DEF IdleEmpty, NoJob
<1> QED
  BY <1>2, <1>4, <1>5, <1>6, <1>7

\* Steps of the loop that leave the tasks alone.
LEMMA PollOnlyFresh ==
  ASSUME OneProgramEach, IFresh,
         \/ Boot \/ NextProgram("latest") \/ Checkpoint \/ Tick \/ NextProgram("fetch")
         \/ Receive \/ CheckProcessed \/ CheckTentative \/ JoinJobs
  PROVE  BatchFresh'
<1> USE DEF IFresh, ILive
<1>1. poll \in PollRecord /\ poll.batch \in Seq(Sigs) /\ UNCHANGED <<job, processed>>
  BY DEF TypeOK, PollRecord, Boot, NextProgram, Checkpoint, Tick, Receive, CheckProcessed,
         CheckTentative, JoinJobs, OnlyPoll, tables
<1>2. Joined' = Joined /\ \A k \in Joined : job'[k] = job[k]
  BY <1>1 DEF Joined
<1> USE DEF BatchFresh, Polling, Asking
<1>3. IsInjective(<<>>) /\ DOMAIN <<>> = {}
  BY DEF IsInjective
<1>4. ASSUME NEW cursor, StartFrom(cursor), poll.pc \notin Polling
      PROVE  BatchFresh'
  BY <1>2, <1>3, <1>4 DEF StartFrom
<1>5. CASE Boot
  <2>1. CASE \E cursor : StartFrom(cursor)
    BY <1>4, <1>5, <2>1 DEF Boot
  <2>2. CASE poll' = [poll EXCEPT !.pc = "latest"]
    BY <1>1, <1>2, <1>3, <1>5, <2>2 DEF Boot, PollRecord
  <2> QED
    BY <1>5, <2>1, <2>2 DEF Boot
<1>6. ASSUME NEW pc \in Asking, NextProgram(pc)
      PROVE  BatchFresh'
  <2>1. PICK batch \in Received : poll' = [poll EXCEPT !.program = @ + 1, !.batch = batch]
    BY <1>6 DEF NextProgram
  <2>2. /\ poll'.pc = pc /\ poll.pc = pc /\ poll'.batch = batch
        /\ poll'.program = poll.program + 1 /\ poll.program \in Int
    <3>1. poll.pc = pc /\ poll.program \in 1..Len(Programs)
      BY <1>1, <1>6 DEF NextProgram, PollRecord
    <3>2. /\ poll'.pc = poll.pc /\ poll'.batch = batch /\ poll'.program = poll.program + 1
      BY <1>1, <2>1 DEF PollRecord
    <3> QED
      BY <3>1, <3>2, ProgramsType
  <2>3. /\ IsInjective(batch)
        /\ \A i \in DOMAIN batch : \E m \in 1..poll.program : Programs[m] \in ProgramsOf[batch[i]]
    BY <2>2, ReceivedFresh
  <2>4. (poll.program + 1) - 1 = poll.program
    BY <2>2
  <2>5. Joined' = {}
    BY <1>2, <2>2
  <2> QED
    BY <2>2, <2>3, <2>4, <2>5
<1>7. CASE Checkpoint
  BY <1>4, <1>7 DEF Checkpoint
<1>8. CASE Tick
  BY <1>1, <1>2, <1>3, <1>8 DEF Tick, PollRecord
<1>9. CASE Receive
  <2>1. PICK batch \in Received :
           poll' = IF batch = <<>>
                   THEN [poll EXCEPT !.pc = "tick", !.program = 1]
                   ELSE [pc |-> "check1", cursor |-> Head(batch), program |-> 1,
                         batch |-> batch]
    BY <1>9 DEF Receive
  <2>2. poll.pc = "fetch" /\ Joined' = {} /\ IsInjective(batch)
    BY <1>2, <1>9, ReceivedFresh DEF Receive
  <2>3. batch = <<>> => poll.batch = <<>>
    <3>1. PICK q \in Answers(Programs[poll.program], poll.cursor, BatchSize) :
             batch = poll.batch \o q
      BY DEF Received
    <3>2. q \in Seq(Sigs)
      BY AnswerDistinct, LiveAssumption
    <3>3. Len(batch) = Len(poll.batch) + Len(q) /\ Len(poll.batch) \in Nat /\ Len(q) \in Nat
      BY <1>1, <3>1, <3>2, ConcatProperties
    <3>4. batch = <<>> => Len(poll.batch) = 0
      BY <3>3
    <3> QED
      BY <1>1, <3>4, EmptySeq
  <2> QED
    BY <1>1, <2>1, <2>2, <2>3 DEF PollRecord
<1>10. ASSUME CheckProcessed \/ CheckTentative, poll.batch # <<>>,
              poll' = [poll EXCEPT !.pc = "check1", !.batch = Tail(poll.batch)]
       PROVE  BatchFresh'
  BY <1>1, <1>2, <1>10, TailFresh DEF PollRecord
<1>11. CASE CheckProcessed
  BY <1>1, <1>2, <1>10, <1>11 DEF CheckProcessed, PollRecord, InProcessed
<1>12. CASE CheckTentative
  <2>1. poll.batch # <<>>
    BY <1>12 DEF CheckTentative, PollKnows
  <2> QED
    BY <1>1, <1>2, <1>10, <1>12, <2>1 DEF CheckTentative, PollRecord
<1>13. CASE JoinJobs
  BY <1>1, <1>2, <1>13 DEF JoinJobs, PollRecord
<1> QED
  BY <1>5, <1>6, <1>7, <1>8, <1>9, <1>11, <1>12, <1>13

LEMMA PollFresh ==
  ASSUME OneProgramEach, IFresh, PollStep
  PROVE  IdleEmpty' /\ BatchFresh'
<1> USE DEF IFresh, ILive
<1>1. poll \in PollRecord /\ poll.batch \in Seq(Sigs) /\ job \in [Jobs -> JobRecord]
  BY DEF TypeOK, PollRecord
<1>2. IsInjective(<<>>) /\ DOMAIN <<>> = {}
  BY DEF IsInjective
<1> USE DEF BatchFresh, Polling, Asking, IdleEmpty, Joined
<1>3. CASE \/ Boot \/ NextProgram("latest") \/ Checkpoint \/ Tick \/ NextProgram("fetch")
           \/ Receive \/ CheckProcessed \/ CheckTentative \/ JoinJobs
  <2>1. UNCHANGED job
    BY <1>3 DEF Boot, NextProgram, Checkpoint, Tick, Receive, CheckProcessed, CheckTentative,
       JoinJobs, OnlyPoll
  <2> QED
    BY <1>3, <2>1, PollOnlyFresh
<1>4. CASE SpawnJob
  <2> DEFINE free == CHOOSE j \in FreeJobs : TRUE
  <2>1. free \in FreeJobs /\ free \in Jobs
    BY <1>4 DEF SpawnJob, FreeJobs
  <2>2. /\ job'[free].sig = Head(poll.batch) /\ job'[free].joined /\ job'[free].pc = "fetch"
        /\ \A k \in Jobs : k # free => job'[k] = job[k]
    BY <1>1, <1>4, <2>1 DEF SpawnJob, NoJob
  <2>3. poll.batch # <<>> /\ poll.pc = "spawn"
        /\ poll' = [poll EXCEPT !.pc = "check1", !.batch = Tail(poll.batch)]
    BY <1>4 DEF SpawnJob, PollKnows
  <2>4. poll'.pc = "check1" /\ poll'.batch = Tail(poll.batch)
    BY <1>1, <2>3 DEF PollRecord
  <2> HIDE DEF free
  <2>5. \A k \in Joined', i \in DOMAIN Tail(poll.batch) : job'[k].sig # Tail(poll.batch)[i]
    BY <1>1, <2>2, <2>3, TailFresh
  <2>6. IsInjective(Tail(poll.batch))
    BY <1>1, <2>3, TailFresh
  <2> QED
    BY <2>2, <2>4, <2>5, <2>6
<1>5. CASE AbandonPoll \/ StopOnError
  <2>1. poll'.batch = <<>> /\ poll'.pc \in {"tick", "stopped"}
    <3>1. CASE AbandonPoll
      BY <1>1, <3>1 DEF AbandonPoll, PollRecord
    <3>2. CASE StopOnError
      BY <1>1, <3>2 DEF StopOnError, PollRecord
    <3> QED
      BY <1>5, <3>1, <3>2
  <2>2. \A j \in Jobs : ~job'[j].joined /\ (job'[j].pc = "idle" => job'[j].sig = NoSig)
    BY <1>1, <1>5 DEF AbandonPoll, StopOnError, NoJob, JobRecord
  <2> QED
    BY <1>2, <2>1, <2>2
<1> QED
  BY <1>3, <1>4, <1>5 DEF PollStep

LEMMA JobFresh ==
  ASSUME IFresh, NEW j \in Jobs, JobStep(j)
  PROVE  IdleEmpty' /\ BatchFresh'
<1>1. /\ UNCHANGED poll /\ IdleEmpty'
      /\ \A k \in Joined' : k \in Joined /\ job'[k].sig = job[k].sig
  BY JobFrame
<1> QED
  BY <1>1 DEF IFresh, BatchFresh

LEMMA ResetFresh ==
  ASSUME ResetLive
  PROVE  IdleEmpty' /\ BatchFresh' /\ \A sig : Waiting(sig)' = {}
  BY DEF ResetLive, NoJob, IdleEmpty, BatchFresh, Joined, Polling, Asking, IsInjective, Waiting

LEMMA FreshFrame ==
  ASSUME UNCHANGED <<poll, job>>
  PROVE  /\ (IdleEmpty /\ BatchFresh) => (IdleEmpty /\ BatchFresh)'
         /\ \A sig : Waiting(sig)' = Waiting(sig)
  BY DEF IdleEmpty, BatchFresh, Joined, Waiting

-----------------------------------------------------------------------------
(* What the loop and its tasks owe the handlers.                           *)

\* The handler calls of a transaction, made and still due.
Owed(sig) == handled[sig] + Cardinality(Waiting(sig))

LEMMA OwedType ==
  ASSUME IFresh, NEW y \in Sigs
  PROVE  /\ IsFiniteSet(Waiting(y)) /\ Cardinality(Waiting(y)) \in Nat
         /\ handled[y] \in Nat /\ Owed(y) \in Nat
<1>1. IsFiniteSet(Waiting(y)) /\ handled[y] \in Nat
  BY DEF IFresh, ILive, TypeOK
<1>2. Cardinality(Waiting(y)) \in Nat
  BY <1>1, FS_CardinalityType
<1> QED
  BY <1>1, <1>2 DEF Owed

\* A step that hands nothing to the handlers leaves what is owed alone.
LEMMA OwedSame ==
  ASSUME IFresh, NEW y \in Sigs, Waiting(y)' \subseteq Waiting(y), UNCHANGED handled
  PROVE  IsFiniteSet(Waiting(y)') /\ Owed(y)' <= Owed(y)
<1>1. IsFiniteSet(Waiting(y)) /\ Cardinality(Waiting(y)) \in Nat /\ handled[y] \in Nat
  BY OwedType
<1>2. IsFiniteSet(Waiting(y)') /\ Cardinality(Waiting(y)') <= Cardinality(Waiting(y))
  BY <1>1, FS_Subset
<1>3. Cardinality(Waiting(y)') \in Nat
  BY <1>2, FS_CardinalityType
<1> QED
  BY <1>1, <1>2, <1>3 DEF Owed

\* A task that is over has one call less to make.
LEMMA OwedLess ==
  ASSUME IFresh, NEW j \in Jobs, NEW y \in Sigs, y = job[j].sig,
         job[j].pc \in {"fetch", "block", "handle"}, Waiting(y)' \subseteq Waiting(y) \ {j}
  PROVE  /\ IsFiniteSet(Waiting(y)') /\ Cardinality(Waiting(y)') \in Nat
         /\ Cardinality(Waiting(y)') <= Cardinality(Waiting(y)) - 1
<1>1. IsFiniteSet(Waiting(y)) /\ Cardinality(Waiting(y)) \in Nat
  BY OwedType
<1>2. j \in Waiting(y)
  BY DEF Waiting
<1>3. IsFiniteSet(Waiting(y) \ {j}) /\ Cardinality(Waiting(y) \ {j}) = Cardinality(Waiting(y)) - 1
  BY <1>1, <1>2, FS_RemoveElement
<1>4. IsFiniteSet(Waiting(y)') /\ Cardinality(Waiting(y)') <= Cardinality(Waiting(y) \ {j})
  BY <1>3, FS_Subset
<1> QED
  BY <1>1, <1>3, <1>4, FS_CardinalityType

Starts(sig) == SpawnJob /\ Head(poll.batch) = sig

LEMMA PollOwed ==
  ASSUME IFresh, PollStep, NEW y \in Sigs
  PROVE  /\ IsFiniteSet(Waiting(y)')
         /\ Owed(y)' <= Owed(y) + IF Starts(y) THEN 1 ELSE 0
<1> USE DEF IFresh, ILive
<1>1. job \in [Jobs -> JobRecord] /\ UNCHANGED handled
  BY DEF TypeOK, PollStep, Boot, NextProgram, Checkpoint, Tick, Receive, CheckProcessed,
     CheckTentative, SpawnJob, JoinJobs, AbandonPoll, StopOnError, OnlyPoll
<1>2. ASSUME Waiting(y)' \subseteq Waiting(y)
      PROVE  IsFiniteSet(Waiting(y)') /\ Owed(y)' <= Owed(y) + IF Starts(y) THEN 1 ELSE 0
  <2>1. IsFiniteSet(Waiting(y)') /\ Owed(y)' <= Owed(y) /\ Owed(y) \in Nat
    BY <1>1, <1>2, OwedSame, OwedType
  <2>2. Owed(y)' \in Int
    BY <1>1, <2>1, OwedType, FS_CardinalityType DEF Owed
  <2> QED
    BY <2>1, <2>2
<1>3. CASE \/ Boot \/ NextProgram("latest") \/ Checkpoint \/ Tick \/ NextProgram("fetch")
           \/ Receive \/ CheckProcessed \/ CheckTentative \/ JoinJobs
  <2>1. UNCHANGED job
    BY <1>3 DEF Boot, NextProgram, Checkpoint, Tick, Receive, CheckProcessed, CheckTentative,
       JoinJobs, OnlyPoll
  <2> QED
    BY <1>2, <2>1 DEF Waiting
<1>4. CASE SpawnJob
  <2> DEFINE free == CHOOSE j \in FreeJobs : TRUE
             z == Head(poll.batch)
  <2>1. free \in Jobs /\ job[free].pc = "idle"
    BY <1>4 DEF SpawnJob, FreeJobs
  <2>2. /\ job'[free].sig = z /\ job'[free].pc = "fetch"
        /\ \A k \in Jobs : k # free => job'[k] = job[k]
    BY <1>1, <1>4, <2>1 DEF SpawnJob, NoJob
  <2> HIDE DEF free, z
  <2>3. CASE y = z
    <3>1. Waiting(y)' = Waiting(y) \union {free} /\ free \notin Waiting(y)
      BY <2>1, <2>2, <2>3 DEF Waiting
    <3>2. /\ IsFiniteSet(Waiting(y)) /\ Cardinality(Waiting(y)) \in Nat /\ handled[y] \in Nat
      BY OwedType
    <3>3. /\ IsFiniteSet(Waiting(y)') /\ Cardinality(Waiting(y)') = Cardinality(Waiting(y)) + 1
      BY <3>1, <3>2, FS_AddElement
    <3>4. Owed(y)' <= Owed(y) + 1
      BY <1>1, <3>2, <3>3 DEF Owed
    <3> QED
      BY <1>4, <2>3, <3>3, <3>4 DEF Starts, z
  <2>4. CASE y # z
    <3>1. Waiting(y)' = Waiting(y)
      BY <2>1, <2>2, <2>4 DEF Waiting
    <3> QED
      BY <1>2, <3>1
  <2> QED
    BY <2>3, <2>4
<1>5. CASE AbandonPoll
  <2>1. Waiting(y)' = Waiting(y)
    BY <1>1, <1>5 DEF AbandonPoll, Waiting, JobRecord
  <2> QED
    BY <1>2, <2>1
<1>6. CASE StopOnError
  <2>1. Waiting(y)' = {}
    BY <1>6 DEF StopOnError, Waiting, NoJob
  <2> QED
    BY <1>2, <2>1
<1> QED
  BY <1>3, <1>4, <1>5, <1>6 DEF PollStep

\* How the loop comes to look at a signature and to start its task.
LEMMA PollTurns ==
  ASSUME IFresh, PollStep, ~AbandonPoll, ~StopOnError
  PROVE  /\ poll.pc # "stopped"
         /\ poll'.pc = "check2" => /\ poll.pc = "check1" /\ poll'.batch = poll.batch
                                   /\ poll.batch # <<>> /\ ~InProcessed(Head(poll.batch))
         /\ poll'.pc = "spawn" => /\ poll.pc = "check2" /\ poll'.batch = poll.batch
                                  /\ poll.batch # <<>> /\ ~InTentative(Head(poll.batch))
         /\ \A k \in Joined : k \in Joined' /\ job'[k].sig = job[k].sig
         /\ SpawnJob => /\ poll.pc = "spawn" /\ poll'.pc = "check1"
                        /\ \E k \in Joined' : job'[k].sig = Head(poll.batch)
<1> USE DEF IFresh, ILive
<1>1. poll \in PollRecord /\ job \in [Jobs -> JobRecord]
  BY DEF TypeOK
<1>2. CASE \/ Boot \/ NextProgram("latest") \/ Checkpoint \/ Tick \/ NextProgram("fetch")
           \/ Receive \/ CheckProcessed \/ CheckTentative \/ JoinJobs
  <2>1. UNCHANGED job /\ poll.pc \notin {"stopped", "spawn"}
    BY <1>2 DEF Boot, NextProgram, Checkpoint, Tick, Receive, CheckProcessed, CheckTentative,
       JoinJobs, OnlyPoll
  <2>2. \A k \in Joined : k \in Joined' /\ job'[k].sig = job[k].sig
    BY <2>1 DEF Joined
  <2>3. ASSUME Boot \/ Checkpoint PROVE poll'.pc \notin {"check2", "spawn"}
    BY <1>1, <2>3 DEF Boot, Checkpoint, PollRecord, StartFrom
  <2>4. ASSUME NEW pc \in Asking, NextProgram(pc) PROVE poll'.pc \notin {"check2", "spawn"}
    <3>1. poll'.pc = poll.pc /\ poll.pc = pc
      BY <1>1, <2>4 DEF NextProgram, PollRecord
    <3> QED
      BY <2>4, <3>1 DEF Asking
  <2>5. ASSUME Tick \/ JoinJobs PROVE poll'.pc \notin {"check2", "spawn"}
    BY <1>1, <2>5 DEF Tick, JoinJobs, PollRecord
  <2>6. ASSUME Receive PROVE poll'.pc \notin {"check2", "spawn"}
    <3>1. PICK b \in Received :
             poll' = IF b = <<>>
                     THEN [poll EXCEPT !.pc = "tick", !.program = 1]
                     ELSE [pc |-> "check1", cursor |-> Head(b), program |-> 1, batch |-> b]
      BY <2>6 DEF Receive
    <3>2. CASE b = <<>>
      BY <1>1, <3>1, <3>2 DEF PollRecord
    <3>3. CASE b # <<>>
      BY <3>1, <3>3
    <3> QED
      BY <3>2, <3>3
  <2>7. ASSUME CheckProcessed
        PROVE  /\ poll'.pc # "spawn"
               /\ poll'.pc = "check2" => /\ poll.pc = "check1" /\ poll'.batch = poll.batch
                                         /\ poll.batch # <<>> /\ ~InProcessed(Head(poll.batch))
    BY <1>1, <2>7 DEF CheckProcessed, PollRecord
  <2>8. ASSUME CheckTentative
        PROVE  /\ poll'.pc # "check2"
               /\ poll'.pc = "spawn" => /\ poll.pc = "check2" /\ poll'.batch = poll.batch
                                        /\ poll.batch # <<>> /\ ~InTentative(Head(poll.batch))
    BY <1>1, <2>8 DEF CheckTentative, PollRecord, PollKnows
  <2>9. ~SpawnJob
    BY <2>1 DEF SpawnJob
  <2>10. \/ /\ poll'.pc \notin {"check2", "spawn"}
         \/ CheckProcessed \/ CheckTentative
    BY <1>2, <2>3, <2>4, <2>5, <2>6 DEF Asking
  <2> QED
    BY <2>1, <2>2, <2>7, <2>8, <2>9, <2>10
<1>3. CASE SpawnJob
  <2> DEFINE free == CHOOSE j \in FreeJobs : TRUE
  <2>1. free \in Jobs /\ job[free].pc = "idle"
    BY <1>3 DEF SpawnJob, FreeJobs
  <2>2. /\ job'[free].sig = Head(poll.batch) /\ job'[free].joined
        /\ \A k \in Jobs : k # free => job'[k] = job[k]
    BY <1>1, <1>3, <2>1 DEF SpawnJob, NoJob
  <2>3. poll.pc = "spawn" /\ poll'.pc = "check1"
    BY <1>1, <1>3 DEF SpawnJob, PollRecord
  <2>4. free \notin Joined /\ free \in Joined'
    BY <2>1, <2>2 DEF IdleEmpty, Joined
  <2> HIDE DEF free
  <2>5. \A k \in Joined : k \in Joined' /\ job'[k].sig = job[k].sig
    BY <2>2, <2>4 DEF Joined
  <2> QED
    BY <2>2, <2>3, <2>4, <2>5
<1> QED
  BY <1>2, <1>3 DEF PollStep

\* The loop has started no task for the signature it is looking at.
LEMMA HeadNotStarted ==
  ASSUME IFresh, poll.batch # <<>>
  PROVE  \A k \in Joined : job[k].sig # Head(poll.batch)
<1>1. poll.batch \in Seq(Sigs)
  BY DEF IFresh, ILive, TypeOK, PollRecord
<1> QED
  BY <1>1, TailFresh DEF IFresh, BatchFresh

\* A task that ends without a row has given its call up, or is interrupted.
LEMMA JobOwed ==
  ASSUME IFresh, NEW j \in Jobs, JobStep(j), NEW y \in Sigs
  PROVE  /\ UNCHANGED <<poll, processed>>
         /\ IsFiniteSet(Waiting(y)') /\ Owed(y)' <= Owed(y)
         /\ \A x \in Sigs : InTentative(x) => InTentative(x)'
         /\ \/ \A k \in Joined : job[k].sig = y => k \in Joined' /\ job'[k].sig = y
            \/ InTentative(y)' \/ Fault("db") \/ Owed(y)' <= Owed(y) - 1
<1> USE DEF IFresh, ILive
<1>1. job \in [Jobs -> JobRecord] /\ JobKnows(job[j], handled)
  BY DEF TypeOK, JobsKnow
<1>2. /\ UNCHANGED <<poll, processed>>
      /\ \A k \in Jobs : k # j => job'[k] = job[k]
      /\ job'[j] = NoJob \/ /\ job'[j].sig = job[j].sig /\ job'[j].joined = job[j].joined
                            /\ job'[j].pc # "idle"
  BY JobFrame
<1> DEFINE Stays == \A k \in Joined : job[k].sig = y => k \in Joined' /\ job'[k].sig = y
<1>3. job[j].sig # y \/ (job'[j].sig = job[j].sig /\ job'[j].joined = job[j].joined) => Stays
  BY <1>2 DEF Joined
<1>4. \A x \in Sigs : InTentative(x) => InTentative(x)'
  <2>1. CASE UNCHANGED tables
    BY <2>1 DEF tables, InTentative
  <2>2. CASE JobMark(j)
    BY <2>2 DEF JobMark, InsertTentative, TypeOK, StorageTypeOK, InTentative
  <2> QED
    BY <2>1, <2>2 DEF JobStep, JobFetch, JobBlock, JobHandle, JobRetry, JobFails
<1> SUFFICES /\ IsFiniteSet(Waiting(y)') /\ Owed(y)' <= Owed(y)
             /\ Stays \/ InTentative(y)' \/ Fault("db") \/ Owed(y)' <= Owed(y) - 1
  BY <1>2, <1>4
<1>5. CASE JobFetch(j) \/ JobBlock(j) \/ JobRetry(j)
  <2>1. /\ job[j].pc \in {"fetch", "block", "handle"} /\ UNCHANGED handled
        /\ job'[j].pc \in {"fetch", "block", "handle"}
        /\ job'[j].sig = job[j].sig /\ job'[j].joined = job[j].joined
    <3>1. CASE JobFetch(j)
      BY <1>1, <3>1 DEF JobFetch, JobRecord
    <3>2. CASE JobBlock(j)
      BY <1>1, <3>2 DEF JobBlock, JobRecord
    <3>3. CASE JobRetry(j)
      BY <1>1, <3>3 DEF JobRetry, JobRecord
    <3> QED
      BY <1>5, <3>1, <3>2, <3>3
  <2>2. Waiting(y)' = Waiting(y)
    BY <1>2, <2>1 DEF Waiting
  <2> QED
    BY <1>3, <2>1, <2>2, OwedSame
<1>6. CASE JobHandle(j)
  <2>1. /\ job[j].pc = "handle" /\ job'[j].pc = "mark" /\ job[j].sig \in Sigs
        /\ job'[j].sig = job[j].sig /\ job'[j].joined = job[j].joined
        /\ handled' = [handled EXCEPT ![job[j].sig] = Min({@ + 1, MaxHandled})]
    BY <1>1, <1>6 DEF JobHandle, JobRecord, JobKnows
  <2>2. handled \in [Sigs -> 0..MaxHandled] /\ MaxHandled \in Nat
    BY LiveAssumption DEF TypeOK
  <2>3. CASE y = job[j].sig
    <3>1. Waiting(y)' \subseteq Waiting(y) \ {j}
      BY <1>2, <2>1 DEF Waiting
    <3>2. /\ IsFiniteSet(Waiting(y)') /\ Cardinality(Waiting(y)') \in Nat
          /\ Cardinality(Waiting(y)') <= Cardinality(Waiting(y)) - 1
      BY <2>1, <2>3, <3>1, OwedLess
    <3>3. handled'[y] <= handled[y] + 1 /\ handled'[y] \in Int
      <4>1. \E m \in {handled[y] + 1, MaxHandled} : \A n \in {handled[y] + 1, MaxHandled} : m <= n
        BY <2>2
      <4>2. Min({handled[y] + 1, MaxHandled}) \in {handled[y] + 1, MaxHandled}
            /\ Min({handled[y] + 1, MaxHandled}) <= handled[y] + 1
        BY <4>1 DEF Min
      <4> QED
        BY <2>1, <2>2, <2>3, <4>2
    <3>4. Owed(y)' <= Owed(y)
      BY <3>2, <3>3, OwedType DEF Owed
    <3> QED
      BY <1>3, <2>1, <3>2, <3>4
  <2>4. CASE y # job[j].sig
    <3>1. Waiting(y)' = Waiting(y) /\ handled'[y] = handled[y]
      BY <1>2, <2>1, <2>2, <2>4 DEF Waiting
    <3>2. IsFiniteSet(Waiting(y)') /\ Owed(y)' <= Owed(y)
      BY <3>1, OwedType DEF Owed
    <3> QED
      BY <1>3, <2>1, <3>2
  <2> QED
    BY <2>3, <2>4
<1>7. CASE JobMark(j)
  <2>1. /\ job[j].pc = "mark" /\ job[j].sig \in Sigs /\ job[j].slot \in Slots
        /\ job'[j] = NoJob /\ UNCHANGED handled
    BY <1>1, <1>7 DEF JobMark, JobKnows
  <2>2. Waiting(y)' = Waiting(y)
    BY <1>2, <2>1 DEF Waiting, NoJob
  <2>3. tentative'[job[j].sig] # NoRow
    BY <1>7, <2>1, TypesAssumption DEF JobMark, InsertTentative, TypeOK, StorageTypeOK, NoRow,
       Slots, NoSlot
  <2> QED
    BY <1>3, <2>1, <2>2, <2>3, OwedSame DEF InTentative
<1>8. CASE JobFails(j)
  <2>1. job'[j] = NoJob /\ UNCHANGED handled /\ job[j].pc \in {"fetch", "handle", "mark"}
        /\ (job[j].pc = "mark" => Fault("db"))
    BY <1>1, <1>8 DEF JobFails
  <2>2. Waiting(y)' \subseteq Waiting(y) \ {j}
    BY <1>2, <2>1 DEF Waiting, NoJob
  <2>3. IsFiniteSet(Waiting(y)') /\ Owed(y)' <= Owed(y)
    BY <2>1, <2>2, OwedSame
  <2>4. CASE job[j].sig # y \/ job[j].pc = "mark"
    BY <1>3, <2>1, <2>3, <2>4
  <2>5. CASE job[j].sig = y /\ job[j].pc # "mark"
    <3>1. /\ Cardinality(Waiting(y)') \in Nat
          /\ Cardinality(Waiting(y)') <= Cardinality(Waiting(y)) - 1
      BY <2>1, <2>2, <2>5, OwedLess
    <3>2. Owed(y)' <= Owed(y) - 1
      BY <2>1, <3>1, OwedType DEF Owed
    <3> QED
      BY <2>3, <3>2
  <2> QED
    BY <2>4, <2>5
<1> QED
  BY <1>5, <1>6, <1>7, <1>8 DEF JobStep

-----------------------------------------------------------------------------
(* Alone with its tasks, the loop pays for every call.                     *)

LEMMA InterruptionSteps ==
  ASSUME ILive, [Next]_vars
  PROVE  /\ Interruptions \in Int /\ Interruptions' \in Int /\ Interruptions <= Interruptions'
         /\ Restart \/ AbandonPoll \/ Fault("db") => Interruptions' = Interruptions + 1
<1>1. \E kind \in {"crash", "cancel", "db", "rpc", "handler"} : UNCHANGED faults \/ Fault(kind)
  <2>1. CASE PollStep
    BY <2>1 DEF PollStep, Boot, NextProgram, Checkpoint, Tick, Receive, CheckProcessed,
       CheckTentative, SpawnJob, JoinJobs, AbandonPoll, StopOnError, processVars
  <2>2. CASE \E j \in Jobs : JobStep(j)
    BY <2>2 DEF JobStep, JobFetch, JobBlock, JobHandle, JobRetry, JobMark, JobFails
  <2>3. CASE Restart \/ Cancel \/ ClusterStep \/ UNCHANGED vars
    BY <2>3 DEF Restart, NewProcess, Cancel, CancelToken, ClusterStep, vars, processVars
  <2> QED
    BY <2>1, <2>2, <2>3 DEF Next
<1>2. ProcessTypeOK
  BY DEF ILive, TypeOK
<1>3. /\ Used("crash") \in Int /\ Used("crash")' \in Int /\ Used("crash") <= Used("crash")'
      /\ Used("db") \in Int /\ Used("db")' \in Int /\ Used("db") <= Used("db")'
  BY <1>1, <1>2, FaultCounts
<1>4. Fault("crash") => Interruptions' = Interruptions + 1
  BY <1>2, <1>3, FaultCounts DEF Interruptions
<1>5. Fault("db") => Interruptions' = Interruptions + 1
  BY <1>2, <1>3, FaultCounts DEF Interruptions
<1>6. Restart => Fault("crash")
  BY DEF Restart, NewProcess
<1>7. AbandonPoll => Fault("db")
  BY DEF AbandonPoll
<1> QED
  BY <1>3, <1>4, <1>5, <1>6, <1>7 DEF Interruptions

\* A step adds a call only where one is free, and frees one only by an
\* interruption or by giving a call up.
Pays(y) ==
  \/ Owed(y)' <= Owed(y) /\ (Free(y)' => Free(y))
  \/ Owed(y)' <= Owed(y) /\ (Restart \/ AbandonPoll \/ Fault("db"))
  \/ Owed(y)' <= Owed(y) - 1
  \/ Owed(y)' <= Owed(y) + 1 /\ Free(y) /\ ~Free(y)'

LEMMA PaidOne ==
  ASSUME IPaid, [Next]_vars, NEW y \in Sigs, IFresh', Pays(y)
  PROVE  /\ Owed(y)' <= 1 + Interruptions'
         /\ Free(y)' => Owed(y)' <= Interruptions'
<1>1. /\ Interruptions \in Int /\ Interruptions' \in Int /\ Interruptions <= Interruptions'
      /\ Restart \/ AbandonPoll \/ Fault("db") => Interruptions' = Interruptions + 1
  BY InterruptionSteps DEF IPaid, IFresh
<1>2. /\ Owed(y) <= 1 + Interruptions
      /\ Free(y) => Owed(y) <= Interruptions
  BY DEF IPaid, Paid, Owed
<1>3. Owed(y) \in Nat
  BY OwedType DEF IPaid
<1>4. Owed(y)' \in Nat
  <2>1. Cardinality(Waiting(y)') \in Nat
    BY FS_CardinalityType DEF IFresh
  <2> QED
    BY <2>1 DEF Owed, IFresh, ILive, TypeOK
<1> HIDE DEF Owed
<1> QED
  BY <1>1, <1>2, <1>3, <1>4 DEF Pays

LEMMA PollPays ==
  ASSUME IPaid, PollStep, NEW y \in Sigs
  PROVE  Pays(y)
<1> USE DEF IPaid
<1>1. Recorded' = Recorded
  BY DEF PollStep, Boot, NextProgram, Checkpoint, Tick, Receive, CheckProcessed, CheckTentative,
     SpawnJob, JoinJobs, AbandonPoll, StopOnError, OnlyPoll, tables, Recorded, InProcessed,
     InTentative
<1>2. Owed(y)' <= Owed(y) + IF Starts(y) THEN 1 ELSE 0
  BY PollOwed
<1>3. CASE Starts(y)
  <2>1. ~AbandonPoll /\ ~StopOnError
    BY <1>3 DEF Starts, SpawnJob, AbandonPoll, StopOnError
  <2>2. Free(y)
    BY <1>3 DEF Starts, SpawnJob, Free
  <2>3. ~Free(y)'
    BY <1>3, <2>1, PollTurns DEF Starts, Free
  <2> QED
    BY <1>2, <1>3, <2>2, <2>3 DEF Pays
<1> SUFFICES ASSUME ~Starts(y), Owed(y)' <= Owed(y) PROVE Pays(y)
  BY <1>2, <1>3, OwedType
<1>4. CASE AbandonPoll
  BY <1>4 DEF Pays
<1>5. CASE StopOnError
  <2>1. poll'.pc = "stopped"
    BY <1>5 DEF StopOnError, IFresh, ILive, TypeOK, PollRecord
  <2>2. ~Free(y)'
    BY <2>1 DEF Free
  <2> QED
    BY <2>2 DEF Pays
<1>6. CASE ~AbandonPoll /\ ~StopOnError
  <2> SUFFICES ASSUME Free(y)' PROVE Free(y)
    BY DEF Pays
  <2>1. CASE poll'.pc = "spawn" /\ Head(poll'.batch) = y
    <3>1. /\ poll.pc = "check2" /\ poll.batch # <<>> /\ Head(poll.batch) = y /\ ~InTentative(y)
      BY <1>6, <2>1, PollTurns
    <3>2. y \notin Recorded /\ \A k \in Joined : job[k].sig # y
      BY <3>1, HeadNotStarted DEF Unseen, Recorded
    <3> QED
      BY <3>1, <3>2 DEF Free
  <2>2. CASE y \notin Recorded' /\ \A k \in Joined' : job'[k].sig # y
    BY <1>1, <1>6, <2>2, PollTurns DEF Free
  <2> QED
    BY <2>1, <2>2 DEF Free
<1> QED
  BY <1>4, <1>5, <1>6

LEMMA JobPays ==
  ASSUME IPaid, NEW j \in Jobs, JobStep(j), NEW y \in Sigs
  PROVE  Pays(y)
<1>1. /\ UNCHANGED <<poll, processed>> /\ Owed(y)' <= Owed(y)
      /\ \A x \in Sigs : InTentative(x) => InTentative(x)'
      /\ \/ \A k \in Joined : job[k].sig = y => k \in Joined' /\ job'[k].sig = y
         \/ InTentative(y)' \/ Fault("db") \/ Owed(y)' <= Owed(y) - 1
  BY JobOwed DEF IPaid
<1>2. y \in Recorded => y \in Recorded'
  BY <1>1 DEF Recorded, InProcessed
<1>3. ASSUME InTentative(y)' \/ \A k \in Joined : job[k].sig = y => k \in Joined' /\ job'[k].sig = y
      PROVE  Free(y)' => Free(y)
  <2>1. InTentative(y)' => y \in Recorded'
    BY DEF Recorded
  <2> QED
    BY <1>1, <1>2, <1>3, <2>1 DEF Free
<1> QED
  BY <1>1, <1>3 DEF Pays

LEMMA StepUnseen ==
  ASSUME IPaid, [Next]_vars
  PROVE  Unseen'
<1> USE DEF IPaid, Unseen
<1>1. CASE PollStep
  <2>1. processed' = processed
    BY <1>1 DEF PollStep, Boot, NextProgram, Checkpoint, Tick, Receive, CheckProcessed,
       CheckTentative, SpawnJob, JoinJobs, AbandonPoll, StopOnError, OnlyPoll, tables
  <2>2. AbandonPoll \/ StopOnError => poll'.pc # "check2"
    BY DEF AbandonPoll, StopOnError, IFresh, ILive, TypeOK, PollRecord
  <2> QED
    BY <1>1, <2>1, <2>2, PollTurns DEF InProcessed
<1>2. ASSUME NEW j \in Jobs, JobStep(j) PROVE Unseen'
  BY <1>2, JobFrame DEF InProcessed
<1>3. CASE Restart
  BY <1>3 DEF Restart, ResetLive
<1>4. CASE Cancel \/ ClusterStep \/ UNCHANGED vars
  BY <1>4 DEF Cancel, ClusterStep, vars, liveVars, tables, InProcessed
<1> QED
  BY <1>1, <1>2, <1>3, <1>4 DEF Next

LEMMA StepPaid ==
  ASSUME OneProgramEach, IPaid, [Next]_vars
  PROVE  IPaid'
<1> USE DEF IPaid
<1>1. ILive'
  BY StepLive DEF IFresh
<1>2. IFresh' /\ \A sig \in Sigs : Pays(sig)
  <2>1. CASE Restart
    <3>1. UNCHANGED handled /\ IdleEmpty' /\ BatchFresh' /\ \A sig \in Sigs : Waiting(sig)' = {}
      BY <2>1, ResetFresh DEF Restart, ResetLive
    <3> QED
      BY <1>1, <2>1, <3>1, OwedSame, FS_EmptySet DEF IFresh, Pays
  <2>2. CASE Cancel \/ ClusterStep \/ UNCHANGED vars
    <3>1. UNCHANGED <<tables, poll, job, handled>>
      BY <2>2 DEF Cancel, ClusterStep, vars, liveVars
    <3>2. IdleEmpty' /\ BatchFresh' /\ \A sig \in Sigs : Waiting(sig)' = Waiting(sig)
      BY <3>1, FreshFrame DEF IFresh
    <3>3. \A sig : Free(sig)' => Free(sig)
      BY <3>1 DEF Free, tables, Recorded, InProcessed, InTentative, Joined
    <3> QED
      BY <1>1, <3>1, <3>2, <3>3, OwedSame DEF IFresh, Pays
  <2>3. CASE PollStep
    BY <1>1, <2>3, PollFresh, PollOwed, PollPays DEF IFresh
  <2>4. ASSUME NEW j \in Jobs, JobStep(j)
        PROVE  IFresh' /\ \A sig \in Sigs : Pays(sig)
    BY <1>1, <2>4, JobFresh, JobOwed, JobPays DEF IFresh
  <2> QED
    BY <2>1, <2>2, <2>3, <2>4 DEF Next
<1>3. Paid'
  BY <1>2, PaidOne DEF Paid, Owed
<1> QED
  BY <1>2, <1>3, StepUnseen

\* No race of polls and tasks hands a transaction to its handlers twice: each
\* further time is paid for by a crash or a database error.
THEOREM LiveHandledOnce ==
  ASSUME OneProgramEach
  PROVE  Spec => []HandledOnce
<1>1. IPaid /\ [Next]_vars => IPaid'
  BY StepPaid
<1>2. IPaid => HandledOnce
  <2> SUFFICES ASSUME IPaid, NEW sig \in Sigs
               PROVE  handled[sig] <= 1 + Used("crash") + Used("db")
    BY DEF HandledOnce
  <2>1. handled[sig] + Cardinality(Waiting(sig)) <= 1 + Interruptions
    BY DEF IPaid, Paid
  <2>2. handled[sig] \in Nat /\ Cardinality(Waiting(sig)) \in Nat
    BY OwedType DEF IPaid
  <2>3. Used("crash") \in Int /\ Used("db") \in Int
    BY ProcessAssumption DEF Used, IPaid, IFresh, ILive, TypeOK, ProcessTypeOK, BudgetOf
  <2> QED
    BY <2>1, <2>2, <2>3 DEF Interruptions
<1> QED
  BY InitPaid, <1>1, <1>2, PTL DEF Spec

-----------------------------------------------------------------------------
(* While no statement fails, the loop and its tasks implement Delivery.    *)

\* The tasks are those of this poll, each has a transaction of its own, and
\* neither they nor the loop are about to handle one that is recorded.
Sole ==
  /\ \A j \in Jobs : job[j].pc # "idle" => job[j].joined
  /\ \A j, k \in Joined : job[j].sig = job[k].sig => j = k
  /\ \A j \in Joined : job[j].sig \notin Recorded
  /\ poll.pc = "spawn" => Head(poll.batch) \notin Recorded

LEMMA InitSole == Init => Sole
  BY DEF Init, LiveInit, Sole, Joined, NoJob

LEMMA NoStatementFails ==
  ASSUME ILive, Used("db") = 0, Used("db")' = 0
  PROVE  ~Fault("db")
  BY FaultCounts DEF ILive, TypeOK

LEMMA PollSole ==
  ASSUME IPaid, Sole, PollStep, ~AbandonPoll
  PROVE  Sole'
<1> USE DEF IPaid, IFresh, ILive
<1>1. /\ poll \in PollRecord /\ job \in [Jobs -> JobRecord]
      /\ UNCHANGED tables /\ Recorded' = Recorded
  BY DEF TypeOK, PollStep, Boot, NextProgram, Checkpoint, Tick, Receive, CheckProcessed,
     CheckTentative, SpawnJob, JoinJobs, StopOnError, OnlyPoll, tables, Recorded,
     InProcessed, InTentative
<1>2. CASE StopOnError
  BY <1>1, <1>2 DEF StopOnError, Sole, Joined, NoJob, PollRecord
<1>3. CASE SpawnJob
  <2> DEFINE free == CHOOSE j \in FreeJobs : TRUE
             z == Head(poll.batch)
  <2>1. free \in Jobs /\ job[free].pc = "idle" /\ poll.batch # <<>> /\ z \notin Recorded
    BY <1>3 DEF SpawnJob, FreeJobs, Sole, PollKnows
  <2>2. /\ job'[free].sig = z /\ job'[free].joined
        /\ \A k \in Jobs : k # free => job'[k] = job[k]
    BY <1>1, <1>3, <2>1 DEF SpawnJob, NoJob
  <2>3. poll'.pc = "check1"
    BY <1>1, <1>3 DEF SpawnJob, PollRecord
  <2>4. \A k \in Joined : job[k].sig # z
    BY <2>1, HeadNotStarted
  <2> HIDE DEF free, z
  <2>5. Joined' \subseteq Joined \union {free} /\ free \notin Joined
    BY <2>1, <2>2 DEF Joined, IdleEmpty
  <2>6. \A k \in Joined : k # free /\ job'[k] = job[k]
    BY <2>2, <2>5 DEF Joined
  <2>7. \A k \in Joined' : k = free \/ (k \in Joined /\ job'[k] = job[k])
    BY <2>5, <2>6
  <2>8. \A k, l \in Joined' : job'[k].sig = job'[l].sig => k = l
    BY <2>2, <2>4, <2>7 DEF Sole
  <2>9. \A k \in Joined' : job'[k].sig \notin Recorded'
    BY <1>1, <2>1, <2>2, <2>7 DEF Sole
  <2>10. \A k \in Jobs : job'[k].pc # "idle" => job'[k].joined
    BY <2>2 DEF Sole
  <2> QED
    BY <2>3, <2>8, <2>9, <2>10 DEF Sole
<1>4. CASE ~StopOnError /\ ~SpawnJob
  <2>1. UNCHANGED job
    BY <1>4 DEF PollStep, Boot, NextProgram, Checkpoint, Tick, Receive, CheckProcessed,
       CheckTentative, JoinJobs, OnlyPoll
  <2>2. poll'.pc = "spawn" => Head(poll'.batch) \notin Recorded
    BY <1>4, PollTurns DEF Unseen, Recorded
  <2> QED
    BY <1>1, <2>1, <2>2 DEF Sole, Joined
<1> QED
  BY <1>2, <1>3, <1>4

\* Only the insertion of its row records a transaction, and only that one.
LEMMA JobRecords ==
  ASSUME IFresh, NEW j \in Jobs, JobStep(j)
  PROVE  /\ job[j].pc # "idle"
         /\ ~JobMark(j) => Recorded' = Recorded
         /\ JobMark(j) => /\ job[j].sig \in Sigs /\ job[j].pc = "mark" /\ job'[j] = NoJob
                          /\ Recorded' = Recorded \union {job[j].sig}
<1> USE DEF IFresh, ILive
<1>1. job[j].pc # "idle"
  BY DEF JobStep, JobFetch, JobBlock, JobHandle, JobRetry, JobMark, JobFails
<1>2. ASSUME ~JobMark(j) PROVE Recorded' = Recorded
  BY <1>2 DEF JobStep, JobFetch, JobBlock, JobHandle, JobRetry, JobFails, tables, Recorded,
     InProcessed, InTentative
<1>3. ASSUME JobMark(j)
      PROVE  /\ job[j].sig \in Sigs /\ job[j].pc = "mark" /\ job'[j] = NoJob
             /\ Recorded' = Recorded \union {job[j].sig}
  <2>1. /\ job[j].pc = "mark" /\ job[j].sig \in Sigs /\ job[j].slot \in Slots
        /\ job'[j] = NoJob /\ UNCHANGED processed
    BY <1>3 DEF JobMark, JobsKnow, JobKnows, TypeOK, InsertTentative
  <2>2. /\ tentative'[job[j].sig] # NoRow
        /\ \A sig \in Sigs : sig # job[j].sig => tentative'[sig] = tentative[sig]
    BY <1>3, <2>1, TypesAssumption DEF JobMark, InsertTentative, TypeOK, StorageTypeOK, NoRow,
       Slots, NoSlot
  <2> QED
    BY <2>1, <2>2 DEF Recorded, InProcessed, InTentative
<1> QED
  BY <1>1, <1>2, <1>3

LEMMA JobSole ==
  ASSUME IPaid, Sole, NEW j \in Jobs, JobStep(j)
  PROVE  Sole'
<1> USE DEF IPaid
<1>1. /\ UNCHANGED poll
      /\ \A k \in Jobs : k # j => job'[k] = job[k]
      /\ job'[j] = NoJob \/ /\ job'[j].sig = job[j].sig /\ job'[j].joined = job[j].joined
                            /\ job'[j].pc # "idle"
      /\ \A k \in Joined' : k \in Joined /\ job'[k].sig = job[k].sig
  BY JobFrame
<1>2. j \in Joined
  BY JobRecords DEF Sole, Joined
<1>3. \A k \in Jobs : job'[k].pc # "idle" => job'[k].joined
  BY <1>1, <1>2 DEF Sole, Joined, NoJob
<1>4. \A k, l \in Joined' : job'[k].sig = job'[l].sig => k = l
  BY <1>1 DEF Sole
<1>5. ASSUME JobMark(j)
      PROVE  /\ \A k \in Joined' : job'[k].sig \notin Recorded'
             /\ poll.pc = "spawn" => Head(poll.batch) \notin Recorded'
  <2>1. j \notin Joined'
    BY <1>5, JobRecords DEF Joined, NoJob
  <2>2. \A k \in Joined' : job[k].sig # job[j].sig
    BY <1>1, <1>2, <2>1 DEF Sole
  <2>3. poll.pc = "spawn" => Head(poll.batch) # job[j].sig
    BY <1>2, HeadNotStarted DEF IFresh, ILive, PollKnows
  <2> QED
    BY <1>1, <1>5, <2>2, <2>3, JobRecords DEF Sole
<1>6. ASSUME ~JobMark(j)
      PROVE  /\ \A k \in Joined' : job'[k].sig \notin Recorded'
             /\ poll.pc = "spawn" => Head(poll.batch) \notin Recorded'
  BY <1>1, <1>6, JobRecords DEF Sole
<1> QED
  BY <1>1, <1>3, <1>4, <1>5, <1>6 DEF Sole

LEMMA StepSole ==
  ASSUME IPaid, Sole, [Next]_vars, ~Fault("db")
  PROVE  Sole'
<1>1. ~AbandonPoll
  BY DEF AbandonPoll
<1>2. CASE Restart
  BY <1>2 DEF Restart, ResetLive, Sole, Joined, NoJob
<1>3. CASE Cancel \/ ClusterStep \/ UNCHANGED vars
  BY <1>3 DEF Cancel, ClusterStep, vars, liveVars, tables, Sole, Joined, Recorded, InProcessed,
     InTentative
<1> QED
  BY <1>1, <1>2, <1>3, PollSole, JobSole DEF Next

\* A step that calls no handler and writes no row lets go of what is in hand,
\* or of a part of it, or of nothing.
LEMMA OtherDelivers ==
  ASSUME IPaid, [Next]_vars, \A j \in Jobs : ~JobHandle(j) /\ ~JobMark(j)
  PROVE  D!Interrupt \/ UNCHANGED D!deliveryVars
<1> USE DEF IPaid, IFresh, ILive
<1>1. job \in [Jobs -> JobRecord]
  BY DEF TypeOK
<1> DEFINE Kept == \A k \in Jobs : job'[k].pc = "mark" => job[k].pc = "mark" /\ job'[k].sig = job[k].sig
<1>2. ASSUME PollStep
      PROVE  UNCHANGED <<tables, handled>> /\ Kept
  <2>1. UNCHANGED <<tables, handled>>
    BY <1>2 DEF PollStep, Boot, NextProgram, Checkpoint, Tick, Receive, CheckProcessed,
       CheckTentative, SpawnJob, JoinJobs, AbandonPoll, StopOnError, OnlyPoll
  <2>2. ASSUME SpawnJob PROVE Kept
    <3> DEFINE free == CHOOSE j \in FreeJobs : TRUE
    <3>1. free \in Jobs
      BY <2>2 DEF SpawnJob, FreeJobs
    <3>2. job'[free].pc = "fetch" /\ \A k \in Jobs : k # free => job'[k] = job[k]
      BY <1>1, <2>2, <3>1 DEF SpawnJob, NoJob
    <3> HIDE DEF free
    <3> QED
      BY <3>2
  <2>3. ASSUME AbandonPoll \/ StopOnError PROVE Kept
    <3>1. CASE AbandonPoll
      BY <1>1, <3>1 DEF AbandonPoll, JobRecord
    <3>2. CASE StopOnError
      BY <3>2 DEF StopOnError, NoJob
    <3> QED
      BY <2>3, <3>1, <3>2
  <2>4. ASSUME ~SpawnJob, ~AbandonPoll, ~StopOnError PROVE Kept
    <3>1. UNCHANGED job
      BY <1>2, <2>4 DEF PollStep, Boot, NextProgram, Checkpoint, Tick, Receive, CheckProcessed,
         CheckTentative, JoinJobs, OnlyPoll
    <3> QED
      BY <3>1
  <2> QED
    BY <2>1, <2>2, <2>3, <2>4
<1>3. ASSUME NEW j \in Jobs, JobStep(j)
      PROVE  UNCHANGED <<tables, handled>> /\ Kept
  <2>1. /\ UNCHANGED <<tables, handled>>
        /\ JobFetch(j) \/ JobBlock(j) \/ JobRetry(j) \/ JobFails(j)
    BY <1>3 DEF JobStep, JobFetch, JobBlock, JobRetry, JobFails
  <2>2. job'[j].pc # "mark"
    <3>1. ASSUME JobFetch(j) PROVE job'[j].pc = "block"
      BY <1>1, <3>1 DEF JobFetch, JobRecord
    <3>2. ASSUME JobBlock(j) PROVE job'[j].pc = "handle"
      BY <1>1, <3>2 DEF JobBlock, JobRecord
    <3>3. ASSUME JobRetry(j) PROVE job'[j].pc = "handle"
      BY <1>1, <3>3 DEF JobRetry, JobRecord
    <3>4. ASSUME JobFails(j) PROVE job'[j].pc = "idle"
      BY <1>1, <3>4 DEF JobFails, NoJob
    <3> QED
      BY <2>1, <3>1, <3>2, <3>3, <3>4
  <2>3. \A k \in Jobs : k # j => job'[k] = job[k]
    BY <1>3, JobFrame
  <2> QED
    BY <2>1, <2>2, <2>3
<1>4. ASSUME Restart \/ Cancel \/ ClusterStep \/ UNCHANGED vars
      PROVE  UNCHANGED <<tables, handled>> /\ Kept
  <2>1. CASE Restart
    BY <2>1 DEF Restart, ResetLive, NoJob
  <2>2. CASE Cancel \/ ClusterStep \/ UNCHANGED vars
    BY <2>2 DEF Cancel, ClusterStep, vars, liveVars
  <2> QED
    BY <1>4, <2>1, <2>2
<1>5. UNCHANGED <<tables, handled>> /\ Kept
  BY <1>2, <1>3, <1>4 DEF Next
<1>6. UNCHANGED <<Recorded, handled>> /\ InHand' \subseteq InHand
  BY <1>5 DEF tables, Recorded, InProcessed, InTentative, InHand
<1>7. PICK kept \in SUBSET InHand : InHand' = InHand \ kept
  <2>1. InHand' = InHand \ (InHand \ InHand')
    BY <1>6
  <2> QED
    BY <2>1
<1> QED
  BY <1>6, <1>7 DEF D!Interrupt

LEMMA HandleDelivers ==
  ASSUME IPaid, Sole, NEW j \in Jobs, JobHandle(j)
  PROVE  D!Handle(job[j].sig) /\ job[j].sig \in Sigs
<1> USE DEF IPaid, IFresh, ILive
<1>1. /\ job \in [Jobs -> JobRecord] /\ job[j].pc = "handle" /\ job[j].sig \in Sigs
      /\ ~JobMark(j)
  BY DEF TypeOK, JobHandle, JobMark, JobsKnow, JobKnows
<1>2. /\ job'[j].pc = "mark" /\ job'[j].sig = job[j].sig
      /\ \A k \in Jobs : k # j => job'[k] = job[k]
  BY <1>1 DEF JobHandle, JobRecord
<1>3. \A k \in Jobs : job[k].pc = "mark" => job[k].sig # job[j].sig
  BY <1>1 DEF Sole, Joined
<1>4. job[j].sig \notin InHand /\ InHand' = InHand \union {job[j].sig}
  <2>1. job[j].sig \notin InHand
    BY <1>3 DEF InHand
  <2>2. \A k \in Jobs : job'[k].pc = "mark" => k = j \/ (job[k].pc = "mark" /\ job'[k] = job[k])
    BY <1>2
  <2>3. \A k \in Jobs : job[k].pc = "mark" => job'[k] = job[k]
    BY <1>1, <1>2
  <2> QED
    BY <1>2, <2>1, <2>2, <2>3 DEF InHand
<1>5. job[j].sig \notin Recorded /\ Recorded' = Recorded
  <2>1. JobStep(j)
    BY DEF JobStep
  <2>2. j \in Joined
    BY <1>1 DEF Sole, Joined
  <2> QED
    BY <1>1, <2>1, <2>2, JobRecords DEF Sole
<1>6. handled' = [handled EXCEPT ![job[j].sig] = Min({@ + 1, MaxHandled})]
  BY DEF JobHandle
<1>7. handled' = [handled EXCEPT ![job[j].sig] = D!Min({@ + 1, MaxHandled})]
  BY <1>6 DEF D!Min, Min
<1> QED
  BY <1>1, <1>4, <1>5, <1>7 DEF D!Handle

LEMMA MarkDelivers ==
  ASSUME IPaid, Sole, NEW j \in Jobs, JobMark(j)
  PROVE  D!Record(job[j].sig) /\ job[j].sig \in Sigs
<1>1. JobStep(j)
  BY DEF JobStep
<1>2. /\ job[j].sig \in Sigs /\ job[j].pc = "mark" /\ job'[j] = NoJob
      /\ Recorded' = Recorded \union {job[j].sig} /\ UNCHANGED handled
  BY <1>1, JobRecords DEF IPaid, JobMark
<1>3. \A k \in Jobs : k # j => job'[k] = job[k]
  BY <1>1, JobFrame DEF IPaid
<1>4. \A k \in Jobs : job[k].pc = "mark" /\ k # j => job[k].sig # job[j].sig
  BY <1>2 DEF Sole, Joined
<1>5. InHand' = InHand \ {job[j].sig} /\ job[j].sig \in InHand
  <2>1. \A k \in Jobs : job'[k].pc = "mark" <=> k # j /\ job[k].pc = "mark"
    BY <1>2, <1>3 DEF NoJob
  <2> QED
    BY <1>2, <1>3, <1>4, <2>1 DEF InHand
<1> QED
  BY <1>2, <1>5 DEF D!Record

\* As long as no storage statement fails, the loop, its overlapping tasks, the
\* reorganisations that make it ask for a transaction again, the handlers'
\* retries and the restarts implement Delivery: every step handles or records
\* one transaction that was not recorded, lets go of some that were in hand,
\* or changes nothing of it.
THEOREM LiveImplementsDelivery ==
  ASSUME OneProgramEach
  PROVE  Spec /\ [](Used("db") = 0) => Delivers
<1>1. Init => D!Init
  <2> SUFFICES ASSUME Init PROVE D!Init
    OBVIOUS
  <2>1. PICK b \in NoSlot..InitialTip : IndexedUpTo(b)
    BY DEF Init
  <2>2. handled = [sig \in Sigs |-> IF sig \in Recorded THEN 1 ELSE 0]
    BY <2>1 DEF IndexedUpTo, Recorded, InTentative
  <2>3. InHand = {} /\ Recorded \in SUBSET Sigs
    BY DEF Init, LiveInit, InHand, NoJob, Recorded
  <2> QED
    BY <2>2, <2>3 DEF D!Init
<1>2. IPaid /\ Sole /\ [Next]_vars => [D!Next]_(D!deliveryVars)
  BY OtherDelivers, HandleDelivers, MarkDelivers DEF D!Next
<1>3. /\ IPaid /\ [Next]_vars => IPaid'
      /\ IPaid /\ Sole /\ [Next]_vars /\ Used("db") = 0 /\ (Used("db") = 0)' => Sole'
  BY StepPaid, StepSole, NoStatementFails DEF IPaid, IFresh
<1> QED
  BY <1>1, <1>2, <1>3, InitPaid, InitSole, PTL DEF Spec, Delivers, D!Spec

-----------------------------------------------------------------------------
(* The checkpoint leaves nothing behind.                                   *)

\* No reorganisation, and no more transactions at a poll than it asks for.
Undisturbed ==
  /\ reorgs = 0
  /\ poll.pc = "fetch" =>
       /\ IsFiniteSet(Found(Programs[1], poll.cursor))
       /\ Cardinality(Found(Programs[1], poll.cursor)) <= BatchSize

Away == {"boot", "latest", "stopped"}

\* The checkpoint is where the process started or a transaction on the chain.
CursorKnown ==
  /\ poll.pc \notin Away => poll.cursor = origin \/ OnChain(poll.cursor)
  /\ poll.pc \in Asking \union {"boot", "tick", "join"} => poll.batch = <<>>

ISkip == ILive /\ IdleEmpty /\ Extensible /\ CursorKnown /\ NothingSkipped

LEMMA InitSkip == Init => ISkip
<1> SUFFICES ASSUME Init PROVE ISkip
  OBVIOUS
<1>1. poll.pc = "boot" /\ poll.batch = <<>> /\ \A j \in Jobs : job[j] = NoJob
  BY DEF Init, LiveInit
<1> QED
  BY <1>1, InitLive, ChainIsExtensible
     DEF Init, ISkip, IdleEmpty, NoJob, CursorKnown, NothingSkipped, Passed, Away

\* Whatever has been received stays accounted for.
LEMMA JobAccounts ==
  ASSUME ILive, IdleEmpty, NEW j \in Jobs, JobStep(j)
  PROVE  UNCHANGED <<poll, origin, chainVars>> /\ IdleEmpty' /\ Accounted \subseteq Accounted'
<1> USE DEF ILive
<1>1. /\ job \in [Jobs -> JobRecord] /\ JobKnows(job[j], handled)
      /\ job[j].sig \in Sigs
  BY DEF TypeOK, JobsKnow, JobKnows, JobStep, JobFetch, JobBlock, JobHandle, JobRetry, JobMark,
     JobFails
<1>2. UNCHANGED <<poll, origin, dropped, chainVars>>
  BY DEF JobStep, JobFetch, JobBlock, JobHandle, JobRetry, JobMark, JobFails, OnlyJob
<1>3. ASSUME \A k \in Jobs : k # j => job'[k] = job[k], Recorded \subseteq Recorded',
             failed \subseteq failed', job[j].sig \in Recorded' \union failed' \/ job'[j].sig = job[j].sig
      PROVE  Accounted \subseteq Accounted'
  <2>1. Running \subseteq Running' \union Recorded' \union failed'
    BY <1>3 DEF Running
  <2> QED
    BY <1>2, <1>3, <2>1 DEF Accounted
<1>4. ASSUME UNCHANGED tables PROVE Recorded' = Recorded
  BY <1>4 DEF tables, Recorded, InProcessed, InTentative
<1>5. CASE JobFetch(j)
  <2>1. UNCHANGED <<tables, failed>> /\ job'[j].sig = job[j].sig /\ job'[j].pc = "block"
        /\ \A k \in Jobs : k # j => job'[k] = job[k]
    BY <1>1, <1>5 DEF JobFetch, JobRecord
  <2> QED
    BY <1>2, <1>3, <1>4, <2>1 DEF IdleEmpty
<1>6. CASE JobBlock(j)
  <2>1. UNCHANGED <<tables, failed>> /\ job'[j].sig = job[j].sig /\ job'[j].pc = "handle"
        /\ \A k \in Jobs : k # j => job'[k] = job[k]
    BY <1>1, <1>6 DEF JobBlock, JobRecord
  <2> QED
    BY <1>2, <1>3, <1>4, <2>1 DEF IdleEmpty
<1>7. CASE JobHandle(j) \/ JobRetry(j)
  <2>1. UNCHANGED <<tables, failed>> /\ job'[j].sig = job[j].sig
        /\ job'[j].pc \in {"handle", "mark"} /\ \A k \in Jobs : k # j => job'[k] = job[k]
    BY <1>1, <1>7 DEF JobHandle, JobRetry, JobRecord
  <2> QED
    BY <1>2, <1>3, <1>4, <2>1 DEF IdleEmpty
<1>8. CASE JobMark(j)
  <2>1. job'[j] = NoJob /\ UNCHANGED failed /\ \A k \in Jobs : k # j => job'[k] = job[k]
    BY <1>1, <1>8 DEF JobMark
  <2>2. job[j].slot \in Slots /\ UNCHANGED processed
    BY <1>1, <1>8 DEF JobMark, JobKnows, InsertTentative
  <2>3. tentative'[job[j].sig] # NoRow
        /\ \A sig \in Sigs : tentative[sig] # NoRow => tentative'[sig] = tentative[sig]
    BY <1>1, <1>8, <2>2, TypesAssumption DEF JobMark, InsertTentative, TypeOK, StorageTypeOK,
       NoRow, Slots, NoSlot
  <2>4. Recorded \subseteq Recorded' /\ job[j].sig \in Recorded'
    BY <1>1, <2>2, <2>3 DEF Recorded, InProcessed, InTentative
  <2> QED
    BY <1>2, <1>3, <2>1, <2>4 DEF IdleEmpty, NoJob
<1>9. CASE JobFails(j)
  <2>1. job'[j] = NoJob /\ UNCHANGED tables /\ failed' = failed \union {job[j].sig}
        /\ \A k \in Jobs : k # j => job'[k] = job[k]
    BY <1>1, <1>9 DEF JobFails
  <2> QED
    BY <1>2, <1>3, <1>4, <2>1 DEF IdleEmpty, NoJob
<1> QED
  BY <1>5, <1>6, <1>7, <1>8, <1>9 DEF JobStep

\* One poll: what is newer than the old checkpoint is in the batch, all of it.
LEMMA ReceiveSkips ==
  ASSUME SingleProgram, ISkip, Undisturbed, Receive
  PROVE  CursorKnown' /\ NothingSkipped'
<1> USE DEF ISkip, ILive
<1>1. /\ poll \in PollRecord /\ poll.batch = <<>> /\ poll.program = 1 /\ poll.pc = "fetch"
      /\ UNCHANGED <<tables, chainVars, job, failed, dropped, origin>>
  BY DEF Receive, CursorKnown, Asking, TypeOK, PollRecord, SingleProgram, OnlyPoll
<1>2. PICK b \in Received :
        poll' = IF b = <<>>
                THEN [poll EXCEPT !.pc = "tick", !.program = 1]
                ELSE [pc |-> "check1", cursor |-> Head(b), program |-> 1, batch |-> b]
  BY DEF Receive
<1>3. b \in Answers(Programs[1], poll.cursor, BatchSize)
  <2>1. PICK q \in Answers(Programs[1], poll.cursor, BatchSize) : b = <<>> \o q
    BY <1>1 DEF Received
  <2>2. q \in Seq(Sigs)
    BY AnswerDistinct, LiveAssumption
  <2> QED
    BY <2>1, <2>2, ConcatEmptySeq
<1>4. b \in Seq(Sigs) /\ Range(b) = Found(Programs[1], poll.cursor)
  BY <1>1, <1>3, AnswerDistinct, AnswerComplete, LiveAssumption DEF Undisturbed
<1>5. \A x, y : (After(x, y)' <=> After(x, y)) /\ (OnChain(x)' <=> OnChain(x))
  BY <1>1 DEF After, OnChain, Newer, SlotOn, TxsAt, chainVars
<1>6. Recorded' = Recorded /\ Running' = Running
  BY <1>1 DEF Recorded, InProcessed, InTentative, tables, Running
<1>7. CASE b = <<>>
  <2>1. /\ poll'.pc = "tick" /\ poll'.cursor = poll.cursor /\ poll'.batch = poll.batch
    BY <1>1, <1>2, <1>7 DEF PollRecord
  <2> QED
    BY <1>1, <1>5, <1>6, <2>1 DEF CursorKnown, NothingSkipped, Passed, Accounted, Away, Asking, Range
<1>8. CASE b # <<>>
  <2>1. poll'.pc = "check1" /\ poll'.cursor = Head(b) /\ poll'.batch = b
    BY <1>2, <1>8
  <2>2. Head(b) \in Range(b)
    BY <1>4, <1>8, RangeOfTail
  <2>3. CursorKnown'
    BY <1>4, <1>5, <2>1, <2>2 DEF CursorKnown, Found, After, Asking
  <2>4. ASSUME NEW sig \in Sigs, After(sig, origin)
        PROVE  sig \in Accounted \union Range(b)
    <3>1. After(sig, poll.cursor) => sig \in Range(b)
      BY <1>4 DEF Found, SingleProgram
    <3>2. ~After(sig, poll.cursor) => sig \in Accounted
      BY <1>1, <2>4 DEF NothingSkipped, Passed, Accounted, Away
    <3> QED
      BY <3>1, <3>2
  <2>5. Range(poll.batch) = {}
    BY <1>1 DEF Range
  <2> QED
    BY <1>1, <1>5, <1>6, <2>1, <2>3, <2>4, <2>5 DEF NothingSkipped, Passed, Accounted, Away
<1> QED
  BY <1>7, <1>8

\* A step that keeps what is accounted for, at the same checkpoint.
LEMMA SameCheckpoint ==
  ASSUME NothingSkipped, UNCHANGED <<chainVars, origin>>, poll'.cursor = poll.cursor,
         poll.pc \notin Away \/ poll'.pc \in Away, Accounted \subseteq Accounted'
  PROVE  NothingSkipped'
<1>1. \A x, y : After(x, y)' <=> After(x, y)
  BY DEF After, OnChain, Newer, SlotOn, TxsAt, chainVars
<1> QED
  BY <1>1 DEF NothingSkipped, Passed, Accounted, Away

LEMMA StepSkip ==
  ASSUME SingleProgram, ISkip, Undisturbed, Undisturbed', [Next]_vars
  PROVE  ISkip'
<1> USE DEF ISkip, ILive
<1>1. ILive'
  BY StepLive
<1>2. Extensible'
  <2>1. ChainNext \/ UNCHANGED chainVars
    BY DEF Next, PollStep, Boot, NextProgram, Checkpoint, Tick, Receive, CheckProcessed,
       CheckTentative, SpawnJob, JoinJobs, AbandonPoll, StopOnError, OnlyPoll, JobStep, JobFetch,
       JobBlock, JobHandle, JobRetry, JobMark, JobFails, OnlyJob, Restart, Cancel, ClusterStep, vars
  <2> QED
    BY <2>1, ChainExtends DEF Undisturbed, TypeOK
<1>3. poll \in PollRecord /\ poll.batch \in Seq(Sigs) /\ job \in [Jobs -> JobRecord]
      /\ PollKnows
  BY DEF TypeOK, PollRecord
<1>4. LastProgram
  BY <1>3 DEF LastProgram, PollRecord, SingleProgram
<1> SUFFICES IdleEmpty' /\ CursorKnown' /\ NothingSkipped'
  BY <1>1, <1>2
<1>5. ASSUME UNCHANGED chainVars PROVE \A x : OnChain(x)' <=> OnChain(x)
  BY <1>5 DEF OnChain, TxsAt, chainVars
<1>6. ASSUME UNCHANGED tables PROVE Recorded' = Recorded
  BY <1>6 DEF tables, Recorded, InProcessed, InTentative
<1>7. ASSUME UNCHANGED job PROVE IdleEmpty' /\ Running' = Running
  BY <1>7 DEF IdleEmpty, Running
<1>8. ASSUME NEW cursor, StartFrom(cursor), UNCHANGED <<tables, chainVars, job, failed, dropped>>
      PROVE  IdleEmpty' /\ CursorKnown' /\ NothingSkipped'
  <2>1. poll'.pc = "tick" /\ poll'.batch = <<>> /\ poll'.cursor = origin'
    BY <1>8 DEF StartFrom
  <2> QED
    BY <1>7, <1>8, <2>1 DEF CursorKnown, NothingSkipped, Passed
<1>9. CASE Boot \/ Checkpoint
  <2>1. UNCHANGED <<tables, chainVars, job, failed, dropped>>
    BY <1>9 DEF Boot, Checkpoint, OnlyPoll
  <2>2. CASE \E cursor : StartFrom(cursor)
    BY <1>8, <2>1, <2>2
  <2>3. CASE Boot /\ poll' = [poll EXCEPT !.pc = "latest"]
    <3>1. poll'.pc = "latest" /\ poll'.batch = poll.batch /\ poll.pc = "boot"
      BY <1>3, <2>3 DEF Boot, PollRecord
    <3> QED
      BY <1>7, <2>1, <3>1 DEF CursorKnown, NothingSkipped, Passed, Away, Asking
  <2> QED
    BY <1>9, <2>2, <2>3 DEF Boot, Checkpoint
<1>10. CASE Receive
  BY <1>7, <1>10, ReceiveSkips DEF Receive, OnlyPoll
<1>11. ASSUME UNCHANGED <<chainVars, origin>>, poll'.cursor = poll.cursor,
              poll.pc \notin Away, Accounted \subseteq Accounted',
              poll'.pc \in Asking \union {"boot", "tick", "join"} => poll'.batch = <<>>
       PROVE  CursorKnown' /\ NothingSkipped'
  BY <1>5, <1>11, SameCheckpoint DEF CursorKnown
<1>12. CASE Tick \/ JoinJobs
  <2>1. /\ UNCHANGED <<tables, chainVars, job, failed, dropped, origin>>
        /\ poll.pc \in {"tick", "join"} /\ poll'.pc \in {"fetch", "tick"}
        /\ poll'.batch = poll.batch /\ poll'.cursor = poll.cursor
    BY <1>3, <1>12 DEF Tick, JoinJobs, OnlyPoll, PollRecord
  <2>2. Accounted' = Accounted
    BY <1>6, <1>7, <2>1 DEF Accounted
  <2> QED
    BY <1>7, <1>11, <2>1, <2>2 DEF CursorKnown, Away
<1>13. CASE CheckProcessed \/ CheckTentative
  <2>1. /\ UNCHANGED <<tables, chainVars, job, failed, dropped, origin>>
        /\ poll.pc \in {"check1", "check2"} /\ poll'.cursor = poll.cursor
    BY <1>3, <1>13 DEF CheckProcessed, CheckTentative, OnlyPoll, PollRecord
  <2>2. \/ poll'.pc = "join" /\ poll.batch = <<>> /\ poll'.batch = <<>>
        \/ poll'.pc \in {"check2", "spawn"} /\ poll'.batch = poll.batch
        \/ /\ poll'.pc = "check1" /\ poll.batch # <<>> /\ poll'.batch = Tail(poll.batch)
           /\ InProcessed(Head(poll.batch)) \/ InTentative(Head(poll.batch))
    <3>1. CASE CheckProcessed
      BY <1>3, <3>1 DEF CheckProcessed, PollRecord
    <3>2. CASE CheckTentative
      BY <1>3, <3>2 DEF CheckTentative, PollRecord, PollKnows
    <3> QED
      BY <1>13, <3>1, <3>2
  <2>3. Range(poll.batch) \subseteq Range(poll'.batch) \union Recorded
    <3>1. poll.batch # <<>> => Head(poll.batch) \in Sigs
      BY <1>3
    <3> QED
      BY <1>3, <2>2, <3>1, RangeOfTail DEF Recorded
  <2>4. Accounted \subseteq Accounted'
    BY <1>6, <1>7, <2>1, <2>3 DEF Accounted
  <2> QED
    BY <1>7, <1>11, <2>1, <2>2, <2>4 DEF Away, Asking
<1>14. CASE SpawnJob
  <2> DEFINE free == CHOOSE j \in FreeJobs : TRUE
  <2>1. free \in Jobs /\ job[free].pc = "idle"
    BY <1>14 DEF SpawnJob, FreeJobs
  <2>2. /\ job'[free].sig = Head(poll.batch) /\ job'[free].pc = "fetch"
        /\ \A k \in Jobs : k # free => job'[k] = job[k]
    BY <1>3, <1>14, <2>1 DEF SpawnJob, NoJob
  <2>3. /\ poll.batch # <<>> /\ poll.pc = "spawn" /\ poll'.pc = "check1"
        /\ poll'.batch = Tail(poll.batch) /\ poll'.cursor = poll.cursor
        /\ UNCHANGED <<tables, chainVars, failed, dropped, origin>>
    BY <1>3, <1>14 DEF SpawnJob, PollKnows, PollRecord
  <2> HIDE DEF free
  <2>4. IdleEmpty'
    BY <2>1, <2>2 DEF IdleEmpty
  <2>5. Head(poll.batch) \in Sigs /\ Head(poll.batch) # NoSig
    BY <1>3, <2>3, SignaturesAssumption
  <2>6. Running \union {Head(poll.batch)} \subseteq Running'
    <3>1. job[free].sig = NoSig
      BY <2>1 DEF IdleEmpty
    <3> QED
      BY <2>1, <2>2, <2>5, <3>1 DEF Running
  <2>7. Accounted \subseteq Accounted'
    BY <1>3, <1>6, <2>3, <2>6, RangeOfTail DEF Accounted
  <2> QED
    BY <1>11, <2>3, <2>4, <2>7 DEF Away, Asking
<1>15. CASE AbandonPoll
  <2>1. /\ poll.pc \in {"check1", "check2"} /\ poll'.pc = "tick" /\ poll'.batch = <<>>
        /\ poll'.cursor = poll.cursor /\ dropped' = dropped \union Range(poll.batch)
        /\ UNCHANGED <<tables, chainVars, failed, origin>>
    BY <1>3, <1>15 DEF AbandonPoll, PollRecord
  <2>2. \A j \in Jobs : job'[j].sig = job[j].sig /\ job'[j].pc = job[j].pc /\ ~job'[j].joined
    BY <1>3, <1>15 DEF AbandonPoll, JobRecord
  <2>3. IdleEmpty' /\ Running' = Running
    BY <2>2 DEF IdleEmpty, Running
  <2>4. Accounted \subseteq Accounted'
    BY <1>6, <2>1, <2>3 DEF Accounted
  <2> QED
    BY <1>11, <2>1, <2>3, <2>4 DEF Away
<1>16. CASE StopOnError \/ Restart
  <2>1. poll'.pc \in {"stopped", "boot"} /\ poll'.batch = <<>> /\ \A j \in Jobs : job'[j] = NoJob
    <3>1. CASE StopOnError
      BY <1>3, <3>1 DEF StopOnError, PollRecord
    <3>2. CASE Restart
      BY <3>2 DEF Restart, ResetLive
    <3> QED
      BY <1>16, <3>1, <3>2
  <2> QED
    BY <2>1 DEF IdleEmpty, NoJob, CursorKnown, NothingSkipped, Passed, Away
<1>17. ASSUME NEW j \in Jobs, JobStep(j)
       PROVE  IdleEmpty' /\ CursorKnown' /\ NothingSkipped'
  <2>1. UNCHANGED <<poll, origin, chainVars>> /\ IdleEmpty' /\ Accounted \subseteq Accounted'
    BY <1>17, JobAccounts
  <2> QED
    BY <1>5, <2>1, SameCheckpoint DEF CursorKnown
<1>18. CASE Cancel \/ UNCHANGED vars
  <2>1. UNCHANGED <<tables, chainVars, poll, job, failed, dropped, origin>>
    BY <1>18 DEF Cancel, vars, liveVars
  <2>2. Accounted' = Accounted
    BY <1>6, <1>7, <2>1 DEF Accounted
  <2> QED
    BY <1>5, <1>7, <2>1, <2>2, SameCheckpoint DEF CursorKnown
<1>19. CASE ClusterStep
  <2>1. ChainNext /\ UNCHANGED <<tables, poll, job, failed, dropped, origin>>
    BY <1>19 DEF ClusterStep, liveVars
  <2>2. Accounted' = Accounted
    BY <1>6, <1>7, <2>1 DEF Accounted
  <2>3. ChainTypeOK /\ reorgs' = 0
    BY DEF TypeOK, Undisturbed
  <2>4. \A x : OnChain(x) => OnChain(x)'
    BY <2>1, <2>3, PlaceStays
  <2>5. CursorKnown'
    BY <2>1, <2>4 DEF CursorKnown
  <2>6. ASSUME NEW sig \in Sigs, poll.pc \notin Away,
               After(sig, origin)', ~After(sig, poll.cursor)'
        PROVE  sig \in Accounted
    <3>1. poll.cursor # origin /\ OnChain(sig)'
      BY <2>1, <2>6 DEF After
    <3>2. OnChain(poll.cursor)
      BY <2>6, <3>1 DEF CursorKnown
    <3>3. OnChain(sig) /\ ~After(sig, poll.cursor)
      BY <2>1, <2>3, <2>6, <3>1, <3>2, AfterStays
    <3>4. After(sig, origin)
      BY <2>1, <2>3, <2>6, <3>3, AfterStays
    <3> QED
      BY <2>6, <3>3, <3>4 DEF NothingSkipped, Passed, Accounted, Away
  <2>7. NothingSkipped'
    BY <2>1, <2>2, <2>6 DEF NothingSkipped, Passed, Accounted, Away
  <2> QED
    BY <1>7, <2>1, <2>5, <2>7
<1> QED
  BY <1>4, <1>9, <1>10, <1>12, <1>13, <1>14, <1>15, <1>16, <1>17, <1>18, <1>19
     DEF Next, PollStep, NextProgram

\* With one program, on a chain that is not reorganised and with batches that
\* hold all that is new, the checkpoint passes over nothing: not across failed
\* requests, abandoned polls, racing tasks and restarts.
THEOREM LiveNothingSkipped ==
  ASSUME SingleProgram
  PROVE  Spec /\ []Undisturbed => []NothingSkipped
<1>1. ISkip /\ Undisturbed /\ Undisturbed' /\ [Next]_vars => ISkip'
  BY StepSkip
<1>2. ISkip => NothingSkipped
  BY DEF ISkip
<1> QED
  BY InitSkip, <1>1, <1>2, PTL DEF Spec
=============================================================================
