------------------------------ MODULE LiveRpc ------------------------------
(***************************************************************************)
(* The live RPC source: process_rpc_source picks a checkpoint and polls;   *)
(* poll_and_process asks for the signatures of every program newer than    *)
(* the checkpoint, advances the checkpoint, and spawns a task for each one *)
(* is_processed does not know; process_transaction_core is the task.       *)
(*                                                                         *)
(* One step is one RPC request, one storage statement or one handler call. *)
(* The polling loop is one thread of control (poll); the tasks are jobs.   *)
(* Requests, statements and handlers fail while their fault budget lasts;  *)
(* a transaction that the node does not serve is an error of its task.     *)
(***************************************************************************)
EXTENDS Storage, Signatures, Process

CONSTANTS
  Strategy,     \* config.start_strategy: "latest", "resume" or a signature
  BatchSize,    \* config.batch_size
  Workers,      \* config.worker_threads
  MaxRetries,   \* config.retry.max_retries
  Jobs,         \* bound: identifiers of concurrently running tasks
  MaxHandled    \* bound: successful handler calls counted per transaction

ASSUME LiveAssumption ==
  /\ Strategy \in {"latest", "resume"} \union Sigs
  /\ BatchSize \in Nat \ {0} /\ Workers \in Nat \ {0}
  /\ MaxRetries \in Nat /\ MaxHandled \in Nat \ {0}

VARIABLES
  poll,      \* the polling loop
  job,       \* the tasks it spawned
  handled,   \* history: successful handler calls per transaction
  failed,    \* history: transactions whose task returned an error
  dropped,   \* history: signatures received and then given up by the loop
  origin     \* history: the checkpoint this process started from

liveVars == <<poll, job, handled, failed, dropped, origin>>
vars == <<tables, chainVars, processVars, liveVars>>

NoJob == [sig |-> NoSig, pc |-> "idle", slot |-> NoSlot, hash |-> NoHash,
          tries |-> 0, joined |-> FALSE]

PollRecord ==
  [pc : {"boot", "latest", "tick", "fetch", "check1", "check2", "spawn", "join", "stopped"},
   cursor : Sigs \union {NoSig},
   program : 1..Len(Programs),
   batch : Seq(Sigs)]

JobRecord ==
  [sig : Sigs \union {NoSig},
   pc : {"idle", "fetch", "block", "handle", "mark"},
   slot : Slots \union {NoSlot},
   hash : StoredHashes \union {NoHash},
   tries : 0..MaxRetries,
   joined : BOOLEAN]

\* Type invariant.
TypeOK ==
  /\ StorageTypeOK /\ ChainTypeOK /\ ProcessTypeOK
  /\ poll \in PollRecord
  /\ job \in [Jobs -> JobRecord]
  /\ handled \in [Sigs -> 0..MaxHandled]
  /\ failed \subseteq Sigs /\ dropped \subseteq Sigs
  /\ origin \in Sigs \union {NoSig}

-----------------------------------------------------------------------------
(* The polling loop.                                                       *)

OnlyPoll == UNCHANGED <<tables, chainVars, cancelled, job, handled, failed>>

\* The loop starts with this checkpoint.
StartFrom(cursor) ==
  /\ poll' = [pc |-> "tick", cursor |-> cursor, program |-> 1, batch |-> <<>>]
  /\ origin' = cursor

\* Resume reads the processed table, and only that one.
Boot ==
  /\ poll.pc = "boot"
  /\ \/ Strategy \in Sigs /\ StartFrom(Strategy)
     \/ Strategy = "resume" /\ \E sig \in LastProcessedSignatures : StartFrom(sig)
     \/ /\ Strategy = "latest" \/ (Strategy = "resume" /\ LastProcessedSignatures = {})
        /\ poll' = [poll EXCEPT !.pc = "latest"]
        /\ UNCHANGED origin
  /\ UNCHANGED <<faults, dropped>> /\ OnlyPoll

\* fetch_signatures: one request per program, appending the answers.
LastProgram == poll.program = Len(Programs)

\* What has been received once the request for the current program is answered.
Received == {poll.batch \o q : q \in Answers(Programs[poll.program], poll.cursor, BatchSize)}

NextProgram(pc) ==
  /\ poll.pc = pc /\ ~LastProgram
  /\ \E batch \in Received : poll' = [poll EXCEPT !.program = @ + 1, !.batch = batch]
  /\ UNCHANGED <<faults, dropped, origin>> /\ OnlyPoll

\* Latest: the checkpoint is the first signature received, if any.
Checkpoint ==
  /\ poll.pc = "latest" /\ LastProgram
  /\ \E batch \in Received : StartFrom(IF batch = <<>> THEN NoSig ELSE Head(batch))
  /\ UNCHANGED <<faults, dropped>> /\ OnlyPoll

Tick ==
  /\ poll.pc = "tick"
  /\ poll' = [poll EXCEPT !.pc = "fetch"]
  /\ UNCHANGED <<faults, dropped, origin>> /\ OnlyPoll

\* The checkpoint advances before any signature has been looked at.
Receive ==
  /\ poll.pc = "fetch" /\ LastProgram
  /\ \E batch \in Received :
       poll' = IF batch = <<>>
               THEN [poll EXCEPT !.pc = "tick", !.program = 1]
               ELSE [pc |-> "check1", cursor |-> Head(batch), program |-> 1,
                     batch |-> batch]
  /\ UNCHANGED <<faults, dropped, origin>> /\ OnlyPoll

\* is_processed of the next signature, first statement; or all are done.
CheckProcessed ==
  /\ poll.pc = "check1"
  /\ poll' = IF poll.batch = <<>> THEN [poll EXCEPT !.pc = "join"]
             ELSE IF InProcessed(Head(poll.batch)) THEN [poll EXCEPT !.batch = Tail(@)]
             ELSE [poll EXCEPT !.pc = "check2"]
  /\ UNCHANGED <<faults, dropped, origin>> /\ OnlyPoll

\* A mutant: only the processed table is consulted.
CheckTentative_Skip ==
  /\ poll.pc = "check2"
  /\ poll' = [poll EXCEPT !.pc = "spawn"]
  /\ UNCHANGED <<faults, dropped, origin>> /\ OnlyPoll

\* is_processed, second statement.
CheckTentative ==
  /\ poll.pc = "check2"
  /\ poll' = IF InTentative(Head(poll.batch))
             THEN [poll EXCEPT !.pc = "check1", !.batch = Tail(@)]
             ELSE [poll EXCEPT !.pc = "spawn"]
  /\ UNCHANGED <<faults, dropped, origin>> /\ OnlyPoll

\* The tasks of this poll, which hold its permits and which it will await.
Joined == {j \in Jobs : job[j].joined}
FreeJobs == {j \in Jobs : job[j].pc = "idle"}

\* A mutant: with no permit left the signature is passed over.
SpawnJob_TryAcquire ==
  /\ poll.pc = "spawn"
  /\ IF Cardinality(Joined) < Workers
     THEN \E j \in FreeJobs :
            job' = [job EXCEPT ![j] = [NoJob EXCEPT !.sig = Head(poll.batch),
                                                    !.pc = "fetch", !.joined = TRUE]]
     ELSE UNCHANGED job
  /\ poll' = [poll EXCEPT !.pc = "check1", !.batch = Tail(@)]
  /\ UNCHANGED <<tables, chainVars, processVars, handled, failed, dropped, origin>>

SpawnJob ==
  /\ poll.pc = "spawn" /\ Cardinality(Joined) < Workers
  /\ FreeJobs # {}
  /\ LET j == CHOOSE j \in FreeJobs : TRUE
     IN  job' = [job EXCEPT ![j] = [NoJob EXCEPT !.sig = Head(poll.batch),
                                                 !.pc = "fetch", !.joined = TRUE]]
  /\ poll' = [poll EXCEPT !.pc = "check1", !.batch = Tail(@)]
  /\ UNCHANGED <<tables, chainVars, processVars, handled, failed, dropped, origin>>

JoinJobs ==
  /\ poll.pc = "join" /\ Joined = {}
  /\ poll' = [poll EXCEPT !.pc = "tick"]
  /\ UNCHANGED <<faults, dropped, origin>> /\ OnlyPoll

\* An error of is_processed abandons the poll: the tasks already spawned run
\* on unobserved, the signatures not yet looked at are not asked for again.
AbandonPoll ==
  /\ poll.pc \in {"check1", "check2"} /\ poll.batch # <<>> /\ Fault("db")
  /\ poll' = [poll EXCEPT !.pc = "tick", !.batch = <<>>]
  /\ job' = [j \in Jobs |-> [job[j] EXCEPT !.joined = FALSE]]
  /\ dropped' = dropped \union Range(poll.batch)
  /\ UNCHANGED <<tables, chainVars, cancelled, handled, failed, origin>>

\* An RPC error of fetch_signatures (or, at startup, a database error) ends
\* the indexer, and with it the process and its tasks.
StopOnError ==
  /\ \/ poll.pc \in {"latest", "fetch"} /\ Fault("rpc")
     \/ poll.pc = "boot" /\ Strategy = "resume" /\ Fault("db")
  /\ poll' = [poll EXCEPT !.pc = "stopped", !.batch = <<>>]
  /\ job' = [j \in Jobs |-> NoJob]
  /\ UNCHANGED <<tables, chainVars, cancelled, handled, failed, dropped, origin>>

-----------------------------------------------------------------------------
(* The tasks: process_transaction_core, not finalized, no known hash.      *)

OnlyJob == UNCHANGED <<chainVars, cancelled, poll, dropped, origin>>

JobFetch(j) ==
  /\ job[j].pc = "fetch"
  /\ \E s \in SlotsOfTx(job[j].sig) :
       job' = [job EXCEPT ![j] = [@ EXCEPT !.pc = "block", !.slot = s]]
  /\ UNCHANGED <<tables, faults, handled, failed>> /\ OnlyJob

\* A mutant: a transaction of an unknown block is only recorded.
JobBlock_Unhandled(j) ==
  /\ job[j].pc = "block"
  /\ \/ /\ BlockAvailable(job[j].slot)
        /\ job' = [job EXCEPT ![j] = [@ EXCEPT !.pc = "handle", !.hash = chain[job[j].slot]]]
        /\ UNCHANGED faults
     \/ /\ IF BlockAvailable(job[j].slot) THEN Fault("rpc") ELSE UNCHANGED faults
        /\ job' = [job EXCEPT ![j] = [@ EXCEPT !.pc = "mark", !.hash = UnknownHash]]
  /\ UNCHANGED <<tables, handled, failed>> /\ OnlyJob

\* A block that cannot be fetched is recorded as "UNKNOWN".
JobBlock(j) ==
  /\ job[j].pc = "block"
  /\ \/ /\ BlockAvailable(job[j].slot)
        /\ job' = [job EXCEPT ![j] = [@ EXCEPT !.pc = "handle", !.hash = chain[job[j].slot]]]
        /\ UNCHANGED faults
     \/ /\ IF BlockAvailable(job[j].slot) THEN Fault("rpc") ELSE UNCHANGED faults
        /\ job' = [job EXCEPT ![j] = [@ EXCEPT !.pc = "handle", !.hash = UnknownHash]]
  /\ UNCHANGED <<tables, handled, failed>> /\ OnlyJob

JobHandle(j) ==
  /\ job[j].pc = "handle"
  /\ job' = [job EXCEPT ![j].pc = "mark"]
  /\ handled' = [handled EXCEPT ![job[j].sig] = Min({@ + 1, MaxHandled})]
  /\ UNCHANGED <<tables, faults, failed>> /\ OnlyJob

\* A mutant: the retries are not counted.
JobRetry_Unbounded(j) ==
  /\ job[j].pc = "handle" /\ Fault("handler")
  /\ job' = [job EXCEPT ![j].tries = @ + 1]
  /\ UNCHANGED <<tables, handled, failed>> /\ OnlyJob

\* A mutant: the error of the handler is swallowed and the row still written.
JobRetry_Swallow(j) ==
  /\ job[j].pc = "handle" /\ job[j].tries < MaxRetries /\ Fault("handler")
  /\ job' = [job EXCEPT ![j].pc = "mark"]
  /\ UNCHANGED <<tables, handled, failed>> /\ OnlyJob

JobRetry(j) ==
  /\ job[j].pc = "handle" /\ job[j].tries < MaxRetries /\ Fault("handler")
  /\ job' = [job EXCEPT ![j].tries = @ + 1]
  /\ UNCHANGED <<tables, handled, failed>> /\ OnlyJob

JobMark(j) ==
  /\ job[j].pc = "mark"
  /\ InsertTentative(job[j].sig, job[j].slot, job[j].hash)
  /\ job' = [job EXCEPT ![j] = NoJob]
  /\ UNCHANGED <<faults, handled, failed>> /\ OnlyJob

\* A mutant: the last retry is not made.
JobFails_Early(j) ==
  /\ job[j].pc = "handle" /\ job[j].tries + 1 = MaxRetries /\ Fault("handler")
  /\ job' = [job EXCEPT ![j] = NoJob]
  /\ failed' = failed \union {job[j].sig}
  /\ UNCHANGED <<tables, handled>> /\ OnlyJob

\* The task returns an error, which is logged.
JobFails(j) ==
  /\ \/ /\ job[j].pc = "fetch"
        /\ IF SlotsOfTx(job[j].sig) = {} THEN UNCHANGED faults ELSE Fault("rpc")
     \/ job[j].pc = "handle" /\ job[j].tries = MaxRetries /\ Fault("handler")
     \/ job[j].pc = "mark" /\ Fault("db")
  /\ job' = [job EXCEPT ![j] = NoJob]
  /\ failed' = failed \union {job[j].sig}
  /\ UNCHANGED <<tables, handled>> /\ OnlyJob

-----------------------------------------------------------------------------
ResetLive ==
  /\ poll' = [pc |-> "boot", cursor |-> NoSig, program |-> 1, batch |-> <<>>]
  /\ job' = [j \in Jobs |-> NoJob]
  /\ UNCHANGED <<handled, failed, dropped, origin>>

\* The process dies, or has stopped, and is started again.
Restart == NewProcess /\ ResetLive /\ UNCHANGED <<tables, chainVars>>

Cancel == CancelToken /\ UNCHANGED <<tables, chainVars, liveVars>>

LiveInit ==
  /\ poll = [pc |-> "boot", cursor |-> NoSig, program |-> 1, batch |-> <<>>]
  /\ job = [j \in Jobs |-> NoJob]
  /\ failed = {} /\ dropped = {}
  /\ origin = NoSig

\* The database is empty, or an earlier process has backfilled up to slot b.
IndexedUpTo(b) ==
  /\ processed = [sig \in Sigs |->
       IF \E s \in 0..b : sig \in TxsAt(chain, s) THEN SlotOn(sig) ELSE NoSlot]
  /\ tentative = [sig \in Sigs |-> NoRow]
  /\ finalized = [s \in Slots |-> IF s <= b THEN chain[s] ELSE NoHash]
  /\ progress = [last |-> b, complete |-> FALSE]
  /\ handled = [sig \in Sigs |-> IF InProcessed(sig) THEN 1 ELSE 0]

Init ==
  /\ ChainInit
  /\ \E b \in NoSlot..InitialTip : IndexedUpTo(b)
  /\ ProcessInit
  /\ LiveInit

PollStep ==
  \/ Boot \/ NextProgram("latest") \/ Checkpoint
  \/ Tick \/ NextProgram("fetch") \/ Receive
  \/ CheckProcessed \/ CheckTentative \/ SpawnJob \/ JoinJobs
  \/ AbandonPoll \/ StopOnError

JobStep(j) ==
  JobFetch(j) \/ JobBlock(j) \/ JobHandle(j) \/ JobRetry(j) \/ JobMark(j) \/ JobFails(j)

ClusterStep == ChainNext /\ UNCHANGED <<tables, processVars, liveVars>>

Next ==
  \/ PollStep
  \/ \E j \in Jobs : JobStep(j)
  \/ Restart \/ Cancel
  \/ ClusterStep

Spec == Init /\ [][Next]_vars

(* The loop's timer fires and the runtime polls every task.                *)
FairSpec ==
  /\ Spec
  /\ WF_vars(PollStep)
  /\ \A j \in Jobs : WF_vars(JobStep(j))

-----------------------------------------------------------------------------
(* Properties.                                                             *)

Running == {job[j].sig : j \in Jobs} \ {NoSig}

\* A transaction the database knows has been through its handlers: whatever
\* the tasks race with, the marker is never ahead of the effect.
RecordedWasHandled == \A sig \in Recorded : handled[sig] > 0

\* Handlers see a transaction again only after a crash or a database error:
\* two polls that receive the same signature do not both process it.
HandledOnce ==
  \A sig \in Sigs : handled[sig] <= 1 + Used("crash") + Used("db")

\* Handled, and about to be recorded.
InHand == {job[j].sig : j \in {k \in Jobs : job[k].pc = "mark"}}

\* Overlapping polls, the tasks they leave running, their retries and the
\* restarts amount to this, as long as no statement fails: each transaction is
\* handled and then recorded, by one task, once unless interrupted.
D == INSTANCE Delivery WITH inHand <- InHand, recorded <- Recorded
Delivers == D!Spec

\* Recorded, running, or known to have been given up.
Accounted == Recorded \union Running \union Range(poll.batch) \union failed \union dropped

\* The loop is past this transaction: it will not ask for it again.
Passed(sig) == poll.pc \notin {"boot", "latest", "stopped"} /\ ~After(sig, poll.cursor)

\* The checkpoint leaves nothing behind: a transaction that is newer than the
\* checkpoint this process started from and not newer than the current one
\* is recorded or on its way, unless its task failed or its poll was abandoned.
NothingSkipped ==
  \A sig \in Sigs : After(sig, origin) /\ Passed(sig) => sig \in Accounted

\* What the database had recorded of the chain up to the checkpoint this
\* process started from.
RecordedBefore == {sig \in Recorded : ~After(sig, origin)}

\* A process that finds transactions in the database resumes from the last of
\* them: the first one that is newer than all of these is not passed over, nor
\* is any later one.
ResumeLeavesNoGap ==
  RecordedBefore # {} =>
    \A sig \in Sigs :
      /\ Passed(sig) /\ \A old \in RecordedBefore : After(sig, old)
      => sig \in Accounted

\* Every confirmed transaction newer than the configured signature is
\* eventually recorded, across crashes and retried handler errors.
EveryTransactionRecorded ==
  \A sig \in Sigs : OnChain(sig) /\ After(sig, Strategy) ~> sig \in Recorded
=============================================================================
