----------------------------- MODULE FullStreams -----------------------------
(***************************************************************************)
(* The two sources that deliver whole transactions, Helius and             *)
(* Laserstream, and their loops (process_helius_source and                 *)
(* process_laserstream_source).                                            *)
(*                                                                         *)
(*   node -> sock -> feed (run_stream) -> channel -> next_batch -> loop    *)
(*                                                                         *)
(* The Helius loop asks is_processed, takes a permit and spawns a task     *)
(* that it never awaits; its transactions are tentative.  The Laserstream  *)
(* loop asks nothing, awaits the transaction in place, discards its error, *)
(* and records it as finalized; it does not read the token.  Nothing asks  *)
(* the node for what it sent while no socket was subscribed, and nothing   *)
(* but the tables outlives the process: Init is every start of it.         *)
(***************************************************************************)
EXTENDS Storage, Chain, Process, SequencesExt

CONSTANTS
  Sources,           \* the sources to look at: "helius", "laserstream"
  Leftovers,         \* contents the tables may start with
  Capacity,          \* events the channel holds (1000)
  BatchLimit,        \* most events of one next_batch (100)
  Permits,           \* permits of the Helius loop's semaphore (100)
  Jobs,              \* bound: identifiers of concurrently running tasks
  MaxDrops,          \* bound: sockets closed by the node
  MaxHandled         \* bound: deliveries and handler runs counted per transaction

ASSUME FullStreamsAssumption ==
  /\ Sources \subseteq {"helius", "laserstream"}
  /\ Leftovers \subseteq [tentative : [Sigs -> TentativeRow \union {NoRow}],
                           finalized : [Slots -> StoredHashes \union {NoHash}]]
  /\ Capacity \in Nat \ {0} /\ BatchLimit \in Nat \ {0} /\ Permits \in Nat \ {0}
  /\ MaxDrops \in Nat /\ MaxHandled \in Nat \ {0}

VARIABLES
  source,     \* SourceConfig
  sock,       \* the current connection, as the node and the network see it
  feed,       \* run_stream
  channel,    \* the bounded channel between run_stream and next_batch
  loop,       \* the consuming loop
  job,        \* process_transaction_core: spawned tasks, or the loop's own call
  delivered,  \* history: events put into the channel, per transaction
  handled,    \* history: transactions whose handlers have all succeeded
  failed      \* history: transactions whose task returned an error

fullVars == <<source, sock, feed, channel, loop, job, delivered, handled, failed>>
vars == <<tables, chainVars, processVars, fullVars>>

Event == [sig : Sigs, slot : Slots]

\* Confirmations of subscriptions, pongs and updates of other kinds.
Other == [sig |-> "other", slot |-> NoSlot]
NoEvent == [sig |-> "none", slot |-> NoSlot]

Socket(open, subscribed, wire) ==
  [open |-> open, subscribed |-> subscribed, wire |-> wire, drops |-> sock.drops]
IdleFeed == [pc |-> "connect", event |-> NoEvent]
NewLoop == [pc |-> "next", batch |-> <<>>]
NoJob == [pc |-> "idle", event |-> NoEvent, hash |-> NoHash]

JobPcs == {"idle", "block", "handle", "mark", "final1", "final2", "final3", "processed"}

\* Type invariant: the channel and the semaphore keep their bounds.
TypeOK ==
  /\ StorageTypeOK /\ ChainTypeOK /\ ProcessTypeOK
  /\ source \in Sources
  /\ sock \in [open : BOOLEAN, subscribed : BOOLEAN, wire : Seq(Event \union {Other}),
               drops : 0..MaxDrops]
  /\ feed \in [pc : {"connect", "read", "send", "ended"}, event : Event \union {NoEvent}]
  /\ channel \in Seq(Event) /\ Len(channel) <= Capacity
  /\ loop \in [pc : {"next", "event", "check2", "dispatch", "await", "stopped"},
               batch : Seq(Event)]
  /\ Len(loop.batch) <= BatchLimit
  /\ job \in [Jobs -> [pc : JobPcs, event : Event \union {NoEvent},
                       hash : StoredHashes \union {NoHash}]]
  /\ Cardinality({j \in Jobs : job[j].pc # "idle"}) <= Permits
  /\ delivered \in [Sigs -> 0..MaxHandled]
  /\ handled \in [Sigs -> 0..MaxHandled]
  /\ failed \subseteq Sigs

Counted(history, sig) == [history EXCEPT ![sig] = Min({@ + 1, MaxHandled})]

Alive == loop.pc # "stopped"

-----------------------------------------------------------------------------
(* The node and the network (external).                                    *)

OnlySocket ==
  UNCHANGED <<tables, processVars, source, feed, channel, loop, job, delivered, handled,
              failed>>

\* The transactions of a block that becomes confirmed, in an order of the
\* block's own.
Notifications(s) ==
  LET q == SetToSeq(TxsAt(chain', s)) IN [i \in DOMAIN q |-> [sig |-> q[i], slot |-> s]]

\* The node notifies whoever is subscribed, and keeps nothing for later.
ClusterStep ==
  /\ ChainNext
  /\ IF sock.subscribed /\ chain' # chain
     THEN \E s \in Slots : /\ chain'[s] # chain[s]
                           /\ sock' = [sock EXCEPT !.wire = @ \o Notifications(s)]
     ELSE UNCHANGED sock
  /\ OnlySocket

NodeSubscribes ==
  /\ sock.open /\ ~sock.subscribed
  /\ sock' = Socket(TRUE, TRUE, Append(sock.wire, Other))
  /\ UNCHANGED chainVars /\ OnlySocket

\* The connection ends, with the last messages on the way.
SocketDrops ==
  /\ sock.open /\ sock.drops < MaxDrops
  /\ \E n \in 0..Len(sock.wire) :
       sock' = [Socket(FALSE, FALSE, SubSeq(sock.wire, 1, n)) EXCEPT !.drops = @ + 1]
  /\ UNCHANGED chainVars /\ OnlySocket

-----------------------------------------------------------------------------
(* run_stream, a task of its own.                                          *)

OnlyFeed ==
  UNCHANGED <<tables, chainVars, cancelled, source, loop, job, handled, failed>>

\* Connecting or subscribing may fail; then, after a while, it is tried again,
\* which changes nothing.
Connect ==
  /\ feed.pc = "connect"
  /\ sock' = Socket(TRUE, FALSE, <<>>)
  /\ feed' = [feed EXCEPT !.pc = "read"]
  /\ UNCHANGED <<faults, channel, delivered>> /\ OnlyFeed

\* A message that is no transaction is passed over; after the last one of a
\* closed connection the task connects again.
Read ==
  /\ feed.pc = "read"
  /\ \/ /\ sock.wire # <<>>
        /\ feed' = IF Head(sock.wire) = Other THEN feed
                   ELSE [pc |-> "send", event |-> Head(sock.wire)]
        /\ sock' = [sock EXCEPT !.wire = Tail(@)]
     \/ /\ sock.wire = <<>> /\ ~sock.open
        /\ feed' = IdleFeed
        /\ UNCHANGED sock
  /\ UNCHANGED <<faults, channel, delivered>> /\ OnlyFeed

\* A mutant: an event that finds the channel full is dropped.
Send_Try ==
  /\ feed.pc = "send" /\ Alive
  /\ channel' = IF Len(channel) < Capacity THEN Append(channel, feed.event) ELSE channel
  /\ delivered' = Counted(delivered, feed.event.sig)
  /\ feed' = [pc |-> "read", event |-> NoEvent]
  /\ UNCHANGED <<faults, sock>> /\ OnlyFeed

\* send awaits room; without a receiver the Helius task returns.
Send ==
  /\ feed.pc = "send"
  /\ \/ /\ Alive /\ Len(channel) < Capacity
        /\ channel' = Append(channel, feed.event)
        /\ delivered' = Counted(delivered, feed.event.sig)
        /\ feed' = [pc |-> "read", event |-> NoEvent]
        /\ UNCHANGED sock
     \/ /\ ~Alive
        /\ feed' = [IdleFeed EXCEPT !.pc = "ended"]
        /\ sock' = Socket(FALSE, FALSE, <<>>)
        /\ UNCHANGED <<channel, delivered>>
  /\ UNCHANGED faults /\ OnlyFeed

-----------------------------------------------------------------------------
(* The loop.                                                               *)

OnlyLoop ==
  UNCHANGED <<tables, chainVars, cancelled, source, sock, feed, delivered, handled, failed>>

Helius == source = "helius"

\* next_batch: recv, then try_recv up to the limit.
NextBatch ==
  /\ loop.pc = "next" /\ channel # <<>>
  /\ LET n == Min({Len(channel), BatchLimit})
     IN  /\ loop' = [pc |-> "event", batch |-> SubSeq(channel, 1, n)]
         /\ channel' = SubSeq(channel, n + 1, Len(channel))
  /\ UNCHANGED <<faults, job>> /\ OnlyLoop

\* A mutant: no select!, the token is looked at between batches only.
StopLoop_WithBatch ==
  /\ Helius /\ loop.pc = "next" /\ cancelled /\ channel # <<>>
  /\ loop' = [NewLoop EXCEPT !.pc = "stopped"]
  /\ channel' = <<>>
  /\ UNCHANGED <<faults, job>> /\ OnlyLoop

\* The receiver goes with the loop; the spawned tasks do not.
StopLoop ==
  /\ Helius /\ loop.pc = "next" /\ cancelled
  /\ loop' = [NewLoop EXCEPT !.pc = "stopped"]
  /\ channel' = <<>>
  /\ UNCHANGED <<faults, job>> /\ OnlyLoop

Sig == Head(loop.batch).sig

Advance == loop' = [pc |-> "event", batch |-> Tail(loop.batch)]

\* The next event, in Helius with the first statement of is_processed; or the
\* batch is done and the token looked at.
NextEvent ==
  /\ loop.pc = "event"
  /\ IF loop.batch = <<>> THEN loop' = [NewLoop EXCEPT !.pc = IF Helius /\ cancelled
                                                              THEN "stopped" ELSE "next"]
     ELSE IF Helius /\ InProcessed(Sig) THEN Advance
     ELSE loop' = [loop EXCEPT !.pc = IF Helius THEN "check2" ELSE "dispatch"]
  /\ channel' = IF loop'.pc = "stopped" THEN <<>> ELSE channel
  /\ UNCHANGED <<faults, job>> /\ OnlyLoop

\* A mutant: a known signature is looked at again.
CheckTentative_Again ==
  /\ loop.pc = "check2"
  /\ loop' = [loop EXCEPT !.pc = IF InTentative(Sig) THEN "event" ELSE "dispatch"]
  /\ UNCHANGED <<faults, channel, job>> /\ OnlyLoop

\* is_processed, second statement.
CheckTentative ==
  /\ loop.pc = "check2"
  /\ IF InTentative(Sig) THEN Advance ELSE loop' = [loop EXCEPT !.pc = "dispatch"]
  /\ UNCHANGED <<faults, channel, job>> /\ OnlyLoop

\* is_processed fails, and with it the indexer.
StopOnError ==
  /\ Helius /\ loop.pc \in {"event", "check2"} /\ loop.batch # <<>> /\ Fault("db")
  /\ loop' = [NewLoop EXCEPT !.pc = "stopped"]
  /\ channel' = <<>>
  /\ UNCHANGED job /\ OnlyLoop

Busy == {j \in Jobs : job[j].pc # "idle"}

\* A mutant: the event stays in the batch.
Dispatch_Keeps ==
  /\ loop.pc = "dispatch" /\ Cardinality(Busy) < Permits /\ Busy # Jobs
  /\ LET j == CHOOSE j \in Jobs \ Busy : TRUE
     IN  job' = [job EXCEPT ![j] = [NoJob EXCEPT !.pc = "block", !.event = Head(loop.batch)]]
  /\ loop' = [loop EXCEPT !.pc = IF Helius THEN "event" ELSE "await"]
  /\ UNCHANGED <<faults, channel>> /\ OnlyLoop

\* A mutant: the permit is not waited for.
Dispatch_NoPermit ==
  /\ loop.pc = "dispatch" /\ Busy # Jobs
  /\ LET j == CHOOSE j \in Jobs \ Busy : TRUE
     IN  job' = [job EXCEPT ![j] = [NoJob EXCEPT !.pc = "block", !.event = Head(loop.batch)]]
  /\ loop' = [pc |-> IF Helius THEN "event" ELSE "await", batch |-> Tail(loop.batch)]
  /\ UNCHANGED <<faults, channel>> /\ OnlyLoop

\* Helius spawns a task with a permit, Laserstream awaits the call.
Dispatch ==
  /\ loop.pc = "dispatch" /\ Cardinality(Busy) < Permits /\ Busy # Jobs
  /\ LET j == CHOOSE j \in Jobs \ Busy : TRUE
     IN  job' = [job EXCEPT ![j] = [NoJob EXCEPT !.pc = "block", !.event = Head(loop.batch)]]
  /\ loop' = [pc |-> IF Helius THEN "event" ELSE "await", batch |-> Tail(loop.batch)]
  /\ UNCHANGED <<faults, channel>> /\ OnlyLoop

Await ==
  /\ loop.pc = "await" /\ Busy = {}
  /\ loop' = [loop EXCEPT !.pc = "event"]
  /\ UNCHANGED <<faults, channel, job>> /\ OnlyLoop

-----------------------------------------------------------------------------
(* process_transaction_core with the transaction at hand.                  *)

OnlyJob ==
  UNCHANGED <<chainVars, cancelled, source, sock, feed, channel, loop, delivered>>

Slot(j) == job[j].event.slot

\* fetch_block, at the time of the task: a block without an answer is
\* "UNKNOWN", as it always may be (the RPC endpoint of Laserstream is its gRPC
\* URL).
JobBlock(j) ==
  /\ job[j].pc = "block"
  /\ \E h \in {UnknownHash} \union (IF BlockAvailable(Slot(j)) THEN {chain[Slot(j)]} ELSE {}) :
       job' = [job EXCEPT ![j] = [@ EXCEPT !.pc = "handle", !.hash = h]]
  /\ UNCHANGED <<tables, faults, handled, failed>> /\ OnlyJob

\* The handler calls of the transaction, all succeeding in the end.
JobHandle(j) ==
  /\ job[j].pc = "handle"
  /\ job' = [job EXCEPT ![j].pc = IF Helius THEN "mark" ELSE "final1"]
  /\ handled' = Counted(handled, job[j].event.sig)
  /\ UNCHANGED <<tables, faults, failed>> /\ OnlyJob

\* A mutant: the transaction is recorded without the block.
JobMark_NoBlock(j) ==
  /\ \/ job[j].pc = "mark" /\ InsertTentative(job[j].event.sig, Slot(j), job[j].hash)
     \/ job[j].pc = "final1" /\ PromoteTentative(Slot(j))
     \/ job[j].pc = "final2" /\ PromoteTentative(Slot(j))
     \/ job[j].pc = "final3" /\ DeleteTentative(Slot(j))
     \/ job[j].pc = "processed" /\ InsertProcessed(job[j].event.sig, Slot(j))
  /\ LET after == CASE job[j].pc = "final1" -> "final2" [] job[j].pc = "final2" -> "final3"
                    [] job[j].pc = "final3" -> "processed" [] OTHER -> "idle"
     IN  job' = [job EXCEPT ![j] = IF after = "idle" THEN NoJob ELSE [@ EXCEPT !.pc = after]]
  /\ UNCHANGED <<faults, handled, failed>> /\ OnlyJob

\* mark_tentative; or mark_finalized and mark_processed, in four statements.
JobMark(j) ==
  /\ \/ job[j].pc = "mark" /\ InsertTentative(job[j].event.sig, Slot(j), job[j].hash)
     \/ job[j].pc = "final1" /\ InsertFinalized(Slot(j), job[j].hash)
     \/ job[j].pc = "final2" /\ PromoteTentative(Slot(j))
     \/ job[j].pc = "final3" /\ DeleteTentative(Slot(j))
     \/ job[j].pc = "processed" /\ InsertProcessed(job[j].event.sig, Slot(j))
  /\ LET after == CASE job[j].pc = "final1" -> "final2" [] job[j].pc = "final2" -> "final3"
                    [] job[j].pc = "final3" -> "processed" [] OTHER -> "idle"
     IN  job' = [job EXCEPT ![j] = IF after = "idle" THEN NoJob ELSE [@ EXCEPT !.pc = after]]
  /\ UNCHANGED <<faults, handled, failed>> /\ OnlyJob

\* A handler, whose own statements go to the same database, or a statement of
\* storage fails.
JobError(j) == job[j].pc \notin {"idle", "block"} /\ Fault("db")

\* The task's error is logged, or discarded.
JobFails(j) ==
  /\ JobError(j)
  /\ job' = [job EXCEPT ![j] = NoJob]
  /\ failed' = failed \union {job[j].event.sig}
  /\ UNCHANGED <<tables, handled>> /\ OnlyJob

-----------------------------------------------------------------------------
Cancel == CancelToken /\ UNCHANGED <<tables, chainVars, fullVars>>

\* A process that is started again is one that starts: all it finds of the
\* one before are rows, whose transactions have been handled.
Init ==
  /\ ChainInit
  /\ processed = [sig \in Sigs |-> NoSlot]
  /\ \E left \in Leftovers : tentative = left.tentative /\ finalized = left.finalized
  /\ progress = [last |-> NoSlot, complete |-> FALSE]
  /\ ProcessInit
  /\ source \in Sources
  /\ sock = [open |-> FALSE, subscribed |-> FALSE, wire |-> <<>>, drops |-> 0]
  /\ feed = IdleFeed /\ channel = <<>> /\ loop = NewLoop
  /\ job = [j \in Jobs |-> NoJob]
  /\ handled = [sig \in Sigs |-> IF InTentative(sig) THEN 1 ELSE 0]
  /\ delivered = handled /\ failed = {}

FeedStep == Connect \/ Read \/ Send

LoopStep ==
  \/ NextBatch \/ StopLoop \/ NextEvent \/ CheckTentative \/ StopOnError
  \/ Dispatch \/ Await

JobStep(j) == JobBlock(j) \/ JobHandle(j) \/ JobMark(j) \/ JobFails(j)

Next ==
  \/ ClusterStep \/ NodeSubscribes \/ SocketDrops
  \/ FeedStep \/ LoopStep \/ (\E j \in Jobs : JobStep(j))
  \/ Cancel

Spec == Init /\ [][Next]_vars

(* The runtime polls every task; once the loop has ended the process may   *)
(* end as well, and nothing more is assumed.                               *)
FairSpec ==
  /\ Spec
  /\ WF_vars(FeedStep /\ Alive) /\ WF_vars(LoopStep)
  /\ \A j \in Jobs : WF_vars(JobStep(j) /\ Alive)

-----------------------------------------------------------------------------
(* Properties.                                                             *)

InFlight ==
  {channel[i].sig : i \in DOMAIN channel} \union {loop.batch[i].sig : i \in DOMAIN loop.batch}
    \union {job[j].event.sig : j \in Busy}

\* Handlers run at most once for every event taken from the node: with Helius
\* two events of a transaction may both run, before either is recorded, but
\* no error, wait or statement makes a task run its handlers again.
OncePerDelivery == \A sig \in Sigs : handled[sig] <= delivered[sig]

\* An event that has been taken from the node is recorded, has failed, or is
\* on its way: neither the full channel nor the limit of a batch, nor the
\* permits lose it, as long as the loop runs.
NothingDropped ==
  Alive =>
    \A sig \in Sigs : delivered[sig] > 0 => sig \in Recorded \union InFlight \union failed

\* A row of the processed table is never without its block, although the row
\* and the block are written by different statements.
ProcessedHasBlock ==
  \A sig \in Sigs : InProcessed(sig) => finalized[processed[sig]] # NoHash

\* Nothing stays on its way for ever: not in the full channel, not in a batch
\* that waits for a permit, not in a task.
Settles == InFlight # {} ~> InFlight = {} \/ ~Alive

\* A cancelled Helius indexer leaves its loop; the Laserstream loop does not
\* look at the token.
CancellationStops == Helius /\ cancelled ~> ~Alive
=============================================================================
