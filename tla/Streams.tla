------------------------------ MODULE Streams ------------------------------
(***************************************************************************)
(* The WebSocket and the hybrid source, and the loop that consumes them    *)
(* (process_websocket_source, process_hybrid_source: the same loop).       *)
(*                                                                         *)
(*   node -> sock -> reader task -> ws.queue -> next_batch -> loop         *)
(*                                                                         *)
(* In mode "websocket" the loop itself awaits next_batch; in mode "hybrid" *)
(* a task of its own calls it and a second one (gap) polls RPC, and both   *)
(* send batches through a bounded channel.  An error sent by the source    *)
(* is only logged: it is an empty batch here.                              *)
(***************************************************************************)
EXTENDS Storage, Signatures, Process

CONSTANTS
  Mode,        \* SourceConfig: "websocket" or "hybrid"
  LogsOnly,    \* indexing_mode: logs, and neither inputs nor accounts
  Reverted,    \* transactions whose log event has an err, or does not parse
  BatchLimit,  \* most events of one next_batch (10 in the code)
  PollLimit,   \* `limit` of the gap poller's requests (50)
  Capacity,    \* batches the hybrid channel holds (100)
  MaxDrops,    \* bound: sockets closed, or pinged, by the node
  MaxHandled   \* bound: successful handler calls counted per transaction

ASSUME StreamsAssumption ==
  /\ Mode \in {"websocket", "hybrid"} /\ LogsOnly \in BOOLEAN
  /\ Reverted \subseteq Sigs
  /\ BatchLimit \in Nat \ {0} /\ PollLimit \in Nat \ {0} /\ Capacity \in Nat \ {0}
  /\ MaxDrops \in Nat /\ MaxHandled \in Nat \ {0}

VARIABLES
  sock,     \* the current socket, as the node and the network see it
  ws,       \* WebSocketSource: its state, its reader task and their channel
  gap,      \* the RPC poller of HybridSource
  channel,  \* the bounded channel of HybridSource
  loop,     \* the consuming loop
  handled,  \* history: successful handler calls per transaction
  failed    \* history: transactions the loop gave up on

streamVars == <<sock, ws, gap, channel, loop, handled, failed>>
vars == <<tables, chainVars, processVars, streamVars>>

Event == [sig : Sigs, slot : Slots, log : BOOLEAN]
Message ==
  [kind : {"log"}, sig : Sigs, slot : Slots]
    \union [kind : {"confirmation", "ping"}, sig : {NoSig}, slot : {NoSlot}]

Control(kind) == [kind |-> kind, sig |-> NoSig, slot |-> NoSlot]
Socket(open, subscribed, wire) ==
  [open |-> open, subscribed |-> subscribed, wire |-> wire, drops |-> sock.drops]
IdleSource == [pc |-> "ensure", reading |-> FALSE, queue |-> <<>>, out |-> <<>>]
IdlePoller == [pc |-> "poll", cursor |-> NoSig, program |-> 1, events |-> <<>>]
NewLoop == [pc |-> "next", batch |-> <<>>, slot |-> NoSlot, hash |-> NoHash]

SocketRecord == [open : BOOLEAN, subscribed : BOOLEAN, wire : Seq(Message),
                 drops : 0..MaxDrops]
SourceRecord == [pc : {"ensure", "connect", "confirm", "recv", "send"},
                 reading : BOOLEAN, queue : Seq(Event), out : Seq(Event)]
PollerRecord == [pc : {"poll", "send"}, cursor : Sigs \union {NoSig},
                 program : 1..Len(Programs), events : Seq(Event)]
LoopRecord == [pc : {"next", "check1", "check2", "logs", "logmark", "fetch", "block",
                     "handle", "mark", "stopped"},
               batch : Seq(Event), slot : Slots \union {NoSlot},
               hash : StoredHashes \union {NoHash}]

\* Type invariant.
TypeOK ==
  /\ StorageTypeOK /\ ChainTypeOK /\ ProcessTypeOK
  /\ sock \in SocketRecord
  /\ ws \in SourceRecord /\ Len(ws.out) <= BatchLimit
  /\ gap \in PollerRecord
  /\ channel \in Seq(Seq(Event)) /\ Len(channel) <= Capacity
  /\ loop \in LoopRecord
  /\ handled \in [Sigs -> 0..MaxHandled]
  /\ failed \subseteq Sigs

Alive == loop.pc # "stopped"

-----------------------------------------------------------------------------
(* The node and the network (external).                                    *)

OnlySocket == UNCHANGED <<tables, processVars, ws, gap, channel, loop, handled, failed>>

Log(sig, s) == [kind |-> "log", sig |-> sig, slot |-> s]

\* A block that becomes confirmed is notified to a subscribed socket, its
\* transactions in order; nothing is notified twice or kept for later.
Notifications(s) ==
  LET txs == TxsAt(chain', s)
  IN  {q \in [1..Cardinality(txs) -> {Log(sig, s) : sig \in txs}] :
         /\ {q[i].sig : i \in DOMAIN q} = txs
         /\ \A i, k \in DOMAIN q : i < k => Rank[q[i].sig] <= Rank[q[k].sig]}

ClusterStep ==
  /\ ChainNext
  /\ IF sock.subscribed /\ chain' # chain
     THEN \E s \in Slots : /\ chain'[s] # chain[s]
                           /\ \E q \in Notifications(s) : sock' = [sock EXCEPT !.wire = @ \o q]
     ELSE UNCHANGED sock
  /\ OnlySocket

NodeConfirms ==
  /\ ws.pc = "confirm" /\ sock.open /\ ~sock.subscribed
  /\ sock' = Socket(TRUE, TRUE, Append(sock.wire, Control("confirmation")))
  /\ UNCHANGED chainVars /\ OnlySocket

NodePings ==
  /\ sock.open /\ sock.drops < MaxDrops
  /\ sock' = [sock EXCEPT !.wire = Append(@, Control("ping")), !.drops = @ + 1]
  /\ UNCHANGED chainVars /\ OnlySocket

\* The connection is lost, with the last messages on the way.
SocketDrops ==
  /\ sock.open /\ sock.drops < MaxDrops
  /\ \E n \in 0..Len(sock.wire) :
       sock' = [Socket(FALSE, FALSE, SubSeq(sock.wire, 1, n)) EXCEPT !.drops = @ + 1]
  /\ UNCHANGED chainVars /\ OnlySocket

-----------------------------------------------------------------------------
(* WebSocketSource: connect, the reader task it spawns, next_batch.        *)

OnlySource == UNCHANGED <<tables, chainVars, cancelled, gap, handled, failed>>

\* Who calls next_batch: the loop, between two batches, or a task of its own.
SourceRuns == Alive /\ (Mode = "websocket" => loop.pc = "next")

\* ensure_connected.  A receiver whose reader has ended counts as closed even
\* while it holds events: they go with it.
EnsureConnected ==
  /\ SourceRuns /\ ws.pc = "ensure"
  /\ ws' = IF ws.reading THEN [ws EXCEPT !.pc = "recv"]
           ELSE [IdleSource EXCEPT !.pc = "connect"]
  /\ UNCHANGED <<faults, sock, channel, loop>> /\ OnlySource

\* connect_async and the subscription request; an error is passed on.
Connect ==
  /\ SourceRuns /\ ws.pc = "connect"
  /\ \/ /\ sock' = Socket(TRUE, FALSE, <<>>)
        /\ ws' = [ws EXCEPT !.pc = "confirm"]
        /\ UNCHANGED faults
     \/ /\ Fault("rpc")
        /\ ws' = [ws EXCEPT !.pc = "send"]
        /\ UNCHANGED sock
  /\ UNCHANGED <<channel, loop>> /\ OnlySource

\* connect waits for the confirmation and ignores everything else, the end of
\* the stream included: then it asks for the next message for ever.
AwaitConfirmation ==
  /\ SourceRuns /\ ws.pc = "confirm" /\ sock.wire # <<>>
  /\ ws' = IF Head(sock.wire).kind = "confirmation"
           THEN [ws EXCEPT !.pc = "recv", !.reading = TRUE] ELSE ws
  /\ sock' = [sock EXCEPT !.wire = Tail(@)]
  /\ UNCHANGED <<faults, channel, loop>> /\ OnlySource

Spinning == ws.pc = "confirm" /\ ~sock.open /\ sock.wire = <<>>

\* The reader task: a text message becomes an event; any other message and the
\* end of the stream end the task, and with it the socket and the sender.
Read ==
  /\ Alive /\ ws.reading
  /\ \/ /\ sock.wire # <<>> /\ Head(sock.wire).kind = "log"
        /\ LET m == Head(sock.wire)
           IN  ws' = [ws EXCEPT !.queue = Append(@, [sig |-> m.sig, slot |-> m.slot, log |-> TRUE])]
        /\ sock' = [sock EXCEPT !.wire = Tail(@)]
     \/ /\ IF sock.wire = <<>> THEN ~sock.open ELSE Head(sock.wire).kind # "log"
        /\ ws' = [ws EXCEPT !.reading = FALSE]
        /\ sock' = Socket(FALSE, FALSE, <<>>)
  /\ UNCHANGED <<faults, channel, loop>> /\ OnlySource

\* A mutant: everything that is queued.
Receive_NoLimit ==
  /\ SourceRuns /\ ws.pc = "recv"
  /\ ws.queue # <<>> \/ ~ws.reading
  /\ ws' = [ws EXCEPT !.pc = "send", !.out = ws.queue, !.queue = <<>>]
  /\ UNCHANGED <<faults, sock, channel, loop>> /\ OnlySource

\* recv, then try_recv up to the limit; an ended channel yields no event.
Receive ==
  /\ SourceRuns /\ ws.pc = "recv"
  /\ ws.queue # <<>> \/ ~ws.reading
  /\ LET n == Min({Len(ws.queue), BatchLimit})
     IN  ws' = [ws EXCEPT !.pc = "send", !.out = SubSeq(ws.queue, 1, n),
                          !.queue = SubSeq(@, n + 1, Len(@))]
  /\ UNCHANGED <<faults, sock, channel, loop>> /\ OnlySource

\* The result of next_batch goes to the loop, or into the channel.
SendBatch ==
  /\ SourceRuns /\ ws.pc = "send"
  /\ IF Mode = "websocket"
     THEN /\ loop' = [loop EXCEPT !.pc = "check1", !.batch = ws.out]
          /\ UNCHANGED channel
     ELSE /\ Len(channel) < Capacity
          /\ channel' = Append(channel, ws.out)
          /\ UNCHANGED loop
  /\ ws' = [ws EXCEPT !.pc = "ensure", !.out = <<>>]
  /\ UNCHANGED <<faults, sock>> /\ OnlySource

-----------------------------------------------------------------------------
(* The gap poller of the hybrid source.                                    *)

OnlyPoller == UNCHANGED <<tables, chainVars, cancelled, sock, ws, loop, handled, failed>>

FollowingProgram == IF gap.program = Len(Programs) THEN 1 ELSE gap.program + 1

\* One cursor for all programs; an error is logged and the program passed over.
PollGap ==
  /\ Alive /\ Mode = "hybrid" /\ gap.pc = "poll"
  /\ \/ /\ \E q \in Answers(Programs[gap.program], gap.cursor, PollLimit) :
             gap' = IF q = <<>> THEN [gap EXCEPT !.program = FollowingProgram]
                    ELSE [gap EXCEPT !.pc = "send", !.cursor = Head(q), !.events =
                            [i \in DOMAIN q |-> [sig |-> q[i], slot |-> SlotOn(q[i]), log |-> FALSE]]]
        /\ UNCHANGED faults
     \/ Fault("rpc") /\ gap' = [gap EXCEPT !.program = FollowingProgram]
  /\ UNCHANGED channel /\ OnlyPoller

\* A mutant: try_send, its error ignored.
SendGap_TrySend ==
  /\ Alive /\ gap.pc = "send"
  /\ channel' = IF Len(channel) < Capacity THEN Append(channel, gap.events) ELSE channel
  /\ gap' = [gap EXCEPT !.pc = "poll", !.program = FollowingProgram, !.events = <<>>]
  /\ UNCHANGED faults /\ OnlyPoller

SendGap ==
  /\ Alive /\ gap.pc = "send" /\ Len(channel) < Capacity
  /\ channel' = Append(channel, gap.events)
  /\ gap' = [gap EXCEPT !.pc = "poll", !.program = FollowingProgram, !.events = <<>>]
  /\ UNCHANGED faults /\ OnlyPoller

-----------------------------------------------------------------------------
(* The consuming loop: one event at a time, in place.                      *)

OnlyLoop == UNCHANGED <<chainVars, cancelled, sock, ws, gap>>

TakeBatch ==
  /\ Mode = "hybrid" /\ loop.pc = "next" /\ channel # <<>>
  /\ loop' = [loop EXCEPT !.pc = "check1", !.batch = Head(channel)]
  /\ channel' = Tail(channel)
  /\ UNCHANGED <<tables, faults, handled, failed>> /\ OnlyLoop

\* A mutant: no select!, the token is only looked at when a batch is there.
StopLoop_WithBatch ==
  /\ loop.pc = "next" /\ cancelled /\ channel # <<>>
  /\ loop' = [NewLoop EXCEPT !.pc = "stopped"]
  /\ UNCHANGED <<tables, faults, channel, handled, failed>> /\ OnlyLoop

\* select! on the token; but a source that spins never yields to it.
StopLoop ==
  /\ loop.pc = "next" /\ cancelled
  /\ ~(Mode = "websocket" /\ Spinning)
  /\ loop' = [NewLoop EXCEPT !.pc = "stopped"]
  /\ UNCHANGED <<tables, faults, channel, handled, failed>> /\ OnlyLoop

Sig == Head(loop.batch).sig

\* On to the next event; after the last one the loop looks at the token.
Advance == loop' = [NewLoop EXCEPT !.pc = "check1", !.batch = Tail(loop.batch)]

\* Decoded from the event itself when only logs are wanted.
FromLogs == LogsOnly /\ Head(loop.batch).log /\ Sig \notin Reverted

\* is_processed, first statement.
CheckProcessed ==
  /\ loop.pc = "check1"
  /\ \/ /\ loop.batch = <<>>
        /\ loop' = [NewLoop EXCEPT !.pc = IF cancelled THEN "stopped" ELSE "next"]
     \/ loop.batch # <<>> /\ InProcessed(Sig) /\ Advance
     \/ loop.batch # <<>> /\ ~InProcessed(Sig) /\ loop' = [loop EXCEPT !.pc = "check2"]
  /\ UNCHANGED <<tables, faults, channel, handled, failed>> /\ OnlyLoop

\* A mutant: only the processed table is consulted.
CheckTentative_Skip ==
  /\ loop.pc = "check2"
  /\ loop' = [loop EXCEPT !.pc = IF FromLogs THEN "logs" ELSE "fetch"]
  /\ UNCHANGED <<tables, faults, channel, handled, failed>> /\ OnlyLoop

\* is_processed, second statement.
CheckTentative ==
  /\ loop.pc = "check2"
  /\ \/ InTentative(Sig) /\ Advance
     \/ ~InTentative(Sig) /\ loop' = [loop EXCEPT !.pc = IF FromLogs THEN "logs" ELSE "fetch"]
  /\ UNCHANGED <<tables, faults, channel, handled, failed>> /\ OnlyLoop

\* fetch_transaction, then fetch_block: a block without an answer is "UNKNOWN".
FetchTransaction ==
  /\ loop.pc = "fetch"
  /\ \E s \in SlotsOfTx(Sig) : loop' = [loop EXCEPT !.pc = "block", !.slot = s]
  /\ UNCHANGED <<tables, faults, channel, handled, failed>> /\ OnlyLoop

FetchBlock ==
  /\ loop.pc = "block"
  /\ \/ /\ BlockAvailable(loop.slot)
        /\ loop' = [loop EXCEPT !.pc = "handle", !.hash = chain[loop.slot]]
        /\ UNCHANGED faults
     \/ /\ IF BlockAvailable(loop.slot) THEN Fault("rpc") ELSE UNCHANGED faults
        /\ loop' = [loop EXCEPT !.pc = "handle", !.hash = UnknownHash]
  /\ UNCHANGED <<tables, channel, handled, failed>> /\ OnlyLoop

\* The handler calls of the transaction, all succeeding, if need be when they
\* are tried again.
Handle ==
  /\ loop.pc \in {"logs", "handle"}
  /\ loop' = [loop EXCEPT !.pc = IF @ = "logs" THEN "logmark" ELSE "mark"]
  /\ handled' = [handled EXCEPT ![Sig] = Min({@ + 1, MaxHandled})]
  /\ UNCHANGED <<tables, faults, channel, failed>> /\ OnlyLoop

\* mark_processed of a confirmed event, or mark_tentative.
Mark ==
  /\ \/ loop.pc = "logmark" /\ InsertProcessed(Sig, Head(loop.batch).slot)
     \/ loop.pc = "mark" /\ InsertTentative(Sig, loop.slot, loop.hash)
  /\ Advance
  /\ UNCHANGED <<faults, channel, handled, failed>> /\ OnlyLoop

\* process_transaction returns an error, which is logged.
GiveUp ==
  /\ \/ /\ loop.pc = "fetch"
        /\ IF SlotsOfTx(Sig) = {} THEN UNCHANGED faults ELSE Fault("rpc")
     \/ loop.pc = "handle" /\ Fault("handler")
     \/ loop.pc = "mark" /\ Fault("db")
  /\ failed' = failed \union {Sig}
  /\ Advance
  /\ UNCHANGED <<tables, channel, handled>> /\ OnlyLoop

\* A mutant: an error of a log event's handler is only logged.
StopOnError_Swallow ==
  /\ \/ /\ loop.pc = "check1" /\ loop.batch # <<>> /\ Fault("db")
        /\ loop' = [NewLoop EXCEPT !.pc = "stopped"]
     \/ /\ loop.pc \in {"check2", "logmark"} /\ Fault("db")
        /\ loop' = [NewLoop EXCEPT !.pc = "stopped"]
     \/ /\ loop.pc = "logs" /\ Fault("handler")
        /\ loop' = [loop EXCEPT !.pc = "logmark"]
  /\ UNCHANGED <<tables, channel, handled, failed>> /\ OnlyLoop

\* Any other error ends the loop, and the indexer.
StopOnError ==
  /\ \/ loop.pc = "check1" /\ loop.batch # <<>> /\ Fault("db")
     \/ loop.pc \in {"check2", "logmark"} /\ Fault("db")
     \/ loop.pc = "logs" /\ Fault("handler")
  /\ loop' = [NewLoop EXCEPT !.pc = "stopped"]
  /\ UNCHANGED <<tables, channel, handled, failed>> /\ OnlyLoop

-----------------------------------------------------------------------------
StreamsInit ==
  /\ sock = [open |-> FALSE, subscribed |-> FALSE, wire |-> <<>>, drops |-> 0]
  /\ ws = IdleSource /\ gap = IdlePoller /\ channel = <<>> /\ loop = NewLoop

Init ==
  /\ ChainInit
  /\ processed = [sig \in Sigs |-> NoSlot]
  /\ tentative = [sig \in Sigs |-> NoRow]
  /\ finalized = [s \in Slots |-> NoHash]
  /\ progress = [last |-> NoSlot, complete |-> FALSE]
  /\ ProcessInit
  /\ StreamsInit
  /\ handled = [sig \in Sigs |-> 0]
  /\ failed = {}

\* The process dies, or has stopped, and is started again.
Restart ==
  /\ NewProcess
  /\ sock' = Socket(FALSE, FALSE, <<>>)
  /\ ws' = IdleSource /\ gap' = IdlePoller /\ channel' = <<>> /\ loop' = NewLoop
  /\ UNCHANGED <<tables, chainVars, handled, failed>>

Cancel == CancelToken /\ UNCHANGED <<tables, chainVars, streamVars>>

SourceStep == EnsureConnected \/ Connect \/ AwaitConfirmation \/ Receive \/ SendBatch

PollerStep == PollGap \/ SendGap

LoopStep ==
  \/ TakeBatch \/ StopLoop \/ CheckProcessed \/ CheckTentative
  \/ FetchTransaction \/ FetchBlock \/ Handle \/ Mark \/ GiveUp \/ StopOnError

Next ==
  \/ ClusterStep \/ NodeConfirms \/ NodePings \/ SocketDrops
  \/ SourceStep \/ Read \/ PollerStep \/ LoopStep
  \/ Restart \/ Cancel

Spec == Init /\ [][Next]_vars

(* Every task the runtime has woken is polled, and the node answers a      *)
(* subscription on a socket that stays open.                               *)
FairSpec ==
  /\ Spec
  /\ WF_vars(NodeConfirms)
  /\ WF_vars(SourceStep) /\ WF_vars(Read)
  /\ WF_vars(PollerStep)
  /\ WF_vars(LoopStep)

-----------------------------------------------------------------------------
(* Properties.                                                             *)

Signatures(events) == {events[i].sig : i \in DOMAIN events}

\* Received by the poller and not yet looked at by the loop.
InFlight ==
  Signatures(gap.events) \union Signatures(loop.batch)
    \union UNION {Signatures(channel[i]) : i \in DOMAIN channel}

\* Subscription, poller and restarts report the same transaction several
\* times; it is handled again only after a crash or a database error.
HandledOnce ==
  \A sig \in Sigs : handled[sig] <= 1 + Used("crash") + Used("db")

\* A row is only written after the handlers of its transaction succeeded, on
\* both paths of the loop.
RecordedWasHandled == \A sig \in Recorded : handled[sig] > 0

\* Handled, and about to be recorded.
InHand == IF loop.pc \in {"logmark", "mark"} THEN {Sig} ELSE {}

\* The two sides, their duplicates and the restarts amount to this: each
\* transaction is handled and then recorded, once unless interrupted.
D == INSTANCE Delivery WITH inHand <- InHand, recorded <- Recorded
Delivers == D!Spec

\* The gap poller's cursor moves when it is answered, before anything is
\* handled: nothing at or below it is lost while the process lives.
CursorLeavesNothing ==
  \A sig \in Sigs :
    /\ Alive /\ gap.cursor # NoSig
    /\ OnChain(sig) /\ ~After(sig, gap.cursor)
    => sig \in Recorded \union InFlight \union failed

\* Whatever the WebSocket loses, every confirmed transaction is eventually
\* recorded, or its processing has failed, unless the indexer stops.
GapsAreFilled ==
  \A sig \in Sigs : OnChain(sig) ~> sig \in Recorded \union failed \/ ~Alive

\* A cancelled indexer leaves its loop, unless a crash restarts it.
CancellationStops == cancelled ~> ~Alive \/ ~cancelled

\* A source whose socket is gone does not stay without one.
Reconnects == ~sock.open ~> sock.open \/ ~Alive
=============================================================================
