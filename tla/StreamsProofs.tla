--------------------------- MODULE StreamsProofs ---------------------------
(***************************************************************************)
(* Proofs about the WebSocket and the hybrid source and their loop, for    *)
(* every chain, mode, limit, capacity and fault budget.                    *)
(***************************************************************************)
EXTENDS Streams, SharedProofs

\* What the loop knows at each program counter about the event it is at.
LoopKnows(r, count) ==
  /\ r.pc \notin {"next", "check1", "stopped"} => r.batch # <<>>
  /\ r.pc \in {"block", "handle", "mark"} => r.slot \in Slots
  /\ r.pc \in {"handle", "mark"} => r.hash \in StoredHashes
  /\ r.pc \in {"logmark", "mark"} => count[Head(r.batch).sig] > 0

IStreams == TypeOK /\ LoopKnows(loop, handled)

\* TypeOK by the parts of the state that change together.
SharedOK == StorageTypeOK /\ ChainTypeOK /\ ProcessTypeOK
SourceOK == sock \in SocketRecord /\ ws \in SourceRecord /\ Len(ws.out) <= BatchLimit
HybridOK ==
  /\ gap \in PollerRecord
  /\ channel \in Seq(Seq(Event)) /\ Len(channel) <= Capacity
LoopOK ==
  /\ loop \in LoopRecord /\ LoopKnows(loop, handled)
  /\ handled \in [Sigs -> 0..MaxHandled] /\ failed \subseteq Sigs

LEMMA Parts == IStreams => SharedOK /\ SourceOK /\ HybridOK /\ LoopOK
  BY DEF IStreams, TypeOK, SharedOK, SourceOK, HybridOK, LoopOK

LEMMA Whole == SharedOK' /\ SourceOK' /\ HybridOK' /\ LoopOK' => IStreams'
  BY DEF IStreams, TypeOK, SharedOK, SourceOK, HybridOK, LoopOK

-----------------------------------------------------------------------------
(* Each part is kept by the steps that leave it alone.                     *)

LEMMA SharedStep ==
  ASSUME SharedOK,
         UNCHANGED tables, ChainNext \/ UNCHANGED chainVars, cancelled' \in BOOLEAN,
         \/ UNCHANGED faults
         \/ \E kind \in {"crash", "cancel", "db", "rpc", "handler"} : Fault(kind)
  PROVE  SharedOK'
  BY StorageFrame, ChainStep, FaultType DEF SharedOK

LEMMA SourceFrame == SourceOK /\ UNCHANGED <<sock, ws>> => SourceOK'
  BY DEF SourceOK

LEMMA HybridFrame == HybridOK /\ UNCHANGED <<gap, channel>> => HybridOK'
  BY DEF HybridOK

LEMMA LoopFrame == LoopOK /\ UNCHANGED <<loop, handled, failed>> => LoopOK'
  BY DEF LoopOK, LoopKnows

LEMMA EmptySequences ==
  <<>> \in Seq(Event) /\ <<>> \in Seq(Message) /\ <<>> \in Seq(Seq(Event))
  OBVIOUS

\* The loop's record may be replaced by any that knows what its counter requires.
LEMMA LoopReplaced ==
  ASSUME LoopOK, NEW r \in LoopRecord, loop' = r, LoopKnows(r, handled'),
         handled' \in [Sigs -> 0..MaxHandled], failed' \subseteq Sigs
  PROVE  LoopOK'
  BY DEF LoopOK

LEMMA NewLoopKnows ==
  /\ NewLoop \in LoopRecord
  /\ \A count : LoopKnows(NewLoop, count)
  BY EmptySequences DEF NewLoop, LoopRecord, LoopKnows, NoSlot

LEMMA ClosedSocket ==
  ASSUME sock \in SocketRecord, NEW open \in BOOLEAN, NEW subscribed \in BOOLEAN,
         NEW wire \in Seq(Message)
  PROVE  Socket(open, subscribed, wire) \in SocketRecord
  BY DEF Socket, SocketRecord

LEMMA ControlType ==
  ASSUME NEW kind \in {"confirmation", "ping"} PROVE Control(kind) \in Message
  BY DEF Control, Message

-----------------------------------------------------------------------------
(* The node and the network.                                               *)

LEMMA NotificationType ==
  ASSUME ChainTypeOK', NEW s \in Slots, NEW q \in Notifications(s)
  PROVE  q \in Seq(Message)
<1> DEFINE txs == TxsAt(chain', s)
<1>1. txs \subseteq Sigs /\ IsFiniteSet(txs)
  BY ChainAssumption, FS_EmptySet DEF ChainTypeOK, TxsAt
<1>2. Cardinality(txs) \in Nat
  BY <1>1, FS_CardinalityType
<1>3. \A sig \in txs : Log(sig, s) \in Message
  BY <1>1 DEF Log, Message
<1>4. q \in [1..Cardinality(txs) -> {Log(sig, s) : sig \in txs}]
  BY DEF Notifications
<1>5. q \in [1..Cardinality(txs) -> Message]
  BY <1>3, <1>4
<1> QED
  BY <1>2, <1>5

LEMMA NodeStreams ==
  ASSUME IStreams, ClusterStep \/ NodeConfirms \/ NodePings \/ SocketDrops
  PROVE  IStreams'
<1>1. UNCHANGED <<tables, processVars, ws, gap, channel, loop, handled, failed>>
  BY DEF ClusterStep, NodeConfirms, NodePings, SocketDrops, OnlySocket
<1>2. SharedOK /\ SourceOK /\ HybridOK /\ LoopOK
  BY Parts
<1>3. SharedOK'
  <2>1. ChainNext \/ UNCHANGED chainVars
    BY DEF ClusterStep, NodeConfirms, NodePings, SocketDrops
  <2>2. cancelled' \in BOOLEAN
    BY <1>1, <1>2 DEF processVars, SharedOK, ProcessTypeOK
  <2> QED
    BY <1>1, <1>2, <2>1, <2>2, SharedStep DEF processVars
<1>4. SUFFICES sock' \in SocketRecord
  BY <1>1, <1>2, <1>3, HybridFrame, LoopFrame, Whole DEF SourceOK
<1>5. sock \in SocketRecord
  BY <1>2 DEF SourceOK
<1>6. CASE ClusterStep
  <2>1. CASE UNCHANGED sock
    BY <2>1, <1>5
  <2>2. ASSUME NEW s \in Slots, NEW q \in Notifications(s),
               sock' = [sock EXCEPT !.wire = @ \o q]
        PROVE  sock' \in SocketRecord
    <3>1. q \in Seq(Message)
      BY <1>3, NotificationType DEF SharedOK
    <3>2. sock.wire \o q \in Seq(Message)
      BY <1>5, <3>1 DEF SocketRecord
    <3> DEFINE wire == sock.wire \o q
    <3>3. wire \in Seq(Message) /\ sock' = [sock EXCEPT !.wire = wire]
      BY <2>2, <3>2
    <3> HIDE DEF wire
    <3> QED
      BY <1>5, <3>3 DEF SocketRecord
  <2> QED
    BY <1>6, <2>1, <2>2 DEF ClusterStep
<1>7. CASE NodeConfirms
  <2>1. Append(sock.wire, Control("confirmation")) \in Seq(Message)
    BY <1>5, ControlType DEF SocketRecord
  <2> QED
    BY <1>5, <1>7, <2>1, ClosedSocket DEF NodeConfirms
<1>8. CASE NodePings
  <2>1. Append(sock.wire, Control("ping")) \in Seq(Message)
    BY <1>5, ControlType DEF SocketRecord
  <2>2. sock.drops + 1 \in 0..MaxDrops
    BY <1>5, <1>8, StreamsAssumption DEF NodePings, SocketRecord
  <2>3. sock' = [sock EXCEPT !.wire = Append(sock.wire, Control("ping")),
                             !.drops = sock.drops + 1]
    BY <1>8 DEF NodePings
  <2> QED
    BY <1>5, <2>1, <2>2, <2>3 DEF SocketRecord
<1>9. CASE SocketDrops
  <2>1. PICK n \in 0..Len(sock.wire) :
          sock' = [Socket(FALSE, FALSE, SubSeq(sock.wire, 1, n)) EXCEPT !.drops = @ + 1]
    BY <1>9 DEF SocketDrops
  <2>2. sock.wire \in Seq(Message)
    BY <1>5 DEF SocketRecord
  <2>3. SubSeq(sock.wire, 1, n) \in Seq(Message)
    BY <2>2, SubSeqProperties
  <2>4. sock.drops + 1 \in 0..MaxDrops
    BY <1>5, <1>9, StreamsAssumption DEF SocketDrops, SocketRecord
  <2> QED
    BY <2>1, <2>3, <2>4 DEF Socket, SocketRecord
<1> QED
  BY <1>6, <1>7, <1>8, <1>9
-----------------------------------------------------------------------------
(* WebSocketSource and its reader task.                                    *)

LEMMA WireType ==
  ASSUME SourceOK, sock.wire # <<>>
  PROVE  Head(sock.wire) \in Message /\ Tail(sock.wire) \in Seq(Message)
  BY DEF SourceOK, SocketRecord

LEMMA LeastOfTwo ==
  ASSUME NEW a \in Nat, NEW b \in Nat
  PROVE  Min({a, b}) \in {a, b} /\ Min({a, b}) <= a /\ Min({a, b}) <= b
<1>1. \E x \in {a, b} : \A y \in {a, b} : x <= y
  BY SMT
<1> QED
  BY <1>1 DEF Min

\* Steps that touch neither the loop nor the channel.
LEMMA SourceStreams ==
  ASSUME IStreams, EnsureConnected \/ Connect \/ AwaitConfirmation \/ Read \/ Receive
  PROVE  IStreams'
<1>1. UNCHANGED <<tables, chainVars, cancelled, gap, channel, loop, handled, failed>>
  BY DEF EnsureConnected, Connect, AwaitConfirmation, Read, Receive, OnlySource
<1>2. SharedOK /\ SourceOK /\ HybridOK /\ LoopOK
  BY Parts
<1>3. SharedOK'
  <2>1. UNCHANGED faults \/ Fault("rpc")
    BY DEF EnsureConnected, Connect, AwaitConfirmation, Read, Receive
  <2>2. cancelled' \in BOOLEAN
    BY <1>1, <1>2 DEF SharedOK, ProcessTypeOK
  <2> QED
    BY <1>1, <1>2, <2>1, <2>2, SharedStep
<1>4. SUFFICES SourceOK'
  BY <1>1, <1>2, <1>3, HybridFrame, LoopFrame, Whole
<1>5. /\ sock \in SocketRecord /\ ws \in SourceRecord /\ Len(ws.out) <= BatchLimit
  BY <1>2 DEF SourceOK
<1>6. CASE EnsureConnected
  <2>1. IdleSource \in SourceRecord /\ IdleSource.out = <<>>
    BY EmptySequences DEF IdleSource, SourceRecord
  <2>2. UNCHANGED sock
    BY <1>6 DEF EnsureConnected
  <2>3. ws' = [ws EXCEPT !.pc = "recv"] \/ ws' = [IdleSource EXCEPT !.pc = "connect"]
    BY <1>6 DEF EnsureConnected
  <2>4. Len(<<>>) <= BatchLimit
    BY StreamsAssumption
  <2> QED
    BY <1>5, <2>1, <2>2, <2>3, <2>4 DEF SourceOK, SourceRecord
<1>7. CASE Connect
  <2>1. \/ sock' = Socket(TRUE, FALSE, <<>>) /\ ws' = [ws EXCEPT !.pc = "confirm"]
        \/ UNCHANGED sock /\ ws' = [ws EXCEPT !.pc = "send"]
    BY <1>7 DEF Connect
  <2>2. sock' \in SocketRecord
    BY <1>5, <2>1, ClosedSocket, EmptySequences
  <2> QED
    BY <1>5, <2>1, <2>2 DEF SourceOK, SourceRecord
<1>8. CASE AwaitConfirmation
  <2>1. Tail(sock.wire) \in Seq(Message)
    BY <1>2, <1>8, WireType DEF AwaitConfirmation
  <2>2. sock' = [sock EXCEPT !.wire = Tail(sock.wire)]
    BY <1>8 DEF AwaitConfirmation
  <2>3. ws' = [ws EXCEPT !.pc = "recv", !.reading = TRUE] \/ UNCHANGED ws
    BY <1>8 DEF AwaitConfirmation
  <2>4. sock' \in SocketRecord
    BY <1>5, <2>1, <2>2 DEF SocketRecord
  <2>5. ws' \in SourceRecord /\ ws'.out = ws.out
    BY <1>5, <2>3 DEF SourceRecord
  <2> QED
    BY <1>5, <2>4, <2>5 DEF SourceOK
<1>9. CASE Read
  <2>1. CASE sock.wire # <<>> /\ Head(sock.wire).kind = "log"
             /\ ws' = [ws EXCEPT !.queue = Append(@, [sig |-> Head(sock.wire).sig,
                         slot |-> Head(sock.wire).slot, log |-> TRUE])]
             /\ sock' = [sock EXCEPT !.wire = Tail(@)]
    <3> DEFINE event == [sig |-> Head(sock.wire).sig, slot |-> Head(sock.wire).slot,
                         log |-> TRUE]
    <3>1. Head(sock.wire) \in Message /\ Tail(sock.wire) \in Seq(Message)
      BY <1>2, <2>1, WireType
    <3>2. event \in Event
      BY <2>1, <3>1 DEF Message, Event
    <3> HIDE DEF event
    <3>3. Append(ws.queue, event) \in Seq(Event)
      BY <1>5, <3>2 DEF SourceRecord
    <3>4. ws' = [ws EXCEPT !.queue = Append(ws.queue, event)]
      BY <2>1 DEF event
    <3>5. ws' \in SourceRecord /\ ws'.out = ws.out
      BY <1>5, <3>3, <3>4 DEF SourceRecord
    <3>6. sock' \in SocketRecord
      BY <1>5, <2>1, <3>1 DEF SocketRecord
    <3> QED
      BY <1>5, <3>5, <3>6 DEF SourceOK
  <2>2. CASE ws' = [ws EXCEPT !.reading = FALSE] /\ sock' = Socket(FALSE, FALSE, <<>>)
    <3>1. sock' \in SocketRecord
      BY <1>5, <2>2, ClosedSocket, EmptySequences
    <3> QED
      BY <1>5, <2>2, <3>1 DEF SourceOK, SourceRecord
  <2> QED
    BY <1>9, <2>1, <2>2 DEF Read
<1>10. CASE Receive
  <2> DEFINE n == Min({Len(ws.queue), BatchLimit})
             out == SubSeq(ws.queue, 1, n)
             rest == SubSeq(ws.queue, n + 1, Len(ws.queue))
  <2>1. ws.queue \in Seq(Event) /\ BatchLimit \in Nat
    BY <1>5, StreamsAssumption DEF SourceRecord
  <2>2. n \in 0..Len(ws.queue) /\ n <= BatchLimit
    BY <2>1, LeastOfTwo
  <2> HIDE DEF n
  <2>3. out \in Seq(Event) /\ Len(out) = n
    <3>1. \A i \in 1..n : ws.queue[i] \in Event
      BY <2>1, <2>2
    <3> QED
      BY <2>1, <2>2, <3>1, SubSeqProperties
  <2>4. rest \in Seq(Event)
    <3>1. \A i \in (n + 1)..Len(ws.queue) : ws.queue[i] \in Event
      BY <2>1, <2>2
    <3> QED
      BY <2>1, <2>2, <3>1, SubSeqProperties
  <2>5. ws' = [ws EXCEPT !.pc = "send", !.out = out, !.queue = rest] /\ UNCHANGED sock
    BY <1>10 DEF Receive, n
  <2> HIDE DEF out, rest
  <2>6. ws' \in SourceRecord /\ ws'.out = out
    BY <1>5, <2>3, <2>4, <2>5 DEF SourceRecord
  <2> QED
    BY <1>5, <2>2, <2>3, <2>5, <2>6 DEF SourceOK
<1> QED
  BY <1>6, <1>7, <1>8, <1>9, <1>10

-----------------------------------------------------------------------------
(* The hand-over to the loop or the channel, and the poller.               *)

LEMMA ChannelAppend ==
  ASSUME HybridOK, NEW batch \in Seq(Event), Len(channel) < Capacity,
         channel' = Append(channel, batch)
  PROVE  channel' \in Seq(Seq(Event)) /\ Len(channel') <= Capacity
<1>1. channel \in Seq(Seq(Event)) /\ Capacity \in Nat
  BY StreamsAssumption DEF HybridOK
<1>2. channel' \in Seq(Seq(Event)) /\ Len(channel') = Len(channel) + 1
  BY <1>1
<1>3. Len(channel) \in Nat
  BY <1>1
<1> QED
  BY <1>1, <1>2, <1>3

LEMMA SendStreams ==
  ASSUME IStreams, SendBatch
  PROVE  IStreams'
<1>1. UNCHANGED <<tables, chainVars, processVars, sock, gap, handled, failed>>
  BY DEF SendBatch, OnlySource, processVars
<1>2. SharedOK /\ SourceOK /\ HybridOK /\ LoopOK
  BY Parts
<1>3. SharedOK'
  <2>1. cancelled' \in BOOLEAN
    BY <1>1, <1>2 DEF SharedOK, ProcessTypeOK, processVars
  <2> QED
    BY <1>1, <1>2, <2>1, SharedStep DEF processVars
<1>4. ws \in SourceRecord /\ ws.out \in Seq(Event)
  BY <1>2 DEF SourceOK, SourceRecord
<1>5. SourceOK'
  <2>1. ws' = [ws EXCEPT !.pc = "ensure", !.out = <<>>]
    BY DEF SendBatch
  <2>2. ws' \in SourceRecord /\ ws'.out = <<>>
    BY <1>4, <2>1, EmptySequences DEF SourceRecord
  <2>3. Len(<<>>) <= BatchLimit
    BY StreamsAssumption
  <2> QED
    BY <1>1, <1>2, <2>2, <2>3 DEF SourceOK
<1>6. CASE loop' = [loop EXCEPT !.pc = "check1", !.batch = ws.out] /\ UNCHANGED channel
  <2> DEFINE r == [loop EXCEPT !.pc = "check1", !.batch = ws.out]
  <2>1. r \in LoopRecord /\ r.pc = "check1"
    BY <1>2, <1>4 DEF LoopOK, LoopRecord
  <2>2. loop' = r
    BY <1>6
  <2> HIDE DEF r
  <2>3. LoopKnows(r, handled')
    BY <2>1 DEF LoopKnows
  <2>4. LoopOK'
    BY <1>1, <1>2, <2>1, <2>2, <2>3, LoopReplaced DEF LoopOK
  <2> QED
    BY <1>1, <1>2, <1>3, <1>5, <1>6, <2>4, HybridFrame, Whole
<1>7. CASE Len(channel) < Capacity /\ channel' = Append(channel, ws.out) /\ UNCHANGED loop
  <2>1. channel' \in Seq(Seq(Event)) /\ Len(channel') <= Capacity
    BY <1>2, <1>4, <1>7, ChannelAppend
  <2>2. HybridOK'
    BY <1>1, <1>2, <2>1 DEF HybridOK
  <2> QED
    BY <1>1, <1>2, <1>3, <1>5, <1>7, <2>2, LoopFrame, Whole
<1> QED
  BY <1>6, <1>7 DEF SendBatch

LEMMA FollowingProgramType ==
  ASSUME gap \in PollerRecord
  PROVE  FollowingProgram \in 1..Len(Programs)
<1>1. Len(Programs) \in Nat /\ 1 \in 1..Len(Programs)
  BY SignaturesAssumption
<1>2. gap.program \in 1..Len(Programs)
  BY DEF PollerRecord
<1> QED
  BY <1>1, <1>2 DEF FollowingProgram

LEMMA PollerStreams ==
  ASSUME IStreams, PollerStep
  PROVE  IStreams'
<1>1. UNCHANGED <<tables, chainVars, cancelled, sock, ws, loop, handled, failed>>
  BY DEF PollerStep, PollGap, SendGap, OnlyPoller
<1>2. SharedOK /\ SourceOK /\ HybridOK /\ LoopOK
  BY Parts
<1>3. SharedOK'
  <2>1. UNCHANGED faults \/ Fault("rpc")
    BY DEF PollerStep, PollGap, SendGap
  <2>2. cancelled' \in BOOLEAN
    BY <1>1, <1>2 DEF SharedOK, ProcessTypeOK
  <2> QED
    BY <1>1, <1>2, <2>1, <2>2, SharedStep
<1>4. SUFFICES HybridOK'
  BY <1>1, <1>2, <1>3, SourceFrame, LoopFrame, Whole
<1>5. gap \in PollerRecord /\ FollowingProgram \in 1..Len(Programs)
  BY <1>2, FollowingProgramType DEF HybridOK
<1>6. CASE UNCHANGED channel /\ gap' = [gap EXCEPT !.program = FollowingProgram]
  BY <1>2, <1>5, <1>6 DEF HybridOK, PollerRecord
<1>7. ASSUME NEW q \in Answers(Programs[gap.program], gap.cursor, PollLimit),
             q # <<>>, UNCHANGED channel,
             gap' = [gap EXCEPT !.pc = "send", !.cursor = Head(q), !.events =
                       [i \in DOMAIN q |-> [sig |-> q[i], slot |-> SlotOn(q[i]), log |-> FALSE]]]
      PROVE  HybridOK'
  <2> DEFINE events == [i \in DOMAIN q |-> [sig |-> q[i], slot |-> SlotOn(q[i]), log |-> FALSE]]
  <2>1. q \in Seq(Sigs) /\ \A i \in DOMAIN q : SlotOn(q[i]) \in Slots
    BY AnswerDistinct, StreamsAssumption
  <2>2. Head(q) \in Sigs /\ DOMAIN q = 1..Len(q) /\ Len(q) \in Nat
    BY <1>7, <2>1
  <2>3. \A i \in DOMAIN q : [sig |-> q[i], slot |-> SlotOn(q[i]), log |-> FALSE] \in Event
    BY <2>1 DEF Event
  <2>4. events \in [1..Len(q) -> Event]
    BY <2>2, <2>3
  <2>5. events \in Seq(Event)
    BY <2>2, <2>4
  <2>6. gap' = [gap EXCEPT !.pc = "send", !.cursor = Head(q), !.events = events]
    BY <1>7
  <2> HIDE DEF events
  <2> QED
    BY <1>2, <1>5, <1>7, <2>2, <2>5, <2>6 DEF HybridOK, PollerRecord
<1>8. CASE SendGap
  <2>1. gap.events \in Seq(Event)
    BY <1>5 DEF PollerRecord
  <2>2. channel' \in Seq(Seq(Event)) /\ Len(channel') <= Capacity
    BY <1>2, <1>8, <2>1, ChannelAppend DEF SendGap
  <2>3. gap' = [gap EXCEPT !.pc = "poll", !.program = FollowingProgram, !.events = <<>>]
    BY <1>8 DEF SendGap
  <2> QED
    BY <1>5, <2>2, <2>3, EmptySequences DEF HybridOK, PollerRecord
<1> QED
  BY <1>6, <1>7, <1>8 DEF PollerStep, PollGap

-----------------------------------------------------------------------------
(* The loop.                                                               *)

LEMMA SigType ==
  ASSUME LoopOK, loop.batch # <<>>
  PROVE  /\ Sig \in Sigs /\ Head(loop.batch) \in Event
         /\ Tail(loop.batch) \in Seq(Event)
<1>1. loop.batch \in Seq(Event)
  BY DEF LoopOK, LoopRecord
<1>2. Head(loop.batch) \in Event /\ Tail(loop.batch) \in Seq(Event)
  BY <1>1
<1> QED
  BY <1>2 DEF Sig, Event

\* A new event is looked at from the start.
LEMMA AdvanceLoop ==
  ASSUME LoopOK, loop.batch # <<>>, Advance, handled' \in [Sigs -> 0..MaxHandled],
         failed' \subseteq Sigs
  PROVE  LoopOK'
<1> DEFINE rest == Tail(loop.batch)
           r == [NewLoop EXCEPT !.pc = "check1", !.batch = rest]
<1>1. rest \in Seq(Event)
  BY SigType
<1>2. loop' = r
  BY DEF Advance
<1> HIDE DEF rest
<1>3. r \in LoopRecord /\ r.pc = "check1"
  BY <1>1, NewLoopKnows DEF LoopRecord, NewLoop
<1> HIDE DEF r
<1>4. LoopKnows(r, handled')
  BY <1>3 DEF LoopKnows
<1> QED
  BY <1>2, <1>3, <1>4, LoopReplaced

LEMMA HandledGrows ==
  ASSUME handled \in [Sigs -> 0..MaxHandled], NEW sig \in Sigs,
         handled' = [handled EXCEPT ![sig] = Min({@ + 1, MaxHandled})]
  PROVE  /\ handled' \in [Sigs -> 0..MaxHandled]
         /\ handled'[sig] > 0 /\ handled'[sig] <= handled[sig] + 1
         /\ \A other \in Sigs : other # sig => handled'[other] = handled[other]
<1>1. MaxHandled \in Nat \ {0} /\ handled[sig] \in Nat
  BY StreamsAssumption
<1> DEFINE n == Min({handled[sig] + 1, MaxHandled})
<1>2. n \in 1..MaxHandled /\ n <= handled[sig] + 1
  BY <1>1, LeastOfTwo
<1>3. handled' = [handled EXCEPT ![sig] = n]
  OBVIOUS
<1> HIDE DEF n
<1> QED
  BY <1>1, <1>2, <1>3

\* The steps of the loop that leave the tables alone.
LEMMA LoopOnlyStreams ==
  ASSUME IStreams,
         \/ TakeBatch \/ StopLoop \/ CheckProcessed \/ CheckTentative
         \/ FetchTransaction \/ FetchBlock \/ Handle \/ GiveUp \/ StopOnError
  PROVE  IStreams'
<1>1. UNCHANGED <<tables, chainVars, cancelled, sock, ws, gap>>
  BY DEF TakeBatch, StopLoop, CheckProcessed, CheckTentative, FetchTransaction,
         FetchBlock, Handle, GiveUp, StopOnError, OnlyLoop
<1>2. SharedOK /\ SourceOK /\ HybridOK /\ LoopOK
  BY Parts
<1>3. SharedOK'
  <2>1. UNCHANGED faults \/ \E kind \in {"rpc", "db", "handler"} : Fault(kind)
    BY DEF TakeBatch, StopLoop, CheckProcessed, CheckTentative, FetchTransaction,
           FetchBlock, Handle, GiveUp, StopOnError
  <2>2. cancelled' \in BOOLEAN
    BY <1>1, <1>2 DEF SharedOK, ProcessTypeOK
  <2> QED
    BY <1>1, <1>2, <2>1, <2>2, SharedStep
<1>4. HybridOK'
  <2>1. CASE channel # <<>> /\ channel' = Tail(channel)
    <3>1. channel \in Seq(Seq(Event)) /\ Len(channel) <= Capacity
      BY <1>2 DEF HybridOK
    <3>2. channel' \in Seq(Seq(Event)) /\ Len(channel') = Len(channel) - 1
      BY <2>1, <3>1
    <3>3. Len(channel) \in Nat /\ Capacity \in Nat
      BY <3>1, StreamsAssumption
    <3> QED
      BY <1>1, <1>2, <3>1, <3>2, <3>3 DEF HybridOK
  <2>2. CASE UNCHANGED channel
    BY <1>1, <1>2, <2>2, HybridFrame
  <2> QED
    BY <2>1, <2>2 DEF TakeBatch, StopLoop, CheckProcessed, CheckTentative,
         FetchTransaction, FetchBlock, Handle, GiveUp, StopOnError
<1>5. SUFFICES LoopOK'
  BY <1>1, <1>2, <1>3, <1>4, SourceFrame, Whole
<1>6. /\ loop \in LoopRecord /\ LoopKnows(loop, handled)
      /\ handled \in [Sigs -> 0..MaxHandled] /\ failed \subseteq Sigs
  BY <1>2 DEF LoopOK
<1>7. ASSUME NEW r \in LoopRecord, loop' = r, LoopKnows(r, handled), UNCHANGED <<handled, failed>>
      PROVE  LoopOK'
  BY <1>2, <1>6, <1>7, LoopReplaced
<1>8. CASE TakeBatch
  <2> DEFINE r == [loop EXCEPT !.pc = "check1", !.batch = Head(channel)]
  <2>1. Head(channel) \in Seq(Event)
    BY <1>2, <1>8 DEF TakeBatch, HybridOK
  <2>2. r \in LoopRecord /\ r.pc = "check1"
    BY <1>6, <2>1 DEF LoopRecord
  <2>3. loop' = r /\ UNCHANGED <<handled, failed>>
    BY <1>8 DEF TakeBatch
  <2> HIDE DEF r
  <2> QED
    BY <1>7, <2>2, <2>3 DEF LoopKnows
<1>9. CASE StopLoop \/ StopOnError
  <2> DEFINE r == [NewLoop EXCEPT !.pc = "stopped"]
  <2>1. r \in LoopRecord /\ r.pc = "stopped"
    BY NewLoopKnows DEF LoopRecord, NewLoop
  <2>2. loop' = r /\ UNCHANGED <<handled, failed>>
    BY <1>9 DEF StopLoop, StopOnError
  <2> HIDE DEF r
  <2> QED
    BY <1>7, <2>1, <2>2 DEF LoopKnows
<1>10. CASE CheckProcessed
  <2>1. CASE loop' = [NewLoop EXCEPT !.pc = IF cancelled THEN "stopped" ELSE "next"]
    <3> DEFINE r == [NewLoop EXCEPT !.pc = IF cancelled THEN "stopped" ELSE "next"]
    <3>1. r \in LoopRecord /\ r.pc \in {"next", "stopped"}
      BY NewLoopKnows DEF LoopRecord, NewLoop
    <3>2. loop' = r /\ UNCHANGED <<handled, failed>>
      BY <1>10, <2>1 DEF CheckProcessed
    <3> HIDE DEF r
    <3> QED
      BY <1>7, <3>1, <3>2 DEF LoopKnows
  <2>2. CASE loop.batch # <<>> /\ Advance
    BY <1>2, <1>6, <1>10, <2>2, AdvanceLoop DEF CheckProcessed
  <2>3. CASE loop.batch # <<>> /\ loop' = [loop EXCEPT !.pc = "check2"]
    BY <1>6, <1>7, <1>10, <2>3 DEF CheckProcessed, LoopRecord, LoopKnows
  <2> QED
    BY <1>10, <2>1, <2>2, <2>3 DEF CheckProcessed
<1>11. CASE CheckTentative
  <2>1. loop.batch # <<>>
    BY <1>6, <1>11 DEF CheckTentative, LoopKnows
  <2>2. CASE Advance
    BY <1>2, <1>6, <1>11, <2>1, <2>2, AdvanceLoop DEF CheckTentative
  <2>3. CASE loop' = [loop EXCEPT !.pc = IF FromLogs THEN "logs" ELSE "fetch"]
    BY <1>6, <1>7, <1>11, <2>1, <2>3 DEF CheckTentative, LoopRecord, LoopKnows
  <2> QED
    BY <1>11, <2>2, <2>3 DEF CheckTentative
<1>12. CASE FetchTransaction
  <2>1. PICK s \in Slots : loop' = [loop EXCEPT !.pc = "block", !.slot = s]
    BY <1>12 DEF FetchTransaction, SlotsOfTx
  <2> QED
    BY <1>6, <1>7, <1>12, <2>1 DEF FetchTransaction, LoopRecord, LoopKnows
<1>13. CASE FetchBlock
  <2>1. loop.slot \in Slots /\ loop.batch # <<>>
    BY <1>6, <1>13 DEF FetchBlock, LoopKnows
  <2>2. PICK h \in StoredHashes : loop' = [loop EXCEPT !.pc = "handle", !.hash = h]
    <3>1. CASE BlockAvailable(loop.slot) /\ loop' = [loop EXCEPT !.pc = "handle", !.hash = chain[loop.slot]]
      <4>1. loop.slot \in Nat
        BY <2>1, TypesAssumption DEF Slots
      <4>2. chain[loop.slot] \in StoredHashes
        BY <1>2, <3>1, <4>1, AvailableBlock DEF SharedOK, StoredHashes
      <4> QED
        BY <3>1, <4>2
    <3>2. CASE loop' = [loop EXCEPT !.pc = "handle", !.hash = UnknownHash]
      BY <3>2 DEF StoredHashes
    <3> QED
      BY <1>13, <3>1, <3>2 DEF FetchBlock
  <2> QED
    BY <1>6, <1>7, <1>13, <2>1, <2>2 DEF FetchBlock, LoopRecord, LoopKnows
<1>14. CASE Handle
  <2> DEFINE r == [loop EXCEPT !.pc = IF @ = "logs" THEN "logmark" ELSE "mark"]
  <2>1. loop.batch # <<>>
    BY <1>6, <1>14 DEF Handle, LoopKnows
  <2>2. Sig \in Sigs
    BY <1>2, <2>1, SigType
  <2>3. handled' \in [Sigs -> 0..MaxHandled] /\ handled'[Sig] > 0
    BY <1>6, <1>14, <2>2, HandledGrows DEF Handle
  <2>4. r \in LoopRecord /\ r.pc \in {"logmark", "mark"} /\ r.batch = loop.batch
        /\ r.slot = loop.slot /\ r.hash = loop.hash
        /\ (r.pc = "mark" => loop.pc = "handle")
    BY <1>6, <1>14 DEF Handle, LoopRecord
  <2>5. loop' = r /\ UNCHANGED failed
    BY <1>14 DEF Handle
  <2> HIDE DEF r
  <2>6. LoopKnows(r, handled')
    BY <1>6, <2>1, <2>3, <2>4 DEF LoopKnows, Sig
  <2> QED
    BY <1>2, <1>6, <2>3, <2>4, <2>5, <2>6, LoopReplaced
<1>15. CASE GiveUp
  <2>1. loop.batch # <<>>
    BY <1>6, <1>15 DEF GiveUp, LoopKnows
  <2>2. Sig \in Sigs
    BY <1>2, <2>1, SigType
  <2> QED
    BY <1>2, <1>6, <1>15, <2>1, <2>2, AdvanceLoop DEF GiveUp
<1> QED
  BY <1>8, <1>9, <1>10, <1>11, <1>12, <1>13, <1>14, <1>15

LEMMA MarkStreams ==
  ASSUME IStreams, Mark
  PROVE  IStreams'
<1>1. UNCHANGED <<chainVars, processVars, sock, ws, gap, channel, handled, failed>>
  BY DEF Mark, OnlyLoop, processVars
<1>2. SharedOK /\ SourceOK /\ HybridOK /\ LoopOK
  BY Parts
<1>3. loop \in LoopRecord /\ LoopKnows(loop, handled) /\ loop.pc \in {"logmark", "mark"}
  BY <1>2 DEF LoopOK, Mark
<1>4. loop.batch # <<>>
  BY <1>3 DEF LoopKnows
<1>5. StorageTypeOK'
  <2>1. Sig \in Sigs /\ Head(loop.batch).slot \in Slots
    BY <1>2, <1>4, SigType DEF Event
  <2>2. CASE loop.pc = "logmark" /\ InsertProcessed(Sig, Head(loop.batch).slot)
    BY <1>2, <2>1, <2>2, StatementTypes DEF SharedOK
  <2>3. CASE loop.pc = "mark" /\ InsertTentative(Sig, loop.slot, loop.hash)
    <3>1. loop.slot \in Slots /\ loop.hash \in StoredHashes
      BY <1>3, <2>3 DEF LoopKnows
    <3> QED
      BY <1>2, <2>1, <2>3, <3>1, StatementTypes DEF SharedOK
  <2> QED
    BY <2>2, <2>3 DEF Mark
<1>6. SharedOK'
  BY <1>1, <1>2, <1>5, ChainStep, ProcessFrame DEF SharedOK, processVars
<1>7. LoopOK'
  BY <1>1, <1>2, <1>4, AdvanceLoop DEF Mark, LoopOK
<1> QED
  BY <1>1, <1>2, <1>6, <1>7, SourceFrame, HybridFrame, Whole

-----------------------------------------------------------------------------
(* Restart, cancellation, the initial state; type correctness.             *)

LEMMA FreshProcess ==
  /\ IdleSource \in SourceRecord /\ Len(IdleSource.out) <= BatchLimit
  /\ IdlePoller \in PollerRecord
<1>1. 1 \in 1..Len(Programs)
  BY SignaturesAssumption
<1>2. Len(<<>>) <= BatchLimit
  BY StreamsAssumption
<1> QED
  BY <1>1, <1>2, EmptySequences DEF IdleSource, SourceRecord, IdlePoller, PollerRecord

LEMMA RestartStreams ==
  ASSUME IStreams, Restart \/ Cancel
  PROVE  IStreams'
<1>1. UNCHANGED <<tables, chainVars, handled, failed>>
  BY DEF Restart, Cancel, streamVars
<1>2. SharedOK /\ SourceOK /\ HybridOK /\ LoopOK
  BY Parts
<1>3. SharedOK'
  BY <1>1, <1>2, SharedStep DEF Restart, Cancel, NewProcess, CancelToken
<1>4. CASE Cancel
  BY <1>2, <1>3, <1>4, SourceFrame, HybridFrame, LoopFrame, Whole DEF Cancel, streamVars
<1>5. CASE Restart
  <2>1. SourceOK'
    <3>1. sock' \in SocketRecord
      BY <1>2, <1>5, ClosedSocket, EmptySequences DEF Restart, SourceOK
    <3> QED
      BY <1>5, <3>1, FreshProcess DEF Restart, SourceOK
  <2>2. HybridOK'
    <3>1. Len(<<>>) <= Capacity
      BY StreamsAssumption
    <3> QED
      BY <1>5, <3>1, FreshProcess, EmptySequences DEF Restart, HybridOK
  <2>3. LoopOK'
    BY <1>1, <1>2, <1>5, NewLoopKnows DEF Restart, LoopOK
  <2> QED
    BY <1>3, <2>1, <2>2, <2>3, Whole
<1> QED
  BY <1>4, <1>5

LEMMA InitStreams == Init => IStreams
<1> SUFFICES ASSUME Init PROVE IStreams
  OBVIOUS
<1>1. StorageTypeOK
  BY DEF Init, StorageTypeOK
<1>2. ChainTypeOK
  BY TypesAssumption, ChainAssumption DEF Init, ChainInit, ChainTypeOK, Slots
<1>3. ProcessTypeOK
  BY ProcessAssumption DEF Init, ProcessInit, ProcessTypeOK
<1>4. sock \in SocketRecord
  BY StreamsAssumption, EmptySequences DEF Init, StreamsInit, SocketRecord
<1>5. channel \in Seq(Seq(Event)) /\ Len(channel) <= Capacity
  BY StreamsAssumption, EmptySequences DEF Init, StreamsInit
<1>6. handled \in [Sigs -> 0..MaxHandled] /\ failed \subseteq Sigs
  BY StreamsAssumption DEF Init
<1> QED
  BY <1>1, <1>2, <1>3, <1>4, <1>5, <1>6, FreshProcess, NewLoopKnows
     DEF Init, StreamsInit, IStreams, TypeOK

LEMMA NextStreams == IStreams /\ [Next]_vars => IStreams'
<1> SUFFICES ASSUME IStreams, [Next]_vars PROVE IStreams'
  OBVIOUS
<1>1. CASE Next
  BY <1>1, NodeStreams, SourceStreams, SendStreams, PollerStreams, LoopOnlyStreams,
     MarkStreams, RestartStreams DEF Next, SourceStep, LoopStep
<1>2. CASE UNCHANGED vars
  <2>1. UNCHANGED <<tables, chainVars, processVars, streamVars>>
    BY <1>2 DEF vars
  <2>2. SharedOK /\ SourceOK /\ HybridOK /\ LoopOK
    BY Parts
  <2>3. SharedOK'
    BY <2>1, <2>2, StorageFrame, ChainStep, ProcessFrame DEF SharedOK, processVars
  <2> QED
    BY <2>1, <2>2, <2>3, SourceFrame, HybridFrame, LoopFrame, Whole DEF streamVars
<1> QED
  BY <1>1, <1>2

\* Type correctness of sources, channel and loop: no batch is longer than the
\* limit, the channel never overflows, and the loop never reads an event it
\* does not hold.
THEOREM StreamsTypeCorrect == Spec => []TypeOK
<1>1. IStreams => TypeOK
  BY DEF IStreams
<1> QED
  BY <1>1, InitStreams, NextStreams, PTL DEF Spec
-----------------------------------------------------------------------------
(* The marker follows the effect, and the effect is not repeated.          *)

\* Only Mark changes the tables, and only Handle the counts.
LEMMA TablesFrame ==
  ASSUME [Next]_vars, ~Mark
  PROVE  UNCHANGED tables
  BY DEF vars, Next, ClusterStep, NodeConfirms, NodePings, SocketDrops, OnlySocket,
         SourceStep, EnsureConnected, Connect, AwaitConfirmation, Read, Receive, SendBatch,
         OnlySource, PollerStep, PollGap, SendGap, OnlyPoller, LoopStep, TakeBatch, StopLoop,
         CheckProcessed, CheckTentative, FetchTransaction, FetchBlock, Handle, GiveUp,
         StopOnError, Restart, Cancel

LEMMA CountsFrame ==
  ASSUME [Next]_vars, ~Handle
  PROVE  UNCHANGED handled
  BY DEF vars, streamVars, Next, ClusterStep, NodeConfirms, NodePings, SocketDrops, OnlySocket,
         SourceStep, EnsureConnected, Connect, AwaitConfirmation, Read, Receive, SendBatch,
         OnlySource, PollerStep, PollGap, SendGap, OnlyPoller, LoopStep, TakeBatch, StopLoop,
         CheckProcessed, CheckTentative, FetchTransaction, FetchBlock, Mark, GiveUp,
         StopOnError, Restart, Cancel

\* Mark records the transaction it is at, and no other.
LEMMA MarkRecords ==
  ASSUME IStreams, Mark
  PROVE  /\ Sig \in Sigs /\ handled[Sig] > 0
         /\ Recorded' = Recorded \union {Sig}
<1>1. LoopOK /\ SharedOK
  BY Parts
<1>2. loop.batch # <<>> /\ handled[Sig] > 0
      /\ (loop.pc = "mark" => loop.slot \in Slots /\ loop.hash \in StoredHashes)
  BY <1>1 DEF Mark, LoopOK, LoopKnows, Sig
<1>3. Sig \in Sigs /\ Head(loop.batch).slot \in Slots
  BY <1>1, <1>2, SigType DEF Event
<1>4. processed \in [Sigs -> Slots \union {NoSlot}]
      /\ tentative \in [Sigs -> TentativeRow \union {NoRow}]
  BY <1>1 DEF SharedOK, StorageTypeOK
<1>5. CASE InsertProcessed(Sig, Head(loop.batch).slot)
  <2>1. \A s \in Slots : s # NoSlot
    BY TypesAssumption DEF Slots, NoSlot
  <2> QED
    BY <1>2, <1>3, <1>4, <1>5, <2>1 DEF InsertProcessed, Recorded, InProcessed, InTentative
<1>6. CASE loop.pc = "mark" /\ InsertTentative(Sig, loop.slot, loop.hash)
  <2> DEFINE row == [slot |-> loop.slot, hash |-> loop.hash]
  <2>1. row # NoRow
    BY <1>2, <1>6, TypesAssumption DEF NoRow, Slots, NoSlot
  <2>2. UNCHANGED processed
        /\ tentative' = [tentative EXCEPT ![Sig] = IF @ = NoRow THEN row ELSE @]
    BY <1>6 DEF InsertTentative
  <2> HIDE DEF row
  <2> QED
    BY <1>2, <1>3, <1>4, <2>1, <2>2 DEF Recorded, InProcessed, InTentative
<1> QED
  BY <1>2, <1>3, <1>5, <1>6 DEF Mark

LEMMA RecordedFrame ==
  ASSUME UNCHANGED tables
  PROVE  Recorded' = Recorded
  BY DEF tables, Recorded, InProcessed, InTentative

\* Handle counts the transaction it is at, and no other.
LEMMA HandleCounts ==
  ASSUME IStreams, Handle
  PROVE  /\ Sig \in Sigs
         /\ handled'[Sig] > 0 /\ handled'[Sig] <= handled[Sig] + 1
         /\ \A sig \in Sigs : sig # Sig => handled'[sig] = handled[sig]
<1>1. LoopOK
  BY Parts
<1>2. Sig \in Sigs
  BY <1>1, SigType DEF Handle, LoopOK, LoopKnows
<1> QED
  BY <1>1, <1>2, HandledGrows DEF LoopOK, Handle

\* A row is only written after the handlers of its transaction succeeded, on
\* both paths of the loop, whatever fails and whenever the process dies.
THEOREM StreamsMarkerFollowsEffect == Spec => []RecordedWasHandled
<1>1. Init => RecordedWasHandled
  BY DEF Init, RecordedWasHandled, Recorded, InProcessed, InTentative
<1>2. ASSUME IStreams, RecordedWasHandled, [Next]_vars
      PROVE  RecordedWasHandled'
  <2>1. CASE Mark
    <3>1. UNCHANGED handled
      BY <2>1 DEF Mark
    <3> QED
      BY <1>2, <2>1, <3>1, MarkRecords DEF RecordedWasHandled
  <2>2. CASE ~Mark
    <3>1. Recorded' = Recorded
      BY <1>2, <2>2, TablesFrame, RecordedFrame
    <3>2. \A sig \in Sigs : handled[sig] > 0 => handled'[sig] > 0
      BY <1>2, CountsFrame, HandleCounts
    <3>3. Recorded \subseteq Sigs
      BY DEF Recorded
    <3> QED
      BY <1>2, <3>1, <3>2, <3>3 DEF RecordedWasHandled
  <2> QED
    BY <2>1, <2>2
<1> QED
  BY <1>1, <1>2, InitStreams, NextStreams, PTL DEF Spec

-----------------------------------------------------------------------------
(* HandledOnce: the loop only handles what neither table knew, and nobody  *)
(* else writes to them.                                                    *)

Spent == Used("crash") + Used("db")

\* Between the look-up and the row, the tables do not know the transaction.
Fresh ==
  /\ loop.pc = "check2" => ~InProcessed(Sig)
  /\ loop.pc \in {"logs", "fetch", "block", "handle"} => Sig \notin Recorded

\* One handling is free only for what is, or is about to be, recorded.
Credit ==
  \A sig \in Sigs :
    handled[sig] <= Spent + (IF sig \in Recorded \union InHand THEN 1 ELSE 0)

IOnce == Fresh /\ Credit

LEMMA SpentType ==
  ASSUME IStreams PROVE Spent \in Int
  BY ProcessAssumption DEF IStreams, TypeOK, ProcessTypeOK, BudgetOf, Spent, Used

LEMMA SpentGrows ==
  ASSUME IStreams
  PROVE  /\ \A kind \in {"crash", "cancel", "db", "rpc", "handler"} :
              Fault(kind) => Spent' >= Spent
         /\ Fault("crash") \/ Fault("db") => Spent' = Spent + 1
         /\ UNCHANGED faults => Spent' = Spent
<1> USE ProcessAssumption DEF IStreams, TypeOK, ProcessTypeOK, BudgetOf, Spent, Used
<1>1. Fault("crash") => Spent' = Spent + 1
  BY DEF Fault
<1>2. Fault("db") => Spent' = Spent + 1
  BY DEF Fault
<1>3. Fault("cancel") \/ Fault("rpc") \/ Fault("handler") => Spent' = Spent
  BY DEF Fault
<1>4. Spent \in Int
  BY SpentType
<1> QED
  BY <1>1, <1>2, <1>3, <1>4

LEMMA SpentNeverShrinks ==
  ASSUME IStreams, [Next]_vars
  PROVE  Spent' >= Spent /\ Spent' \in Int
<1> DEFINE Pays == \/ UNCHANGED faults
                  \/ \E kind \in {"crash", "cancel", "db", "rpc", "handler"} : Fault(kind)
<1>1. Pays
  <2>1. CASE ClusterStep \/ NodeConfirms \/ NodePings \/ SocketDrops
    BY <2>1 DEF ClusterStep, NodeConfirms, NodePings, SocketDrops, OnlySocket, processVars
  <2>2. CASE SourceStep \/ Read
    BY <2>2 DEF SourceStep, EnsureConnected, Connect, AwaitConfirmation, Read, Receive, SendBatch
  <2>3. CASE PollerStep
    BY <2>3 DEF PollerStep, PollGap, SendGap
  <2>4. CASE LoopStep
    BY <2>4 DEF LoopStep, TakeBatch, StopLoop, CheckProcessed, CheckTentative,
       FetchTransaction, FetchBlock, Handle, Mark, GiveUp, StopOnError
  <2>5. CASE Restart \/ Cancel \/ UNCHANGED vars
    BY <2>5 DEF Restart, NewProcess, Cancel, CancelToken, vars, processVars
  <2> QED
    BY <2>1, <2>2, <2>3, <2>4, <2>5 DEF Next
<1>2. Spent \in Int
  BY SpentType
<1>3. Spent' \in Int
  <2>1. faults' \in BudgetOf
    BY NextStreams DEF IStreams, TypeOK, ProcessTypeOK
  <2> QED
    BY <2>1, ProcessAssumption DEF BudgetOf, Spent, Used
<1> QED
  BY <1>1, <1>2, <1>3, SpentGrows

\* A step that neither handles nor marks may only let go of what is in hand
\* when a crash or a database error pays for it.
LEMMA CreditKept ==
  ASSUME IStreams, Credit, [Next]_vars, ~Handle, ~Mark,
         InHand \subseteq InHand' \/ Spent' = Spent + 1
  PROVE  Credit'
<1>1. UNCHANGED handled /\ Recorded' = Recorded
  BY CountsFrame, TablesFrame, RecordedFrame
<1>2. Spent \in Int /\ Spent' \in Int /\ Spent' >= Spent
  BY SpentType, SpentNeverShrinks
<1>3. \A sig \in Sigs : handled[sig] \in Int
  BY StreamsAssumption DEF IStreams, TypeOK
<1> SUFFICES ASSUME NEW sig \in Sigs
             PROVE  handled[sig] <= Spent' + (IF sig \in Recorded \union InHand' THEN 1 ELSE 0)
  BY <1>1 DEF Credit
<1>4. handled[sig] <= Spent + (IF sig \in Recorded \union InHand THEN 1 ELSE 0)
  BY DEF Credit
<1>5. CASE InHand \subseteq InHand'
  <2>1. sig \in Recorded \union InHand => sig \in Recorded \union InHand'
    BY <1>5
  <2> QED
    BY <1>2, <1>3, <1>4, <2>1
<1>6. CASE Spent' = Spent + 1
  BY <1>2, <1>3, <1>4, <1>6
<1> QED
  BY <1>5, <1>6

\* Steps of anything but the loop.
LEMMA OtherOnce ==
  ASSUME IStreams, IOnce, [Next]_vars, ~LoopStep
  PROVE  IOnce'
<1>1. ~Handle /\ ~Mark /\ UNCHANGED tables
  BY TablesFrame DEF LoopStep
<1>2. CASE UNCHANGED loop
  <2>1. InHand' = InHand
    BY <1>2 DEF InHand, Sig
  <2>2. Fresh'
    BY <1>1, <1>2 DEF IOnce, Fresh, Sig, Recorded, InProcessed, InTentative, tables
  <2> QED
    BY <1>1, <2>1, <2>2, CreditKept DEF IOnce
<1>3. CASE SendBatch /\ Mode = "websocket" /\ loop' = [loop EXCEPT !.pc = "check1", !.batch = ws.out]
  <2>1. loop.pc = "next" /\ loop \in LoopRecord
    BY <1>3 DEF SendBatch, SourceRuns, IStreams, TypeOK
  <2>2. loop'.pc = "check1" /\ InHand = {}
    BY <1>3, <2>1 DEF LoopRecord, InHand
  <2> QED
    BY <1>1, <2>2, CreditKept DEF IOnce, Fresh
<1>4. CASE Restart
  <2>1. loop'.pc = "next"
    BY <1>4 DEF Restart, NewLoop
  <2>2. Spent' = Spent + 1
    BY <1>4, SpentGrows DEF Restart, NewProcess
  <2> QED
    BY <1>1, <2>1, <2>2, CreditKept DEF IOnce, Fresh
<1> QED
  BY <1>2, <1>3, <1>4 DEF vars, streamVars, Next, ClusterStep, NodeConfirms, NodePings,
     SocketDrops, OnlySocket, SourceStep, EnsureConnected, Connect, AwaitConfirmation, Read,
     Receive, SendBatch, PollerStep, PollGap, SendGap, OnlyPoller, Cancel

\* Steps of the loop that neither handle nor mark.
LEMMA LoopOnce ==
  ASSUME IStreams, IOnce, LoopStep, ~Handle, ~Mark
  PROVE  IOnce'
<1>1. [Next]_vars
  BY DEF Next
<1>2. UNCHANGED tables /\ Recorded' = Recorded
  BY <1>1, TablesFrame, RecordedFrame
<1>3. loop \in LoopRecord /\ LoopKnows(loop, handled)
  BY DEF IStreams, TypeOK
<1>4. SUFFICES Fresh' /\ (InHand \subseteq InHand' \/ Spent' = Spent + 1)
  BY <1>1, CreditKept DEF IOnce
<1>5. ASSUME InHand = {}, loop'.pc \in {"next", "check1", "stopped"}
      PROVE  Fresh' /\ InHand \subseteq InHand'
  BY <1>5 DEF Fresh
<1>6. ASSUME Advance PROVE loop'.pc = "check1"
  BY <1>6 DEF Advance, NewLoop
<1>7. CASE TakeBatch
  BY <1>3, <1>5, <1>7 DEF TakeBatch, LoopRecord, InHand
<1>8. CASE StopLoop
  BY <1>5, <1>8 DEF StopLoop, NewLoop, InHand
<1>9. CASE CheckProcessed
  <2>1. InHand = {} /\ loop.pc = "check1"
    BY <1>9 DEF CheckProcessed, InHand
  <2>2. CASE loop' = [NewLoop EXCEPT !.pc = IF cancelled THEN "stopped" ELSE "next"] \/ Advance
    BY <1>5, <1>6, <2>1, <2>2 DEF NewLoop
  <2>3. CASE ~InProcessed(Sig) /\ loop' = [loop EXCEPT !.pc = "check2"]
    <3>1. loop'.pc = "check2" /\ loop'.batch = loop.batch
      BY <1>3, <2>3 DEF LoopRecord
    <3> QED
      BY <1>2, <2>1, <2>3, <3>1 DEF Fresh, Sig, InProcessed, tables
  <2> QED
    BY <1>9, <2>2, <2>3 DEF CheckProcessed
<1>10. CASE CheckTentative
  <2>1. InHand = {} /\ loop.pc = "check2" /\ ~InProcessed(Sig)
    BY <1>10 DEF CheckTentative, InHand, IOnce, Fresh
  <2>2. CASE Advance
    BY <1>5, <1>6, <2>1, <2>2
  <2>3. CASE ~InTentative(Sig) /\ loop' = [loop EXCEPT !.pc = IF FromLogs THEN "logs" ELSE "fetch"]
    <3>1. loop'.pc \in {"logs", "fetch"} /\ loop'.batch = loop.batch
      BY <1>3, <2>3 DEF LoopRecord
    <3>2. Sig \notin Recorded /\ Sig' = Sig
      BY <2>1, <2>3, <3>1 DEF Recorded, Sig
    <3> QED
      BY <1>2, <2>1, <3>1, <3>2 DEF Fresh
  <2> QED
    BY <1>10, <2>2, <2>3 DEF CheckTentative
<1>11. CASE FetchTransaction \/ FetchBlock
  <2>1. loop.pc \in {"fetch", "block"} /\ loop'.pc \in {"block", "handle"}
        /\ loop'.batch = loop.batch
    BY <1>3, <1>11 DEF FetchTransaction, FetchBlock, LoopRecord
  <2>2. Sig \notin Recorded /\ Sig' = Sig
    BY <2>1 DEF IOnce, Fresh, Sig
  <2> QED
    BY <1>2, <2>1, <2>2 DEF Fresh, InHand
<1>12. CASE GiveUp
  <2>1. loop'.pc = "check1"
    BY <1>6, <1>12 DEF GiveUp
  <2>2. CASE loop.pc \in {"fetch", "handle"}
    BY <1>5, <2>1, <2>2 DEF InHand
  <2>3. CASE Fault("db")
    BY <2>1, <2>3, SpentGrows DEF Fresh
  <2> QED
    BY <1>12, <2>2, <2>3 DEF GiveUp
<1>13. CASE StopOnError
  <2>1. loop'.pc = "stopped"
    BY <1>13 DEF StopOnError, NewLoop
  <2>2. CASE loop.pc = "logs"
    BY <1>5, <2>1, <2>2 DEF InHand
  <2>3. CASE Fault("db")
    BY <2>1, <2>3, SpentGrows DEF Fresh
  <2> QED
    BY <1>13, <2>2, <2>3 DEF StopOnError
<1> QED
  BY <1>7, <1>8, <1>9, <1>10, <1>11, <1>12, <1>13 DEF LoopStep

LEMMA HandleOnce ==
  ASSUME IStreams, IOnce, Handle
  PROVE  IOnce'
<1>1. UNCHANGED <<tables, faults>>
  BY DEF Handle
<1>2. loop \in LoopRecord /\ loop.pc \in {"logs", "handle"}
  BY DEF Handle, IStreams, TypeOK
<1>3. loop'.pc \in {"logmark", "mark"} /\ loop'.batch = loop.batch
  BY <1>2 DEF Handle, LoopRecord
<1>4. InHand = {} /\ InHand' = {Sig} /\ Sig \notin Recorded /\ Recorded' = Recorded
  BY <1>1, <1>2, <1>3, RecordedFrame DEF InHand, Sig, IOnce, Fresh
<1>5. Spent' = Spent /\ Spent \in Int
  BY <1>1, SpentGrows, SpentType
<1>6. \A sig \in Sigs : handled[sig] \in Int
  BY StreamsAssumption DEF IStreams, TypeOK
<1>7. ASSUME NEW sig \in Sigs
      PROVE  handled'[sig] <= Spent + (IF sig \in Recorded \union {Sig} THEN 1 ELSE 0)
  <2>1. handled[sig] <= Spent + (IF sig \in Recorded THEN 1 ELSE 0)
    BY <1>4 DEF IOnce, Credit
  <2>2. CASE sig = Sig
    <3>1. handled[sig] <= Spent
      BY <1>4, <1>5, <2>1, <2>2
    <3>2. handled'[sig] <= handled[sig] + 1 /\ handled'[sig] \in Int
      BY <2>2, HandleCounts, NextStreams, StreamsAssumption DEF IStreams, TypeOK, Next, LoopStep
    <3> QED
      BY <1>5, <1>6, <2>2, <3>1, <3>2
  <2>3. CASE sig # Sig
    BY <2>1, <2>3, HandleCounts
  <2> QED
    BY <2>2, <2>3
<1>8. Credit'
  BY <1>4, <1>5, <1>7 DEF Credit
<1> QED
  BY <1>3, <1>8 DEF IOnce, Fresh

LEMMA MarkOnce ==
  ASSUME IStreams, IOnce, Mark
  PROVE  IOnce'
<1>1. UNCHANGED <<handled, faults>> /\ loop.pc \in {"logmark", "mark"}
  BY DEF Mark
<1>2. loop'.pc = "check1"
  BY DEF Mark, Advance, NewLoop
<1>3. InHand = {Sig} /\ InHand' = {} /\ Recorded' = Recorded \union {Sig}
  BY <1>1, <1>2, MarkRecords DEF InHand
<1>4. Spent' = Spent
  BY <1>1, SpentGrows
<1>5. Recorded' \union InHand' = Recorded \union InHand
  BY <1>3
<1>6. Credit'
  BY <1>1, <1>4, <1>5 DEF IOnce, Credit
<1> QED
  BY <1>2, <1>6 DEF IOnce, Fresh

LEMMA InitOnce == Init => IOnce
<1> SUFFICES ASSUME Init PROVE IOnce
  OBVIOUS
<1>1. Spent = 0
  <2>1. faults = FaultBudget
    BY DEF Init, ProcessInit
  <2> QED
    BY <2>1, ProcessAssumption DEF Spent, Used, BudgetOf
<1>2. loop.pc = "next" /\ handled = [sig \in Sigs |-> 0]
  BY DEF Init, StreamsInit, NewLoop
<1> QED
  BY <1>1, <1>2 DEF IOnce, Fresh, Credit

LEMMA NextOnce == IStreams /\ IOnce /\ [Next]_vars => IOnce'
  BY OtherOnce, LoopOnce, HandleOnce, MarkOnce

\* However many sides deliver a transaction and in whatever order, it is only
\* handled again when a crash or a database error came between handler and row.
THEOREM StreamsHandleOnce == Spec => []HandledOnce
<1>1. IStreams /\ IOnce => HandledOnce
  <2> SUFFICES ASSUME IStreams, IOnce, NEW sig \in Sigs
               PROVE  handled[sig] <= 1 + Used("crash") + Used("db")
    BY DEF HandledOnce
  <2>1. handled[sig] <= Spent + 1
    <3>1. handled[sig] \in Int /\ Spent \in Int
      BY SpentType, StreamsAssumption DEF IStreams, TypeOK
    <3> QED
      BY <3>1 DEF IOnce, Credit
  <2>2. Used("crash") \in Int /\ Used("db") \in Int
    BY ProcessAssumption DEF IStreams, TypeOK, ProcessTypeOK, BudgetOf, Used
  <2> QED
    BY <2>1, <2>2 DEF Spent
<1> QED
  BY <1>1, InitOnce, NextOnce, InitStreams, NextStreams, PTL DEF Spec

-----------------------------------------------------------------------------
(* The loop and everything that feeds it implement Delivery.               *)

\* Letting go of what is in hand, or of nothing, changes no table and no count.
LEMMA OtherDelivers ==
  ASSUME IStreams, [Next]_vars, ~Handle, ~Mark
  PROVE  D!Interrupt \/ UNCHANGED D!deliveryVars
<1>1. UNCHANGED handled /\ Recorded' = Recorded
  BY CountsFrame, TablesFrame, RecordedFrame
<1>2. InHand' = InHand \/ InHand' = {}
  <2>1. CASE UNCHANGED loop
    BY <2>1 DEF InHand, Sig
  <2>2. CASE loop'.pc \notin {"logmark", "mark"}
    BY <2>2 DEF InHand
  <2>3. loop \in LoopRecord
    BY DEF IStreams, TypeOK
  <2>4. ASSUME Advance PROVE loop'.pc = "check1"
    BY <2>4 DEF Advance, NewLoop
  <2>5. CASE LoopStep
    <3>1. CASE TakeBatch \/ StopLoop \/ CheckProcessed
      BY <2>2, <2>3, <2>4, <3>1 DEF TakeBatch, StopLoop, CheckProcessed, LoopRecord, NewLoop
    <3>2. CASE CheckTentative \/ FetchTransaction \/ FetchBlock
      BY <2>2, <2>3, <2>4, <3>2 DEF CheckTentative, FetchTransaction, FetchBlock, LoopRecord
    <3>3. CASE GiveUp \/ StopOnError
      BY <2>2, <2>4, <3>3 DEF GiveUp, StopOnError, NewLoop
    <3> QED
      BY <2>5, <3>1, <3>2, <3>3 DEF LoopStep
  <2>6. CASE SendBatch
    BY <2>1, <2>2, <2>3, <2>6 DEF SendBatch, LoopRecord
  <2>7. CASE Restart
    BY <2>2, <2>7 DEF Restart, NewLoop
  <2> QED
    BY <2>1, <2>5, <2>6, <2>7 DEF vars, streamVars, Next, ClusterStep, NodeConfirms,
       NodePings, SocketDrops, OnlySocket, SourceStep, EnsureConnected, Connect,
       AwaitConfirmation, Read, Receive, PollerStep, PollGap, SendGap, OnlyPoller, Cancel
<1>3. \E lost \in SUBSET InHand : InHand' = InHand \ lost
  <2>1. CASE InHand' = InHand
    BY <2>1
  <2>2. CASE InHand' = {}
    BY <2>2
  <2> QED
    BY <1>2, <2>1, <2>2
<1> QED
  BY <1>1, <1>3 DEF D!Interrupt

LEMMA HandleDelivers ==
  ASSUME IStreams, IOnce, Handle
  PROVE  D!Handle(Sig) /\ Sig \in Sigs
<1>1. loop \in LoopRecord /\ loop.pc \in {"logs", "handle"} /\ UNCHANGED tables
  BY DEF Handle, IStreams, TypeOK
<1>2. loop'.pc \in {"logmark", "mark"} /\ loop'.batch = loop.batch
  BY <1>1 DEF Handle, LoopRecord
<1>3. InHand = {} /\ InHand' = {Sig} /\ Sig \notin Recorded /\ Recorded' = Recorded
  BY <1>1, <1>2, RecordedFrame DEF InHand, Sig, IOnce, Fresh
<1>4. handled' = [handled EXCEPT ![Sig] = Min({@ + 1, MaxHandled})]
  BY DEF Handle
<1> QED
  BY <1>3, <1>4, HandleCounts DEF D!Handle, D!Min, Min

LEMMA MarkDelivers ==
  ASSUME IStreams, Mark
  PROVE  D!Record(Sig) /\ Sig \in Sigs
<1>1. loop.pc \in {"logmark", "mark"} /\ UNCHANGED handled /\ loop'.pc = "check1"
  BY DEF Mark, Advance, NewLoop
<1>2. InHand = {Sig} /\ InHand' = {}
  BY <1>1 DEF InHand
<1> QED
  BY <1>1, <1>2, MarkRecords DEF D!Record

\* The two sides, their duplicates, reconnections, errors and restarts amount
\* to Delivery: every step handles or records one transaction that was not
\* recorded, lets go of the one in hand, or changes nothing of it.
THEOREM StreamsImplementDelivery == Spec => Delivers
<1>1. Init => D!Init
  <2>1. ASSUME Init PROVE Recorded = {}
    BY <2>1 DEF Init, Recorded, InProcessed, InTentative
  <2>2. ASSUME Init PROVE InHand = {}
    BY <2>2 DEF Init, StreamsInit, NewLoop, InHand
  <2> QED
    BY <2>1, <2>2 DEF Init, StreamsInit, D!Init
<1>2. IStreams /\ IOnce /\ [Next]_vars => [D!Next]_(D!deliveryVars)
  BY OtherDelivers, HandleDelivers, MarkDelivers DEF D!Next
<1> QED
  BY <1>1, <1>2, InitOnce, NextOnce, InitStreams, NextStreams, PTL
     DEF Spec, Delivers, D!Spec

-----------------------------------------------------------------------------
(* The gap poller's cursor leaves nothing behind.                          *)

\* No reorganisation, and no more transactions at a poll than it asks for.
Undisturbed ==
  /\ reorgs = 0
  /\ Mode = "hybrid" /\ gap.pc = "poll" =>
       /\ IsFiniteSet(Found(Programs[1], gap.cursor))
       /\ Cardinality(Found(Programs[1], gap.cursor)) <= PollLimit

\* The cursor is absent or a transaction on the chain, and a poller that polls
\* and a loop that waits hold nothing.
HandsEmpty ==
  /\ gap.cursor = NoSig \/ OnChain(gap.cursor)
  /\ gap.pc = "poll" => gap.events = <<>>
  /\ loop.pc = "next" => loop.batch = <<>>

IGap == IStreams /\ Extensible /\ HandsEmpty /\ CursorLeavesNothing

Kept == Recorded \union InFlight \union failed

LEMMA SignaturesOfTail ==
  ASSUME NEW b \in Seq(Event), b # <<>>
  PROVE  Signatures(b) = {Head(b).sig} \union Signatures(Tail(b))
<1>1. Range(b) = {Head(b)} \union Range(Tail(b))
  BY RangeOfTail
<1>2. Signatures(b) = {e.sig : e \in Range(b)} /\ Signatures(Tail(b)) = {e.sig : e \in Range(Tail(b))}
  BY DEF Signatures, Range
<1> QED
  BY <1>1, <1>2

\* What is in flight, by who holds it.
Queued == UNION {Signatures(b) : b \in Range(channel)}

LEMMA WhoHolds ==
  /\ InFlight = Signatures(gap.events) \union Signatures(loop.batch) \union Queued
  /\ InFlight' = Signatures(gap'.events) \union Signatures(loop'.batch) \union Queued'
  BY DEF InFlight, Queued, Range

LEMMA NothingHeld == Signatures(<<>>) = {}
  BY DEF Signatures

\* The channel loses nothing, at either end.
LEMMA QueueGrows ==
  ASSUME HybridOK, NEW b \in Seq(Event), channel' = Append(channel, b)
  PROVE  Queued' = Queued \union Signatures(b)
<1>1. channel \in Seq(Seq(Event)) /\ Len(channel) \in Nat
  BY DEF HybridOK
<1>2. /\ DOMAIN channel = 1..Len(channel) /\ DOMAIN channel' = 1..(Len(channel) + 1)
      /\ channel'[Len(channel) + 1] = b
      /\ \A i \in 1..Len(channel) : channel'[i] = channel[i]
  BY <1>1, AppendProperties
<1>3. \A i \in 1..(Len(channel) + 1) : i \in 1..Len(channel) \/ i = Len(channel) + 1
  BY <1>1
<1>4. \A i \in 1..Len(channel) : i \in 1..(Len(channel) + 1)
  BY <1>1
<1>5. Len(channel) + 1 \in 1..(Len(channel) + 1)
  BY <1>1
<1>6. Range(channel') \subseteq Range(channel) \union {b}
  BY <1>2, <1>3 DEF Range
<1>7. Range(channel) \union {b} \subseteq Range(channel')
  BY <1>2, <1>4, <1>5 DEF Range
<1> QED
  BY <1>6, <1>7 DEF Queued

LEMMA QueueShrinks ==
  ASSUME HybridOK, channel # <<>>, channel' = Tail(channel)
  PROVE  Queued = Queued' \union Signatures(Head(channel))
<1>1. Range(channel) = {Head(channel)} \union Range(channel')
  BY RangeOfTail DEF HybridOK
<1> QED
  BY <1>1 DEF Queued

\* A step that loses nothing, at the same cursor.
LEMMA SameCursor ==
  ASSUME CursorLeavesNothing, UNCHANGED chainVars, gap'.cursor = gap.cursor,
         Alive' => Alive /\ Kept \subseteq Kept'
  PROVE  CursorLeavesNothing'
<1>1. \A x, y : (After(x, y)' <=> After(x, y)) /\ (OnChain(x)' <=> OnChain(x))
  BY DEF After, OnChain, Newer, SlotOn, TxsAt, chainVars
<1> QED
  BY <1>1 DEF CursorLeavesNothing, Kept

LEMMA InitGap == Init => IGap
<1> SUFFICES ASSUME Init PROVE IGap
  OBVIOUS
<1> QED
  BY InitStreams, ChainIsExtensible
     DEF Init, StreamsInit, IdlePoller, NewLoop, IGap, HandsEmpty, CursorLeavesNothing

\* A confirmed block lands beyond the cursor.
LEMMA ClusterKeeps ==
  ASSUME IGap, Undisturbed', ChainNext \/ UNCHANGED chainVars,
         UNCHANGED <<tables, gap, channel, loop, failed>>
  PROVE  HandsEmpty' /\ CursorLeavesNothing'
<1>1. Kept' = Kept
  BY RecordedFrame DEF Kept, InFlight
<1>2. ChainTypeOK /\ Extensible /\ reorgs' = 0
  BY DEF IGap, IStreams, TypeOK, Undisturbed
<1>3. HandsEmpty'
  BY <1>2, PlaceStays DEF IGap, HandsEmpty
<1>4. ASSUME NEW sig \in Sigs, Alive, gap.cursor # NoSig, OnChain(sig)',
             ~After(sig, gap.cursor)'
      PROVE  sig \in Kept
  <2>1. OnChain(gap.cursor)
    BY <1>4 DEF IGap, HandsEmpty
  <2>2. OnChain(sig) /\ ~After(sig, gap.cursor)
    BY <1>2, <1>4, <2>1, AfterStays
  <2> QED
    BY <1>4, <2>2 DEF IGap, CursorLeavesNothing, Kept
<1> QED
  BY <1>1, <1>3, <1>4 DEF CursorLeavesNothing, Kept, Alive

\* One poll: what is newer than the old cursor is in the batch, all of it.
LEMMA PollKeeps ==
  ASSUME SingleProgram, IGap, Undisturbed, PollGap
  PROVE  HandsEmpty' /\ CursorLeavesNothing'
<1>1. /\ gap \in PollerRecord /\ gap.program = 1 /\ gap.pc = "poll" /\ Mode = "hybrid"
      /\ gap.events = <<>> /\ UNCHANGED <<tables, chainVars, channel, loop, failed>>
  <2>1. gap \in PollerRecord /\ Len(Programs) = 1
    BY DEF IGap, IStreams, TypeOK, SingleProgram
  <2>2. gap.program = 1
    BY <2>1 DEF PollerRecord
  <2> QED
    BY <2>1, <2>2 DEF PollGap, OnlyPoller, IGap, HandsEmpty
<1>2. \A x, y : (After(x, y)' <=> After(x, y)) /\ (OnChain(x)' <=> OnChain(x))
  BY <1>1 DEF After, OnChain, Newer, SlotOn, TxsAt, chainVars
<1>3. Recorded' = Recorded /\ Queued' = Queued
  BY <1>1, RecordedFrame DEF Queued
<1>4. CASE gap' = [gap EXCEPT !.program = FollowingProgram]
  <2>1. gap'.cursor = gap.cursor /\ gap'.events = gap.events /\ gap'.pc = gap.pc
    BY <1>1, <1>4 DEF PollerRecord
  <2>2. Kept' = Kept
    BY <1>1, <1>3, <2>1, WhoHolds DEF Kept
  <2> QED
    BY <1>1, <1>2, <2>1, <2>2, SameCursor DEF IGap, HandsEmpty, Alive
<1>5. ASSUME NEW q \in Answers(Programs[1], gap.cursor, PollLimit), q # <<>>,
             gap' = [gap EXCEPT !.pc = "send", !.cursor = Head(q), !.events =
                       [i \in DOMAIN q |-> [sig |-> q[i], slot |-> SlotOn(q[i]), log |-> FALSE]]]
      PROVE  HandsEmpty' /\ CursorLeavesNothing'
  <2>1. q \in Seq(Sigs) /\ Range(q) = Found(Programs[1], gap.cursor)
    BY <1>1, AnswerDistinct, AnswerComplete, StreamsAssumption DEF Undisturbed
  <2>2. gap'.pc = "send" /\ gap'.cursor = Head(q) /\ Signatures(gap'.events) = Range(q)
    BY <1>1, <1>5 DEF PollerRecord, Signatures, Range
  <2>3. Head(q) \in Range(q)
    BY <1>5, <2>1, RangeOfTail
  <2>4. HandsEmpty'
    BY <1>1, <1>2, <2>1, <2>2, <2>3 DEF IGap, HandsEmpty, Found, After
  <2>5. ASSUME NEW sig \in Sigs, Alive, OnChain(sig) PROVE sig \in Kept \union Range(q)
    <3>1. After(sig, gap.cursor) => sig \in Range(q)
      BY <2>1 DEF Found, SingleProgram
    <3>2. gap.cursor = NoSig => After(sig, gap.cursor)
      BY <2>5 DEF After
    <3> QED
      BY <2>5, <3>1, <3>2 DEF IGap, CursorLeavesNothing, Kept
  <2>6. Kept \union Range(q) \subseteq Kept'
    BY <1>1, <1>3, <2>2, NothingHeld, WhoHolds DEF Kept
  <2> QED
    BY <1>1, <1>2, <2>4, <2>5, <2>6 DEF CursorLeavesNothing, Kept, Alive
<1> QED
  BY <1>1, <1>4, <1>5 DEF PollGap

\* The hand-overs: from the source to loop or channel, from the poller to the channel.
LEMMA SendKeeps ==
  ASSUME IGap, SendBatch \/ SendGap
  PROVE  HandsEmpty' /\ CursorLeavesNothing'
<1>1. /\ UNCHANGED <<tables, chainVars, failed>> /\ gap \in PollerRecord /\ ws \in SourceRecord
      /\ loop \in LoopRecord /\ HybridOK
  BY DEF SendBatch, SendGap, OnlySource, OnlyPoller, IGap, IStreams, TypeOK, HybridOK
<1>2. \A x : OnChain(x)' <=> OnChain(x)
  BY <1>1 DEF OnChain, TxsAt, chainVars
<1>3. Recorded' = Recorded
  BY <1>1, RecordedFrame
<1>4. CASE SendBatch /\ Mode = "websocket"
  <2>1. /\ UNCHANGED <<gap, channel>> /\ loop.pc = "next" /\ loop.batch = <<>> /\ loop'.pc = "check1"
    BY <1>1, <1>4 DEF SendBatch, SourceRuns, OnlySource, IGap, HandsEmpty, LoopRecord
  <2>2. Kept \subseteq Kept'
    BY <1>1, <1>3, <2>1, WhoHolds, NothingHeld DEF Kept, Queued
  <2> QED
    BY <1>1, <1>2, <2>1, <2>2, SameCursor DEF IGap, HandsEmpty, Alive
<1>5. CASE SendBatch /\ Mode # "websocket"
  <2>1. UNCHANGED <<gap, loop>> /\ channel' = Append(channel, ws.out) /\ ws.out \in Seq(Event)
    BY <1>1, <1>5 DEF SendBatch, OnlySource, SourceRecord
  <2>2. Queued' = Queued \union Signatures(ws.out)
    BY <1>1, <2>1, QueueGrows
  <2>3. Kept \subseteq Kept'
    BY <1>1, <1>3, <2>1, <2>2, WhoHolds DEF Kept
  <2> QED
    BY <1>1, <1>2, <2>1, <2>3, SameCursor DEF IGap, HandsEmpty, Alive
<1>6. CASE SendGap
  <2>1. /\ UNCHANGED loop /\ channel' = Append(channel, gap.events) /\ gap.events \in Seq(Event)
        /\ gap'.pc = "poll" /\ gap'.events = <<>> /\ gap'.cursor = gap.cursor
    BY <1>1, <1>6 DEF SendGap, OnlyPoller, PollerRecord
  <2>2. Queued' = Queued \union Signatures(gap.events)
    BY <1>1, <2>1, QueueGrows
  <2>3. Kept \subseteq Kept'
    BY <1>1, <1>3, <2>1, <2>2, WhoHolds, NothingHeld DEF Kept
  <2> QED
    BY <1>1, <1>2, <2>1, <2>3, SameCursor DEF IGap, HandsEmpty, Alive
<1> QED
  BY <1>4, <1>5, <1>6

\* The loop passes on only from what is recorded, or what it gave up on.
LEMMA LoopKeeps ==
  ASSUME IGap, LoopStep
  PROVE  HandsEmpty' /\ CursorLeavesNothing'
<1>1. /\ UNCHANGED <<chainVars, gap>> /\ loop \in LoopRecord /\ loop.batch \in Seq(Event)
      /\ HybridOK /\ LoopKnows(loop, handled)
  BY DEF LoopStep, TakeBatch, StopLoop, CheckProcessed, CheckTentative, FetchTransaction,
     FetchBlock, Handle, Mark, GiveUp, StopOnError, OnlyLoop, IGap, IStreams, TypeOK, HybridOK,
     LoopRecord
<1>2. \A x : OnChain(x)' <=> OnChain(x)
  BY <1>1 DEF OnChain, TxsAt, chainVars
<1>3. loop.pc # "stopped"
  BY DEF LoopStep, TakeBatch, StopLoop, CheckProcessed, CheckTentative, FetchTransaction,
     FetchBlock, Handle, Mark, GiveUp, StopOnError
<1>4. ASSUME Alive' => Kept \subseteq Kept', loop'.pc = "next" => loop'.batch = <<>>
      PROVE  HandsEmpty' /\ CursorLeavesNothing'
  BY <1>1, <1>2, <1>3, <1>4, SameCursor DEF IGap, HandsEmpty, Alive
<1>5. ASSUME Advance, UNCHANGED channel, loop.batch # <<>>,
             Sig \in Recorded' \union failed', Recorded \subseteq Recorded', failed \subseteq failed'
      PROVE  HandsEmpty' /\ CursorLeavesNothing'
  <2>1. loop'.pc = "check1" /\ loop'.batch = Tail(loop.batch)
    BY <1>5 DEF Advance, NewLoop
  <2>2. Signatures(loop.batch) = {Sig} \union Signatures(loop'.batch)
    BY <1>1, <1>5, <2>1, SignaturesOfTail DEF Sig
  <2>3. Kept \subseteq Kept'
    BY <1>1, <1>5, <2>2, WhoHolds DEF Kept, Queued
  <2> QED
    BY <1>4, <2>1, <2>3
<1>6. ASSUME UNCHANGED <<tables, channel, failed>>, loop'.batch = loop.batch, loop'.pc # "next"
      PROVE  HandsEmpty' /\ CursorLeavesNothing'
  <2>1. Kept' = Kept
    BY <1>1, <1>6, RecordedFrame, WhoHolds DEF Kept, Queued
  <2> QED
    BY <1>4, <1>6, <2>1
<1>7. CASE TakeBatch
  <2>1. /\ loop.batch = <<>> /\ loop'.batch = Head(channel) /\ loop'.pc = "check1"
        /\ UNCHANGED <<tables, failed>> /\ channel # <<>> /\ channel' = Tail(channel)
    BY <1>1, <1>7 DEF TakeBatch, IGap, HandsEmpty, LoopRecord
  <2>2. Queued = Queued' \union Signatures(loop'.batch)
    BY <1>1, <2>1, QueueShrinks
  <2>3. Kept \subseteq Kept'
    BY <1>1, <2>1, <2>2, RecordedFrame, WhoHolds, NothingHeld DEF Kept
  <2> QED
    BY <1>4, <2>1, <2>3
<1>8. CASE StopLoop \/ StopOnError
  <2>1. loop'.pc = "stopped"
    BY <1>8 DEF StopLoop, StopOnError, NewLoop
  <2> QED
    BY <1>4, <2>1 DEF Alive
<1>9. CASE CheckProcessed
  <2>1. UNCHANGED <<tables, channel, failed>>
    BY <1>9 DEF CheckProcessed
  <2>2. CASE loop.batch = <<>> /\ loop' = [NewLoop EXCEPT !.pc = IF cancelled THEN "stopped" ELSE "next"]
    <3>1. loop'.batch = loop.batch
      BY <2>2 DEF NewLoop
    <3>2. Kept' = Kept
      BY <1>1, <2>1, <3>1, RecordedFrame, WhoHolds DEF Kept, Queued
    <3> QED
      BY <1>4, <2>2, <3>1, <3>2
  <2>3. CASE loop.batch # <<>> /\ InProcessed(Sig) /\ Advance
    <3>1. Sig \in Recorded
      <4>1. Head(loop.batch) \in Event
        BY <1>1, <2>3
      <4> QED
        BY <2>3, <4>1 DEF Recorded, Event, Sig
    <3> QED
      BY <1>5, <2>1, <2>3, <3>1, RecordedFrame
  <2>4. CASE loop' = [loop EXCEPT !.pc = "check2"]
    BY <1>1, <1>6, <2>1, <2>4 DEF LoopRecord
  <2> QED
    BY <1>9, <2>2, <2>3, <2>4 DEF CheckProcessed
<1>10. CASE CheckTentative
  <2>1. UNCHANGED <<tables, channel, failed>> /\ loop.batch # <<>>
    BY <1>1, <1>10 DEF CheckTentative, LoopKnows
  <2>2. CASE InTentative(Sig) /\ Advance
    <3>1. Sig \in Recorded
      <4>1. Head(loop.batch) \in Event
        BY <1>1, <2>1
      <4> QED
        BY <2>2, <4>1 DEF Recorded, Event, Sig
    <3> QED
      BY <1>5, <2>1, <2>2, <3>1, RecordedFrame
  <2>3. CASE loop' = [loop EXCEPT !.pc = IF FromLogs THEN "logs" ELSE "fetch"]
    <3>1. loop'.batch = loop.batch /\ loop'.pc \in {"logs", "fetch"}
      BY <1>1, <2>3 DEF LoopRecord
    <3> QED
      BY <1>6, <2>1, <3>1
  <2> QED
    BY <1>10, <2>2, <2>3 DEF CheckTentative
<1>11. CASE FetchTransaction \/ FetchBlock \/ Handle
  <2>1. UNCHANGED <<tables, channel, failed>>
    BY <1>11 DEF FetchTransaction, FetchBlock, Handle
  <2>2. loop'.batch = loop.batch /\ loop'.pc # "next"
    <3>1. CASE FetchTransaction
      BY <1>1, <3>1 DEF FetchTransaction, LoopRecord
    <3>2. CASE FetchBlock
      BY <1>1, <3>2 DEF FetchBlock, LoopRecord
    <3>3. CASE Handle
      BY <1>1, <3>3 DEF Handle, LoopRecord
    <3> QED
      BY <1>11, <3>1, <3>2, <3>3
  <2> QED
    BY <1>6, <2>1, <2>2
<1>12. CASE Mark
  <2>1. Recorded' = Recorded \union {Sig}
    BY <1>12, MarkRecords DEF IGap
  <2>2. UNCHANGED <<channel, failed>> /\ Advance /\ loop.batch # <<>>
    BY <1>1, <1>12 DEF Mark, LoopKnows
  <2> QED
    BY <1>5, <2>1, <2>2
<1>13. CASE GiveUp
  <2>1. UNCHANGED <<tables, channel>> /\ Advance /\ failed' = failed \union {Sig} /\ loop.batch # <<>>
    BY <1>1, <1>13 DEF GiveUp, LoopKnows
  <2> QED
    BY <1>5, <2>1, RecordedFrame
<1> QED
  BY <1>7, <1>8, <1>9, <1>10, <1>11, <1>12, <1>13 DEF LoopStep

LEMMA NextGap ==
  ASSUME SingleProgram, IGap, Undisturbed, Undisturbed', [Next]_vars
  PROVE  IGap'
<1>1. IStreams'
  BY NextStreams DEF IGap
<1>2. Extensible'
  <2>1. ChainNext \/ UNCHANGED chainVars
    BY DEF vars, Next, ClusterStep, NodeConfirms, NodePings, SocketDrops, SourceStep,
       EnsureConnected, Connect, AwaitConfirmation, Read, Receive, SendBatch, OnlySource,
       PollerStep, PollGap, SendGap, OnlyPoller, LoopStep, TakeBatch, StopLoop, CheckProcessed,
       CheckTentative, FetchTransaction, FetchBlock, Handle, Mark, GiveUp, StopOnError, OnlyLoop,
       Restart, Cancel
  <2> QED
    BY <2>1, ChainExtends DEF IGap, IStreams, TypeOK, Undisturbed
<1> SUFFICES HandsEmpty' /\ CursorLeavesNothing'
  BY <1>1, <1>2 DEF IGap
<1>3. CASE ClusterStep \/ NodeConfirms \/ NodePings \/ SocketDrops \/ Cancel \/ UNCHANGED vars
  <2>1. UNCHANGED <<tables, gap, channel, loop, failed>> /\ (ChainNext \/ UNCHANGED chainVars)
    BY <1>3 DEF ClusterStep, NodeConfirms, NodePings, SocketDrops, OnlySocket, Cancel, vars,
       streamVars
  <2> QED
    BY <2>1, ClusterKeeps
<1>4. CASE EnsureConnected \/ Connect \/ AwaitConfirmation \/ Read \/ Receive
  <2>1. UNCHANGED <<tables, gap, channel, loop, failed, chainVars>>
    BY <1>4 DEF EnsureConnected, Connect, AwaitConfirmation, Read, Receive, OnlySource
  <2> QED
    BY <2>1, ClusterKeeps
<1>5. CASE Restart
  <2>1. gap'.cursor = NoSig /\ gap'.events = <<>> /\ loop'.batch = <<>>
    BY <1>5 DEF Restart, IdlePoller, NewLoop
  <2> QED
    BY <2>1 DEF HandsEmpty, CursorLeavesNothing
<1> QED
  BY <1>3, <1>4, <1>5, PollKeeps, SendKeeps, LoopKeeps DEF Next, SourceStep, PollerStep

\* With one program, on a chain that is not reorganised and with requests that
\* hold all that is new, nothing at or below the poller's cursor is lost
\* between poller, channel and loop while the process lives.
THEOREM StreamsLeaveNothing ==
  ASSUME SingleProgram
  PROVE  Spec /\ []Undisturbed => []CursorLeavesNothing
<1>1. IGap /\ Undisturbed /\ Undisturbed' /\ [Next]_vars => IGap'
  BY NextGap
<1>2. IGap => CursorLeavesNothing
  BY DEF IGap
<1> QED
  BY InitGap, <1>1, <1>2, PTL DEF Spec
=============================================================================
