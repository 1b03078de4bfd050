------------------------- MODULE FullStreamsProofs -------------------------
(***************************************************************************)
(* Proofs about Helius and Laserstream and their loops, for every chain,   *)
(* capacity, limit of a batch, number of permits and fault budget.         *)
(*                                                                         *)
(* IFull says what every counter knows of its record; IRows adds the order *)
(* of the statements, IDropped where an event is, IOnce how many there are.*)
(***************************************************************************)
EXTENDS FullStreams, SharedProofs

SocketRecord ==
  [open : BOOLEAN, subscribed : BOOLEAN, wire : Seq(Event \union {Other}), drops : 0..MaxDrops]
FeedRecord == [pc : {"connect", "read", "send", "ended"}, event : Event \union {NoEvent}]
LoopRecord ==
  [pc : {"next", "event", "check2", "dispatch", "await", "stopped"}, batch : Seq(Event)]
JobRecord ==
  [pc : JobPcs, event : Event \union {NoEvent}, hash : StoredHashes \union {NoHash}]

\* What a program counter says about the rest of its record.
JobKnows(r) ==
  /\ r.pc # "idle" => r.event \in Event
  /\ r.pc \notin {"idle", "block"} => r.hash \in StoredHashes
LoopKnows(r) == r.pc \in {"check2", "dispatch"} => r.batch # <<>>

\* TypeOK, with what the counters know, by the parts that change together.
SharedOK == StorageTypeOK /\ ChainTypeOK /\ ProcessTypeOK
FeedOK ==
  /\ sock \in SocketRecord /\ feed \in FeedRecord
  /\ feed.pc = "send" => feed.event \in Event
ChannelOK == channel \in Seq(Event) /\ Len(channel) <= Capacity
LoopOK == loop \in LoopRecord /\ Len(loop.batch) <= BatchLimit /\ LoopKnows(loop)
JobsOK ==
  /\ job \in [Jobs -> JobRecord]
  /\ \A j \in Jobs : JobKnows(job[j])
  /\ IsFiniteSet(Busy) /\ Cardinality(Busy) <= Permits
CountsOK ==
  /\ delivered \in [Sigs -> 0..MaxHandled] /\ handled \in [Sigs -> 0..MaxHandled]
  /\ failed \subseteq Sigs

IFull ==
  /\ source \in Sources
  /\ SharedOK /\ FeedOK /\ ChannelOK /\ LoopOK /\ JobsOK /\ CountsOK

LEMMA Typed == IFull => TypeOK
  BY DEF IFull, SharedOK, FeedOK, ChannelOK, LoopOK, JobsOK, CountsOK, TypeOK, SocketRecord,
         FeedRecord, LoopRecord, JobRecord, Busy

-----------------------------------------------------------------------------
(* Each part is kept by the steps that leave it alone.                     *)

LEMMA SharedStep ==
  ASSUME SharedOK,
         UNCHANGED tables, ChainNext \/ UNCHANGED chainVars, cancelled' \in BOOLEAN,
         \/ UNCHANGED faults
         \/ \E kind \in {"crash", "cancel", "db", "rpc", "handler"} : Fault(kind)
  PROVE  SharedOK'
  BY StorageFrame, ChainStep, FaultType DEF SharedOK

LEMMA FeedFrame == FeedOK /\ UNCHANGED <<sock, feed>> => FeedOK'
  BY DEF FeedOK

LEMMA ChannelFrame == ChannelOK /\ UNCHANGED channel => ChannelOK'
  BY DEF ChannelOK

LEMMA LoopFrame == LoopOK /\ UNCHANGED loop => LoopOK'
  BY DEF LoopOK

LEMMA JobsFrame == JobsOK /\ UNCHANGED job => JobsOK'
  BY DEF JobsOK, Busy

LEMMA CountsFrame == CountsOK /\ UNCHANGED <<delivered, handled, failed>> => CountsOK'
  BY DEF CountsOK

LEMMA NoEvents == NoEvent \notin Event /\ Other \notin Event /\ <<>> \in Seq(Event)
  BY DEF NoEvent, Other, Event, NoSlot, Slots

LEMMA ClosedSocket ==
  ASSUME sock \in SocketRecord, NEW open \in BOOLEAN, NEW subscribed \in BOOLEAN,
         NEW wire \in Seq(Event \union {Other})
  PROVE  Socket(open, subscribed, wire) \in SocketRecord
  BY DEF Socket, SocketRecord

LEMMA LeastOfTwo ==
  ASSUME NEW a \in Nat, NEW b \in Nat
  PROVE  Min({a, b}) \in {a, b} /\ Min({a, b}) <= a /\ Min({a, b}) <= b
<1>1. \E x \in {a, b} : \A y \in {a, b} : x <= y
  BY SMT
<1> QED
  BY <1>1 DEF Min

LEMMA CountedType ==
  ASSUME NEW history \in [Sigs -> 0..MaxHandled], NEW sig \in Sigs
  PROVE  /\ Counted(history, sig) \in [Sigs -> 0..MaxHandled]
         /\ Counted(history, sig)[sig] > 0
         /\ Counted(history, sig)[sig] \in {history[sig] + 1, MaxHandled}
         /\ Counted(history, sig)[sig] <= history[sig] + 1
         /\ \A other \in Sigs : other # sig => Counted(history, sig)[other] = history[other]
<1>1. MaxHandled \in Nat \ {0} /\ history[sig] \in Nat /\ history[sig] <= MaxHandled
  BY FullStreamsAssumption
<1> DEFINE n == Min({history[sig] + 1, MaxHandled})
<1>2. n \in {history[sig] + 1, MaxHandled} /\ n <= history[sig] + 1 /\ n <= MaxHandled
  BY <1>1, LeastOfTwo
<1>3. Counted(history, sig) = [history EXCEPT ![sig] = n]
  BY DEF Counted
<1> HIDE DEF n
<1> QED
  BY <1>1, <1>2, <1>3

-----------------------------------------------------------------------------
(* The node and the network.                                               *)

LEMMA NotificationType ==
  ASSUME ChainTypeOK', NEW s \in Slots
  PROVE  Notifications(s) \in Seq(Event \union {Other})
<1> DEFINE txs == TxsAt(chain', s)
           n == Cardinality(txs)
           q == SetToSeq(txs)
<1>1. txs \subseteq Sigs /\ IsFiniteSet(txs)
  BY ChainAssumption, FS_EmptySet DEF ChainTypeOK, TxsAt
<1>2. n \in Nat /\ ExistsBijection(1..n, txs)
  BY <1>1, FS_CardinalityType
<1> HIDE DEF txs, n
<1>3. PICK f \in Bijection(1..n, txs) : TRUE
  BY <1>2 DEF ExistsBijection
<1>4. f \in [1..n -> txs] /\ \A a, b \in 1..n : f[a] = f[b] => a = b
  BY <1>3 DEF Bijection, Injection, IsInjective
<1>5. q \in [1..n -> txs]
  <2>1. IsInjective(f)
    BY <1>4 DEF IsInjective
  <2> QED
    BY <1>4, <2>1 DEF SetToSeq, n
<1> HIDE DEF q
<1>6. DOMAIN q = 1..n /\ \A i \in 1..n : [sig |-> q[i], slot |-> s] \in Event
  BY <1>1, <1>5 DEF Event
<1>7. Notifications(s) = [i \in DOMAIN q |-> [sig |-> q[i], slot |-> s]]
  BY DEF Notifications, q, txs
<1>8. Notifications(s) \in [1..n -> Event \union {Other}]
  BY <1>6, <1>7
<1> QED
  BY <1>2, <1>8

LEMMA NodeFull ==
  ASSUME IFull, ClusterStep \/ NodeSubscribes \/ SocketDrops
  PROVE  IFull'
<1>1. UNCHANGED <<tables, processVars, source, feed, channel, loop, job, delivered, handled,
                  failed>>
  BY DEF ClusterStep, NodeSubscribes, SocketDrops, OnlySocket
<1>2. SharedOK'
  <2>1. ChainNext \/ UNCHANGED chainVars
    BY DEF ClusterStep, NodeSubscribes, SocketDrops
  <2>2. cancelled' \in BOOLEAN
    BY <1>1 DEF processVars, IFull, SharedOK, ProcessTypeOK
  <2> QED
    BY <1>1, <2>1, <2>2, SharedStep DEF processVars, IFull
<1>3. sock \in SocketRecord
  BY DEF IFull, FeedOK
<1>4. sock' \in SocketRecord
  <2>1. CASE ClusterStep
    <3>1. CASE UNCHANGED sock
      BY <1>3, <3>1
    <3>2. ASSUME NEW s \in Slots, sock' = [sock EXCEPT !.wire = @ \o Notifications(s)]
          PROVE  sock' \in SocketRecord
      <4> DEFINE wire == sock.wire \o Notifications(s)
      <4>1. Notifications(s) \in Seq(Event \union {Other})
        BY <1>2, NotificationType DEF SharedOK
      <4>2. wire \in Seq(Event \union {Other})
        BY <1>3, <4>1 DEF SocketRecord
      <4>3. sock' = [sock EXCEPT !.wire = wire]
        BY <3>2
      <4> HIDE DEF wire
      <4> QED
        BY <1>3, <4>2, <4>3 DEF SocketRecord
    <3> QED
      BY <2>1, <3>1, <3>2 DEF ClusterStep
  <2>2. CASE NodeSubscribes
    <3>1. Append(sock.wire, Other) \in Seq(Event \union {Other})
      BY <1>3 DEF SocketRecord
    <3> QED
      BY <1>3, <2>2, <3>1, ClosedSocket DEF NodeSubscribes
  <2>3. CASE SocketDrops
    <3>1. PICK n \in 0..Len(sock.wire) :
            sock' = [Socket(FALSE, FALSE, SubSeq(sock.wire, 1, n)) EXCEPT !.drops = @ + 1]
      BY <2>3 DEF SocketDrops
    <3>2. sock.wire \in Seq(Event \union {Other})
      BY <1>3 DEF SocketRecord
    <3>3. SubSeq(sock.wire, 1, n) \in Seq(Event \union {Other})
      BY <3>2, SubSeqProperties
    <3>4. sock.drops + 1 \in 0..MaxDrops
      BY <1>3, <2>3, FullStreamsAssumption DEF SocketDrops, SocketRecord
    <3> QED
      BY <3>1, <3>3, <3>4 DEF Socket, SocketRecord
  <2> QED
    BY <2>1, <2>2, <2>3
<1>5. FeedOK'
  BY <1>1, <1>4 DEF IFull, FeedOK
<1> QED
  BY <1>1, <1>2, <1>5, ChannelFrame, LoopFrame, JobsFrame, CountsFrame DEF IFull

-----------------------------------------------------------------------------
(* run_stream.                                                             *)

LEMMA FeedFull ==
  ASSUME IFull, FeedStep
  PROVE  IFull'
<1>1. UNCHANGED <<tables, chainVars, cancelled, faults, source, loop, job, handled, failed>>
  BY DEF FeedStep, Connect, Read, Send, OnlyFeed
<1>2. SharedOK'
  <2>1. cancelled' \in BOOLEAN
    BY <1>1 DEF IFull, SharedOK, ProcessTypeOK
  <2> QED
    BY <1>1, <2>1, SharedStep DEF IFull
<1>3. /\ sock \in SocketRecord /\ feed \in FeedRecord
      /\ feed.pc = "send" => feed.event \in Event
      /\ channel \in Seq(Event) /\ Len(channel) <= Capacity
      /\ delivered \in [Sigs -> 0..MaxHandled]
  BY DEF IFull, FeedOK, ChannelOK, CountsOK
<1>4. SUFFICES FeedOK' /\ ChannelOK' /\ delivered' \in [Sigs -> 0..MaxHandled]
  BY <1>1, <1>2, LoopFrame, JobsFrame DEF IFull, CountsOK
<1>5. CASE Connect
  <2>1. sock' \in SocketRecord
    <3>1. <<>> \in Seq(Event \union {Other})
      OBVIOUS
    <3> QED
      BY <1>3, <1>5, <3>1, ClosedSocket DEF Connect
  <2> QED
    BY <1>3, <1>5, <2>1, ChannelFrame DEF Connect, FeedOK, FeedRecord, ChannelOK
<1>6. CASE Read
  <2>1. CASE /\ sock.wire # <<>>
             /\ feed' = IF Head(sock.wire) = Other THEN feed
                        ELSE [pc |-> "send", event |-> Head(sock.wire)]
             /\ sock' = [sock EXCEPT !.wire = Tail(@)]
    <3>1. Head(sock.wire) \in Event \union {Other} /\ Tail(sock.wire) \in Seq(Event \union {Other})
      BY <1>3, <2>1 DEF SocketRecord
    <3>2. sock' \in SocketRecord
      BY <1>3, <2>1, <3>1 DEF SocketRecord
    <3>3. feed' \in FeedRecord /\ (feed'.pc = "send" => feed'.event \in Event)
      BY <1>3, <2>1, <3>1 DEF FeedRecord
    <3> QED
      BY <1>3, <1>6, <3>2, <3>3 DEF Read, FeedOK, ChannelOK
  <2>2. CASE feed' = IdleFeed /\ UNCHANGED sock
    BY <1>3, <1>6, <2>2 DEF Read, FeedOK, ChannelOK, IdleFeed, FeedRecord
  <2> QED
    BY <1>6, <2>1, <2>2 DEF Read
<1>7. CASE Send
  <2>1. feed.event \in Event
    BY <1>3, <1>7 DEF Send
  <2>2. CASE /\ Len(channel) < Capacity
             /\ channel' = Append(channel, feed.event)
             /\ delivered' = Counted(delivered, feed.event.sig)
             /\ feed' = [pc |-> "read", event |-> NoEvent]
             /\ UNCHANGED sock
    <3>1. Len(channel) \in Nat /\ Capacity \in Nat
      BY <1>3, FullStreamsAssumption
    <3>2. channel' \in Seq(Event) /\ Len(channel') = Len(channel) + 1
      BY <1>3, <2>1, <2>2
    <3>3. feed.event.sig \in Sigs
      BY <2>1 DEF Event
    <3>4. delivered' \in [Sigs -> 0..MaxHandled]
      BY <1>3, <2>2, <3>3, CountedType
    <3>5. feed' \in FeedRecord /\ feed'.pc = "read"
      BY <2>2 DEF FeedRecord
    <3> QED
      BY <1>3, <2>2, <3>1, <3>2, <3>4, <3>5 DEF FeedOK, ChannelOK
  <2>3. CASE /\ feed' = [IdleFeed EXCEPT !.pc = "ended"]
             /\ sock' = Socket(FALSE, FALSE, <<>>)
             /\ UNCHANGED <<channel, delivered>>
    <3>1. <<>> \in Seq(Event \union {Other})
      OBVIOUS
    <3>2. sock' \in SocketRecord
      BY <1>3, <2>3, <3>1, ClosedSocket
    <3>3. feed' \in FeedRecord /\ feed'.pc = "ended"
      BY <2>3 DEF IdleFeed, FeedRecord
    <3> QED
      BY <1>3, <2>3, <3>2, <3>3 DEF FeedOK, ChannelOK
  <2> QED
    BY <1>7, <2>2, <2>3 DEF Send
<1> QED
  BY <1>5, <1>6, <1>7 DEF FeedStep

-----------------------------------------------------------------------------
(* The loop.                                                               *)

LEMMA BatchHead ==
  ASSUME LoopOK, loop.batch # <<>>
  PROVE  /\ Head(loop.batch) \in Event /\ Sig \in Sigs
         /\ Tail(loop.batch) \in Seq(Event) /\ Len(Tail(loop.batch)) <= BatchLimit
<1>1. loop.batch \in Seq(Event) /\ Len(loop.batch) <= BatchLimit
  BY DEF LoopOK, LoopRecord
<1>2. Head(loop.batch) \in Event /\ Tail(loop.batch) \in Seq(Event)
      /\ Len(Tail(loop.batch)) = Len(loop.batch) - 1
  BY <1>1
<1>3. BatchLimit \in Nat /\ Len(loop.batch) \in Nat
  BY <1>1, FullStreamsAssumption
<1> QED
  BY <1>1, <1>2, <1>3 DEF Sig, Event

\* The two halves of a channel.
LEMMA Halves ==
  ASSUME NEW q \in Seq(Event), NEW n \in 0..Len(q)
  PROVE  /\ SubSeq(q, 1, n) \in Seq(Event) /\ Len(SubSeq(q, 1, n)) = n
         /\ SubSeq(q, n + 1, Len(q)) \in Seq(Event)
         /\ Len(SubSeq(q, n + 1, Len(q))) = Len(q) - n
         /\ \A i \in 1..n : SubSeq(q, 1, n)[i] = q[i]
         /\ \A i \in 1..(Len(q) - n) : SubSeq(q, n + 1, Len(q))[i] = q[n + i]
<1>1. Len(q) \in Nat /\ \A i \in 1..Len(q) : q[i] \in Event
  OBVIOUS
<1> QED
  BY <1>1, SubSeqProperties

LEMMA Received ==
  ASSUME ChannelOK
  PROVE  LET n == Min({Len(channel), BatchLimit})
         IN  n \in 0..Len(channel) /\ n <= BatchLimit
<1>1. Len(channel) \in Nat /\ BatchLimit \in Nat
  BY FullStreamsAssumption DEF ChannelOK
<1> QED
  BY <1>1, LeastOfTwo

LEMMA LoopFull ==
  ASSUME IFull, LoopStep
  PROVE  IFull'
<1>1. UNCHANGED <<tables, chainVars, cancelled, source, sock, feed, delivered, handled, failed>>
  BY DEF LoopStep, NextBatch, StopLoop, NextEvent, CheckTentative, StopOnError, Dispatch, Await,
         OnlyLoop
<1>2. SharedOK'
  <2>1. UNCHANGED faults \/ Fault("db")
    BY DEF LoopStep, NextBatch, StopLoop, NextEvent, CheckTentative, StopOnError, Dispatch, Await
  <2>2. cancelled' \in BOOLEAN
    BY <1>1 DEF IFull, SharedOK, ProcessTypeOK
  <2> QED
    BY <1>1, <2>1, <2>2, SharedStep DEF IFull
<1>3. SUFFICES ChannelOK' /\ LoopOK' /\ JobsOK'
  BY <1>1, <1>2, FeedFrame, CountsFrame DEF IFull
<1>4. ChannelOK /\ LoopOK /\ JobsOK
  BY DEF IFull
<1>5. /\ loop \in LoopRecord /\ Len(loop.batch) <= BatchLimit /\ LoopKnows(loop)
      /\ channel \in Seq(Event) /\ Len(channel) <= Capacity
      /\ BatchLimit \in Nat /\ Capacity \in Nat
  BY <1>4, FullStreamsAssumption DEF LoopOK, ChannelOK
<1>6. /\ <<>> \in Seq(Event) /\ Len(<<>>) <= BatchLimit /\ Len(<<>>) <= Capacity
  BY <1>5
<1>7. ASSUME NEW pc \in {"next", "stopped"}, loop' = [NewLoop EXCEPT !.pc = pc] PROVE LoopOK'
  BY <1>6, <1>7 DEF NewLoop, LoopOK, LoopRecord, LoopKnows
<1>8. ASSUME loop.batch # <<>>, Advance PROVE LoopOK'
  BY <1>4, <1>8, BatchHead DEF Advance, LoopOK, LoopRecord, LoopKnows
<1>9. ASSUME NEW pc \in {"event", "await"}, loop' = [loop EXCEPT !.pc = pc] PROVE LoopOK'
  BY <1>5, <1>9 DEF LoopOK, LoopRecord, LoopKnows
<1>10. ASSUME loop.batch # <<>>, NEW pc \in {"check2", "dispatch"}, loop' = [loop EXCEPT !.pc = pc]
       PROVE  LoopOK'
  BY <1>5, <1>10 DEF LoopOK, LoopRecord, LoopKnows
<1>11. CASE NextBatch
  <2> DEFINE n == Min({Len(channel), BatchLimit})
             batch == SubSeq(channel, 1, n)
             rest == SubSeq(channel, n + 1, Len(channel))
  <2>1. n \in 0..Len(channel) /\ n <= BatchLimit
    BY <1>4, Received
  <2>2. loop' = [pc |-> "event", batch |-> batch] /\ channel' = rest /\ UNCHANGED job
    BY <1>11 DEF NextBatch
  <2> HIDE DEF n
  <2>3. /\ batch \in Seq(Event) /\ Len(batch) = n
        /\ rest \in Seq(Event) /\ Len(rest) = Len(channel) - n
    BY <1>5, <2>1, Halves
  <2>4. Len(channel) \in Nat
    BY <1>5
  <2> HIDE DEF batch, rest
  <2>5. LoopOK'
    BY <2>1, <2>2, <2>3 DEF LoopOK, LoopRecord, LoopKnows
  <2>6. ChannelOK'
    BY <1>5, <2>1, <2>2, <2>3, <2>4 DEF ChannelOK
  <2> QED
    BY <1>4, <2>2, <2>5, <2>6, JobsFrame
<1>12. CASE StopLoop \/ StopOnError
  <2>1. loop' = [NewLoop EXCEPT !.pc = "stopped"] /\ channel' = <<>> /\ UNCHANGED job
    BY <1>12 DEF StopLoop, StopOnError
  <2> QED
    BY <1>4, <1>6, <1>7, <2>1, JobsFrame DEF ChannelOK
<1>13. CASE NextEvent
  <2>1. UNCHANGED job /\ channel' \in {<<>>, channel}
    BY <1>13 DEF NextEvent
  <2>2. ChannelOK'
    BY <1>5, <1>6, <2>1 DEF ChannelOK
  <2>3. CASE loop.batch = <<>>
    BY <1>4, <1>7, <1>13, <2>1, <2>2, <2>3, JobsFrame DEF NextEvent
  <2>4. CASE loop.batch # <<>> /\ Helius /\ InProcessed(Sig)
    BY <1>4, <1>8, <1>13, <2>1, <2>2, <2>4, JobsFrame DEF NextEvent
  <2>5. CASE loop.batch # <<>> /\ ~(Helius /\ InProcessed(Sig))
    BY <1>4, <1>10, <1>13, <2>1, <2>2, <2>5, JobsFrame DEF NextEvent
  <2> QED
    BY <2>3, <2>4, <2>5
<1>14. CASE CheckTentative
  <2>1. loop.batch # <<>> /\ UNCHANGED <<channel, job>>
    BY <1>5, <1>14 DEF CheckTentative, LoopKnows
  <2>2. CASE InTentative(Sig)
    BY <1>4, <1>8, <1>14, <2>1, <2>2, JobsFrame, ChannelFrame DEF CheckTentative
  <2>3. CASE ~InTentative(Sig)
    BY <1>4, <1>10, <1>14, <2>1, <2>3, JobsFrame, ChannelFrame DEF CheckTentative
  <2> QED
    BY <2>2, <2>3
<1>15. CASE Dispatch
  <2>1. loop.batch # <<>> /\ UNCHANGED channel
    BY <1>5, <1>15 DEF Dispatch, LoopKnows
  <2>2. LoopOK'
    BY <1>4, <1>15, <2>1, BatchHead DEF Dispatch, LoopOK, LoopRecord, LoopKnows
  <2> DEFINE k == CHOOSE j \in Jobs \ Busy : TRUE
             r == [NoJob EXCEPT !.pc = "block", !.event = Head(loop.batch)]
  <2>3. k \in Jobs /\ k \notin Busy /\ job' = [job EXCEPT ![k] = r]
    BY <1>15 DEF Dispatch, Busy
  <2>4. r \in JobRecord /\ JobKnows(r) /\ r.pc = "block"
    BY <1>4, <2>1, BatchHead DEF NoJob, JobRecord, JobKnows, JobPcs
  <2> HIDE DEF k, r
  <2>5. job' \in [Jobs -> JobRecord] /\ \A j \in Jobs : JobKnows(job'[j])
    BY <1>4, <2>3, <2>4 DEF JobsOK
  <2>6. Busy' = Busy \union {k}
    BY <1>4, <2>3, <2>4 DEF JobsOK, Busy
  <2>7. IsFiniteSet(Busy') /\ Cardinality(Busy') = Cardinality(Busy) + 1
    BY <1>4, <2>3, <2>6, FS_AddElement DEF JobsOK
  <2>8. Cardinality(Busy) \in Nat /\ Permits \in Nat /\ Cardinality(Busy) < Permits
    BY <1>4, <1>15, FS_CardinalityType, FullStreamsAssumption DEF Dispatch, JobsOK
  <2>9. JobsOK'
    BY <2>5, <2>7, <2>8 DEF JobsOK
  <2> QED
    BY <1>4, <2>1, <2>2, <2>9, ChannelFrame
<1>16. CASE Await
  BY <1>4, <1>9, <1>16, JobsFrame, ChannelFrame DEF Await
<1> QED
  BY <1>11, <1>12, <1>13, <1>14, <1>15, <1>16 DEF LoopStep

-----------------------------------------------------------------------------
(* The tasks.                                                              *)

\* A task that goes on or ends takes no permit.
LEMMA JobReplaced ==
  ASSUME JobsOK, NEW j \in Jobs, job[j].pc # "idle",
         NEW r \in JobRecord, JobKnows(r), job' = [job EXCEPT ![j] = r]
  PROVE  JobsOK' /\ Busy' \subseteq Busy
<1>1. job' \in [Jobs -> JobRecord] /\ \A k \in Jobs : JobKnows(job'[k])
  BY DEF JobsOK
<1>2. Busy' \subseteq Busy
  BY DEF JobsOK, Busy
<1>3. IsFiniteSet(Busy') /\ Cardinality(Busy') <= Cardinality(Busy)
  BY <1>2, FS_Subset DEF JobsOK
<1>4. Cardinality(Busy') \in Nat /\ Cardinality(Busy) \in Nat /\ Permits \in Nat
  BY <1>3, FS_CardinalityType, FullStreamsAssumption DEF JobsOK
<1> QED
  BY <1>1, <1>2, <1>3, <1>4 DEF JobsOK

LEMMA NoJobKnows == NoJob \in JobRecord /\ JobKnows(NoJob)
  BY DEF NoJob, JobRecord, JobKnows, JobPcs

LEMMA JobHas ==
  ASSUME JobsOK, NEW j \in Jobs, job[j].pc # "idle"
  PROVE  /\ job[j] \in JobRecord /\ JobKnows(job[j])
         /\ job[j].event \in Event /\ job[j].event.sig \in Sigs /\ Slot(j) \in Slots
         /\ job[j].pc # "block" => job[j].hash \in StoredHashes
  BY DEF JobsOK, JobKnows, Event, Slot

\* What a task's step does to the task itself.
LEMMA JobMoves ==
  ASSUME JobsOK, ChainTypeOK, NEW j \in Jobs, JobStep(j)
  PROVE  /\ job[j].pc # "idle"
         /\ \E r \in JobRecord : JobKnows(r) /\ job' = [job EXCEPT ![j] = r]
<1>1. job[j].pc # "idle"
  BY DEF JobStep, JobBlock, JobHandle, JobMark, JobFails, JobError
<1>2. /\ job[j] \in JobRecord /\ JobKnows(job[j]) /\ job[j].event \in Event
      /\ Slot(j) \in Slots /\ (job[j].pc # "block" => job[j].hash \in StoredHashes)
  BY <1>1, JobHas
<1>3. ASSUME job[j].pc # "block", NEW pc \in JobPcs
      PROVE  [job[j] EXCEPT !.pc = pc] \in JobRecord /\ JobKnows([job[j] EXCEPT !.pc = pc])
  BY <1>2, <1>3 DEF JobRecord, JobKnows
<1>4. CASE JobBlock(j)
  <2>1. PICK h \in {UnknownHash} \union (IF BlockAvailable(Slot(j)) THEN {chain[Slot(j)]} ELSE {}) :
          job' = [job EXCEPT ![j] = [@ EXCEPT !.pc = "handle", !.hash = h]]
    BY <1>4 DEF JobBlock
  <2>2. h \in StoredHashes
    BY <1>2, <2>1, AvailableBlock, TypesAssumption DEF StoredHashes, Slots
  <2> DEFINE r == [job[j] EXCEPT !.pc = "handle", !.hash = h]
  <2>3. r \in JobRecord /\ JobKnows(r)
    BY <1>2, <2>2 DEF JobRecord, JobKnows, JobPcs
  <2>4. job' = [job EXCEPT ![j] = r]
    BY <2>1
  <2> QED
    BY <1>1, <2>3, <2>4
<1>5. CASE JobHandle(j)
  <2>1. PICK pc \in {"mark", "final1"} : job' = [job EXCEPT ![j].pc = pc]
    BY <1>5 DEF JobHandle
  <2>2. job' = [job EXCEPT ![j] = [job[j] EXCEPT !.pc = pc]]
    BY <2>1
  <2> QED
    BY <1>1, <1>3, <1>5, <2>2 DEF JobHandle, JobPcs
<1>6. CASE JobMark(j)
  <2> DEFINE after == CASE job[j].pc = "final1" -> "final2" [] job[j].pc = "final2" -> "final3"
                        [] job[j].pc = "final3" -> "processed" [] OTHER -> "idle"
             r == IF after = "idle" THEN NoJob ELSE [job[j] EXCEPT !.pc = after]
  <2>1. after \in JobPcs /\ job[j].pc # "block"
    BY <1>6 DEF JobMark, JobPcs
  <2>2. job' = [job EXCEPT ![j] = r]
    BY <1>6 DEF JobMark
  <2> HIDE DEF after
  <2>3. r \in JobRecord /\ JobKnows(r)
    BY <1>3, <2>1, NoJobKnows
  <2> QED
    BY <1>1, <2>2, <2>3
<1>7. CASE JobFails(j)
  BY <1>1, <1>7, NoJobKnows DEF JobFails
<1> QED
  BY <1>4, <1>5, <1>6, <1>7 DEF JobStep

LEMMA JobFull ==
  ASSUME IFull, NEW j \in Jobs, JobStep(j)
  PROVE  IFull'
<1>1. UNCHANGED <<chainVars, cancelled, source, sock, feed, channel, loop, delivered>>
  BY DEF JobStep, JobBlock, JobHandle, JobMark, JobFails, OnlyJob
<1>2. SharedOK /\ FeedOK /\ ChannelOK /\ LoopOK /\ JobsOK /\ CountsOK
  BY DEF IFull
<1>3. JobsOK' /\ job[j].pc # "idle"
  BY <1>2, JobMoves, JobReplaced DEF SharedOK
<1>4. /\ job[j].event.sig \in Sigs /\ Slot(j) \in Slots
      /\ job[j].pc # "block" => job[j].hash \in StoredHashes
  BY <1>2, <1>3, JobHas
<1>5. SUFFICES SharedOK' /\ CountsOK'
  BY <1>1, <1>2, <1>3, FeedFrame, ChannelFrame, LoopFrame DEF IFull
<1>6. cancelled' \in BOOLEAN
  BY <1>1, <1>2 DEF SharedOK, ProcessTypeOK
<1>7. CASE JobBlock(j)
  <2>1. UNCHANGED <<tables, faults, handled, failed>>
    BY <1>7 DEF JobBlock
  <2> QED
    BY <1>1, <1>2, <1>6, <2>1, SharedStep, CountsFrame
<1>8. CASE JobHandle(j)
  <2>1. UNCHANGED <<tables, faults, failed>> /\ handled' = Counted(handled, job[j].event.sig)
    BY <1>8 DEF JobHandle
  <2>2. handled' \in [Sigs -> 0..MaxHandled]
    BY <1>2, <1>4, <2>1, CountedType DEF CountsOK
  <2> QED
    BY <1>1, <1>2, <1>6, <2>1, <2>2, SharedStep DEF CountsOK
<1>9. CASE JobMark(j)
  <2>1. UNCHANGED <<faults, handled, failed>> /\ job[j].pc # "block"
    BY <1>9 DEF JobMark
  <2>2. StorageTypeOK'
    BY <1>2, <1>4, <1>9, <2>1, StatementTypes DEF JobMark, SharedOK
  <2>3. ChainTypeOK' /\ ProcessTypeOK'
    BY <1>1, <1>2, <2>1, ChainStep, ProcessFrame DEF SharedOK
  <2> QED
    BY <1>1, <1>2, <2>1, <2>2, <2>3, CountsFrame DEF SharedOK
<1>10. CASE JobFails(j)
  <2>1. /\ UNCHANGED <<tables, handled>> /\ Fault("db")
        /\ failed' = failed \union {job[j].event.sig}
    BY <1>10 DEF JobFails, JobError
  <2>2. failed' \subseteq Sigs
    BY <1>2, <1>4, <2>1 DEF CountsOK
  <2> QED
    BY <1>1, <1>2, <1>6, <2>1, <2>2, SharedStep DEF CountsOK
<1> QED
  BY <1>7, <1>8, <1>9, <1>10 DEF JobStep

LEMMA CancelFull ==
  ASSUME IFull, Cancel
  PROVE  IFull'
<1>1. UNCHANGED <<tables, chainVars, fullVars>> /\ cancelled' \in BOOLEAN /\ Fault("cancel")
  BY DEF Cancel, CancelToken
<1>2. SharedOK'
  BY <1>1, SharedStep DEF IFull
<1> QED
  BY <1>1, <1>2, FeedFrame, ChannelFrame, LoopFrame, JobsFrame, CountsFrame
     DEF IFull, fullVars

LEMMA InitFull == Init => IFull
<1> SUFFICES ASSUME Init PROVE IFull
  OBVIOUS
<1>1. StorageTypeOK
  <2>1. PICK left \in Leftovers : tentative = left.tentative /\ finalized = left.finalized
    BY DEF Init
  <2>2. left \in [tentative : [Sigs -> TentativeRow \union {NoRow}],
                  finalized : [Slots -> StoredHashes \union {NoHash}]]
    BY FullStreamsAssumption
  <2> QED
    BY <2>1, <2>2 DEF Init, StorageTypeOK
<1>2. ChainTypeOK
  BY TypesAssumption, ChainAssumption DEF Init, ChainInit, ChainTypeOK, Slots
<1>3. ProcessTypeOK
  BY ProcessAssumption DEF Init, ProcessInit, ProcessTypeOK
<1>4. /\ <<>> \in Seq(Event) /\ <<>> \in Seq(Event \union {Other}) /\ Len(<<>>) = 0
      /\ BatchLimit \in Nat /\ Capacity \in Nat /\ Permits \in Nat /\ MaxDrops \in Nat
      /\ MaxHandled \in Nat \ {0}
  BY FullStreamsAssumption
<1>5. FeedOK
  BY <1>4 DEF Init, FeedOK, SocketRecord, FeedRecord, IdleFeed
<1>6. ChannelOK
  BY <1>4 DEF Init, ChannelOK
<1>7. LoopOK
  BY <1>4 DEF Init, LoopOK, LoopRecord, LoopKnows, NewLoop
<1>8. JobsOK
  <2>1. job \in [Jobs -> JobRecord] /\ \A j \in Jobs : JobKnows(job[j]) /\ job[j].pc = "idle"
    BY NoJobKnows DEF Init, NoJob
  <2>2. Busy = {}
    BY <2>1 DEF Busy
  <2> QED
    BY <1>4, <2>1, <2>2, FS_EmptySet DEF JobsOK
<1>9. CountsOK
  BY <1>4 DEF Init, CountsOK
<1> QED
  BY <1>1, <1>2, <1>3, <1>5, <1>6, <1>7, <1>8, <1>9 DEF Init, IFull, SharedOK

LEMMA NextFull == IFull /\ [Next]_vars => IFull'
<1> SUFFICES ASSUME IFull, [Next]_vars PROVE IFull'
  OBVIOUS
<1>1. CASE Next
  BY <1>1, NodeFull, FeedFull, LoopFull, JobFull, CancelFull DEF Next
<1>2. CASE UNCHANGED vars
  <2>1. UNCHANGED <<tables, chainVars, processVars, fullVars>>
    BY <1>2 DEF vars
  <2>2. SharedOK'
    BY <2>1, StorageFrame, ChainStep, ProcessFrame DEF IFull, SharedOK, processVars
  <2> QED
    BY <2>1, <2>2, FeedFrame, ChannelFrame, LoopFrame, JobsFrame, CountsFrame
       DEF IFull, fullVars
<1> QED
  BY <1>1, <1>2

\* The channel, the batches and the semaphore of run_stream and of the two
\* loops keep their bounds, and no task uses a block hash it has not fetched,
\* whatever the capacity, the limit and the permits are.
THEOREM FullStreamsTypeCorrect == Spec => []TypeOK
<1>1. IFull => TypeOK
  BY Typed
<1> QED
  BY <1>1, InitFull, NextFull, PTL DEF Spec

-----------------------------------------------------------------------------
(* Only the tasks of Laserstream promote, only those of Helius insert      *)
(* tentative rows; and no statement here takes a row from both tables.     *)

Finishing == {"final2", "final3", "processed"}

SourceJobs ==
  \A j \in Jobs : job[j].pc \notin IF Helius THEN Finishing \union {"final1"} ELSE {"mark"}
BlockFirst == \A j \in Jobs : job[j].pc \in Finishing => finalized[Slot(j)] # NoHash
PromotedFirst ==
  \A j \in Jobs : job[j].pc = "final3" => \A sig \in TentativeAt(Slot(j)) : InProcessed(sig)

IRows == IFull /\ SourceJobs /\ BlockFirst /\ PromotedFirst /\ ProcessedHasBlock

\* Where a task can be after a step.
LEMMA JobsGoOn ==
  ASSUME IFull, [Next]_vars, NEW k \in Jobs
  PROVE  \/ job'[k] = job[k]
         \/ job'[k].pc \in {"idle", "block"}
         \/ /\ job'[k].event = job[k].event
            /\ \/ JobBlock(k) /\ job'[k].pc = "handle"
               \/ JobHandle(k) /\ job'[k].pc = IF Helius THEN "mark" ELSE "final1"
               \/ JobMark(k) /\ job[k].pc = "final1" /\ job'[k].pc = "final2"
               \/ JobMark(k) /\ job[k].pc = "final2" /\ job'[k].pc = "final3"
               \/ JobMark(k) /\ job[k].pc = "final3" /\ job'[k].pc = "processed"
<1>1. job \in [Jobs -> JobRecord]
  BY DEF IFull, JobsOK
<1>2. CASE \E j \in Jobs : JobStep(j)
  <2>1. PICK j \in Jobs : JobStep(j)
    BY <1>2
  <2>2. CASE j # k
    BY <1>1, <2>1, <2>2 DEF JobStep, JobBlock, JobHandle, JobMark, JobFails
  <2>3. CASE j = k
    <3>1. CASE JobBlock(k)
      BY <1>1, <3>1 DEF JobBlock, JobRecord
    <3>2. CASE JobHandle(k)
      BY <1>1, <3>2 DEF JobHandle, JobRecord
    <3>3. CASE JobMark(k) /\ job[k].pc \in {"final1", "final2", "final3"}
      BY <1>1, <3>3 DEF JobMark, JobRecord
    <3>4. CASE JobMark(k) /\ job[k].pc \notin {"final1", "final2", "final3"}
      BY <1>1, <3>4 DEF JobMark, NoJob
    <3>5. CASE JobFails(k)
      BY <1>1, <3>5 DEF JobFails, NoJob
    <3> QED
      BY <2>1, <2>3, <3>1, <3>2, <3>3, <3>4, <3>5 DEF JobStep
  <2> QED
    BY <2>2, <2>3
<1>3. CASE Dispatch
  <2> DEFINE j == CHOOSE i \in Jobs \ Busy : TRUE
             r == [NoJob EXCEPT !.pc = "block", !.event = Head(loop.batch)]
  <2>1. job' = [job EXCEPT ![j] = r] /\ r.pc = "block"
    BY <1>3 DEF Dispatch, NoJob
  <2> HIDE DEF j, r
  <2> QED
    BY <1>1, <2>1
<1>4. CASE ~Dispatch /\ ~(\E j \in Jobs : JobStep(j))
  <2>1. UNCHANGED job
    BY <1>4 DEF Next, ClusterStep, NodeSubscribes, SocketDrops, OnlySocket, FeedStep, Connect,
       Read, Send, OnlyFeed, LoopStep, NextBatch, StopLoop, NextEvent, CheckTentative,
       StopOnError, Await, Cancel, fullVars, vars
  <2> QED
    BY <2>1
<1> QED
  BY <1>2, <1>3, <1>4

\* Only JobMark changes the tables.
LEMMA TablesFrame ==
  ASSUME [Next]_vars, \A j \in Jobs : ~JobMark(j)
  PROVE  UNCHANGED tables
  BY DEF Next, ClusterStep, NodeSubscribes, SocketDrops, OnlySocket, FeedStep, Connect, Read,
         Send, OnlyFeed, LoopStep, NextBatch, StopLoop, NextEvent, CheckTentative, StopOnError,
         Dispatch, Await, OnlyLoop, JobStep, JobBlock, JobHandle, JobFails, Cancel, vars

\* The source of a run is fixed.
LEMMA SourceFixed ==
  ASSUME [Next]_vars
  PROVE  UNCHANGED source
  BY DEF Next, ClusterStep, NodeSubscribes, SocketDrops, OnlySocket, FeedStep, Connect, Read,
         Send, OnlyFeed, LoopStep, NextBatch, StopLoop, NextEvent, CheckTentative, StopOnError,
         Dispatch, Await, OnlyLoop, JobStep, JobBlock, JobHandle, JobMark, JobFails, OnlyJob,
         Cancel, fullVars, vars

LEMMA SourceJobsStep == IRows /\ [Next]_vars => SourceJobs'
<1> SUFFICES ASSUME IRows, [Next]_vars PROVE SourceJobs'
  OBVIOUS
<1>1. IFull /\ SourceJobs /\ Helius' = Helius
  BY SourceFixed DEF IRows, Helius
<1> SUFFICES ASSUME NEW k \in Jobs
             PROVE  job'[k].pc \notin IF Helius THEN Finishing \union {"final1"} ELSE {"mark"}
  BY <1>1 DEF SourceJobs
<1>2. job[k].pc \notin IF Helius THEN Finishing \union {"final1"} ELSE {"mark"}
  BY <1>1 DEF SourceJobs
<1> QED
  BY <1>1, <1>2, JobsGoOn DEF Finishing

\* What one statement does to the rows, when the block is there and the
\* tentative rows of a slot are deleted after their promotion.
LEMMA StatementRows ==
  ASSUME IRows, NEW j \in Jobs, JobMark(j)
  PROVE  /\ Recorded \subseteq Recorded'
         /\ \A sig \in Sigs : InProcessed(sig) => processed'[sig] = processed[sig]
         /\ \A sig \in Sigs :
              ~InProcessed(sig) /\ processed'[sig] # NoSlot =>
                job[j].pc \in Finishing /\ processed'[sig] = Slot(j)
         /\ \A s \in Slots : finalized[s] # NoHash => finalized'[s] # NoHash
         /\ job[j].pc = "final1" => finalized'[Slot(j)] # NoHash
         /\ job[j].pc = "final2" => \A sig \in TentativeAt(Slot(j))' : processed'[sig] # NoSlot
         /\ job[j].pc # "mark" => \A s \in Slots : TentativeAt(s)' \subseteq TentativeAt(s)
         /\ job[j].pc \in {"mark", "processed"} => job[j].event.sig \in Recorded'
<1>1. /\ IFull /\ SourceJobs /\ PromotedFirst /\ StorageTypeOK /\ JobsOK
  BY DEF IRows, IFull, SharedOK
<1>2. job[j].pc # "idle"
  BY DEF JobMark
<1>3. /\ job[j].event.sig \in Sigs /\ Slot(j) \in Slots
      /\ job[j].pc # "block" => job[j].hash \in StoredHashes
  BY <1>1, <1>2, JobHas
<1>4. /\ processed \in [Sigs -> Slots \union {NoSlot}]
      /\ tentative \in [Sigs -> TentativeRow \union {NoRow}]
      /\ finalized \in [Slots -> StoredHashes \union {NoHash}]
  BY <1>1 DEF StorageTypeOK
<1>5. NoSlot \notin Slots /\ NoHash \notin StoredHashes /\ NoRow.slot = NoSlot
      /\ \A row \in TentativeRow : row # NoRow /\ row.slot \in Slots
  BY TypesAssumption DEF Slots, NoSlot, StoredHashes, TentativeRow, NoRow
<1>6. CASE job[j].pc = "mark" /\ InsertTentative(job[j].event.sig, Slot(j), job[j].hash)
  <2> DEFINE row == [slot |-> Slot(j), hash |-> job[j].hash]
  <2>1. row # NoRow
    BY <1>3, <1>5, <1>6 DEF TentativeRow
  <2>2. /\ UNCHANGED <<processed, finalized>>
        /\ \A sig \in Sigs : InTentative(sig) => tentative'[sig] = tentative[sig]
        /\ tentative'[job[j].event.sig] # NoRow
    BY <1>3, <1>4, <1>6, <2>1 DEF InsertTentative, InTentative
  <2> QED
    BY <1>3, <1>6, <2>2 DEF Recorded, InProcessed, InTentative, Finishing
<1>7. CASE job[j].pc = "final1" /\ InsertFinalized(Slot(j), job[j].hash)
  <2>1. /\ UNCHANGED <<processed, tentative>>
        /\ \A s \in Slots : finalized[s] # NoHash => finalized'[s] = finalized[s]
        /\ finalized'[Slot(j)] # NoHash
    BY <1>3, <1>4, <1>5, <1>7 DEF InsertFinalized
  <2> QED
    BY <1>7, <2>1 DEF Recorded, InProcessed, InTentative, TentativeAt
<1>8. CASE job[j].pc = "final2" /\ PromoteTentative(Slot(j))
  <2>1. UNCHANGED <<tentative, finalized>>
    BY <1>8 DEF PromoteTentative
  <2>2. \A sig \in Sigs :
          /\ InProcessed(sig) => processed'[sig] = processed[sig]
          /\ ~InProcessed(sig) /\ processed'[sig] # NoSlot => processed'[sig] = Slot(j)
          /\ sig \in TentativeAt(Slot(j)) => processed'[sig] # NoSlot
    BY <1>3, <1>4, <1>5, <1>8 DEF PromoteTentative, InProcessed
  <2>3. TentativeAt(Slot(j))' = TentativeAt(Slot(j)) /\ TentativeAt(Slot(j)) \subseteq Sigs
    BY <1>8, <2>1 DEF TentativeAt, Slot, JobMark
  <2> QED
    BY <1>8, <2>1, <2>2, <2>3 DEF Recorded, InProcessed, InTentative, TentativeAt, Finishing
<1>9. CASE job[j].pc = "final3" /\ DeleteTentative(Slot(j))
  <2>1. UNCHANGED <<processed, finalized>>
    BY <1>9 DEF DeleteTentative
  <2>2. \A sig \in TentativeAt(Slot(j)) : InProcessed(sig)
    BY <1>1, <1>9 DEF PromotedFirst
  <2>3. \A sig \in Sigs :
          tentative'[sig] = IF sig \in TentativeAt(Slot(j)) THEN NoRow ELSE tentative[sig]
    BY <1>9 DEF DeleteTentative
  <2>4. \A sig \in Sigs : InTentative(sig)' \/ ~InTentative(sig) \/ InProcessed(sig)
    BY <2>2, <2>3 DEF InTentative
  <2>5. \A s \in Slots : TentativeAt(s)' \subseteq TentativeAt(s)
    BY <1>5, <2>3 DEF TentativeAt
  <2> QED
    BY <1>9, <2>1, <2>4, <2>5 DEF Recorded, InProcessed
<1>10. CASE job[j].pc = "processed" /\ InsertProcessed(job[j].event.sig, Slot(j))
  <2>1. /\ UNCHANGED <<tentative, finalized>>
        /\ \A sig \in Sigs : InProcessed(sig) => processed'[sig] = processed[sig]
        /\ \A sig \in Sigs :
             ~InProcessed(sig) /\ processed'[sig] # NoSlot => processed'[sig] = Slot(j)
        /\ processed'[job[j].event.sig] # NoSlot
    BY <1>3, <1>4, <1>5, <1>10 DEF InsertProcessed, InProcessed
  <2> QED
    BY <1>3, <1>10, <2>1 DEF Recorded, InProcessed, InTentative, TentativeAt, Finishing
<1> QED
  BY <1>6, <1>7, <1>8, <1>9, <1>10 DEF JobMark

\* A step that is no task's statement changes no row, and takes no task to a
\* program counter that BlockFirst and PromotedFirst speak of.
LEMMA OtherRows ==
  ASSUME IRows, [Next]_vars, \A j \in Jobs : ~JobMark(j)
  PROVE  IRows'
<1>1. IFull' /\ SourceJobs' /\ UNCHANGED tables
  BY NextFull, SourceJobsStep, TablesFrame DEF IRows
<1>2. ASSUME NEW k \in Jobs, job'[k].pc \in Finishing PROVE job'[k] = job[k]
  <2>1. job'[k].pc \notin {"idle", "block", "handle", "mark", "final1"}
    BY <1>2 DEF Finishing
  <2> QED
    BY <2>1, JobsGoOn DEF IRows
<1>3. BlockFirst'
  BY <1>1, <1>2 DEF IRows, BlockFirst, tables, Slot
<1>4. PromotedFirst'
  BY <1>1, <1>2 DEF IRows, PromotedFirst, tables, Slot, TentativeAt, InProcessed, Finishing
<1>5. ProcessedHasBlock'
  BY <1>1 DEF IRows, ProcessedHasBlock, tables, InProcessed
<1> QED
  BY <1>1, <1>3, <1>4, <1>5 DEF IRows

LEMMA StatementKeepsRows ==
  ASSUME IRows, NEW j \in Jobs, JobMark(j), [Next]_vars
  PROVE  IRows'
<1>1. IFull /\ SourceJobs /\ BlockFirst /\ PromotedFirst /\ ProcessedHasBlock /\ JobsOK
  BY DEF IRows, IFull
<1>2. IFull' /\ SourceJobs'
  BY <1>1, NextFull, SourceJobsStep
<1>3. /\ \A sig \in Sigs : InProcessed(sig) => processed'[sig] = processed[sig]
      /\ \A sig \in Sigs :
           ~InProcessed(sig) /\ processed'[sig] # NoSlot =>
             job[j].pc \in Finishing /\ processed'[sig] = Slot(j)
      /\ \A s \in Slots : finalized[s] # NoHash => finalized'[s] # NoHash
      /\ job[j].pc = "final1" => finalized'[Slot(j)] # NoHash
      /\ job[j].pc = "final2" => \A sig \in TentativeAt(Slot(j))' : processed'[sig] # NoSlot
      /\ job[j].pc # "mark" => \A s \in Slots : TentativeAt(s)' \subseteq TentativeAt(s)
  BY StatementRows
<1>4. \A k \in Jobs : job[k].pc # "idle" => Slot(k) \in Slots
  BY <1>1, JobHas
<1>5. ASSUME NEW k \in Jobs, job'[k].pc \in Finishing
      PROVE  /\ Slot(k)' = Slot(k) /\ Slot(k) \in Slots
             /\ \/ job'[k].pc = job[k].pc
                \/ JobMark(k) /\ job[k].pc = "final1" /\ job'[k].pc = "final2"
                \/ JobMark(k) /\ job[k].pc = "final2" /\ job'[k].pc = "final3"
                \/ JobMark(k) /\ job[k].pc = "final3" /\ job'[k].pc = "processed"
  <2>1. job'[k].pc \notin {"idle", "block", "handle", "mark", "final1"}
    BY <1>5 DEF Finishing
  <2>2. \/ job'[k] = job[k]
        \/ /\ job'[k].event = job[k].event
           /\ \/ JobMark(k) /\ job[k].pc = "final1" /\ job'[k].pc = "final2"
              \/ JobMark(k) /\ job[k].pc = "final2" /\ job'[k].pc = "final3"
              \/ JobMark(k) /\ job[k].pc = "final3" /\ job'[k].pc = "processed"
    BY <1>1, <2>1, JobsGoOn
  <2>3. job[k].pc # "idle"
    BY <2>1, <2>2
  <2> QED
    BY <1>4, <2>2, <2>3 DEF Slot
<1>6. ASSUME NEW k \in Jobs, k # j PROVE job'[k] = job[k]
  BY <1>1, <1>6 DEF JobMark, JobsOK
<1>7. BlockFirst'
  <2> SUFFICES ASSUME NEW k \in Jobs, job'[k].pc \in Finishing
               PROVE  finalized'[Slot(k)] # NoHash
    BY <1>5 DEF BlockFirst
  <2>1. CASE job[k].pc \in Finishing
    BY <1>1, <1>3, <1>5, <2>1 DEF BlockFirst
  <2>2. CASE job[k].pc = "final1" /\ job'[k].pc = "final2"
    <3>1. k = j
      BY <1>6, <2>2
    <3> QED
      BY <1>3, <2>2, <3>1
  <2> QED
    BY <1>5, <2>1, <2>2 DEF Finishing
<1>8. PromotedFirst'
  <2> SUFFICES ASSUME NEW k \in Jobs, job'[k].pc = "final3", NEW sig \in TentativeAt(Slot(k))'
               PROVE  processed'[sig] # NoSlot
    BY DEF PromotedFirst, InProcessed
  <2>1. sig \in Sigs /\ Slot(k)' = Slot(k) /\ Slot(k) \in Slots
    BY <1>5 DEF Finishing, TentativeAt
  <2>2. CASE job[k].pc = "final3"
    <3>1. ~Helius
      BY <1>1, <2>2 DEF SourceJobs, Finishing
    <3>2. job[j].pc # "mark"
      BY <1>1, <3>1 DEF SourceJobs
    <3>3. sig \in TentativeAt(Slot(k))
      BY <1>3, <2>1, <3>2 DEF TentativeAt
    <3>4. InProcessed(sig)
      BY <1>1, <2>2, <3>3 DEF PromotedFirst
    <3> QED
      BY <1>3, <2>1, <3>4 DEF InProcessed
  <2>3. CASE job[k].pc = "final2"
    <3>1. k = j
      BY <1>6, <2>3
    <3> QED
      BY <1>3, <2>3, <3>1
  <2> QED
    BY <1>5, <2>2, <2>3 DEF Finishing
<1>9. ProcessedHasBlock'
  <2> SUFFICES ASSUME NEW sig \in Sigs, processed'[sig] # NoSlot
               PROVE  finalized'[processed'[sig]] # NoHash
    BY DEF ProcessedHasBlock, InProcessed
  <2>1. CASE InProcessed(sig)
    <3>1. processed[sig] \in Slots
      BY <1>1, <2>1 DEF IFull, SharedOK, StorageTypeOK, InProcessed
    <3> QED
      BY <1>1, <1>3, <2>1, <3>1 DEF ProcessedHasBlock
  <2>2. CASE ~InProcessed(sig)
    <3>1. job[j].pc \in Finishing /\ processed'[sig] = Slot(j)
      BY <1>3, <2>2
    <3>2. Slot(j) \in Slots /\ finalized[Slot(j)] # NoHash
      BY <1>1, <1>4, <3>1 DEF BlockFirst, Finishing
    <3> QED
      BY <1>3, <3>1, <3>2
  <2> QED
    BY <2>1, <2>2
<1> QED
  BY <1>2, <1>7, <1>8, <1>9 DEF IRows

LEMMA InitRows == Init => IRows
<1> SUFFICES ASSUME Init PROVE IRows
  OBVIOUS
<1>1. \A j \in Jobs : job[j].pc = "idle"
  BY DEF Init, NoJob
<1>2. SourceJobs /\ BlockFirst /\ PromotedFirst
  BY <1>1 DEF SourceJobs, BlockFirst, PromotedFirst, Finishing
<1>3. ProcessedHasBlock
  BY DEF Init, ProcessedHasBlock, InProcessed
<1> QED
  BY <1>2, <1>3, InitFull DEF IRows

LEMMA NextRows == IRows /\ [Next]_vars => IRows'
  BY OtherRows, StatementKeepsRows

\* A row of the processed table is never without the hash of its block: a
\* later check of the block has something to compare.  Laserstream writes the
\* two rows by different statements, after promoting whatever an interrupted
\* mark_finalized left behind.
THEOREM FullStreamsBlocks == Spec => []ProcessedHasBlock
<1>1. IRows => ProcessedHasBlock
  BY DEF IRows
<1> QED
  BY <1>1, InitRows, NextRows, PTL DEF Spec

-----------------------------------------------------------------------------
(* No event is lost between the channel and the tables.                    *)

InChannel == {channel[i].sig : i \in DOMAIN channel}
InBatch == {loop.batch[i].sig : i \in DOMAIN loop.batch}
InJobs == {job[j].event.sig : j \in Busy}

NextIsEmpty == loop.pc = "next" => loop.batch = <<>>

IDropped == IRows /\ NextIsEmpty /\ NothingDropped

LEMMA Flight ==
  /\ InFlight = InChannel \union InBatch \union InJobs
  /\ InFlight' = InChannel' \union InBatch' \union InJobs'
  BY DEF InFlight, InChannel, InBatch, InJobs

LEMMA NextIsEmptyStep == LoopOK /\ NextIsEmpty /\ [Next]_vars => NextIsEmpty'
<1> SUFFICES ASSUME LoopOK, NextIsEmpty, [Next]_vars PROVE NextIsEmpty'
  OBVIOUS
<1>1. loop \in LoopRecord
  BY DEF LoopOK
<1>2. CASE StopLoop \/ StopOnError \/ NextEvent \/ CheckTentative
  BY <1>1, <1>2 DEF NextIsEmpty, LoopRecord, StopLoop, NextEvent, CheckTentative, StopOnError,
     Advance, NewLoop
<1>3. CASE NextBatch \/ Dispatch \/ Await
  <2>1. loop'.pc # "next"
    BY <1>1, <1>3 DEF LoopRecord, NextBatch, Dispatch, Await
  <2> QED
    BY <2>1 DEF NextIsEmpty
<1>4. CASE ~LoopStep
  <2>1. UNCHANGED loop
    BY <1>4 DEF Next, ClusterStep, NodeSubscribes, SocketDrops, OnlySocket, FeedStep, Connect,
       Read, Send, OnlyFeed, JobStep, JobBlock, JobHandle, JobMark, JobFails, OnlyJob,
       Cancel, fullVars, vars
  <2> QED
    BY <2>1 DEF NextIsEmpty
<1> QED
  BY <1>2, <1>3, <1>4 DEF LoopStep

\* An event reaches the channel when it is counted as delivered.
LEMMA DeliveredGoesIn ==
  ASSUME IFull, [Next]_vars, NEW sig \in Sigs, delivered'[sig] > 0
  PROVE  delivered[sig] > 0 \/ sig \in InChannel'
<1>1. CASE UNCHANGED delivered
  BY <1>1
<1>2. CASE Send /\ Alive
  <2>1. /\ channel' = Append(channel, feed.event)
        /\ delivered' = Counted(delivered, feed.event.sig)
    BY <1>2 DEF Send
  <2>2. channel \in Seq(Event) /\ feed.event \in Event /\ feed.event.sig \in Sigs
        /\ delivered \in [Sigs -> 0..MaxHandled]
    BY <1>2 DEF Send, IFull, FeedOK, ChannelOK, CountsOK, Event
  <2>3. CASE sig # feed.event.sig
    BY <2>1, <2>2, <2>3, CountedType
  <2>4. CASE sig = feed.event.sig
    <3>1. Len(channel) + 1 \in DOMAIN channel' /\ channel'[Len(channel) + 1] = feed.event
      BY <2>1, <2>2
    <3> QED
      BY <2>4, <3>1 DEF InChannel
  <2> QED
    BY <2>3, <2>4
<1>3. CASE ~(Send /\ Alive)
  <2>1. UNCHANGED delivered
    BY <1>3 DEF Next, ClusterStep, NodeSubscribes, SocketDrops, OnlySocket, FeedStep, Connect,
       Read, Send, LoopStep, NextBatch, StopLoop, NextEvent, CheckTentative, StopOnError,
       Dispatch, Await, OnlyLoop, JobStep, JobBlock, JobHandle, JobMark, JobFails, OnlyJob,
       Cancel, fullVars, vars
  <2> QED
    BY <2>1
<1> QED
  BY <1>2, <1>3

\* The elements of a channel that a batch is taken from are in one of the two.
LEMMA BatchTaken ==
  ASSUME IFull, NextIsEmpty, NextBatch
  PROVE  InChannel \union InBatch \subseteq InChannel' \union InBatch'
<1> DEFINE n == Min({Len(channel), BatchLimit})
           batch == SubSeq(channel, 1, n)
           rest == SubSeq(channel, n + 1, Len(channel))
<1>1. channel \in Seq(Event) /\ ChannelOK
  BY DEF IFull, ChannelOK
<1>2. n \in 0..Len(channel)
  BY <1>1, Received
<1>3. loop' = [pc |-> "event", batch |-> batch] /\ channel' = rest /\ loop.batch = <<>>
  BY DEF NextBatch, NextIsEmpty
<1> HIDE DEF n
<1>4. /\ batch \in Seq(Event) /\ Len(batch) = n
      /\ rest \in Seq(Event) /\ Len(rest) = Len(channel) - n
      /\ \A i \in 1..n : batch[i] = channel[i]
      /\ \A i \in 1..(Len(channel) - n) : rest[i] = channel[n + i]
  BY <1>1, <1>2, Halves
<1>5. Len(channel) \in Nat /\ n \in Nat /\ n <= Len(channel)
  BY <1>1, <1>2
<1> HIDE DEF batch, rest
<1>6. DOMAIN batch = 1..n /\ DOMAIN rest = 1..(Len(channel) - n) /\ DOMAIN channel = 1..Len(channel)
  BY <1>1, <1>4
<1>7. InBatch = {}
  BY <1>3 DEF InBatch
<1>8. ASSUME NEW i \in DOMAIN channel PROVE channel[i].sig \in InChannel' \union InBatch'
  <2>1. CASE i <= n
    <3>1. i \in DOMAIN batch /\ batch[i] = channel[i]
      BY <1>4, <1>5, <1>6, <1>8, <2>1
    <3> QED
      BY <1>3, <3>1 DEF InBatch
  <2>2. CASE ~(i <= n)
    <3> DEFINE k == i - n
    <3>1. i \in Nat /\ i <= Len(channel)
      BY <1>5, <1>6, <1>8
    <3>2. k \in 1..(Len(channel) - n) /\ n + k = i
      BY <1>5, <2>2, <3>1
    <3> HIDE DEF k
    <3>3. k \in DOMAIN rest /\ rest[k] = channel[i]
      BY <1>4, <1>6, <3>2
    <3> QED
      BY <1>3, <3>3 DEF InChannel
  <2> QED
    BY <2>1, <2>2
<1> QED
  BY <1>7, <1>8 DEF InChannel

\* The rest of a batch holds all of it but its head.
LEMMA BatchRest ==
  ASSUME LoopOK, loop.batch # <<>>, loop'.batch = Tail(loop.batch)
  PROVE  InBatch \subseteq InBatch' \union {Sig}
<1>1. loop.batch \in Seq(Event)
  BY DEF LoopOK, LoopRecord
<1>2. Sig = loop.batch[1].sig
  BY <1>1 DEF Sig
<1>3. ASSUME NEW i \in DOMAIN loop.batch, i # 1
      PROVE  loop.batch[i].sig \in InBatch'
  <2>1. i - 1 \in DOMAIN Tail(loop.batch) /\ Tail(loop.batch)[i - 1] = loop.batch[i]
    BY <1>1, <1>3
  <2> QED
    BY <2>1 DEF InBatch
<1>4. \A i \in DOMAIN loop.batch : loop.batch[i].sig \in InBatch' \union {Sig}
  BY <1>2, <1>3
<1> QED
  BY <1>4 DEF InBatch

\* What the loop takes on is recorded, in the batch, or with a task.
LEMMA LoopKeeps ==
  ASSUME IDropped, LoopStep, Alive'
  PROVE  InFlight \subseteq Recorded \union InFlight'
<1>1. /\ IFull /\ NextIsEmpty /\ LoopOK /\ JobsOK
      /\ loop \in LoopRecord /\ LoopKnows(loop)
  BY DEF IDropped, IRows, IFull, LoopOK
<1>2. CASE NextBatch
  <2>1. UNCHANGED job
    BY <1>2 DEF NextBatch
  <2>2. InJobs' = InJobs
    BY <2>1 DEF InJobs, Busy
  <2> QED
    BY <1>1, <1>2, <2>2, BatchTaken, Flight
<1>3. CASE StopLoop \/ StopOnError
  BY <1>3 DEF StopLoop, StopOnError, Alive, NewLoop
<1>4. CASE NextEvent
  <2>1. UNCHANGED job /\ channel' = channel
    BY <1>4 DEF NextEvent, Alive
  <2>2. InJobs' = InJobs /\ InChannel' = InChannel
    BY <2>1 DEF InJobs, Busy, InChannel
  <2>3. CASE loop.batch = <<>>
    <3>1. InBatch = {}
      BY <2>3 DEF InBatch
    <3> QED
      BY <2>2, <3>1, Flight
  <2>4. CASE loop.batch # <<>> /\ Advance /\ InProcessed(Sig)
    <3>1. InBatch \subseteq InBatch' \union {Sig} /\ Sig \in Sigs
      BY <1>1, <2>4, BatchRest, BatchHead DEF Advance
    <3> QED
      BY <2>2, <2>4, <3>1, Flight DEF Recorded
  <2>5. CASE loop'.batch = loop.batch
    BY <2>2, <2>5, Flight DEF InBatch
  <2> QED
    BY <1>1, <1>4, <2>3, <2>4, <2>5 DEF NextEvent, LoopRecord
<1>5. CASE CheckTentative
  <2>1. UNCHANGED <<job, channel>> /\ loop.batch # <<>>
    BY <1>1, <1>5 DEF CheckTentative, LoopKnows
  <2>2. InJobs' = InJobs /\ InChannel' = InChannel
    BY <2>1 DEF InJobs, Busy, InChannel
  <2>3. CASE Advance /\ InTentative(Sig)
    <3>1. InBatch \subseteq InBatch' \union {Sig} /\ Sig \in Sigs
      BY <1>1, <2>1, <2>3, BatchRest, BatchHead DEF Advance
    <3> QED
      BY <2>2, <2>3, <3>1, Flight DEF Recorded
  <2>4. CASE loop'.batch = loop.batch
    BY <2>2, <2>4, Flight DEF InBatch
  <2> QED
    BY <1>1, <1>5, <2>3, <2>4 DEF CheckTentative, LoopRecord
<1>6. CASE Dispatch
  <2>1. UNCHANGED channel /\ loop.batch # <<>> /\ loop'.batch = Tail(loop.batch)
    BY <1>1, <1>6 DEF Dispatch, LoopKnows
  <2>2. InBatch \subseteq InBatch' \union {Sig} /\ InChannel' = InChannel
    BY <1>1, <2>1, BatchRest DEF InChannel
  <2> DEFINE k == CHOOSE j \in Jobs \ Busy : TRUE
             r == [NoJob EXCEPT !.pc = "block", !.event = Head(loop.batch)]
  <2>3. k \in Jobs /\ k \notin Busy /\ job' = [job EXCEPT ![k] = r]
    BY <1>6 DEF Dispatch, Busy
  <2>4. r.pc = "block" /\ r.event.sig = Sig
    BY DEF NoJob, Sig
  <2> HIDE DEF k, r
  <2>5. job \in [Jobs -> JobRecord]
    BY <1>1 DEF JobsOK
  <2>6. Busy' = Busy \union {k} /\ job'[k].event.sig = Sig
        /\ \A j \in Busy : job'[j] = job[j]
    BY <2>3, <2>4, <2>5 DEF Busy
  <2>7. Sig \in InJobs'
    BY <2>6 DEF InJobs
  <2>8. InJobs \subseteq InJobs'
    BY <2>6 DEF InJobs
  <2> QED
    BY <2>2, <2>7, <2>8, Flight
<1>7. CASE Await
  <2>1. UNCHANGED <<job, channel>> /\ loop'.batch = loop.batch
    BY <1>1, <1>7 DEF Await, LoopRecord
  <2> QED
    BY <2>1, Flight DEF InJobs, Busy, InChannel, InBatch
<1> QED
  BY <1>2, <1>3, <1>4, <1>5, <1>6, <1>7 DEF LoopStep

\* A task keeps its transaction until it has recorded it, or fails.
LEMMA JobKeeps ==
  ASSUME IRows, NEW j \in Jobs, JobStep(j)
  PROVE  InFlight \subseteq Recorded' \union InFlight' \union failed'
<1>1. JobsOK /\ ChainTypeOK /\ job \in [Jobs -> JobRecord]
  BY DEF IRows, IFull, SharedOK, JobsOK
<1>2. job[j].pc # "idle" /\ UNCHANGED <<channel, loop>>
  BY DEF JobStep, JobBlock, JobHandle, JobMark, JobFails, JobError, OnlyJob
<1>3. \A k \in Jobs : k # j => job'[k] = job[k]
  BY <1>1 DEF JobStep, JobBlock, JobHandle, JobMark, JobFails
<1>4. InChannel' = InChannel /\ InBatch' = InBatch
  BY <1>2 DEF InChannel, InBatch
<1>5. \/ job'[j].pc # "idle" /\ job'[j].event = job[j].event
      \/ job[j].event.sig \in Recorded' \union failed'
  <2>1. CASE JobBlock(j) \/ JobHandle(j)
    BY <1>1, <2>1 DEF JobBlock, JobHandle, JobRecord
  <2>2. CASE JobMark(j) /\ job[j].pc \in {"mark", "processed"}
    BY <2>2, StatementRows
  <2>3. CASE JobMark(j) /\ job[j].pc \in {"final1", "final2", "final3"}
    BY <1>1, <2>3 DEF JobMark, JobRecord
  <2>4. CASE JobFails(j)
    BY <2>4 DEF JobFails
  <2> QED
    BY <2>1, <2>2, <2>3, <2>4 DEF JobStep, JobMark
<1>6. ASSUME NEW k \in Busy
      PROVE  job[k].event.sig \in InJobs' \union Recorded' \union failed'
  <2>1. k \in Jobs
    BY <1>6 DEF Busy
  <2>2. CASE job'[k].pc # "idle" /\ job'[k].event = job[k].event
    <3>1. k \in Busy'
      BY <2>1, <2>2 DEF Busy
    <3> QED
      BY <2>2, <3>1 DEF InJobs
  <2>3. CASE k # j
    BY <1>3, <1>6, <2>1, <2>2, <2>3 DEF Busy
  <2> QED
    BY <1>5, <2>2, <2>3
<1>7. InJobs \subseteq InJobs' \union Recorded' \union failed'
  BY <1>6 DEF InJobs
<1> QED
  BY <1>4, <1>7, Flight

LEMMA OthersKeep ==
  ASSUME IRows, [Next]_vars, ~LoopStep, ~\E j \in Jobs : JobStep(j)
  PROVE  InFlight \subseteq InFlight'
<1>1. UNCHANGED <<loop, job>>
  BY DEF Next, ClusterStep, NodeSubscribes, SocketDrops, OnlySocket, FeedStep, Connect,
     Read, Send, OnlyFeed, Cancel, fullVars, vars
<1>2. InBatch' = InBatch /\ InJobs' = InJobs
  BY <1>1 DEF InBatch, InJobs, Busy
<1>3. InChannel \subseteq InChannel'
  <2>1. CASE UNCHANGED channel
    BY <2>1 DEF InChannel
  <2>2. CASE Send /\ channel' = Append(channel, feed.event)
    <3>1. channel \in Seq(Event)
      BY DEF IRows, IFull, ChannelOK
    <3>2. \A i \in DOMAIN channel : i \in DOMAIN channel' /\ channel'[i] = channel[i]
      BY <2>2, <3>1
    <3> QED
      BY <3>2 DEF InChannel
  <2> QED
    BY <2>1, <2>2 DEF Next, ClusterStep, NodeSubscribes, SocketDrops, OnlySocket, FeedStep,
       Connect, Read, Send, Cancel, fullVars, vars
<1> QED
  BY <1>2, <1>3, Flight

\* Nothing forgets a row or a failure, and a loop that has stopped stays so.
LEMMA NothingForgets ==
  ASSUME IRows, [Next]_vars
  PROVE  /\ Recorded \subseteq Recorded' /\ failed \subseteq failed'
         /\ Alive' => Alive
<1>1. Recorded \subseteq Recorded'
  <2>1. CASE \E j \in Jobs : JobMark(j)
    BY <2>1, StatementRows
  <2>2. CASE \A j \in Jobs : ~JobMark(j)
    BY <2>2, TablesFrame DEF Recorded, InProcessed, InTentative, tables
  <2> QED
    BY <2>1, <2>2
<1>2. failed \subseteq failed'
  BY DEF Next, ClusterStep, NodeSubscribes, SocketDrops, OnlySocket, FeedStep, Connect, Read,
     Send, OnlyFeed, LoopStep, NextBatch, StopLoop, NextEvent, CheckTentative, StopOnError,
     Dispatch, Await, OnlyLoop, JobStep, JobBlock, JobHandle, JobMark, JobFails, Cancel,
     fullVars, vars
<1>3. Alive' => Alive
  <2>1. CASE UNCHANGED loop
    BY <2>1 DEF Alive
  <2>2. CASE LoopStep
    BY <2>2 DEF Alive, LoopStep, NextBatch, StopLoop, NextEvent, CheckTentative, StopOnError,
       Dispatch, Await
  <2> QED
    BY <2>1, <2>2 DEF Next, ClusterStep, NodeSubscribes, SocketDrops, OnlySocket, FeedStep,
       Connect, Read, Send, OnlyFeed, JobStep, JobBlock, JobHandle, JobMark, JobFails, OnlyJob,
       Cancel, fullVars, vars
<1> QED
  BY <1>1, <1>2, <1>3

LEMMA NextDropped == IDropped /\ [Next]_vars => IDropped'
<1> SUFFICES ASSUME IDropped, [Next]_vars PROVE IDropped'
  OBVIOUS
<1>1. IRows /\ IFull /\ LoopOK /\ NextIsEmpty /\ NothingDropped
  BY DEF IDropped, IRows, IFull
<1>2. IRows' /\ NextIsEmpty'
  BY <1>1, NextRows, NextIsEmptyStep
<1>3. ASSUME Alive', NEW sig \in Sigs, delivered'[sig] > 0
      PROVE  sig \in Recorded' \union InFlight' \union failed'
  <2>1. InFlight \subseteq Recorded' \union InFlight' \union failed'
    BY <1>1, <1>3, LoopKeeps, JobKeeps, OthersKeep, NothingForgets
  <2>2. delivered[sig] > 0 \/ sig \in InChannel'
    BY <1>1, <1>3, DeliveredGoesIn
  <2>3. InChannel' \subseteq InFlight'
    BY Flight
  <2>4. delivered[sig] > 0 => sig \in Recorded \union InFlight \union failed
    BY <1>1, <1>3, NothingForgets DEF NothingDropped
  <2> QED
    BY <1>1, <2>1, <2>2, <2>3, <2>4, NothingForgets
<1> QED
  BY <1>2, <1>3 DEF IDropped, NothingDropped

LEMMA InitDropped == Init => IDropped
<1> SUFFICES ASSUME Init PROVE IDropped
  OBVIOUS
<1>1. NextIsEmpty
  BY DEF Init, NewLoop, NextIsEmpty
<1>2. \A sig \in Sigs : delivered[sig] > 0 => sig \in Recorded
  BY DEF Init, Recorded
<1> QED
  BY <1>1, <1>2, InitRows DEF IDropped, NothingDropped

\* As long as the loop runs, an event put into the channel is in a table, has
\* failed, or is still in the channel, the batch or a task: whatever the
\* capacity, the limit of a batch and the permits are, a full channel and a
\* loop out of permits lose nothing.
THEOREM FullStreamsNothingDropped == Spec => []NothingDropped
<1>1. IDropped => NothingDropped
  BY DEF IDropped
<1> QED
  BY <1>1, InitDropped, NextDropped, PTL DEF Spec

-----------------------------------------------------------------------------
(* Handlers and deliveries, counted.                                       *)

Places(q, sig) == {i \in DOMAIN q : q[i].sig = sig}
CountIn(q, sig) == Cardinality(Places(q, sig))
Waiting(sig) == {j \in Jobs : job[j].pc \in {"block", "handle"} /\ job[j].event.sig = sig}

\* Deliveries whose handlers have not run yet.
Pending(sig) == CountIn(channel, sig) + CountIn(loop.batch, sig) + Cardinality(Waiting(sig))

IOnce ==
  /\ IFull
  /\ \A sig \in Sigs :
       delivered[sig] = MaxHandled \/ handled[sig] + Pending(sig) <= delivered[sig]

LEMMA CountType ==
  ASSUME NEW q \in Seq(Event), NEW sig \in Sigs
  PROVE  IsFiniteSet(Places(q, sig)) /\ CountIn(q, sig) \in Nat
<1>1. Len(q) \in Nat /\ DOMAIN q = 1..Len(q)
  OBVIOUS
<1>2. IsFiniteSet(1..Len(q))
  BY <1>1, FS_Interval
<1>3. Places(q, sig) \in SUBSET (1..Len(q))
  BY <1>1 DEF Places
<1>4. IsFiniteSet(Places(q, sig))
  BY <1>2, <1>3, FS_Subset
<1> QED
  BY <1>4, FS_CardinalityType DEF CountIn

LEMMA CountEmpty ==
  ASSUME NEW sig \in Sigs
  PROVE  CountIn(<<>>, sig) = 0
<1>1. Places(<<>>, sig) = {}
  BY DEF Places
<1> QED
  BY <1>1, FS_EmptySet DEF CountIn

LEMMA CountOne ==
  ASSUME NEW e \in Event, NEW sig \in Sigs
  PROVE  <<e>> \in Seq(Event) /\ CountIn(<<e>>, sig) = IF e.sig = sig THEN 1 ELSE 0
<1>1. <<e>> \in Seq(Event)
  OBVIOUS
<1>2. CASE e.sig = sig
  <2>1. Places(<<e>>, sig) = {1}
    BY <1>2 DEF Places
  <2> QED
    BY <1>1, <1>2, <2>1, FS_Singleton DEF CountIn
<1>3. CASE e.sig # sig
  <2>1. Places(<<e>>, sig) = {}
    BY <1>3 DEF Places
  <2> QED
    BY <1>1, <1>3, <2>1, FS_EmptySet DEF CountIn
<1> QED
  BY <1>2, <1>3

Joined(a, b, q) ==
  /\ Len(q) = Len(a) + Len(b)
  /\ \A i \in 1..Len(a) : q[i] = a[i]
  /\ \A i \in 1..Len(b) : q[Len(a) + i] = b[i]

\* A sequence that is another one followed by a third holds what both hold.
LEMMA CountParts ==
  ASSUME NEW a \in Seq(Event), NEW b \in Seq(Event), NEW q \in Seq(Event), NEW sig \in Sigs,
         Joined(a, b, q)
  PROVE  CountIn(q, sig) = CountIn(a, sig) + CountIn(b, sig)
<1> DEFINE n == Len(a)
           shifted == {i \in (n + 1)..Len(q) : q[i].sig = sig}
           f == [i \in Places(b, sig) |-> n + i]
<1>1. /\ n \in Nat /\ Len(b) \in Nat /\ Len(q) = n + Len(b)
      /\ DOMAIN a = 1..n /\ DOMAIN b = 1..Len(b) /\ DOMAIN q = 1..Len(q)
  BY DEF Joined
<1>2. \A i \in 1..n : q[i] = a[i]
  BY DEF Joined
<1>3. \A i \in 1..Len(b) : q[n + i] = b[i]
  BY DEF Joined
<1> HIDE DEF n
<1>4. Places(q, sig) = Places(a, sig) \union shifted
  <2>1. ASSUME NEW i \in Places(q, sig) PROVE i \in Places(a, sig) \union shifted
    BY <1>1, <1>2, <2>1 DEF Places
  <2>2. ASSUME NEW i \in Places(a, sig) PROVE i \in Places(q, sig)
    BY <1>1, <1>2, <2>2 DEF Places
  <2>3. ASSUME NEW i \in shifted PROVE i \in Places(q, sig)
    BY <1>1, <2>3 DEF Places
  <2> QED
    BY <2>1, <2>2, <2>3
<1>5. Places(a, sig) \cap shifted = {}
  BY <1>1 DEF Places
<1>6. f \in Bijection(Places(b, sig), shifted)
  <2>1. \A i \in Places(b, sig) : i \in 1..Len(b) /\ b[i].sig = sig
    BY <1>1 DEF Places
  <2>2. \A i \in Places(b, sig) : f[i] \in shifted
    BY <1>1, <1>3, <2>1
  <2>3. \A i, k \in Places(b, sig) : f[i] = f[k] => i = k
    BY <1>1, <2>1
  <2>4. ASSUME NEW k \in shifted PROVE \E i \in Places(b, sig) : f[i] = k
    <3>1. k - n \in 1..Len(b) /\ n + (k - n) = k
      BY <1>1, <2>4
    <3>2. b[k - n].sig = sig
      BY <1>3, <2>4, <3>1
    <3>3. k - n \in Places(b, sig) /\ f[k - n] = k
      BY <1>1, <3>1, <3>2 DEF Places
    <3> QED
      BY <3>3
  <2>5. f \in [Places(b, sig) -> shifted] /\ DOMAIN f = Places(b, sig)
    BY <2>2
  <2> QED
    BY <2>3, <2>4, <2>5, Zenon DEF Bijection, Injection, Surjection, IsInjective
<1>7. IsFiniteSet(shifted) /\ Cardinality(shifted) = CountIn(b, sig)
  BY <1>6, CountType, FS_Bijection DEF ExistsBijection, CountIn
<1>8. IsFiniteSet(Places(a, sig)) /\ CountIn(a, sig) \in Nat /\ CountIn(b, sig) \in Nat
  BY CountType
<1> HIDE DEF shifted
<1>9. Cardinality(Places(a, sig) \union shifted) = CountIn(a, sig) + CountIn(b, sig) - 0
  BY <1>5, <1>7, <1>8, FS_Union, FS_EmptySet DEF CountIn
<1> QED
  BY <1>4, <1>8, <1>9 DEF CountIn

LEMMA CountAppend ==
  ASSUME NEW q \in Seq(Event), NEW e \in Event, NEW sig \in Sigs
  PROVE  CountIn(Append(q, e), sig) = CountIn(q, sig) + IF e.sig = sig THEN 1 ELSE 0
<1> DEFINE r == Append(q, e)
           one == <<e>>
<1>1. /\ r \in Seq(Event) /\ Len(r) = Len(q) + 1 /\ Len(q) \in Nat
      /\ \A i \in 1..Len(q) : r[i] = q[i]
      /\ r[Len(q) + 1] = e
  OBVIOUS
<1>2. one \in Seq(Event) /\ Len(one) = 1 /\ one[1] = e
  OBVIOUS
<1> HIDE DEF r, one
<1>3. Joined(q, one, r)
  BY <1>1, <1>2 DEF Joined
<1>4. CountIn(r, sig) = CountIn(q, sig) + CountIn(one, sig)
  BY <1>1, <1>2, <1>3, CountParts, Zenon
<1> QED
  BY <1>4, CountOne DEF r, one

LEMMA CountTail ==
  ASSUME NEW q \in Seq(Event), q # <<>>, NEW sig \in Sigs
  PROVE  CountIn(q, sig) = CountIn(Tail(q), sig) + IF Head(q).sig = sig THEN 1 ELSE 0
<1> DEFINE r == Tail(q)
           one == <<Head(q)>>
<1>1. /\ r \in Seq(Event) /\ Len(q) = 1 + Len(r) /\ Len(r) \in Nat
      /\ \A i \in 1..Len(r) : q[1 + i] = r[i]
      /\ Head(q) \in Event /\ q[1] = Head(q)
  OBVIOUS
<1>2. one \in Seq(Event) /\ Len(one) = 1 /\ one[1] = Head(q)
  BY <1>1
<1> HIDE DEF r, one
<1>3. Joined(one, r, q)
  BY <1>1, <1>2 DEF Joined
<1>4. CountIn(q, sig) = CountIn(one, sig) + CountIn(r, sig)
  BY <1>1, <1>2, <1>3, CountParts, Zenon
<1>5. CountIn(one, sig) \in Nat /\ CountIn(r, sig) \in Nat
  BY <1>1, <1>2, CountType
<1> QED
  BY <1>1, <1>4, <1>5, CountOne DEF r, one

LEMMA WaitingType ==
  ASSUME JobsOK, NEW sig \in Sigs
  PROVE  IsFiniteSet(Waiting(sig)) /\ Cardinality(Waiting(sig)) \in Nat
<1>1. Waiting(sig) \in SUBSET Busy
  BY DEF Waiting, Busy
<1>2. IsFiniteSet(Waiting(sig))
  BY <1>1, FS_Subset DEF JobsOK
<1> QED
  BY <1>2, FS_CardinalityType

LEMMA WaitingTypeNext ==
  ASSUME JobsOK', NEW sig \in Sigs
  PROVE  Cardinality(Waiting(sig)') \in Nat
<1>1. Waiting(sig)' \in SUBSET Busy'
  BY DEF Waiting, Busy
<1>2. IsFiniteSet(Waiting(sig)')
  BY <1>1, FS_Subset DEF JobsOK
<1> QED
  BY <1>2, FS_CardinalityType

LEMMA PendingType ==
  ASSUME IFull, NEW sig \in Sigs
  PROVE  /\ CountIn(channel, sig) \in Nat /\ CountIn(loop.batch, sig) \in Nat
         /\ Cardinality(Waiting(sig)) \in Nat /\ Pending(sig) \in Nat
<1>1. channel \in Seq(Event) /\ loop.batch \in Seq(Event) /\ JobsOK
  BY DEF IFull, ChannelOK, LoopOK, LoopRecord
<1>2. /\ CountIn(channel, sig) \in Nat /\ CountIn(loop.batch, sig) \in Nat
      /\ Cardinality(Waiting(sig)) \in Nat
  BY <1>1, CountType, WaitingType
<1> QED
  BY <1>2 DEF Pending

LEMMA PendingNext ==
  ASSUME IFull', NEW sig \in Sigs
  PROVE  /\ CountIn(channel', sig) \in Nat /\ CountIn(loop'.batch, sig) \in Nat
         /\ Cardinality(Waiting(sig)') \in Nat
         /\ Pending(sig)' = CountIn(channel', sig) + CountIn(loop'.batch, sig)
                              + Cardinality(Waiting(sig)')
<1>1. channel' \in Seq(Event) /\ loop'.batch \in Seq(Event) /\ JobsOK'
  BY DEF IFull, ChannelOK, LoopOK, LoopRecord
<1>2. /\ CountIn(channel', sig) \in Nat /\ CountIn(loop'.batch, sig) \in Nat
      /\ Cardinality(Waiting(sig)') \in Nat
  BY <1>1, CountType, WaitingTypeNext
<1> QED
  BY <1>2 DEF Pending, CountIn, Places

LEMMA FewerWait ==
  ASSUME JobsOK, NEW sig \in Sigs, Waiting(sig)' \subseteq Waiting(sig)
  PROVE  Cardinality(Waiting(sig)') <= Cardinality(Waiting(sig))
<1>1. IsFiniteSet(Waiting(sig))
  BY WaitingType
<1> QED
  BY <1>1, FS_Subset

\* The loop hands deliveries on, and makes none.
LEMMA LoopPending ==
  ASSUME IFull, IFull', LoopStep, NEW sig \in Sigs
  PROVE  Pending(sig)' <= Pending(sig)
<1> DEFINE c == CountIn(channel, sig)
           b == CountIn(loop.batch, sig)
           w == Cardinality(Waiting(sig))
           cc == CountIn(channel', sig)
           bb == CountIn(loop'.batch, sig)
           ww == Cardinality(Waiting(sig)')
<1>1. /\ LoopOK /\ JobsOK /\ loop \in LoopRecord /\ LoopKnows(loop) /\ ChannelOK
      /\ channel \in Seq(Event) /\ loop.batch \in Seq(Event)
  BY DEF IFull, LoopOK, ChannelOK, LoopRecord
<1>2. /\ c \in Nat /\ b \in Nat /\ w \in Nat /\ Pending(sig) = c + b + w
      /\ cc \in Nat /\ bb \in Nat /\ ww \in Nat /\ Pending(sig)' = cc + bb + ww
  BY PendingType, PendingNext DEF Pending
<1>3. CountIn(<<>>, sig) = 0
  BY CountEmpty
<1>4. ASSUME UNCHANGED job PROVE ww = w
  BY <1>4 DEF Waiting
<1>5. ASSUME loop.batch # <<>>, loop'.batch = Tail(loop.batch)
      PROVE  b = bb + IF Sig = sig THEN 1 ELSE 0
  BY <1>1, <1>5, CountTail DEF Sig
<1> HIDE DEF c, b, w, cc, bb, ww
<1>6. CASE NextBatch
  <2> DEFINE n == Min({Len(channel), BatchLimit})
             batch == SubSeq(channel, 1, n)
             rest == SubSeq(channel, n + 1, Len(channel))
  <2>1. n \in 0..Len(channel)
    BY <1>1, Received
  <2>2. loop'.batch = batch /\ channel' = rest /\ UNCHANGED job
    BY <1>6 DEF NextBatch
  <2> HIDE DEF n
  <2>3. /\ batch \in Seq(Event) /\ Len(batch) = n
        /\ rest \in Seq(Event) /\ Len(rest) = Len(channel) - n
        /\ \A i \in 1..n : batch[i] = channel[i]
        /\ \A i \in 1..(Len(channel) - n) : rest[i] = channel[n + i]
    BY <1>1, <2>1, Halves
  <2>4. Len(channel) \in Nat
    BY <1>1
  <2> HIDE DEF batch, rest
  <2>5. Joined(batch, rest, channel)
    BY <2>1, <2>3, <2>4 DEF Joined
  <2>6. c = bb + cc
    BY <1>1, <2>2, <2>3, <2>5, CountParts DEF c, bb, cc
  <2> QED
    BY <1>2, <1>4, <2>2, <2>6
<1>7. CASE StopLoop \/ StopOnError
  <2>1. loop'.batch = <<>> /\ channel' = <<>> /\ UNCHANGED job
    BY <1>7 DEF StopLoop, StopOnError, NewLoop
  <2>2. bb = 0 /\ cc = 0
    BY <1>3, <2>1 DEF bb, cc
  <2> QED
    BY <1>2, <1>4, <2>1, <2>2
<1>8. CASE NextEvent \/ CheckTentative \/ Await
  <2>1. /\ UNCHANGED job
        /\ channel' \in {channel, <<>>}
        /\ \/ loop'.batch = loop.batch
           \/ loop.batch = <<>> /\ loop'.batch = <<>>
           \/ loop.batch # <<>> /\ loop'.batch = Tail(loop.batch)
    BY <1>1, <1>8
       DEF NextEvent, CheckTentative, Await, Advance, NewLoop, LoopRecord, LoopKnows
  <2>2. cc <= c
    BY <1>2, <1>3, <2>1 DEF c, cc
  <2>3. bb <= b
    <3>1. CASE loop'.batch = loop.batch
      BY <1>2, <3>1 DEF b, bb
    <3>2. CASE loop.batch # <<>> /\ loop'.batch = Tail(loop.batch)
      BY <1>2, <1>5, <3>2
    <3> QED
      BY <2>1, <3>1, <3>2
  <2> QED
    BY <1>2, <1>4, <2>1, <2>2, <2>3
<1>9. CASE Dispatch
  <2>1. UNCHANGED channel /\ loop.batch # <<>> /\ loop'.batch = Tail(loop.batch)
    BY <1>1, <1>9 DEF Dispatch, LoopKnows
  <2>2. cc = c /\ b = bb + IF Sig = sig THEN 1 ELSE 0
    BY <1>5, <2>1 DEF c, cc
  <2> DEFINE k == CHOOSE j \in Jobs \ Busy : TRUE
             r == [NoJob EXCEPT !.pc = "block", !.event = Head(loop.batch)]
  <2>3. k \in Jobs /\ k \notin Busy /\ job' = [job EXCEPT ![k] = r]
    BY <1>9 DEF Dispatch, Busy
  <2>4. r.pc = "block" /\ r.event.sig = Sig
    BY DEF NoJob, Sig
  <2> HIDE DEF k, r
  <2>5. job \in [Jobs -> JobRecord] /\ job[k].pc = "idle"
    BY <1>1, <2>3 DEF JobsOK, Busy
  <2>6. Waiting(sig)' = IF Sig = sig THEN Waiting(sig) \union {k} ELSE Waiting(sig)
    BY <2>3, <2>4, <2>5 DEF Waiting
  <2>7. k \notin Waiting(sig) /\ IsFiniteSet(Waiting(sig))
    BY <1>1, <2>5, WaitingType DEF Waiting
  <2>8. CASE Sig = sig
    <3>1. ww = w + 1
      BY <2>6, <2>7, <2>8, FS_AddElement DEF w, ww
    <3> QED
      BY <1>2, <2>2, <2>8, <3>1
  <2>9. CASE Sig # sig
    <3>1. ww = w
      BY <2>6, <2>9 DEF w, ww
    <3> QED
      BY <1>2, <2>2, <2>9, <3>1
  <2> QED
    BY <2>8, <2>9
<1> QED
  BY <1>6, <1>7, <1>8, <1>9 DEF LoopStep

\* A delivery stops waiting when its handlers have run.
LEMMA JobPending ==
  ASSUME IFull, IFull', NEW j \in Jobs, JobStep(j), NEW sig \in Sigs
  PROVE  /\ Pending(sig)' <= Pending(sig)
         /\ JobHandle(j) /\ job[j].event.sig = sig => Pending(sig)' <= Pending(sig) - 1
<1> DEFINE w == Cardinality(Waiting(sig))
           ww == Cardinality(Waiting(sig)')
<1>1. JobsOK /\ job \in [Jobs -> JobRecord]
  BY DEF IFull, JobsOK
<1>2. UNCHANGED <<channel, loop>>
  BY DEF JobStep, JobBlock, JobHandle, JobMark, JobFails, OnlyJob
<1>3. CountIn(channel', sig) = CountIn(channel, sig)
      /\ CountIn(loop'.batch, sig) = CountIn(loop.batch, sig)
  BY <1>2
<1>4. /\ w \in Nat /\ ww \in Nat /\ CountIn(channel, sig) \in Nat
      /\ CountIn(loop.batch, sig) \in Nat
      /\ Pending(sig) = CountIn(channel, sig) + CountIn(loop.batch, sig) + w
      /\ Pending(sig)' = CountIn(channel, sig) + CountIn(loop.batch, sig) + ww
  BY <1>3, PendingType, PendingNext DEF Pending
<1>5. Waiting(sig)' \subseteq Waiting(sig)
  <2>1. \A k \in Jobs : k # j => job'[k] = job[k]
    BY <1>1 DEF JobStep, JobBlock, JobHandle, JobMark, JobFails
  <2>2. job'[j].pc \in {"block", "handle"} =>
          job[j].pc \in {"block", "handle"} /\ job'[j].event = job[j].event
    <3>1. CASE JobBlock(j) \/ JobHandle(j)
      BY <1>1, <3>1 DEF JobBlock, JobHandle, JobRecord
    <3>2. CASE JobMark(j) /\ job[j].pc \in {"final1", "final2", "final3"}
      BY <1>1, <3>2 DEF JobMark, JobRecord
    <3>3. CASE JobMark(j) /\ job[j].pc \notin {"final1", "final2", "final3"}
      BY <1>1, <3>3 DEF JobMark, NoJob
    <3>4. CASE JobFails(j)
      BY <1>1, <3>4 DEF JobFails, NoJob
    <3> QED
      BY <3>1, <3>2, <3>3, <3>4 DEF JobStep
  <2> QED
    BY <2>1, <2>2 DEF Waiting
<1>6. ww <= w
  BY <1>1, <1>5, FewerWait
<1>7. ASSUME JobHandle(j), job[j].event.sig = sig PROVE ww <= w - 1
  <2>1. j \in Waiting(sig)
    BY <1>7 DEF JobHandle, Waiting
  <2>2. job'[j].pc \notin {"block", "handle"}
    BY <1>1, <1>7 DEF JobHandle, JobRecord
  <2>3. Waiting(sig)' \in SUBSET (Waiting(sig) \ {j})
    BY <1>5, <2>2 DEF Waiting
  <2>4. IsFiniteSet(Waiting(sig))
    BY <1>1, WaitingType
  <2>5. IsFiniteSet(Waiting(sig) \ {j}) /\ Cardinality(Waiting(sig) \ {j}) = w - 1
    BY <2>1, <2>4, FS_RemoveElement
  <2> QED
    BY <2>3, <2>5, FS_Subset
<1> HIDE DEF w, ww
<1> QED
  BY <1>4, <1>6, <1>7

\* Only the channel grows, by what it is given.
LEMMA SendPending ==
  ASSUME IFull, IFull', Send, Alive, NEW sig \in Sigs
  PROVE  Pending(sig)' = Pending(sig) + IF feed.event.sig = sig THEN 1 ELSE 0
<1>1. /\ channel \in Seq(Event) /\ feed.event \in Event
      /\ channel' = Append(channel, feed.event) /\ UNCHANGED <<loop, job>>
  BY DEF Send, OnlyFeed, IFull, FeedOK, ChannelOK
<1>2. CountIn(channel', sig) = CountIn(channel, sig) + IF feed.event.sig = sig THEN 1 ELSE 0
  BY <1>1, CountAppend
<1>3. Waiting(sig)' = Waiting(sig)
  BY <1>1 DEF Waiting
<1>4. /\ CountIn(channel, sig) \in Nat /\ CountIn(loop.batch, sig) \in Nat
      /\ Cardinality(Waiting(sig)) \in Nat
      /\ Pending(sig)' = CountIn(channel', sig) + CountIn(loop.batch, sig)
                           + Cardinality(Waiting(sig))
  BY <1>1, <1>3, PendingType, PendingNext
<1> QED
  BY <1>2, <1>4 DEF Pending

LEMMA NextOnce == IOnce /\ [Next]_vars => IOnce'
<1> SUFFICES ASSUME IOnce, [Next]_vars PROVE IOnce'
  OBVIOUS
<1>1. IFull /\ IFull'
  BY NextFull DEF IOnce
<1>2. SUFFICES ASSUME NEW sig \in Sigs
               PROVE  delivered'[sig] = MaxHandled \/ handled'[sig] + Pending(sig)' <= delivered'[sig]
  BY <1>1 DEF IOnce
<1>3. /\ delivered \in [Sigs -> 0..MaxHandled] /\ handled \in [Sigs -> 0..MaxHandled]
      /\ delivered[sig] \in Nat /\ handled[sig] \in Nat /\ delivered[sig] <= MaxHandled
      /\ MaxHandled \in Nat /\ Pending(sig) \in Nat
      /\ delivered'[sig] \in Nat /\ handled'[sig] \in Nat
  BY <1>1, FullStreamsAssumption, PendingType DEF IFull, CountsOK
<1>4. Pending(sig)' \in Nat
  BY <1>1, PendingNext
<1>5. delivered[sig] = MaxHandled \/ handled[sig] + Pending(sig) <= delivered[sig]
  BY DEF IOnce
<1>6. ASSUME UNCHANGED <<delivered, handled>>, Pending(sig)' <= Pending(sig)
      PROVE  delivered'[sig] = MaxHandled \/ handled'[sig] + Pending(sig)' <= delivered'[sig]
  BY <1>3, <1>4, <1>5, <1>6
<1>7. CASE LoopStep
  <2>1. UNCHANGED <<delivered, handled>>
    BY <1>7 DEF LoopStep, NextBatch, StopLoop, NextEvent, CheckTentative, StopOnError, Dispatch,
       Await, OnlyLoop
  <2> QED
    BY <1>1, <1>6, <1>7, <2>1, LoopPending
<1>8. CASE Send /\ Alive
  <2>1. /\ delivered' = Counted(delivered, feed.event.sig) /\ UNCHANGED handled
        /\ feed.event.sig \in Sigs
    BY <1>1, <1>8 DEF Send, OnlyFeed, IFull, FeedOK, Event
  <2>2. Pending(sig)' = Pending(sig) + IF feed.event.sig = sig THEN 1 ELSE 0
    BY <1>1, <1>8, SendPending
  <2>3. CASE feed.event.sig = sig
    <3>1. delivered'[sig] \in {delivered[sig] + 1, MaxHandled}
      BY <1>3, <2>1, <2>3, CountedType
    <3>2. delivered[sig] = MaxHandled => delivered'[sig] = MaxHandled
      <4>1. delivered'[sig] <= MaxHandled
        BY <1>1 DEF IFull, CountsOK
      <4> QED
        BY <1>3, <3>1, <4>1
    <3> QED
      BY <1>3, <1>4, <1>5, <2>1, <2>2, <2>3, <3>1, <3>2
  <2>4. CASE feed.event.sig # sig
    <3>1. delivered'[sig] = delivered[sig]
      BY <1>3, <2>1, <2>4, CountedType
    <3> QED
      BY <1>3, <1>4, <1>5, <2>1, <2>2, <2>4, <3>1
  <2> QED
    BY <2>3, <2>4
<1>9. CASE \E j \in Jobs : JobStep(j)
  <2>1. PICK j \in Jobs : JobStep(j)
    BY <1>9
  <2>2. Pending(sig)' <= Pending(sig)
        /\ (JobHandle(j) /\ job[j].event.sig = sig => Pending(sig)' <= Pending(sig) - 1)
    BY <1>1, <2>1, JobPending
  <2>3. UNCHANGED delivered
    BY <2>1 DEF JobStep, JobBlock, JobHandle, JobMark, JobFails, OnlyJob
  <2>4. CASE JobHandle(j)
    <3>1. handled' = Counted(handled, job[j].event.sig) /\ job[j].event.sig \in Sigs
      BY <1>1, <2>4, JobHas DEF JobHandle, IFull
    <3>2. CASE job[j].event.sig = sig
      <4>1. handled'[sig] <= handled[sig] + 1
        BY <1>3, <3>1, <3>2, CountedType
      <4> QED
        BY <1>3, <1>4, <1>5, <2>2, <2>3, <2>4, <3>2, <4>1
    <3>3. CASE job[j].event.sig # sig
      <4>1. handled'[sig] = handled[sig]
        BY <1>3, <3>1, <3>3, CountedType
      <4> QED
        BY <1>3, <1>4, <1>5, <2>2, <2>3, <4>1
    <3> QED
      BY <3>2, <3>3
  <2>5. CASE ~JobHandle(j)
    <3>1. UNCHANGED handled
      BY <2>1, <2>5 DEF JobStep, JobBlock, JobMark, JobFails
    <3> QED
      BY <1>6, <2>2, <2>3, <3>1
  <2> QED
    BY <2>4, <2>5
<1>10. CASE ~LoopStep /\ ~(Send /\ Alive) /\ ~\E j \in Jobs : JobStep(j)
  <2>1. UNCHANGED <<channel, loop, job, delivered, handled>>
    BY <1>10 DEF Next, ClusterStep, NodeSubscribes, SocketDrops, OnlySocket, FeedStep, Connect,
       Read, Send, OnlyFeed, Cancel, fullVars, vars
  <2>2. Pending(sig)' = Pending(sig)
    BY <2>1 DEF Pending, CountIn, Places, Waiting
  <2> QED
    BY <1>3, <1>6, <2>1, <2>2
<1> QED
  BY <1>7, <1>8, <1>9, <1>10

LEMMA InitOnce == Init => IOnce
<1> SUFFICES ASSUME Init, NEW sig \in Sigs
             PROVE  handled[sig] + Pending(sig) <= delivered[sig]
  BY InitFull DEF IOnce
<1>1. handled[sig] \in Nat /\ delivered[sig] = handled[sig]
  BY DEF Init
<1>2. CountIn(channel, sig) = 0 /\ CountIn(loop.batch, sig) = 0
  BY CountEmpty DEF Init, NewLoop
<1>3. Waiting(sig) = {}
  BY DEF Init, NoJob, Waiting
<1> QED
  BY <1>1, <1>2, <1>3, FS_EmptySet DEF Pending

\* The handlers of a transaction run at most once for every event of it put
\* into the channel, whatever becomes of the tasks: no wait for a permit, no
\* error and no statement of storage runs them a second time.  (That two
\* events of a transaction may run them twice is what Helius does.)
THEOREM FullStreamsOncePerDelivery == Spec => []OncePerDelivery
<1>1. IOnce => OncePerDelivery
  <2> SUFFICES ASSUME IOnce, NEW sig \in Sigs PROVE handled[sig] <= delivered[sig]
    BY DEF OncePerDelivery
  <2>1. /\ IFull /\ handled[sig] \in 0..MaxHandled /\ delivered[sig] \in 0..MaxHandled
        /\ MaxHandled \in Nat
    BY FullStreamsAssumption DEF IOnce, IFull, CountsOK
  <2>2. Pending(sig) \in Nat
    BY <2>1, PendingType
  <2>3. delivered[sig] = MaxHandled \/ handled[sig] + Pending(sig) <= delivered[sig]
    BY DEF IOnce
  <2> QED
    BY <2>1, <2>2, <2>3
<1> QED
  BY <1>1, InitOnce, NextOnce, PTL DEF Spec
=============================================================================
