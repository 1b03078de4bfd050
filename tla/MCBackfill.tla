---------------------------- MODULE MCBackfill ----------------------------
(***************************************************************************)
(* Backfill on three slots.  Slot 1 has two candidate blocks, A1 and B1,   *)
(* which share transaction t1; slot 2 has one; slot 0 one empty block.     *)
(***************************************************************************)
EXTENDS Backfill

CONSTANTS A0, A1, B1, A2, t1, t2, t3

MCHashes == {A0, A1, B1, A2}
MCSigs == {t1, t2, t3}

MCSlotOf == [h \in MCHashes |-> CASE h = A0 -> 0 [] h = A2 -> 2 [] OTHER -> 1]
MCTxsOf == [h \in MCHashes |-> CASE h = A0 -> {}
                                 [] h = A1 -> {t1, t2}
                                 [] h = B1 -> {t1}
                                 [] h = A2 -> {t3}]

NoTentative == {[sig \in MCSigs |-> NoRow]}
Row(h) == [slot |-> 1, hash |-> h]

\* What an earlier live run left: nothing, or the rows of one fork of slot 1,
\* or a row whose block could not be fetched.
OneForkTentative ==
  NoTentative \union {[sig \in MCSigs |-> IF sig = t2 THEN Row(A1) ELSE NoRow],
                       [sig \in MCSigs |-> IF sig = t1 THEN Row(B1) ELSE NoRow],
                       [sig \in MCSigs |-> IF sig = t2 THEN Row(UnknownHash) ELSE NoRow]}

Open == [start |-> None, end |-> None, maxDepth |-> None, lag |-> None, chunk |-> 1]
Wide == [Open EXCEPT !.chunk = MaxSlot]

NoFaults == [crash |-> 0, cancel |-> 0, db |-> 0, rpc |-> 0, handler |-> 0]
Crashes == [NoFaults EXCEPT !.crash = 1, !.db = 1]
Failures == [NoFaults EXCEPT !.cancel = 1, !.db = 1, !.handler = 1]
AllButCancel == [Crashes EXCEPT !.rpc = 1, !.handler = 1]
=============================================================================
