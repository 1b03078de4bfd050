----------------------------- MODULE MCStreams -----------------------------
(***************************************************************************)
(* Streams on two slots: slot 0 is empty, slot 1 is skipped or gets a      *)
(* block of two transactions, of which the second failed on chain.         *)
(***************************************************************************)
EXTENDS Streams

CONSTANTS A0, A1, t1, t2, p

MCHashes == {A0, A1}
MCSigs == {t1, t2}

MCSlotOf == [h \in MCHashes |-> IF h = A0 THEN 0 ELSE 1]
MCTxsOf == [h \in MCHashes |-> IF h = A0 THEN {} ELSE {t1, t2}]
MCRank == [sig \in MCSigs |-> IF sig = t2 THEN 2 ELSE 1]
MCReverted == {t2}

OneProgram == <<p>>
OnlyP == [sig \in MCSigs |-> {p}]

NoFaults == [crash |-> 0, cancel |-> 0, db |-> 0, rpc |-> 0, handler |-> 0]
AllFaults == [crash |-> 1, cancel |-> 1, db |-> 1, rpc |-> 1, handler |-> 1]
Failures == [NoFaults EXCEPT !.cancel = 1, !.handler = 1]
=============================================================================
