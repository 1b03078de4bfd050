----------------------------- MODULE MCIndexer -----------------------------
(***************************************************************************)
(* Indexer on two slots: slot 0 may hold t1, slot 1 gets a block with t2,  *)
(* an empty one, or none.  t0 is the signature the indexer is told to      *)
(* start from; it is older than all of them.                               *)
(***************************************************************************)
EXTENDS Indexer

CONSTANTS A0, A1, B1, t0, t1, t2, p, j1, j2

MCHashes == {A0, A1, B1}
MCSigs == {t0, t1, t2}
MCJobs == {j1, j2}

MCSlotOf == [h \in MCHashes |-> IF h = A0 THEN 0 ELSE 1]
MCTxsOf == [h \in MCHashes |-> CASE h = A0 -> {t1} [] h = A1 -> {t2} [] h = B1 -> {}]
MCRank == [sig \in MCSigs |-> 1]

OneProgram == <<p>>
OnlyP == [sig \in MCSigs |-> {p}]

NoTentative == {[sig \in MCSigs |-> NoRow]}
Open == [start |-> None, end |-> None, maxDepth |-> None, lag |-> None, chunk |-> 1]

Faults == [crash |-> 1, cancel |-> 0, db |-> 0, rpc |-> 0, handler |-> 0]
=============================================================================
