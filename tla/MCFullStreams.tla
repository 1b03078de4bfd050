--------------------------- MODULE MCFullStreams ---------------------------
(***************************************************************************)
(* FullStreams on two slots: slot 0 is empty, slot 1 gets a block of two   *)
(* transactions, another block with one of them, or none.                  *)
(***************************************************************************)
EXTENDS FullStreams

CONSTANTS A1, B1, t1, t2, j1, j2, j3

MCHashes == {A1, B1}
MCSigs == {t1, t2}
MCJobs == {j1, j2, j3}

MCSlotOf == [h \in MCHashes |-> 1]
MCTxsOf == [h \in MCHashes |-> IF h = A1 THEN {t1, t2} ELSE {t1}]

Both == {"helius", "laserstream"}

\* Nothing, or what a mark_finalized that was interrupted leaves of one fork.
Nothing == [tentative |-> [sig \in MCSigs |-> NoRow], finalized |-> [s \in Slots |-> NoHash]]
Interrupted ==
  [tentative |-> [sig \in MCSigs |-> IF sig = t2 THEN [slot |-> 1, hash |-> A1] ELSE NoRow],
   finalized |-> [s \in Slots |-> IF s = 1 THEN A1 ELSE NoHash]]

MCLeftovers == {Nothing, Interrupted}

Faults == [crash |-> 0, cancel |-> 1, db |-> 1, rpc |-> 0, handler |-> 0]
=============================================================================
