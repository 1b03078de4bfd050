------------------------------ MODULE Storage ------------------------------
(***************************************************************************)
(* The tables of the PostgreSQL storage and the SQL statements its methods *)
(* are made of.  A statement is atomic; a method that issues several is    *)
(* not (no method opens a transaction), so the modules that call storage   *)
(* take one step per statement.                                            *)
(*                                                                         *)
(* A table with a primary key is a function from the key: NoSlot, NoRow    *)
(* and NoHash stand for a missing row.  indexed_at only breaks ties in     *)
(* LastProcessedSignatures; there every tie is kept as a choice.           *)
(***************************************************************************)
EXTENDS Types

VARIABLES
  processed,   \* _solana_indexer_sdk_processed: signature -> slot
  tentative,   \* _solana_indexer_sdk_tentative: signature -> slot, block_hash
  finalized,   \* _solana_indexer_sdk_finalized_blocks: slot -> block_hash
  progress     \* _solana_indexer_sdk_backfill_progress, its row with id = 1

tables == <<processed, tentative, finalized, progress>>

TentativeRow == [slot : Slots, hash : StoredHashes]
NoRow == [slot |-> NoSlot, hash |-> NoHash]

\* Type invariant of the tables.
StorageTypeOK ==
  /\ processed \in [Sigs -> Slots \union {NoSlot}]
  /\ tentative \in [Sigs -> TentativeRow \union {NoRow}]
  /\ finalized \in [Slots -> StoredHashes \union {NoHash}]
  /\ progress \in [last : Slots \union {NoSlot}, complete : BOOLEAN]

-----------------------------------------------------------------------------
(* Queries.                                                                *)

InProcessed(sig) == processed[sig] # NoSlot
InTentative(sig) == tentative[sig] # NoRow

\* Present in either table: what the two statements of is_processed look for.
Recorded == {sig \in Sigs : InProcessed(sig) \/ InTentative(sig)}

TentativeAt(s) == {sig \in Sigs : tentative[sig].slot = s}

\* MAX(slot) over processed, 0 when the table is empty (unwrap_or).
LastProcessedSlot ==
  IF \A sig \in Sigs : ~InProcessed(sig)
  THEN 0
  ELSE CHOOSE s \in Slots : /\ \E sig \in Sigs : processed[sig] = s
                            /\ \A sig \in Sigs : processed[sig] <= s

\* ORDER BY slot DESC, indexed_at DESC LIMIT 1.
LastProcessedSignatures ==
  {sig \in Sigs : InProcessed(sig) /\ processed[sig] = LastProcessedSlot}

-----------------------------------------------------------------------------
(* Statements: each assigns one table.                                     *)

\* INSERT INTO processed ... ON CONFLICT DO NOTHING.
InsertProcessed(sig, s) ==
  /\ processed' = [processed EXCEPT ![sig] = IF @ = NoSlot THEN s ELSE @]
  /\ UNCHANGED <<tentative, finalized, progress>>

\* INSERT INTO tentative ... ON CONFLICT DO NOTHING.
InsertTentative(sig, s, h) ==
  /\ tentative' = [tentative EXCEPT
                     ![sig] = IF @ = NoRow THEN [slot |-> s, hash |-> h] ELSE @]
  /\ UNCHANGED <<processed, finalized, progress>>

\* INSERT INTO finalized_blocks ... ON CONFLICT DO NOTHING.
InsertFinalized(s, h) ==
  /\ finalized' = [finalized EXCEPT ![s] = IF @ = NoHash THEN h ELSE @]
  /\ UNCHANGED <<processed, tentative, progress>>

\* INSERT INTO processed SELECT ... FROM tentative WHERE slot = s.
PromoteTentative(s) ==
  /\ processed' = [sig \in Sigs |->
       IF sig \in TentativeAt(s) /\ ~InProcessed(sig) THEN s ELSE processed[sig]]
  /\ UNCHANGED <<tentative, finalized, progress>>

\* DELETE FROM tentative WHERE slot = s.
DeleteTentative(s) ==
  /\ tentative' = [sig \in Sigs |->
                     IF sig \in TentativeAt(s) THEN NoRow ELSE tentative[sig]]
  /\ UNCHANGED <<processed, finalized, progress>>

\* DELETE FROM tentative WHERE slot < cutoff.
DeleteStaleTentative(cutoff) ==
  /\ tentative' = [sig \in Sigs |->
       IF tentative[sig].slot < cutoff THEN NoRow ELSE tentative[sig]]
  /\ UNCHANGED <<processed, finalized, progress>>

\* DELETE FROM processed WHERE slot = s.
DeleteProcessed(s) ==
  /\ processed' = [sig \in Sigs |->
                     IF processed[sig] = s THEN NoSlot ELSE processed[sig]]
  /\ UNCHANGED <<tentative, finalized, progress>>

\* DELETE FROM finalized_blocks WHERE slot = s.
DeleteFinalized(s) ==
  /\ finalized' = [finalized EXCEPT ![s] = NoHash]
  /\ UNCHANGED <<processed, tentative, progress>>

\* A mutant: the row holds the next slot to do, not the last one done.
SaveProgress_Next(s) ==
  /\ progress' = [progress EXCEPT !.last = s + 1]
  /\ UNCHANGED <<processed, tentative, finalized>>

\* INSERT ... (id, last_slot) VALUES (1, s) ON CONFLICT DO UPDATE SET last_slot.
SaveProgress(s) ==
  /\ progress' = [progress EXCEPT !.last = s]
  /\ UNCHANGED <<processed, tentative, finalized>>

\* UPDATE ... SET is_complete = TRUE WHERE id = 1: no row, no effect.
MarkComplete ==
  /\ progress' = [progress EXCEPT !.complete = @ \/ progress.last # NoSlot]
  /\ UNCHANGED <<processed, tentative, finalized>>
=============================================================================
