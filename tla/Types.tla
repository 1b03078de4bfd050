------------------------------- MODULE Types -------------------------------
(***************************************************************************)
(* Identifiers shared by the modules of the indexer: transaction           *)
(* signatures, slots and block hashes.  A signature or a hash is only ever *)
(* compared for equality by the code, so both are members of small sets;   *)
(* a slot is a number, ordered and incremented.                            *)
(***************************************************************************)
EXTENDS Integers, FiniteSets

CONSTANTS
  Sigs,         \* transaction signatures
  Hashes,       \* block hashes, over all forks
  UnknownHash,  \* the literal "UNKNOWN", stored when a block cannot be fetched
  NoHash,       \* absence of a hash (None, or no row)
  MaxSlot       \* bound: the highest slot the chain reaches

ASSUME TypesAssumption ==
  /\ MaxSlot \in Nat
  /\ NoHash \notin Hashes
  /\ UnknownHash \notin Hashes
  /\ NoHash # UnknownHash

Slots == 0..MaxSlot

\* Absence of a slot (None, or no row).
NoSlot == -1

\* What a block_hash column may hold.
StoredHashes == Hashes \union {UnknownHash}
=============================================================================
