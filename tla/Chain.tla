------------------------------- MODULE Chain -------------------------------
(***************************************************************************)
(* The Solana cluster as the indexer sees it through RPC (external to the  *)
(* repository; modelled from the requests the code sends).                 *)
(*                                                                         *)
(* Slots up to tip are confirmed, slots up to root are finalized.  A slot  *)
(* holds one block or was skipped.  A confirmed block that is not          *)
(* finalized may still be replaced by another fork's block or by a skip;   *)
(* that replacement is the reorganisation the indexer wants to detect.     *)
(***************************************************************************)
EXTENDS Types

CONSTANTS
  SlotOf,       \* [Hashes -> Slots]: the slot a block was produced for
  TxsOf,        \* [Hashes -> SUBSET Sigs]: its transactions of our programs
  InitialTip,   \* the cluster is confirmed and finalized up to this slot
  Commitment,   \* config.commitment_level: "confirmed" (default) or "finalized"
  MaxReorgs     \* bound: number of reorganisations

ASSUME ChainAssumption ==
  /\ SlotOf \in [Hashes -> Slots]
  /\ TxsOf \in [Hashes -> SUBSET Sigs]
  /\ \A h \in Hashes : IsFiniteSet(TxsOf[h])
  /\ InitialTip \in Slots
  /\ Commitment \in {"confirmed", "finalized"}
  /\ MaxReorgs \in Nat

VARIABLES
  chain,    \* slot -> hash of its block on the cluster's fork, NoHash if skipped
  tip,      \* highest confirmed slot
  root,     \* highest finalized slot
  reorgs    \* reorganisations so far

chainVars == <<chain, tip, root, reorgs>>

ChainTypeOK ==
  /\ chain \in [Slots -> Hashes \union {NoHash}]
  /\ tip \in Slots
  /\ root \in 0..tip
  /\ reorgs \in 0..MaxReorgs

TxsAt(c, s) == IF c[s] = NoHash THEN {} ELSE TxsOf[c[s]]

\* Every block sits at its own slot and a transaction lands at most once.
WellFormed(c) ==
  /\ \A s \in Slots : c[s] # NoHash => SlotOf[c[s]] = s
  /\ \A s, t \in Slots : s # t => TxsAt(c, s) \intersect TxsAt(c, t) = {}

\* getBlock at the configured commitment succeeds.
BlockAvailable(s) ==
  /\ s <= IF Commitment = "finalized" THEN root ELSE tip
  /\ chain[s] # NoHash

\* Slots that getTransaction may answer for a signature (at most one).
SlotsOfTx(sig) ==
  {s \in Slots : s <= (IF Commitment = "finalized" THEN root ELSE tip)
                 /\ sig \in TxsAt(chain, s)}

ChainInit ==
  /\ chain \in {c \in [Slots -> Hashes \union {NoHash}] :
                  WellFormed(c) /\ \A s \in Slots : s > InitialTip => c[s] = NoHash}
  /\ tip = InitialTip
  /\ root = InitialTip
  /\ reorgs = 0

\* The next slot is confirmed, with a block of some fork or skipped.
Confirm ==
  /\ tip < MaxSlot
  /\ \E h \in Hashes \union {NoHash} :
       /\ chain' = [chain EXCEPT ![tip + 1] = h]
       /\ WellFormed(chain')
  /\ tip' = tip + 1
  /\ UNCHANGED <<root, reorgs>>

Finalize ==
  /\ root < tip
  /\ root' = root + 1
  /\ UNCHANGED <<chain, tip, reorgs>>

\* A confirmed, not yet finalized slot changes fork.
Reorg ==
  /\ reorgs < MaxReorgs
  /\ \E s \in (root + 1)..tip, h \in Hashes \union {NoHash} :
       /\ h # chain[s]
       /\ chain' = [chain EXCEPT ![s] = h]
       /\ WellFormed(chain')
  /\ reorgs' = reorgs + 1
  /\ UNCHANGED <<tip, root>>

ChainNext == Confirm \/ Finalize \/ Reorg
=============================================================================
