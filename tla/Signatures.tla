----------------------------- MODULE Signatures -----------------------------
(***************************************************************************)
(* getSignaturesForAddress (external to the repository): the confirmed     *)
(* transactions that name a program, newest first, down to `until` and at  *)
(* most `limit` of them.                                                   *)
(***************************************************************************)
EXTENDS Chain, SequencesExt

CONSTANTS
  Programs,     \* config.program_ids, in order
  ProgramsOf,   \* [Sigs -> SUBSET Programs]: the programs a transaction names
  Rank,         \* [Sigs -> Nat]: its index within its block
  NoSig         \* absence of a signature (None)

ASSUME SignaturesAssumption ==
  /\ Programs # <<>> /\ Programs \in Seq(Range(Programs))
  /\ ProgramsOf \in [Sigs -> SUBSET Range(Programs)]
  /\ Rank \in [Sigs -> Nat]
  /\ NoSig \notin Sigs

OnChain(sig) == \E s \in Slots : sig \in TxsAt(chain, s)
SlotOn(sig) == CHOOSE s \in Slots : sig \in TxsAt(chain, s)

Newer(a, b) ==
  SlotOn(a) > SlotOn(b) \/ (SlotOn(a) = SlotOn(b) /\ Rank[a] > Rank[b])

\* An `until` that is absent, or on no confirmed block, excludes nothing.
After(sig, until) ==
  OnChain(sig) /\ (until = NoSig \/ ~OnChain(until) \/ Newer(sig, until))

Found(program, until) ==
  {sig \in Sigs : program \in ProgramsOf[sig] /\ After(sig, until)}

\* There is one such answer, up to the order of transactions that the chain
\* does not order.
Answers(program, until, limit) ==
  LET found == Found(program, until)
  IN  {q \in UNION {[1..n -> found] : n \in 0..limit} :
         /\ \A i, k \in DOMAIN q : i < k => Newer(q[i], q[k])
         /\ \A sig \in found \ Range(q) :
              Len(q) = limit /\ \A i \in DOMAIN q : Newer(q[i], sig)}
=============================================================================
