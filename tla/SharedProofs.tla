---------------------------- MODULE SharedProofs ----------------------------
(***************************************************************************)
(* Lemmas about what the components share: the storage statements, the     *)
(* cluster and the fault budget keep their types, the chain only extends   *)
(* when nothing is reorganised, and what a request for signatures answers. *)
(***************************************************************************)
EXTENDS Storage, Signatures, Process, SequenceTheorems, FiniteSetTheorems,
        WellFoundedInduction, TLAPS

-----------------------------------------------------------------------------
(* Every storage statement keeps the types of the tables.                  *)

LEMMA StatementTypes ==
  ASSUME StorageTypeOK, NEW s \in Slots
  PROVE  /\ \A h \in StoredHashes : InsertFinalized(s, h) => StorageTypeOK'
         /\ \A sig \in Sigs : InsertProcessed(sig, s) => StorageTypeOK'
         /\ \A sig \in Sigs, h \in StoredHashes :
              InsertTentative(sig, s, h) => StorageTypeOK'
         /\ PromoteTentative(s) => StorageTypeOK'
         /\ DeleteTentative(s) => StorageTypeOK'
         /\ DeleteProcessed(s) => StorageTypeOK'
         /\ DeleteFinalized(s) => StorageTypeOK'
         /\ SaveProgress(s) => StorageTypeOK'
<1> USE DEF StorageTypeOK
<1>1. \A h \in StoredHashes : InsertFinalized(s, h) => StorageTypeOK'
  BY DEF InsertFinalized
<1>2. \A sig \in Sigs : InsertProcessed(sig, s) => StorageTypeOK'
  BY DEF InsertProcessed
<1>3. PromoteTentative(s) => StorageTypeOK'
  BY DEF PromoteTentative
<1>4. DeleteTentative(s) => StorageTypeOK'
  BY DEF DeleteTentative
<1>5. DeleteProcessed(s) => StorageTypeOK'
  BY DEF DeleteProcessed
<1>6. DeleteFinalized(s) => StorageTypeOK'
  BY DEF DeleteFinalized
<1>7. SaveProgress(s) => StorageTypeOK'
  BY DEF SaveProgress
<1>8. \A sig \in Sigs, h \in StoredHashes : InsertTentative(sig, s, h) => StorageTypeOK'
  BY DEF InsertTentative, TentativeRow
<1> QED
  BY <1>1, <1>2, <1>3, <1>4, <1>5, <1>6, <1>7, <1>8

LEMMA MarkCompleteType ==
  StorageTypeOK /\ MarkComplete => StorageTypeOK'
  BY DEF StorageTypeOK, MarkComplete

LEMMA StorageFrame ==
  StorageTypeOK /\ UNCHANGED tables => StorageTypeOK'
  BY DEF StorageTypeOK, tables

LEMMA ChainStep ==
  ChainTypeOK /\ (ChainNext \/ UNCHANGED chainVars) => ChainTypeOK'
<1> SUFFICES ASSUME ChainTypeOK, ChainNext \/ UNCHANGED chainVars
             PROVE  ChainTypeOK'
  OBVIOUS
<1> USE TypesAssumption, ChainAssumption DEF ChainTypeOK, Slots
<1>1. CASE Confirm
  BY <1>1 DEF Confirm
<1>2. CASE Finalize
  BY <1>2 DEF Finalize
<1>3. CASE Reorg
  BY <1>3 DEF Reorg
<1>4. CASE UNCHANGED chainVars
  BY <1>4 DEF chainVars
<1> QED
  BY <1>1, <1>2, <1>3, <1>4 DEF ChainNext

LEMMA FaultType ==
  ASSUME ProcessTypeOK, cancelled' \in BOOLEAN,
         \/ UNCHANGED faults
         \/ \E kind \in {"crash", "cancel", "db", "rpc", "handler"} : Fault(kind)
  PROVE  ProcessTypeOK'
  BY DEF ProcessTypeOK, Fault, BudgetOf

LEMMA ProcessFrame ==
  ASSUME ProcessTypeOK, UNCHANGED <<cancelled, faults>>
  PROVE  ProcessTypeOK'
  BY DEF ProcessTypeOK

\* A fault is counted by the budget it draws on, and by no other.
LEMMA FaultCounts ==
  ASSUME ProcessTypeOK, NEW fault \in {"crash", "cancel", "db", "rpc", "handler"},
         UNCHANGED faults \/ Fault(fault),
         NEW kind \in {"crash", "cancel", "db", "rpc", "handler"}
  PROVE  /\ Used(kind) \in Int /\ Used(kind)' \in Int /\ Used(kind) <= Used(kind)'
         /\ Fault(fault) => Used(kind)' = Used(kind) + IF kind = fault THEN 1 ELSE 0
<1>1. faults[kind] \in Nat /\ FaultBudget[kind] \in Nat /\ faults[fault] \in Nat
  BY ProcessAssumption DEF ProcessTypeOK, BudgetOf
<1>2. CASE UNCHANGED faults
  <2>1. ~Fault(fault)
    BY <1>1, <1>2 DEF Fault, ProcessTypeOK, BudgetOf
  <2> QED
    BY <1>1, <1>2, <2>1 DEF Used
<1>3. CASE Fault(fault)
  BY <1>1, <1>3 DEF Used, Fault, ProcessTypeOK, BudgetOf
<1> QED
  BY <1>2, <1>3

LEMMA AvailableBlock ==
  ASSUME ChainTypeOK, NEW s \in Nat, BlockAvailable(s)
  PROVE  s \in Slots /\ chain[s] \in Hashes
  BY TypesAssumption DEF ChainTypeOK, BlockAvailable, Slots

LEMMA RootIsSlot == ChainTypeOK => root \in Slots /\ tip \in Slots
  BY TypesAssumption DEF ChainTypeOK, Slots

-----------------------------------------------------------------------------
(* Without a reorganisation the chain is only ever extended.               *)

Extensible == WellFormed(chain) /\ \A s \in Slots : s > tip => chain[s] = NoHash

LEMMA ChainIsExtensible == ChainInit => Extensible
  BY DEF ChainInit, Extensible

\* A transaction stays in its slot, and a new one lands beyond all others.
LEMMA ChainExtends ==
  ASSUME ChainTypeOK, Extensible, reorgs' = 0, ChainNext \/ UNCHANGED chainVars
  PROVE  /\ Extensible'
         /\ tip \in Slots /\ tip' \in Slots /\ tip <= tip'
         /\ \A s \in Slots : TxsAt(chain, s) # {} => s <= tip
         /\ \A s \in Slots : IF s <= tip THEN TxsAt(chain', s) = TxsAt(chain, s)
                              ELSE TxsAt(chain, s) = {}
<1> USE TypesAssumption, ChainAssumption DEF ChainTypeOK, Extensible, Slots
<1>1. tip \in Slots /\ chain \in [Slots -> Hashes \union {NoHash}]
      /\ \A s \in Slots : s > tip => TxsAt(chain, s) = {}
  BY DEF TxsAt
<1>2. CASE Confirm
  <2>1. /\ tip + 1 \in Slots /\ tip' = tip + 1 /\ WellFormed(chain')
        /\ \A s \in Slots : s # tip + 1 => chain'[s] = chain[s]
    BY <1>1, <1>2 DEF Confirm
  <2> QED
    BY <1>1, <2>1 DEF TxsAt
<1>3. CASE Finalize \/ UNCHANGED chainVars
  BY <1>1, <1>3 DEF Finalize, chainVars, WellFormed, TxsAt
<1>4. ~Reorg
  BY DEF Reorg
<1> QED
  BY <1>2, <1>3, <1>4 DEF ChainNext

\* On a chain that is only extended a transaction keeps its place.
LEMMA PlaceStays ==
  ASSUME ChainTypeOK, Extensible, reorgs' = 0, ChainNext \/ UNCHANGED chainVars, NEW a
  PROVE  /\ OnChain(a) => /\ OnChain(a)' /\ SlotOn(a)' = SlotOn(a)
                          /\ SlotOn(a) \in Slots /\ SlotOn(a) <= tip
         /\ ~OnChain(a) /\ OnChain(a)' => SlotOn(a)' \in Slots /\ SlotOn(a)' > tip
<1> USE DEF Slots
<1>1. /\ WellFormed(chain) /\ WellFormed(chain') /\ tip \in Slots
      /\ \A s \in Slots : TxsAt(chain, s) # {} => s <= tip
      /\ \A s \in Slots : IF s <= tip THEN TxsAt(chain', s) = TxsAt(chain, s)
                           ELSE TxsAt(chain, s) = {}
  BY ChainExtends DEF Extensible
<1>2. ASSUME OnChain(a)
      PROVE  /\ OnChain(a)' /\ SlotOn(a)' = SlotOn(a) /\ SlotOn(a) \in Slots /\ SlotOn(a) <= tip
  <2>1. PICK s \in Slots : a \in TxsAt(chain, s)
    BY <1>2 DEF OnChain
  <2>2. s <= tip /\ a \in TxsAt(chain', s)
    BY <1>1, <2>1
  <2>3. \A t \in Slots : a \in TxsAt(chain, t) \/ a \in TxsAt(chain', t) => t = s
    BY <1>1, <2>1, <2>2 DEF WellFormed
  <2>4. SlotOn(a) = s /\ SlotOn(a)' = s
    BY <2>1, <2>2, <2>3 DEF SlotOn
  <2> QED
    BY <2>1, <2>2, <2>4 DEF OnChain
<1>3. ASSUME ~OnChain(a), OnChain(a)' PROVE SlotOn(a)' \in Slots /\ SlotOn(a)' > tip
  <2>1. SlotOn(a)' \in Slots /\ a \in TxsAt(chain', SlotOn(a)')
    BY <1>3 DEF OnChain, SlotOn
  <2>2. ~(SlotOn(a)' <= tip)
    BY <1>1, <1>3, <2>1 DEF OnChain
  <2> QED
    BY <1>1, <2>1, <2>2
<1> QED
  BY <1>2, <1>3

\* Nothing lands behind a transaction that is on the chain.
LEMMA AfterStays ==
  ASSUME ChainTypeOK, Extensible, reorgs' = 0, ChainNext \/ UNCHANGED chainVars,
         NEW sig, NEW until
  PROVE  /\ OnChain(sig) /\ After(sig, until)' => After(sig, until)
         /\ OnChain(until) /\ OnChain(sig)' /\ ~After(sig, until)' =>
              OnChain(sig) /\ ~After(sig, until)
<1> USE PlaceStays DEF Slots
<1>1. OnChain(sig) /\ OnChain(until) => (Newer(sig, until)' <=> Newer(sig, until))
  BY DEF Newer
<1>2. ~OnChain(sig) /\ OnChain(sig)' /\ OnChain(until) => Newer(sig, until)'
  <2> SUFFICES ASSUME ~OnChain(sig), OnChain(sig)', OnChain(until)
               PROVE  SlotOn(sig)' > SlotOn(until)'
    BY DEF Newer
  <2>1. SlotOn(sig)' \in Nat /\ SlotOn(sig)' > tip
    OBVIOUS
  <2>2. SlotOn(until)' = SlotOn(until) /\ SlotOn(until) \in Nat /\ SlotOn(until) <= tip
    OBVIOUS
  <2>3. tip \in Nat
    BY DEF ChainTypeOK
  <2> QED
    BY <2>1, <2>2, <2>3
<1> QED
  BY <1>1, <1>2 DEF After

-----------------------------------------------------------------------------
(* What getSignaturesForAddress answers.                                   *)

\* Every transaction concerns the one program that is indexed.
SingleProgram == Len(Programs) = 1 /\ \A sig \in Sigs : Programs[1] \in ProgramsOf[sig]

LEMMA AnswerType ==
  ASSUME NEW program, NEW until, NEW limit \in Nat, NEW q \in Answers(program, until, limit)
  PROVE  q \in Seq(Sigs)
<1>1. Found(program, until) \subseteq Sigs
  BY DEF Found
<1>2. PICK n \in Nat : q \in [1..n -> Found(program, until)]
  BY DEF Answers
<1>3. q \in [1..n -> Sigs]
  BY <1>1, <1>2
<1> QED
  BY <1>3, <1>2

\* An answer lists transactions that were found, each of them once.
LEMMA AnswerDistinct ==
  ASSUME NEW program, NEW until, NEW limit \in Nat, NEW q \in Answers(program, until, limit)
  PROVE  /\ q \in Seq(Sigs) /\ IsInjective(q)
         /\ \A i \in DOMAIN q : q[i] \in Found(program, until) /\ SlotOn(q[i]) \in Slots
<1>1. q \in Seq(Sigs)
  BY AnswerType
<1>2. ASSUME NEW i \in DOMAIN q PROVE q[i] \in Found(program, until) /\ SlotOn(q[i]) \in Slots
  <2>1. q[i] \in Found(program, until)
    BY <1>2 DEF Answers
  <2> QED
    BY <2>1 DEF Found, After, OnChain, SlotOn
<1>3. ASSUME NEW i \in DOMAIN q, NEW k \in DOMAIN q, i < k PROVE q[i] # q[k]
  <2>1. Newer(q[i], q[k])
    BY <1>3 DEF Answers
  <2>2. q[i] \in Sigs /\ SlotOn(q[i]) \in Nat
    BY <1>2 DEF Found, Slots
  <2>3. Rank[q[i]] \in Nat
    BY <2>2, SignaturesAssumption
  <2> QED
    BY <2>1, <2>2, <2>3 DEF Newer
<1>4. \A i, k \in DOMAIN q : i \in Int /\ k \in Int
  BY <1>1
<1>5. \A i, k \in DOMAIN q : q[i] = q[k] => i = k
  BY <1>3, <1>4
<1> QED
  BY <1>1, <1>2, <1>5 DEF IsInjective

\* An answer with room for everything that is found holds everything.
LEMMA AnswerComplete ==
  ASSUME NEW program, NEW until, NEW limit \in Nat, NEW q \in Answers(program, until, limit),
         IsFiniteSet(Found(program, until)),
         Cardinality(Found(program, until)) <= limit
  PROVE  Range(q) = Found(program, until)
<1> DEFINE found == Found(program, until)
<1>1. /\ q \in Seq(Sigs) /\ IsInjective(q) /\ \A i \in DOMAIN q : q[i] \in found
  BY AnswerDistinct
<1>2. Range(q) \subseteq found
  BY <1>1 DEF Range
<1>3. ASSUME NEW sig \in found \ Range(q) PROVE FALSE
  <2>1. Len(q) = limit /\ limit \in Nat
    BY DEF Answers
  <2>2. q \in [1..limit -> found \ {sig}]
    BY <1>1, <1>3, <2>1 DEF Range
  <2>3. q \in Injection(1..limit, found \ {sig})
    BY <1>1, <2>2 DEF Injection
  <2>4. /\ IsFiniteSet(found \ {sig}) /\ Cardinality(found) \in Nat
        /\ Cardinality(found \ {sig}) = Cardinality(found) - 1
    BY <1>3, FS_RemoveElement, FS_CardinalityType
  <2>5. Cardinality(1..limit) <= Cardinality(found \ {sig})
    BY <2>3, <2>4, FS_Injection
  <2>6. Cardinality(1..limit) = limit
    BY <2>1, FS_Interval
  <2> QED
    BY <2>1, <2>4, <2>5, <2>6
<1> QED
  BY <1>2, <1>3

LEMMA RangeOfTail ==
  ASSUME NEW S, NEW b \in Seq(S), b # <<>>
  PROVE  Range(b) = {Head(b)} \union Range(Tail(b))
<1>1. /\ Head(b) = b[1] /\ DOMAIN b = 1..Len(b) /\ Len(b) \in Nat \ {0}
      /\ DOMAIN Tail(b) = 1..(Len(b) - 1)
      /\ \A i \in 1..(Len(b) - 1) : Tail(b)[i] = b[i + 1]
  BY HeadTailProperties, EmptySeq
<1>2. ASSUME NEW i \in 1..Len(b), i # 1 PROVE i - 1 \in 1..(Len(b) - 1) /\ b[i] = Tail(b)[i - 1]
  BY <1>1, <1>2
<1>3. \A i \in 1..(Len(b) - 1) : i + 1 \in 1..Len(b)
  BY <1>1
<1>4. ASSUME NEW x \in Range(b) PROVE x \in {Head(b)} \union Range(Tail(b))
  <2>1. PICK i \in 1..Len(b) : x = b[i]
    BY <1>1, <1>4 DEF Range
  <2> QED
    BY <1>1, <1>2, <2>1 DEF Range
<1>5. ASSUME NEW x \in Range(Tail(b)) PROVE x \in Range(b)
  <2>1. PICK i \in 1..(Len(b) - 1) : x = Tail(b)[i]
    BY <1>1, <1>5 DEF Range
  <2> QED
    BY <1>1, <1>3, <2>1 DEF Range
<1>6. Head(b) \in Range(b)
  BY <1>1 DEF Range
<1> QED
  BY <1>4, <1>5, <1>6

-----------------------------------------------------------------------------
(* MAX(slot): a set of slots that is not empty has a largest one.          *)

LEMMA Largest ==
  ASSUME NEW N \in Nat, NEW T, T \subseteq 0..N, T # {}
  PROVE  \E s \in T : \A t \in T : t <= s
<1> DEFINE U == {N - t : t \in T}
<1>1. \A t \in T : t \in Int /\ t <= N /\ N - t \in U
  OBVIOUS
<1>2. U \subseteq Nat
  <2> SUFFICES ASSUME NEW t \in T PROVE N - t \in Nat
    OBVIOUS
  <2> QED
    OBVIOUS
<1>3. U # {}
  BY <1>1
<1>4. \E x \in U : \A y \in U : ~(<<y, x>> \in OpToRel(<, Nat))
  BY <1>2, <1>3, NatLessThanWellFounded, WFMin
<1>5. PICK x \in U : \A y \in U : ~(y < x)
  BY <1>2, <1>4 DEF OpToRel
<1>6. PICK s \in T : x = N - s
  OBVIOUS
<1> HIDE DEF U
<1>7. ASSUME NEW t \in T PROVE t <= s
  <2>1. ~(N - t < N - s)
    BY <1>1, <1>5, <1>6
  <2> QED
    BY <1>1, <2>1
<1> QED
  BY <1>6, <1>7

LEMMA LastSlotType ==
  ASSUME StorageTypeOK
  PROVE  LastProcessedSlot \in Slots
<1>1. CASE \A sig \in Sigs : ~InProcessed(sig)
  BY <1>1, TypesAssumption DEF LastProcessedSlot, Slots
<1>2. CASE \E sig \in Sigs : InProcessed(sig)
  <2> DEFINE T == {s \in Slots : \E sig \in Sigs : processed[sig] = s}
  <2>1. T # {}
    BY <1>2 DEF StorageTypeOK, InProcessed
  <2>2. PICK s \in T : \A t \in T : t <= s
    BY <2>1, Largest, TypesAssumption DEF Slots
  <2>3. ASSUME NEW sig \in Sigs PROVE processed[sig] <= s
    BY <2>2 DEF StorageTypeOK, NoSlot, Slots
  <2>4. \E u \in Slots : /\ \E sig \in Sigs : processed[sig] = u
                         /\ \A sig \in Sigs : processed[sig] <= u
    BY <2>2, <2>3
  <2> QED
    BY <1>2, <2>4 DEF LastProcessedSlot
<1> QED
  BY <1>1, <1>2
=============================================================================
