------------------------------ MODULE Delivery ------------------------------
(***************************************************************************)
(* What a source promises about a transaction, whatever the network does:  *)
(* it is handled, then recorded; a recorded transaction stays recorded and *)
(* is not handled again, nor is one whose handlers have just succeeded,    *)
(* unless an interruption came between the handlers and the record.        *)
(***************************************************************************)
EXTENDS Integers, FiniteSetsExt

CONSTANTS
  Sigs,        \* transaction signatures
  MaxHandled   \* bound: successful handler calls counted per transaction

VARIABLES
  inHand,    \* handled and about to be recorded
  recorded,  \* what the indexer will not handle again
  handled    \* successful handler calls per transaction

deliveryVars == <<inHand, recorded, handled>>

\* An earlier process may have recorded some already.
Init ==
  /\ inHand = {} /\ recorded \in SUBSET Sigs
  /\ handled = [sig \in Sigs |-> IF sig \in recorded THEN 1 ELSE 0]

Handle(sig) ==
  /\ sig \notin inHand \union recorded
  /\ inHand' = inHand \union {sig}
  /\ handled' = [handled EXCEPT ![sig] = Min({@ + 1, MaxHandled})]
  /\ UNCHANGED recorded

Record(sig) ==
  /\ sig \in inHand
  /\ inHand' = inHand \ {sig}
  /\ recorded' = recorded \union {sig}
  /\ UNCHANGED handled

\* A crash or an error loses the knowledge that these were handled.
Interrupt ==
  /\ \E lost \in SUBSET inHand : inHand' = inHand \ lost
  /\ UNCHANGED <<recorded, handled>>

Next == (\E sig \in Sigs : Handle(sig) \/ Record(sig)) \/ Interrupt

Spec == Init /\ [][Next]_deliveryVars
=============================================================================
