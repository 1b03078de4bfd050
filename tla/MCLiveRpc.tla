----------------------------- MODULE MCLiveRpc -----------------------------
(***************************************************************************)
(* LiveRpc on three slots.  Slot 1 has two candidate blocks, A1 and B1,    *)
(* which share transaction t1; slot 2 has one.  With two programs, t3      *)
(* names the second and the other transactions the first.                  *)
(***************************************************************************)
EXTENDS LiveRpc

CONSTANTS A0, A1, B1, A2, t1, t2, t3, p, q, j1, j2

MCHashes == {A0, A1, B1, A2}
MCSigs == {t1, t2, t3}
MCJobs == {j1, j2}

MCSlotOf == [h \in MCHashes |-> CASE h = A0 -> 0 [] h = A2 -> 2 [] OTHER -> 1]
MCTxsOf == [h \in MCHashes |-> CASE h = A0 -> {}
                                 [] h = A1 -> {t1, t2}
                                 [] h = B1 -> {t1}
                                 [] h = A2 -> {t3}]
\* One transaction per slot, the first of them in slot 0.
Spread == [h \in MCHashes |-> CASE h = A0 -> {t1}
                                [] h = A1 -> {t2}
                                [] h = B1 -> {}
                                [] h = A2 -> {t3}]
MCRank == [sig \in MCSigs |-> IF sig = t2 THEN 2 ELSE 1]

OneProgram == <<p>>
TwoPrograms == <<p, q>>
OnlyP == [sig \in MCSigs |-> {p}]
Apart == [sig \in MCSigs |-> IF sig = t3 THEN {q} ELSE {p}]

NoFaults == [crash |-> 0, cancel |-> 0, db |-> 0, rpc |-> 0, handler |-> 0]
AllFaults == [crash |-> 1, cancel |-> 1, db |-> 1, rpc |-> 1, handler |-> 2]
CrashDb == [NoFaults EXCEPT !.crash = 1, !.db = 1]
CrashHandler == [NoFaults EXCEPT !.crash = 1, !.handler = 1]
OneCrash == [NoFaults EXCEPT !.crash = 1]
=============================================================================
