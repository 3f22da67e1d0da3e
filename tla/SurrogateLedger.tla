-------------------------- MODULE SurrogateLedger --------------------------
(***************************************************************************)
(* What a session promises about names (ARCHITECTURE.md, "guarantee        *)
(* one-to-one mapping within a session"): a ledger that gives a real value *)
(* at most one surrogate, never gives one surrogate to two values, and     *)
(* never takes an entry back.  Module Session is shown to implement it.    *)
(***************************************************************************)
CONSTANTS Texts, None

VARIABLE ledger

Granted == {ledger[v] : v \in Texts} \ {None}

Init == ledger = [v \in Texts |-> None]

Grant(v, s) ==
    /\ ledger[v] = None
    /\ ledger' = [ledger EXCEPT ![v] = s]

Next == \E v \in Texts, s \in Texts \ Granted : Grant(v, s)

Spec == Init /\ [][Next]_ledger
=============================================================================
