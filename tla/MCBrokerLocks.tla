---------------------------- MODULE MCBrokerLocks ----------------------------
(* Two requests of one connection and one of another compete for one id. *)
EXTENDS BrokerLocks

CONSTANTS i1, l1, l2, l3, c1, c2

MCLock == {l1, l2, l3}
MCIdOf == [l \in MCLock |-> i1]
MCConnOf == [l \in MCLock |-> IF l = l3 THEN c2 ELSE c1]
=============================================================================
