-------------------------- MODULE MCAuditDelivery --------------------------
(* Instances of AuditDelivery for TLC: e1 is recorded by p1, the others     *)
(* by p2.                                                                  *)
EXTENDS AuditDelivery

CONSTANTS e1, e2, e3, p1, p2

TwoHomes == [e \in Event |-> IF e = e1 THEN p1 ELSE p2]
=============================================================================
