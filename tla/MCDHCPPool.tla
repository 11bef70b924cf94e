----------------------------- MODULE MCDHCPPool -----------------------------
(* Three clients and three addresses, the first of which is reserved.        *)
EXTENDS DHCPPool

CONSTANTS m1, m2, m3

Clients == {m1, m2, m3}

FirstReserved == [a \in 1 .. Size |-> IF a = 1 THEN m1 ELSE Nobody]
=============================================================================
