------------------------------ MODULE MCStock ------------------------------
(* Instances of StockDelivery and StockSerial for TLC.                     *)
EXTENDS StockSerial, TLC

CONSTANTS d1, a1, a2, o1, o2, w1, w2

MCCidr == {d1}
MCSubnet == {1, 2}
MCCidrOf == [s \in {1, 2} |-> d1]
MCOrder == {o1, o2}
MCCidrsOf == [o \in {o1, o2} |-> {d1}]

(* Both orders use a1, the second one a2 as well: one common row. *)
MCAclsOf == o1 :> {a1} @@ o2 :> {a1, a2}

(* Both orders use the single ACL a1. *)
MCOneAcl == [o \in {o1, o2} |-> {a1}]

MCQuantity1 == [o \in {o1, o2} |-> 1]
MCQuantity2 == o1 :> 2 @@ o2 :> 1

(* A single order for two subnets. *)
MCSoleOrder == {o1}
MCSoleCidrs == [o \in {o1} |-> {d1}]
MCSoleAcl == [o \in {o1} |-> {a1}]
MCSoleQuantity == [o \in {o1} |-> 2]

Workers == Permutations({w1, w2})
=============================================================================
