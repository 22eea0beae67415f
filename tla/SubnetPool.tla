----------------------------- MODULE SubnetPool -----------------------------
(***************************************************************************)
(* What the stock of proxy subnets promises: a subnet is offered by stock  *)
(* rows (one row per CIDR and ACL, model ProxyStock); an order claims a    *)
(* subnet on all the rows of its ACLs in one step, is given proxies in it, *)
(* and gives them up; a row offers a subnet again only when nobody that    *)
(* uses this row claims or holds it.  StockDelivery is the code that is    *)
(* supposed to keep this promise.                                          *)
(***************************************************************************)
CONSTANTS
    Row,            \* stock rows (ProxyStock)
    Subnet,         \* subnets of every CIDR
    Order,          \* orders
    SubnetsOf(_),   \* SubnetsOf(r): the subnets row r was created with
    RowsOf(_, _)    \* RowsOf(o, s): the rows order o uses when it is given s

VARIABLES
    offered,        \* [Row -> SUBSET Subnet]: what each row has for sale
    claimed,        \* [Order -> SUBSET Subnet]: being delivered to the order
    held            \* [Order -> SUBSET Subnet]: the order has proxies in it

vars == <<offered, claimed, held>>

Holds(o, s) == s \in claimed[o] \cup held[o]

Users(r, s) == {o \in Order : r \in RowsOf(o, s) /\ Holds(o, s)}

Init ==
    /\ offered = [r \in Row |-> SubnetsOf(r)]
    /\ claimed = [o \in Order |-> {}]
    /\ held = [o \in Order |-> {}]

(* A delivery picks a subnet that every row of the order offers. *)
Claim(o, s) ==
    /\ \A r \in RowsOf(o, s) : s \in offered[r]
    /\ offered' = [r \in Row |-> IF r \in RowsOf(o, s)
                                 THEN offered[r] \ {s} ELSE offered[r]]
    /\ claimed' = [claimed EXCEPT ![o] = @ \cup {s}]
    /\ UNCHANGED held

(* The proxies of a claimed subnet are recorded for the order. *)
Give(o, s) ==
    /\ s \in claimed[o]
    /\ held' = [held EXCEPT ![o] = @ \cup {s}]
    /\ UNCHANGED <<offered, claimed>>

(* The delivery is over with this subnet; what it created stays held. *)
Settle(o, s) ==
    /\ s \in claimed[o]
    /\ claimed' = [claimed EXCEPT ![o] = @ \ {s}]
    /\ UNCHANGED <<offered, held>>

(* Proxies of the order are deleted. *)
GiveUp(o, S) ==
    /\ held' = [held EXCEPT ![o] = @ \ S]
    /\ UNCHANGED <<offered, claimed>>

(* A row takes back a subnet that nobody uses on this row. *)
TakeBack(r, s) ==
    /\ s \in SubnetsOf(r)
    /\ Users(r, s) = {}
    /\ offered' = [offered EXCEPT ![r] = @ \cup {s}]
    /\ UNCHANGED <<claimed, held>>

(* The steps of StockDelivery that leave the pool alone come first. *)
Next ==
    \/ UNCHANGED vars
    \/ \E o \in Order, s \in Subnet : Claim(o, s) \/ Give(o, s) \/ Settle(o, s)
    \/ \E o \in Order, S \in SUBSET Subnet : GiveUp(o, S)
    \/ \E r \in Row, s \in Subnet : TakeBack(r, s)

Spec == Init /\ [][Next]_vars

TypeOK ==
    /\ offered \in [Row -> SUBSET Subnet]
    /\ claimed \in [Order -> SUBSET Subnet]
    /\ held \in [Order -> SUBSET Subnet]

(* A subnet is sold at most once on a row: find_repeat of                  *)
(* src/mocks/fix_tool.py looks for proxies with one ip and one stock row   *)
(* under two orders.                                                       *)
SoldOnce ==
    \A r \in Row, s \in Subnet, o, p \in Order :
        o \in Users(r, s) /\ p \in Users(r, s) => o = p

(* A subnet in use on a row is not for sale on it. *)
UsedNotOffered ==
    \A r \in Row, s \in Subnet : s \in offered[r] => Users(r, s) = {}
=============================================================================
