---------------------------- MODULE StockSerial ----------------------------
(***************************************************************************)
(* StockDelivery under the conditions that make its read-modify-write of   *)
(* stock rows safe: no two jobs in progress have read a common row, and    *)
(* no process dies.  The code does not enforce them; the deployment would  *)
(* have to (one serial queue for all the jobs of a server group).          *)
(***************************************************************************)
EXTENDS StockDelivery

(* No two jobs in progress work on copies of one row. *)
Apart ==
    \A v, w \in Worker : v # w => job[v].rows \cap job[w].rows = {}

SerialNext == Next /\ Apart' /\ UNCHANGED faults

SerialSpec == Init /\ [][SerialNext]_vars

(* Proxies are deleted all the proxies of a subnet at once, and not within *)
(* the five minutes in which an earlier deletion's key is still in redis.  *)
Spaced ==
    \A o \in Order, s \in Subnet :
        proxies'[o][s] < proxies[o][s]
            => proxies'[o][s] = 0 /\ Claim(o, s) \notin returnKey

SpacedNext == SerialNext /\ Spaced

SpacedSpec == Init /\ [][SpacedNext]_vars

-----------------------------------------------------------------------------
(* The inductive invariant.                                                *)

(* The rows a job may still save. *)
Copies(j) == IF j.pc \in {"give", "giving"} THEN j.left ELSE j.rows

(* A job's copies are what the table has; a delivery may take every subnet *)
(* it plans to take, and nobody else uses the one it is taking; nobody     *)
(* uses what a return is about to give back.                               *)
WorkOK(w) ==
    LET j == job[w] IN
    /\ \A r \in Copies(j) : j.snap[r].avail = stock[r].avail
    /\ j.pc \in {"next", "create", "save", "count"}
         => \A s \in j.todo : \A r \in StocksOf(j.order, s) : s \in j.snap[r].avail
    /\ Claiming(w)
         => /\ j.subnet \notin j.todo
            /\ \A r \in StocksOf(j.order, j.subnet) :
                  Holders(r, j.subnet) \subseteq {j.order}
    /\ j.pc = "create" => j.left = StocksOf(j.order, j.subnet)
    /\ j.pc = "count" => j.subnet \notin j.snap[j.row].avail
    /\ j.pc \in {"give", "giving"}
         => \A r \in j.left : Holders(r, j.subnet) = {}

(* With separated jobs no job works on stale data, and therefore a subnet  *)
(* is held by one order and is not for sale while it is held.              *)
SerialInv ==
    /\ TypeOK
    /\ Apart
    /\ \A w \in Worker : WorkOK(w)
    /\ HeldNotOffered
    /\ SoldOnce

-----------------------------------------------------------------------------
(* The refinement of SubnetPool.                                           *)

ClaimedBy(o) == {job[w].subnet : w \in {v \in Worker :
                    Claiming(v) /\ job[v].order = o}}

HeldBy(o) == {s \in Subnet : proxies[o][s] > 0}

ClaimedOn(r) == {job[w].subnet : w \in {v \in Worker :
                    Claiming(v) /\ r \in StocksOf(job[v].order, job[v].subnet)}}

Pool == INSTANCE SubnetPool WITH
            RowsOf <- StocksOf,
            offered <- [r \in Row |-> stock[r].avail \ ClaimedOn(r)],
            claimed <- [o \in Order |-> ClaimedBy(o)],
            held <- [o \in Order |-> HeldBy(o)]

(* With separated jobs the deliveries, deletions and returns implement the *)
(* subnet pool: claims are atomic over all the rows of an order, and a row *)
(* takes a subnet back only when nobody uses it there.                     *)
ImplementsPool == Pool!Spec
=============================================================================
