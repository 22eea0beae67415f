---------------------------- MODULE OrderSerial ----------------------------
(***************************************************************************)
(* OrderLifecycle with the jobs of the order one at a time and no crashes: *)
(* what the code needs and does not enforce (a queue per order would).     *)
(***************************************************************************)
EXTENDS OrderLifecycle

AtMostOne == \A v, w \in Worker : job[v].pc # "idle" /\ job[w].pc # "idle" => v = w

SerialNext ==
    /\ Next
    /\ AtMostOne'
    /\ calls' # calls => Quiet
    /\ UNCHANGED faults

SerialSpec == Init /\ [][SerialNext]_vars

-----------------------------------------------------------------------------
(* What the buyer has.  A renewal extends the proxies and then saves the   *)
(* order: it counts when the order is saved.  A new date is set on the     *)
(* proxies and then on the order: it counts when the proxies have it.      *)

Dating(w) == job[w].pc = "save"

Extended(s) ==
    /\ proxies[s] # None
    /\ \E w \in Worker : job[w].pc = "extend" /\ job[w].rows[s] = None

Term ==
    IF order = None THEN None
    ELSE IF \E w \in Worker : Dating(w)
         THEN job[CHOOSE w \in Worker : Dating(w)].copy.expires
         ELSE order.expires

PaidUp == order # None /\ order.paid

Kept == [s \in Slot |-> IF Extended(s) THEN proxies[s] - Period ELSE proxies[s]]

(* An administrator's deletion or new date is going on. *)
Asked == {"withdraw", "redo", "destroy", "date", "save"}

Open == \E w \in Worker : job[w].pc \in Asked

Sale == INSTANCE Subscription WITH term <- Term, paid <- PaidUp, kept <- Kept, open <- Open

(* One job at a time keeps the promise of Subscription: proxies of a paid  *)
(* order only, renewed together, and none removed before its time unless   *)
(* somebody asked for it (webhook_handle, the sweeps, the views).          *)
ImplementsSubscription == Sale!Spec

-----------------------------------------------------------------------------
(* The inductive invariant.                                                *)

(* What a job read is still so. *)
Fresh(w) ==
    LET j == job[w] IN
    /\ j.pc \in {"pay", "find", "lock", "create", "fail", "redo"} /\ j.entry # None
         => j.entry = order
    /\ j.pc \in {"rows", "extend", "lock", "create", "first", "close", "archive", "link"}
         => j.copy = order
    /\ j.pc \in {"lock", "create"} => order # None /\ order.paid
    /\ j.pc \in {"date", "save"}
         => order # None /\ j.copy = [order EXCEPT !.expires = j.copy.expires]
    /\ j.pc \in {"purge", "extend"}
         => \A s \in Slot : j.rows[s] # None => j.rows[s] = proxies[s]
    /\ j.pc = "timeout" => order # None /\ ~order.paid
    /\ j.pc \in {"clear", "mark", "first", "close", "archive", "drop", "old", "delete"}
         => order # None /\ order.expires <= now

(* What the buyer has expires with the order, which is paid. *)
RowsOK ==
    \A s \in Slot : proxies[s] # None => PaidUp /\ Kept[s] = Term

SerialInv ==
    /\ TypeOK
    /\ AtMostOne
    /\ \A w \in Worker : Fresh(w)
    /\ RowsOK

(* Proxies exist for a paid order only and all expire with it, whatever    *)
(* webhook_handle, the sweeps and the views have done one after the other. *)
FollowOrder == Sale!ProxiesFollowOrder
=============================================================================
