---------------------------- MODULE Subscription ----------------------------
(***************************************************************************)
(* What an order promises its buyer: proxies only for a paid order, all of *)
(* them until the order's current term; a renewal moves the term of the    *)
(* order and of all its proxies in one step; before the term proxies go    *)
(* only when the buyer or an administrator withdraws them.  OrderLifecycle *)
(* is the code that is supposed to keep this promise.                      *)
(***************************************************************************)
EXTENDS Naturals

CONSTANTS
    Slot,           \* proxies the order may have
    Period,         \* the time an order buys (proxy_time)
    None            \* no such row

VARIABLES
    now,            \* the time
    term,           \* expiry of the order, None once it is gone
    paid,           \* the order is paid
    kept,           \* [Slot -> expiry of a proxy, or None]
    open            \* a withdrawal or a new date was asked for and is going on

vars == <<now, term, paid, kept, open>>

Init ==
    /\ now = 0
    /\ term = Period
    /\ paid = FALSE
    /\ kept = [s \in Slot |-> None]
    /\ open = FALSE

(* Every proxy the order has expires at t. *)
AllUntil(t) == [s \in Slot |-> IF kept[s] = None THEN None ELSE t]

Without(S) == [s \in Slot |-> IF s \in S THEN None ELSE kept[s]]

Tick ==
    /\ now' = now + 1
    /\ UNCHANGED <<term, paid, kept, open>>

Pay ==
    /\ term # None
    /\ paid' = TRUE
    /\ UNCHANGED <<now, term, kept, open>>

(* A proxy of a paid order is created with the term of the order. *)
Give(s) ==
    /\ paid
    /\ kept[s] = None
    /\ kept' = [kept EXCEPT ![s] = term]
    /\ UNCHANGED <<now, term, paid, open>>

(* A renewal, one step for all rows; *)
Extend ==
    /\ term # None
    /\ term' = term + Period
    /\ kept' = AllUntil(term')
    /\ UNCHANGED <<now, paid, open>>

(* so is a new date set by an administrator. *)
Reschedule ==
    /\ open
    /\ term # None
    /\ term' \in Nat
    /\ kept' = AllUntil(term')
    /\ UNCHANGED <<now, paid, open>>

(* Expired proxies are removed, *)
Expire(S) ==
    /\ \A s \in S : kept[s] # None => kept[s] <= now
    /\ kept' = Without(S)
    /\ UNCHANGED <<now, term, paid, open>>

(* and so is an order that was never paid or whose term is over. *)
Lapse ==
    /\ paid => term <= now
    /\ term' = None
    /\ paid' = FALSE
    /\ kept' = Without(Slot)
    /\ UNCHANGED <<now, open>>

Ask(b) ==
    /\ open' = b
    /\ UNCHANGED <<now, term, paid, kept>>

Withdraw(S) ==
    /\ open
    /\ kept' = Without(S)
    /\ open' \in BOOLEAN
    /\ UNCHANGED <<now, term, paid>>

Cancel ==
    /\ open
    /\ term' = None
    /\ paid' = FALSE
    /\ kept' = Without(Slot)
    /\ open' = FALSE
    /\ UNCHANGED now

Next ==
    \/ Tick \/ Pay \/ Extend \/ Reschedule \/ Lapse \/ Cancel
    \/ \E s \in Slot : Give(s)
    \/ \E S \in SUBSET Slot : Expire(S) \/ Withdraw(S)
    \/ \E b \in BOOLEAN : Ask(b)

Spec == Init /\ [][Next]_vars

TypeOK ==
    /\ now \in Nat
    /\ term \in Nat \cup {None}
    /\ paid \in BOOLEAN
    /\ kept \in [Slot -> Nat \cup {None}]
    /\ open \in BOOLEAN

(* Proxies exist for a paid order only and all expire with it. *)
ProxiesFollowOrder ==
    \A s \in Slot : kept[s] # None => paid /\ term # None /\ kept[s] = term
=============================================================================
