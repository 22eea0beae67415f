--------------------------- MODULE OrderLifecycle ---------------------------
(***************************************************************************)
(* One order from its checkout to its deletion: the payment webhook with   *)
(* delivery and renewal (orders/services.py), the sweeps of the celery     *)
(* beat (orders/tasks.py) and the administrator's calls (orders/views.py). *)
(* A worker is a thread or process that runs one of these; jobs interleave *)
(* between any two accesses to the database.                               *)
(*                                                                         *)
(* Orders and proxies are read as whole rows and saved as whole rows:      *)
(* save() writes every column of the copy in memory and inserts the row    *)
(* again if it was deleted meanwhile.  A proxy refers to its order, so it  *)
(* is deleted with the order and cannot be saved without it.               *)
(***************************************************************************)
EXTENDS Naturals, FiniteSets

CONSTANTS
    Slot,           \* proxies the order may have
    Quantity,       \* product_quantity
    Period,         \* proxy_time, the time an order or a renewal buys
    Timeout,        \* the age at which an unpaid order is deleted (24 hours)
    OldAge,         \* the age of an old order (timedelta(days=15))
    None,           \* no such row
    Worker,         \* threads and processes
    ProcessOf,      \* the operating system process a worker belongs to
    Free,           \* a lock nobody holds
    Orphan,         \* a lock whose holder died
    MaxTime,        \* bound on the clock
    MaxCalls,       \* bound on notifications
    MaxAdmin,       \* bound on administrative jobs
    MaxFaults       \* bound on crashes

(* pay_status, order_status, expired_at and renew_status. *)
Row == [paid : BOOLEAN, status : {"new", "delivered", "expired"},
        expires : Nat, renewed : Nat]

ASSUME OrderAssumption ==
    /\ IsFiniteSet(Slot)
    /\ Quantity \in Nat /\ Period \in Nat /\ Timeout \in Nat /\ OldAge \in Nat
    /\ MaxTime \in Nat /\ MaxCalls \in Nat
    /\ MaxAdmin \in Nat /\ MaxFaults \in Nat
    /\ None \notin Nat
    /\ None \notin Row
    /\ Free \notin Worker /\ Orphan \notin Worker /\ Free # Orphan

VARIABLES
    now,            \* the time
    order,          \* the row of the order, or None
    proxies,        \* [Slot -> expired_at of a proxy, or None]
    lock,           \* create_proxy_by_id_{pk}
    job,            \* [Worker -> Job]
    calls,          \* paid notifications received from Shopify
    renewals,       \* those of them that pay for a renewal
    admin,          \* administrative jobs so far
    faults          \* crashes so far

vars == <<now, order, proxies, lock, job, calls, renewals, admin, faults>>

Rows == [Slot -> Nat \cup {None}]

NoRows == [s \in Slot |-> None]

PC == {"idle", "pay", "find", "rows", "extend", "lock", "create", "fail",
       "clear", "mark", "purge", "timeout", "first", "close", "archive", "drop",
       "old", "delete", "withdraw", "redo", "destroy", "date", "save", "link"}

Mode == {"new", "renew", "task", "fill"}

(* The locals of a job: the order as webhook_handle read it, the order as  *)
(* the called function read it, the proxies it read, how many it made and  *)
(* is to make; for delete_expired_order which of its two bodies runs.      *)
Job == [pc : PC, mode : Mode, entry : Row \cup {None}, copy : Row \cup {None},
        rows : Rows, made : Nat, goal : Nat, deletes : BOOLEAN]

Idle == [pc |-> "idle", mode |-> "new", entry |-> None, copy |-> None,
         rows |-> NoRows, made |-> 0, goal |-> 0, deletes |-> FALSE]

Present == {s \in Slot : proxies[s] # None}

SetJob(w, j) == job' = [job EXCEPT ![w] = j]

Goto(w, pc) == SetJob(w, [job[w] EXCEPT !.pc = pc])

Begin(w, j) == job[w].pc = "idle" /\ SetJob(w, j)

Quiet == \A w \in Worker : job[w].pc = "idle"

(* Jobs of webhook_handle. *)
Handling(w) ==
    /\ job[w].mode \in {"new", "renew"}
    /\ job[w].pc \in {"pay", "find", "rows", "extend", "lock", "create", "fail"}

(* get_checkout_link has created the order. *)
Init ==
    /\ now = 0
    /\ order = [paid |-> FALSE, status |-> "new", expires |-> Period, renewed |-> 0]
    /\ proxies = NoRows
    /\ lock = Free
    /\ job = [w \in Worker |-> Idle]
    /\ calls = 0 /\ renewals = 0 /\ admin = 0 /\ faults = 0

Tick ==
    /\ now < MaxTime
    /\ now' = now + 1
    /\ UNCHANGED <<order, proxies, lock, job, calls, renewals, admin, faults>>

-----------------------------------------------------------------------------
(* A paid notification: webhook_handle_thread and webhook_handle.          *)

Notified(renewal) ==
    /\ calls < MaxCalls
    /\ calls' = calls + 1
    /\ renewals' = renewals + (IF renewal THEN 1 ELSE 0)
    /\ UNCHANGED <<now, order, proxies, lock, admin, faults>>

(* Mutant: the thread is started without a look at its name. *)
NameUnchecked(w) == FALSE

(* A thread of this order's name in the same process. *)
Named(w) == \E v \in Worker : ProcessOf[v] = ProcessOf[w] /\ Handling(v)

(* The thread starts and reads the order; without one it does nothing. *)
StartWebhook(w, renewal) ==
    /\ ~Named(w)
    /\ Notified(renewal)
    /\ Begin(w, IF order = None THEN Idle
                ELSE [Idle EXCEPT !.pc = "pay", !.entry = order,
                                  !.mode = IF renewal THEN "renew" ELSE "new"])

(* The thread exists: the view still answers success. *)
DropWebhook(w, renewal) ==
    /\ job[w].pc = "idle"
    /\ Named(w)
    /\ Notified(renewal)
    /\ UNCHANGED job

Paid(row, renewal) ==
    [row EXCEPT !.paid = TRUE, !.renewed = @ + (IF renewal THEN 1 ELSE 0)]

SavePayment(w) ==
    /\ job[w].pc = "pay"
    /\ order' = Paid(job[w].entry, job[w].mode = "renew")
    /\ SetJob(w, [job[w] EXCEPT !.entry = order', !.pc = "find"])
    /\ UNCHANGED <<now, proxies, lock, calls, renewals, admin, faults>>

-----------------------------------------------------------------------------
(* Renewal: renew_proxy_by_order.                                          *)

FindRenewed(w) ==
    /\ job[w].pc = "find" /\ job[w].mode = "renew"
    /\ SetJob(w, IF order = None THEN [job[w] EXCEPT !.pc = "fail"]
                 ELSE [job[w] EXCEPT !.copy = order, !.pc = "rows"])
    /\ UNCHANGED <<now, order, proxies, lock, calls, renewals, admin, faults>>

ReadProxies(w) ==
    /\ job[w].pc = "rows"
    /\ SetJob(w, [job[w] EXCEPT !.rows = proxies, !.pc = "extend"])
    /\ UNCHANGED <<now, order, proxies, lock, calls, renewals, admin, faults>>

(* proxy.save(): without the order the exception ends the handler. *)
ExtendProxy(w, s) ==
    /\ job[w].pc = "extend" /\ job[w].rows[s] # None
    /\ IF order = None
       THEN SetJob(w, Idle) /\ UNCHANGED proxies
       ELSE /\ proxies' = [proxies EXCEPT ![s] = job[w].rows[s] + Period]
            /\ SetJob(w, [job[w] EXCEPT !.rows[s] = None])
    /\ UNCHANGED <<now, order, lock, calls, renewals, admin, faults>>

(* Mutant: the new term starts now and not at the old one. *)
SaveRenewalFromNow(w) ==
    /\ job[w].pc = "extend" /\ job[w].rows = NoRows
    /\ order' = [job[w].copy EXCEPT !.expires = now + Period]
    /\ SetJob(w, Idle)
    /\ UNCHANGED <<now, proxies, lock, calls, renewals, admin, faults>>

SaveRenewal(w) ==
    /\ job[w].pc = "extend" /\ job[w].rows = NoRows
    /\ order' = [job[w].copy EXCEPT !.expires = @ + Period]
    /\ SetJob(w, Idle)
    /\ UNCHANGED <<now, proxies, lock, calls, renewals, admin, faults>>

-----------------------------------------------------------------------------
(* Delivery: create_proxy and create_proxy_by_order_obj.                   *)

(* The webhook goes on to save the failure, a task just ends. *)
Failed(w) == IF job[w].mode = "new" THEN [job[w] EXCEPT !.pc = "fail"] ELSE Idle

(* Mutant: pay_status is not looked at. *)
DeliverableUnpaid(row) == row # None /\ ~ row.expires < now

Deliverable(row) == row # None /\ row.paid /\ ~ row.expires < now

FindOrder(w) ==
    /\ job[w].pc = "find" /\ job[w].mode # "renew"
    /\ SetJob(w, IF Deliverable(order)
                 THEN [job[w] EXCEPT !.copy = order, !.goal = Quantity, !.pc = "lock"]
                 ELSE Failed(w))
    /\ UNCHANGED <<now, order, proxies, lock, calls, renewals, admin, faults>>

(* delivery_order; devery_order when proxies are missing. *)
StartTask(w, fill) ==
    /\ Deliverable(order)
    /\ fill => Cardinality(Present) < Quantity
    /\ Begin(w, [Idle EXCEPT !.pc = "lock", !.copy = order, !.goal = Quantity,
                             !.mode = IF fill THEN "fill" ELSE "task"])
    /\ UNCHANGED <<now, order, proxies, lock, calls, renewals, admin, faults>>

(* Under the lock a fill counts what is missing and may find nothing. *)
AcquireLock(w) ==
    /\ job[w].pc = "lock"
    /\ lock = Free
    /\ LET count == IF job[w].mode = "fill" THEN Cardinality(Present) ELSE 0
       IN  IF job[w].mode = "fill" /\ count >= Quantity
           THEN SetJob(w, Idle) /\ UNCHANGED lock
           ELSE /\ lock' = w
                /\ SetJob(w, [job[w] EXCEPT !.goal = @ - count, !.pc = "create"])
    /\ UNCHANGED <<now, order, proxies, calls, renewals, admin, faults>>

(* Proxy.objects.create(): without the order an exception ends the job. *)
CreateProxy(w, s) ==
    /\ job[w].pc = "create" /\ job[w].made < job[w].goal
    /\ proxies[s] = None
    /\ IF order = None
       THEN /\ SetJob(w, Idle) /\ lock' = Free /\ UNCHANGED proxies
       ELSE /\ proxies' = [proxies EXCEPT ![s] = job[w].copy.expires]
            /\ SetJob(w, [job[w] EXCEPT !.made = @ + 1])
            /\ UNCHANGED lock
    /\ UNCHANGED <<now, order, calls, renewals, admin, faults>>

(* No stock, or the proxy server fails: proxies made so far stay. *)
DeliveryFails(w) ==
    /\ job[w].pc = "create" /\ job[w].made < job[w].goal
    /\ SetJob(w, Failed(w))
    /\ lock' = Free
    /\ UNCHANGED <<now, order, proxies, calls, renewals, admin, faults>>

(* The goal is reached, or the stock ran out after some proxies. *)
FinishDelivery(w) ==
    /\ job[w].pc = "create" /\ job[w].made > 0
    /\ order' = [job[w].copy EXCEPT !.status = "delivered"]
    /\ SetJob(w, Idle)
    /\ lock' = Free
    /\ UNCHANGED <<now, proxies, calls, renewals, admin, faults>>

(* The webhook saves fail_reason with the order it read first. *)
SaveFailure(w) ==
    /\ job[w].pc = "fail"
    /\ order' = job[w].entry
    /\ SetJob(w, Idle)
    /\ UNCHANGED <<now, proxies, lock, calls, renewals, admin, faults>>

-----------------------------------------------------------------------------
(* The sweeps of the beat.                                                 *)

(* Mutant: the filter on expired_at is missing. *)
ExpiredAtAnyTime(row) == row # None /\ row.paid /\ row.status = "delivered"

Expired(row) == row # None /\ row.paid /\ row.status = "delivered" /\ row.expires <= now

(* check_order_expired: its proxies are found by order, whenever they      *)
(* expire, and order_status is updated alone.                              *)
StartOrderCheck(w) ==
    /\ Expired(order)
    /\ Begin(w, [Idle EXCEPT !.pc = "clear"])
    /\ UNCHANGED <<now, order, proxies, lock, calls, renewals, admin, faults>>

ClearProxies(w) ==
    /\ job[w].pc = "clear"
    /\ proxies' = NoRows
    /\ Goto(w, "mark")
    /\ UNCHANGED <<now, order, lock, calls, renewals, admin, faults>>

MarkExpired(w) ==
    /\ job[w].pc = "mark"
    /\ order' = IF order = None THEN None ELSE [order EXCEPT !.status = "expired"]
    /\ SetJob(w, Idle)
    /\ UNCHANGED <<now, proxies, lock, calls, renewals, admin, faults>>

(* Mutant: only the proxies of orders not yet marked are looked at. *)
StartDeliveredSweep(w) ==
    /\ Present # {}
    /\ order.status = "delivered"
    /\ Begin(w, [Idle EXCEPT !.pc = "purge", !.rows = proxies])
    /\ UNCHANGED <<now, order, proxies, lock, calls, renewals, admin, faults>>

(* delete_proxy_expired: each proxy is judged by the copy that was read. *)
StartProxySweep(w) ==
    /\ Present # {}
    /\ Begin(w, [Idle EXCEPT !.pc = "purge", !.rows = proxies])
    /\ UNCHANGED <<now, order, proxies, lock, calls, renewals, admin, faults>>

SweepProxy(w, s) ==
    /\ job[w].pc = "purge" /\ job[w].rows[s] # None
    /\ proxies' = IF job[w].rows[s] < now THEN [proxies EXCEPT ![s] = None]
                                          ELSE proxies
    /\ SetJob(w, IF \A r \in Slot \ {s} : job[w].rows[r] = None THEN Idle
                 ELSE [job[w] EXCEPT !.rows[s] = None])
    /\ UNCHANGED <<now, order, lock, calls, renewals, admin, faults>>

(* delete_timeout_order; created_at is time 0. *)
StartTimeout(w) ==
    /\ order # None /\ ~order.paid /\ order.status = "new"
    /\ Timeout <= now
    /\ Begin(w, [Idle EXCEPT !.pc = "timeout"])
    /\ UNCHANGED <<now, order, proxies, lock, calls, renewals, admin, faults>>

(* Mutant: on_delete of Proxy.order does not cascade. *)
DeleteOrderOnly(w) ==
    /\ order' = None
    /\ SetJob(w, Idle)
    /\ UNCHANGED <<now, proxies, lock, calls, renewals, admin, faults>>

(* The deletion of an order takes its proxies with it. *)
DeleteOrder(w) ==
    /\ order' = None
    /\ proxies' = NoRows
    /\ SetJob(w, Idle)
    /\ UNCHANGED <<now, lock, calls, renewals, admin, faults>>

DeleteTimedOut(w) == job[w].pc = "timeout" /\ DeleteOrder(w)

(* delete_expired_order: two functions have this task name, one archives   *)
(* the order and one deletes it; which of them is registered is not fixed. *)
StartClosing(w, deletes) ==
    /\ Expired(order)
    /\ Begin(w, [Idle EXCEPT !.pc = "first", !.copy = order, !.deletes = deletes])
    /\ UNCHANGED <<now, order, proxies, lock, calls, renewals, admin, faults>>

(* The order's first proxy, if it has one. *)
FindFirst(w) ==
    /\ job[w].pc = "first"
    /\ \/ \E s \in Present :
             SetJob(w, [job[w] EXCEPT !.rows[s] = proxies[s], !.pc = "close"])
       \/ /\ Present = {}
          /\ SetJob(w, IF job[w].deletes THEN [job[w] EXCEPT !.pc = "drop"] ELSE Idle)
    /\ UNCHANGED <<now, order, proxies, lock, calls, renewals, admin, faults>>

CloseProxy(w) ==
    /\ job[w].pc = "close"
    /\ proxies' = [s \in Slot |-> IF job[w].rows[s] # None THEN None ELSE proxies[s]]
    /\ SetJob(w, [job[w] EXCEPT !.rows = NoRows, !.pc = "archive"])
    /\ UNCHANGED <<now, order, lock, calls, renewals, admin, faults>>

SaveArchived(w) ==
    /\ job[w].pc = "archive"
    /\ order' = [job[w].copy EXCEPT !.status = "expired"]
    /\ SetJob(w, IF job[w].deletes THEN [job[w] EXCEPT !.pc = "drop"] ELSE Idle)
    /\ UNCHANGED <<now, proxies, lock, calls, renewals, admin, faults>>

DropOrder(w) == job[w].pc = "drop" /\ DeleteOrder(w)

(* delete_old_order: the order, then whether it has proxies. *)
StartOld(w) ==
    /\ order # None /\ order.expires + OldAge < now
    /\ Begin(w, [Idle EXCEPT !.pc = "old"])
    /\ UNCHANGED <<now, order, proxies, lock, calls, renewals, admin, faults>>

CheckOld(w) ==
    /\ job[w].pc = "old"
    /\ SetJob(w, IF Present = {} THEN [job[w] EXCEPT !.pc = "delete"] ELSE Idle)
    /\ UNCHANGED <<now, order, proxies, lock, calls, renewals, admin, faults>>

DeleteOld(w) == job[w].pc = "delete" /\ DeleteOrder(w)

-----------------------------------------------------------------------------
(* Calls of the buyer and of administrators.                               *)

StartAdmin(w, j) ==
    /\ order # None
    /\ admin < MaxAdmin
    /\ admin' = admin + 1
    /\ Begin(w, j)
    /\ UNCHANGED <<now, order, proxies, lock, calls, renewals, faults>>

(* delete_proxy: the proxies that were read are deleted one by one. *)
StartWithdraw(w) ==
    /\ Present # {}
    /\ StartAdmin(w, [Idle EXCEPT !.pc = "withdraw", !.rows = proxies])

WithdrawProxy(w, s) ==
    /\ job[w].pc = "withdraw" /\ job[w].rows[s] # None
    /\ proxies' = [proxies EXCEPT ![s] = None]
    /\ SetJob(w, IF \A r \in Slot \ {s} : job[w].rows[r] = None THEN Idle
                 ELSE [job[w] EXCEPT !.rows[s] = None])
    /\ UNCHANGED <<now, order, lock, calls, renewals, admin, faults>>

(* one_key_delivery_order: all proxies are deleted, then a new delivery. *)
StartRedo(w) == StartAdmin(w, [Idle EXCEPT !.pc = "redo", !.mode = "task"])

RedoDelivery(w) ==
    /\ job[w].pc = "redo"
    /\ proxies' = NoRows
    /\ Goto(w, "find")
    /\ UNCHANGED <<now, order, lock, calls, renewals, admin, faults>>

(* destroy: the deletion runs in a thread after the answer. *)
StartDestroy(w) == StartAdmin(w, [Idle EXCEPT !.pc = "destroy"])

Destroy(w) == job[w].pc = "destroy" /\ DeleteOrder(w)

(* update_proxy_expired_at: the proxies in one update, then the order. *)
StartDate(w, t) ==
    /\ now <= t
    /\ StartAdmin(w, [Idle EXCEPT !.pc = "date", !.copy = [order EXCEPT !.expires = t]])

DateProxies(w) ==
    /\ job[w].pc = "date"
    /\ proxies' = [s \in Slot |-> IF proxies[s] = None THEN None ELSE job[w].copy.expires]
    /\ Goto(w, "save")
    /\ UNCHANGED <<now, order, lock, calls, renewals, admin, faults>>

SaveDate(w) ==
    /\ job[w].pc = "save"
    /\ order' = job[w].copy
    /\ SetJob(w, Idle)
    /\ UNCHANGED <<now, proxies, lock, calls, renewals, admin, faults>>

(* order_renew_checkout, get_renew_checkout_link: a save of the whole      *)
(* order to clear its Shopify number; refused for an expired order.        *)
StartLink(w) ==
    /\ order # None /\ ~ order.expires < now
    /\ Begin(w, [Idle EXCEPT !.pc = "link", !.copy = order])
    /\ UNCHANGED <<now, order, proxies, lock, calls, renewals, admin, faults>>

SaveLink(w) ==
    /\ job[w].pc = "link"
    /\ order' = job[w].copy
    /\ SetJob(w, Idle)
    /\ UNCHANGED <<now, proxies, lock, calls, renewals, admin, faults>>

-----------------------------------------------------------------------------
(* The process of a worker dies; the lock has no timeout. *)
Crash(w) ==
    /\ job[w].pc # "idle"
    /\ faults < MaxFaults
    /\ faults' = faults + 1
    /\ SetJob(w, Idle)
    /\ lock' = IF lock = w THEN Orphan ELSE lock
    /\ UNCHANGED <<now, order, proxies, calls, renewals, admin>>

WebhookStep(w) ==
    \/ SavePayment(w) \/ FindRenewed(w) \/ ReadProxies(w) \/ SaveRenewal(w)
    \/ SaveFailure(w)
    \/ \E s \in Slot : ExtendProxy(w, s)

DeliveryStep(w) ==
    \/ FindOrder(w) \/ AcquireLock(w) \/ DeliveryFails(w) \/ FinishDelivery(w)
    \/ \E s \in Slot : CreateProxy(w, s)

SweepStep(w) ==
    \/ ClearProxies(w) \/ MarkExpired(w) \/ DeleteTimedOut(w)
    \/ FindFirst(w) \/ CloseProxy(w) \/ SaveArchived(w) \/ DropOrder(w)
    \/ CheckOld(w) \/ DeleteOld(w)
    \/ \E s \in Slot : SweepProxy(w, s)

CallStep(w) ==
    \/ RedoDelivery(w) \/ Destroy(w) \/ DateProxies(w) \/ SaveDate(w) \/ SaveLink(w)
    \/ \E s \in Slot : WithdrawProxy(w, s)

Continue(w) == WebhookStep(w) \/ DeliveryStep(w) \/ SweepStep(w) \/ CallStep(w)

Start(w) ==
    \/ \E b \in BOOLEAN : StartWebhook(w, b) \/ DropWebhook(w, b) \/ StartTask(w, b)
    \/ StartOrderCheck(w) \/ StartProxySweep(w) \/ StartTimeout(w) \/ StartOld(w)
    \/ \E b \in BOOLEAN : StartClosing(w, b)
    \/ StartWithdraw(w) \/ StartRedo(w) \/ StartDestroy(w) \/ StartLink(w)
    \/ \E t \in 0 .. MaxTime + 1 : StartDate(w, t)

Next == Tick \/ \E w \in Worker : Start(w) \/ Continue(w) \/ Crash(w)

Spec == Init /\ [][Next]_vars

(* A started job runs on, and the sweep of the proxies is sent again and   *)
(* again to a queue that free workers empty in order.                      *)
FairSpec ==
    /\ Spec
    /\ \A w \in Worker : WF_vars(Continue(w))
    /\ SF_vars(\E w \in Worker : StartProxySweep(w))

-----------------------------------------------------------------------------
JobOK(j) ==
    /\ j \in Job
    /\ j.pc \in {"pay", "fail"} => j.entry # None
    /\ j.pc = "find" /\ j.mode \in {"new", "renew"} => j.entry # None
    /\ j.pc \in {"lock", "create"} /\ j.mode = "new" => j.entry # None
    /\ j.pc = "lock" => j.goal = Quantity
    /\ j.pc = "redo" => j.mode = "task"
    /\ j.pc \in {"rows", "extend", "lock", "create", "first", "close", "archive",
                 "date", "save", "link"}
         => j.copy # None

TypeOK ==
    /\ now \in Nat
    /\ order \in Row \cup {None}
    /\ proxies \in Rows
    /\ order = None => proxies = NoRows
    /\ lock \in Worker \cup {Free, Orphan}
    /\ job \in [Worker -> Job]
    /\ \A w \in Worker : JobOK(job[w])
    /\ calls \in Nat /\ renewals \in Nat /\ admin \in Nat /\ faults \in Nat

(* "On a notification, if it is paid, update the local order" (the comment *)
(* of ShopifyWebhookApi.post): when no job is in progress, renew_status    *)
(* counts the renewals notified, and without administrative dates the      *)
(* order expires one period later for each of them.                        *)
RenewalsCounted ==
    Quiet /\ order # None =>
        /\ order.renewed = renewals
        /\ admin = 0 => order.expires = Period * (renewals + 1)

(* threading.enumerate() sees the threads of one process: there an order's *)
(* notifications are not handled twice at once (webhook_handle_thread).    *)
OneHandlerPerProcess ==
    \A v, w \in Worker :
        Handling(v) /\ Handling(w) /\ ProcessOf[v] = ProcessOf[w] => v = w

(* Unless a worker dies, every expired proxy is removed in the end:        *)
(* delete_proxy_expired finds it whatever other jobs have done to the      *)
(* order.                                                                  *)
ExpiredAreDeleted ==
    [](faults = 0) =>
        \A s \in Slot : []<>~(proxies[s] # None /\ proxies[s] < now)

(* delete_timeout_order deletes orders that timed out (its docstring): a   *)
(* paid order is not one of them.                                          *)
PaidNotTimedOut ==
    [][\A w \in Worker : DeleteTimedOut(w) /\ order # None => ~order.paid]_vars
=============================================================================
