------------------------- MODULE OrderSerial_proofs -------------------------
(***************************************************************************)
(* Orders, for every value of the constants: first what holds of           *)
(* OrderLifecycle under every interleaving and crash; then that, with the  *)
(* jobs of an order one at a time, it implements Subscription.             *)
(***************************************************************************)
EXTENDS OrderSerial, FiniteSetTheorems, TLAPS

USE DEF SetJob, Goto, Begin

-----------------------------------------------------------------------------
(* Jobs in any order.                                                      *)

LEMMA IdleOK == Idle \in Job /\ JobOK(Idle)
BY DEF Idle, Job, JobOK, PC, Mode, Rows, NoRows

(* Replacing one worker's job by a well-formed one. *)
LEMMA JobUpdate ==
    ASSUME TypeOK, NEW w \in Worker, NEW j, JobOK(j),
           job' = [job EXCEPT ![w] = j]
    PROVE  job' \in [Worker -> Job] /\ \A v \in Worker : JobOK(job'[v])
BY DEF TypeOK, JobOK

LEMMA CountType == Cardinality(Present) \in Nat
<1>1. IsFiniteSet(Present) BY FS_Subset, OrderAssumption DEF Present
<1> QED BY <1>1, FS_CardinalityType

(* The steps of the webhook. *)
LEMMA WebhookType ==
    ASSUME TypeOK, NEW w \in Worker, WebhookStep(w)
    PROVE  TypeOK'
<1> DEFINE J == job[w]
<1>0. J \in Job /\ JobOK(J) /\ Idle \in Job /\ JobOK(Idle)
    BY IdleOK DEF TypeOK
<1>1. CASE SavePayment(w)
    <2> DEFINE row == Paid(J.entry, J.mode = "renew")
               j == [J EXCEPT !.entry = row, !.pc = "find"]
    <2>1. J.pc = "pay" /\ order' = row /\ job' = [job EXCEPT ![w] = j]
        BY <1>1 DEF SavePayment
    <2>2. J.entry \in Row BY <1>0, <2>1 DEF JobOK, Job
    <2>a. J.entry.renewed + (IF J.mode = "renew" THEN 1 ELSE 0) \in Nat
        BY <2>2 DEF Row
    <2>3. row \in Row
        <3> HIDE DEF J
        <3> QED BY <2>2, <2>a DEF Paid, Row
    <2>4. JobOK(j)
        <3>1. row # None BY <2>3, OrderAssumption
        <3> HIDE DEF row, J
        <3> QED BY <1>0, <2>1, <2>3, <3>1 DEF JobOK, Job, PC
    <2>5. order' # None BY <2>1, <2>3, OrderAssumption
    <2> QED BY <1>1, <2>1, <2>3, <2>4, <2>5, JobUpdate DEF SavePayment, TypeOK
<1>2. CASE FindRenewed(w)
    <2>1. CASE order = None
        <3> DEFINE j == [J EXCEPT !.pc = "fail"]
        <3>1. J.pc = "find" /\ J.mode = "renew" /\ job' = [job EXCEPT ![w] = j]
            BY <1>2, <2>1 DEF FindRenewed
        <3>2. J.entry # None BY <1>0, <3>1 DEF JobOK
        <3>3. JobOK(j)
            <4> HIDE DEF J
            <4> QED BY <1>0, <3>1, <3>2 DEF JobOK, Job, PC
        <3> QED BY <1>2, <3>1, <3>3, JobUpdate DEF FindRenewed, TypeOK
    <2>2. CASE order # None
        <3> DEFINE j == [J EXCEPT !.copy = order, !.pc = "rows"]
        <3>1. J.pc = "find" /\ J.mode = "renew" /\ job' = [job EXCEPT ![w] = j]
            BY <1>2, <2>2 DEF FindRenewed
        <3>2. JobOK(j) BY <1>0, <2>2, <3>1 DEF JobOK, Job, PC, TypeOK
        <3> QED BY <1>2, <3>1, <3>2, JobUpdate DEF FindRenewed, TypeOK
    <2> QED BY <2>1, <2>2
<1>3. CASE ReadProxies(w)
    <2> DEFINE j == [J EXCEPT !.rows = proxies, !.pc = "extend"]
    <2>1. J.pc = "rows" /\ job' = [job EXCEPT ![w] = j] BY <1>3 DEF ReadProxies
    <2>2. JobOK(j) BY <1>0, <2>1 DEF JobOK, Job, PC, TypeOK
    <2> QED BY <1>3, <2>1, <2>2, JobUpdate DEF ReadProxies, TypeOK
<1>4. ASSUME NEW s \in Slot, ExtendProxy(w, s) PROVE TypeOK'
    <2>1. J.pc = "extend" /\ J.rows[s] \in Nat
        BY <1>0, <1>4 DEF ExtendProxy, Job, Rows
    <2>2. CASE order = None
        <3>1. job' = [job EXCEPT ![w] = Idle] BY <1>4, <2>2 DEF ExtendProxy
        <3> QED BY <1>0, <1>4, <2>2, <3>1, JobUpdate DEF ExtendProxy, TypeOK
    <2>3. CASE order # None
        <3> DEFINE j == [J EXCEPT !.rows[s] = None]
        <3>1. job' = [job EXCEPT ![w] = j] BY <1>4, <2>3 DEF ExtendProxy
        <3>2. JobOK(j) BY <1>0, <2>1 DEF JobOK, Job, Rows
        <3>3. J.rows[s] + Period \in Nat BY <2>1, OrderAssumption
        <3>4. proxies' \in Rows
            <4> HIDE DEF J
            <4> QED BY <1>4, <2>3, <3>3 DEF ExtendProxy, TypeOK, Rows, J
        <3> QED BY <1>4, <2>3, <3>1, <3>2, <3>4, JobUpdate DEF ExtendProxy, TypeOK
    <2> QED BY <2>2, <2>3
<1>5. CASE SaveRenewal(w)
    <2>1. J.pc = "extend" /\ job' = [job EXCEPT ![w] = Idle]
          /\ order' = [J.copy EXCEPT !.expires = J.copy.expires + Period]
        BY <1>5 DEF SaveRenewal
    <2>2. J.copy \in Row BY <1>0, <2>1 DEF JobOK, Job
    <2>3. J.copy.expires + Period \in Nat BY <2>2, OrderAssumption DEF Row
    <2>4. order' \in Row /\ order' # None
        <3> HIDE DEF J
        <3> QED BY <2>1, <2>2, <2>3, OrderAssumption DEF Row
    <2> QED BY <1>0, <1>5, <2>1, <2>4, JobUpdate DEF SaveRenewal, TypeOK
<1>6. CASE SaveFailure(w)
    <2>1. J.pc = "fail" /\ job' = [job EXCEPT ![w] = Idle] /\ order' = J.entry
        BY <1>6 DEF SaveFailure
    <2>2. J.entry \in Row /\ J.entry # None BY <1>0, <2>1 DEF JobOK, Job
    <2> QED BY <1>0, <1>6, <2>1, <2>2, JobUpdate DEF SaveFailure, TypeOK
<1> QED BY <1>1, <1>2, <1>3, <1>4, <1>5, <1>6 DEF WebhookStep

(* The steps of a delivery. *)
LEMMA DeliveryType ==
    ASSUME TypeOK, NEW w \in Worker, DeliveryStep(w)
    PROVE  TypeOK'
<1> DEFINE J == job[w]
<1>0. J \in Job /\ JobOK(J) /\ Idle \in Job /\ JobOK(Idle)
    BY IdleOK DEF TypeOK
<1>a. \/ J.pc = "lock"
      \/ J.pc = "create"
      \/ J.pc = "find" /\ J.mode # "renew"
      => JobOK(Failed(w))
    BY <1>0 DEF Failed, JobOK, Job, PC
<1>1. CASE FindOrder(w)
    <2>1. J.pc = "find" /\ J.mode # "renew" BY <1>1 DEF FindOrder
    <2>2. CASE Deliverable(order)
        <3> DEFINE j == [J EXCEPT !.copy = order, !.goal = Quantity, !.pc = "lock"]
        <3>1. job' = [job EXCEPT ![w] = j] BY <1>1, <2>2 DEF FindOrder
        <3>2. JobOK(j)
            BY <1>0, <2>1, <2>2, OrderAssumption DEF JobOK, Job, PC, Deliverable, TypeOK
        <3> QED BY <1>1, <3>1, <3>2, JobUpdate DEF FindOrder, TypeOK
    <2>3. CASE ~Deliverable(order)
        <3>1. job' = [job EXCEPT ![w] = Failed(w)] BY <1>1, <2>3 DEF FindOrder
        <3>2. JobOK(Failed(w)) BY <1>a, <2>1
        <3> QED BY <1>1, <3>1, <3>2, JobUpdate DEF FindOrder, TypeOK
    <2> QED BY <2>2, <2>3
<1>2. CASE AcquireLock(w)
    <2> DEFINE count == IF J.mode = "fill" THEN Cardinality(Present) ELSE 0
    <2>1. J.pc = "lock" /\ J.goal = Quantity BY <1>0, <1>2 DEF AcquireLock, JobOK
    <2>2. CASE J.mode = "fill" /\ count >= Quantity
        <3>1. job' = [job EXCEPT ![w] = Idle] /\ UNCHANGED lock
            BY <1>2, <2>2 DEF AcquireLock
        <3> QED BY <1>0, <1>2, <3>1, JobUpdate DEF AcquireLock, TypeOK
    <2>3. CASE ~(J.mode = "fill" /\ count >= Quantity)
        <3> DEFINE j == [J EXCEPT !.goal = J.goal - count, !.pc = "create"]
        <3>1. job' = [job EXCEPT ![w] = j] /\ lock' = w
            BY <1>2, <2>3 DEF AcquireLock
        <3>2. J.goal - count \in Nat
            <4>1. count \in Nat BY CountType
            <4>2. J.mode # "fill" => count = 0 OBVIOUS
            <4> HIDE DEF count, J
            <4> QED BY <2>1, <2>3, <4>1, <4>2, OrderAssumption
        <3>3. JobOK(j)
            <4> HIDE DEF count, J
            <4> QED BY <1>0, <2>1, <3>2 DEF JobOK, Job, PC
        <3> QED BY <1>2, <3>1, <3>3, JobUpdate DEF AcquireLock, TypeOK
    <2> QED BY <2>2, <2>3
<1>3. ASSUME NEW s \in Slot, CreateProxy(w, s) PROVE TypeOK'
    <2>1. J.pc = "create" /\ J.copy \in Row
        BY <1>0, <1>3 DEF CreateProxy, JobOK, Job
    <2>2. CASE order = None
        <3>1. job' = [job EXCEPT ![w] = Idle] BY <1>3, <2>2 DEF CreateProxy
        <3> QED BY <1>0, <1>3, <2>2, <3>1, JobUpdate DEF CreateProxy, TypeOK
    <2>3. CASE order # None
        <3> DEFINE j == [J EXCEPT !.made = J.made + 1]
        <3>1. job' = [job EXCEPT ![w] = j] BY <1>3, <2>3 DEF CreateProxy
        <3>2. J.made + 1 \in Nat BY <1>0 DEF Job
        <3>3. JobOK(j)
            <4> HIDE DEF J
            <4> QED BY <1>0, <2>1, <3>2 DEF JobOK, Job
        <3>4. proxies' \in Rows BY <1>3, <2>1, <2>3 DEF CreateProxy, TypeOK, Rows, Row
        <3> QED BY <1>3, <2>3, <3>1, <3>3, <3>4, JobUpdate DEF CreateProxy, TypeOK
    <2> QED BY <2>2, <2>3
<1>4. CASE DeliveryFails(w)
    <2>1. job' = [job EXCEPT ![w] = Failed(w)] BY <1>4 DEF DeliveryFails
    <2>2. J.pc = "create" BY <1>4 DEF DeliveryFails
    <2>3. JobOK(Failed(w)) BY <1>a, <2>2
    <2> QED BY <1>4, <2>1, <2>3, JobUpdate DEF DeliveryFails, TypeOK
<1>5. CASE FinishDelivery(w)
    <2>1. J.pc = "create" /\ job' = [job EXCEPT ![w] = Idle]
          /\ order' = [J.copy EXCEPT !.status = "delivered"]
        BY <1>5 DEF FinishDelivery
    <2>2. J.copy \in Row BY <1>0, <2>1 DEF JobOK, Job
    <2>3. order' \in Row /\ order' # None BY <2>1, <2>2, OrderAssumption DEF Row
    <2> QED BY <1>0, <1>5, <2>1, <2>3, JobUpdate DEF FinishDelivery, TypeOK
<1> QED BY <1>1, <1>2, <1>3, <1>4, <1>5 DEF DeliveryStep

(* The deletion of the order, whoever asks for it. *)
LEMMA DeleteOrderType ==
    ASSUME TypeOK, NEW w \in Worker, DeleteOrder(w)
    PROVE  TypeOK'
<1>1. job' = [job EXCEPT ![w] = Idle] BY DEF DeleteOrder
<1>2. NoRows \in Rows BY DEF NoRows, Rows
<1> QED BY <1>1, <1>2, IdleOK, JobUpdate DEF DeleteOrder, TypeOK

(* The steps of the sweeps. *)
LEMMA SweepType ==
    ASSUME TypeOK, NEW w \in Worker, SweepStep(w)
    PROVE  TypeOK'
<1> DEFINE J == job[w]
<1>0. /\ J \in Job /\ JobOK(J) /\ Idle \in Job /\ JobOK(Idle)
      /\ NoRows \in Rows
    BY IdleOK DEF TypeOK, NoRows, Rows
<1>1. CASE ClearProxies(w)
    <2> DEFINE j == [J EXCEPT !.pc = "mark"]
    <2>1. job' = [job EXCEPT ![w] = j] BY <1>1 DEF ClearProxies
    <2>2. JobOK(j) BY <1>0 DEF JobOK, Job, PC
    <2> QED BY <1>0, <1>1, <2>1, <2>2, JobUpdate DEF ClearProxies, TypeOK
<1>2. CASE MarkExpired(w)
    <2>1. job' = [job EXCEPT ![w] = Idle] BY <1>2 DEF MarkExpired
    <2>2. order = None => order' = None BY <1>2 DEF MarkExpired
    <2>3. order # None => order' \in Row /\ order' # None
        BY <1>2, OrderAssumption DEF MarkExpired, TypeOK, Row
    <2> QED BY <1>0, <1>2, <2>1, <2>2, <2>3, JobUpdate DEF MarkExpired, TypeOK
<1>3. CASE DeleteTimedOut(w) \/ DropOrder(w) \/ DeleteOld(w)
    BY <1>3, DeleteOrderType DEF DeleteTimedOut, DropOrder, DeleteOld
<1>4. CASE FindFirst(w)
    <2>1. J.pc = "first" BY <1>4 DEF FindFirst
    <2>2. ASSUME NEW s \in Present,
                 job' = [job EXCEPT ![w] = [J EXCEPT !.rows[s] = proxies[s], !.pc = "close"]]
          PROVE  TypeOK'
        <3> DEFINE j == [J EXCEPT !.rows[s] = proxies[s], !.pc = "close"]
        <3>1. s \in Slot /\ proxies[s] \in Nat \cup {None}
            BY <2>2 DEF Present, TypeOK, Rows
        <3>2. JobOK(j) BY <1>0, <2>1, <3>1 DEF JobOK, Job, PC, Rows
        <3> QED BY <1>4, <2>2, <3>2, JobUpdate DEF FindFirst, TypeOK
    <2>3. ASSUME job' = [job EXCEPT ![w] = IF J.deletes THEN [J EXCEPT !.pc = "drop"]
                                           ELSE Idle]
          PROVE  TypeOK'
        <3> DEFINE j == IF J.deletes THEN [J EXCEPT !.pc = "drop"] ELSE Idle
        <3>1. JobOK(j) BY <1>0 DEF JobOK, Job, PC
        <3> QED BY <1>4, <2>3, <3>1, JobUpdate DEF FindFirst, TypeOK
    <2> QED BY <1>4, <2>2, <2>3 DEF FindFirst
<1>5. CASE CloseProxy(w)
    <2> DEFINE j == [J EXCEPT !.rows = NoRows, !.pc = "archive"]
    <2>1. J.pc = "close" /\ job' = [job EXCEPT ![w] = j] BY <1>5 DEF CloseProxy
    <2>2. JobOK(j) BY <1>0, <2>1 DEF JobOK, Job, PC
    <2>3. proxies' \in Rows /\ (proxies = NoRows => proxies' = NoRows)
        BY <1>5 DEF CloseProxy, TypeOK, Rows, NoRows
    <2> QED BY <1>5, <2>1, <2>2, <2>3, JobUpdate DEF CloseProxy, TypeOK
<1>6. CASE SaveArchived(w)
    <2> DEFINE j == IF J.deletes THEN [J EXCEPT !.pc = "drop"] ELSE Idle
    <2>1. J.pc = "archive" /\ job' = [job EXCEPT ![w] = j]
          /\ order' = [J.copy EXCEPT !.status = "expired"]
        BY <1>6 DEF SaveArchived
    <2>2. J.copy \in Row BY <1>0, <2>1 DEF JobOK, Job
    <2>3. order' \in Row /\ order' # None BY <2>1, <2>2, OrderAssumption DEF Row
    <2>4. JobOK(j) BY <1>0 DEF JobOK, Job, PC
    <2> QED BY <1>6, <2>1, <2>3, <2>4, JobUpdate DEF SaveArchived, TypeOK
<1>7. CASE CheckOld(w)
    <2> DEFINE j == IF Present = {} THEN [J EXCEPT !.pc = "delete"] ELSE Idle
    <2>1. job' = [job EXCEPT ![w] = j] BY <1>7 DEF CheckOld
    <2>2. JobOK(j) BY <1>0 DEF JobOK, Job, PC
    <2> QED BY <1>7, <2>1, <2>2, JobUpdate DEF CheckOld, TypeOK
<1>8. ASSUME NEW s \in Slot, SweepProxy(w, s) PROVE TypeOK'
    <2> DEFINE j == IF \A r \in Slot \ {s} : J.rows[r] = None THEN Idle
                    ELSE [J EXCEPT !.rows[s] = None]
    <2>1. J.pc = "purge" /\ job' = [job EXCEPT ![w] = j] BY <1>8 DEF SweepProxy
    <2>2. JobOK(j) BY <1>0, <2>1 DEF JobOK, Job, Rows
    <2>3. proxies' \in Rows /\ (proxies = NoRows => proxies' = NoRows)
        BY <1>8 DEF SweepProxy, TypeOK, Rows, NoRows
    <2> QED BY <1>8, <2>1, <2>2, <2>3, JobUpdate DEF SweepProxy, TypeOK
<1> QED BY <1>1, <1>2, <1>3, <1>4, <1>5, <1>6, <1>7, <1>8 DEF SweepStep

(* The steps of the buyer's and the administrators' calls. *)
LEMMA CallType ==
    ASSUME TypeOK, NEW w \in Worker, CallStep(w)
    PROVE  TypeOK'
<1> DEFINE J == job[w]
<1>0. /\ J \in Job /\ JobOK(J) /\ Idle \in Job /\ JobOK(Idle)
      /\ NoRows \in Rows
    BY IdleOK DEF TypeOK, NoRows, Rows
<1>1. CASE RedoDelivery(w)
    <2> DEFINE j == [J EXCEPT !.pc = "find"]
    <2>1. J.pc = "redo" /\ job' = [job EXCEPT ![w] = j] BY <1>1 DEF RedoDelivery
    <2>2. JobOK(j) BY <1>0, <2>1 DEF JobOK, Job, PC
    <2> QED BY <1>0, <1>1, <2>1, <2>2, JobUpdate DEF RedoDelivery, TypeOK
<1>2. CASE Destroy(w) BY <1>2, DeleteOrderType DEF Destroy
<1>3. CASE DateProxies(w)
    <2> DEFINE j == [J EXCEPT !.pc = "save"]
    <2>1. J.pc = "date" /\ job' = [job EXCEPT ![w] = j] BY <1>3 DEF DateProxies
    <2>2. JobOK(j) BY <1>0, <2>1 DEF JobOK, Job, PC
    <2>3. J.copy.expires \in Nat BY <1>0, <2>1 DEF JobOK, Job, Row
    <2>4. proxies' \in Rows /\ (proxies = NoRows => proxies' = NoRows)
        BY <1>3, <2>3 DEF DateProxies, TypeOK, Rows, NoRows
    <2> QED BY <1>3, <2>1, <2>2, <2>4, JobUpdate DEF DateProxies, TypeOK
<1>4. CASE SaveDate(w) \/ SaveLink(w)
    <2>1. J.pc \in {"save", "link"} /\ job' = [job EXCEPT ![w] = Idle] /\ order' = J.copy
        BY <1>4 DEF SaveDate, SaveLink
    <2>2. J.copy \in Row /\ J.copy # None BY <1>0, <2>1 DEF JobOK, Job
    <2> QED BY <1>0, <1>4, <2>1, <2>2, JobUpdate DEF SaveDate, SaveLink, TypeOK
<1>5. ASSUME NEW s \in Slot, WithdrawProxy(w, s) PROVE TypeOK'
    <2> DEFINE j == IF \A r \in Slot \ {s} : J.rows[r] = None THEN Idle
                    ELSE [J EXCEPT !.rows[s] = None]
    <2>1. J.pc = "withdraw" /\ job' = [job EXCEPT ![w] = j] BY <1>5 DEF WithdrawProxy
    <2>2. JobOK(j) BY <1>0, <2>1 DEF JobOK, Job, Rows
    <2>3. proxies' \in Rows /\ (proxies = NoRows => proxies' = NoRows)
        BY <1>5 DEF WithdrawProxy, TypeOK, Rows, NoRows
    <2> QED BY <1>5, <2>1, <2>2, <2>3, JobUpdate DEF WithdrawProxy, TypeOK
<1> QED BY <1>1, <1>2, <1>3, <1>4, <1>5 DEF CallStep

(* A job that begins, or a notification that is dropped. *)
LEMMA StartType ==
    ASSUME TypeOK, NEW w \in Worker, Start(w)
    PROVE  TypeOK'
<1>0. Idle \in Job /\ JobOK(Idle) /\ NoRows \in Rows
    BY IdleOK DEF NoRows, Rows
<1>1. ASSUME NEW b \in BOOLEAN, StartWebhook(w, b) PROVE TypeOK'
    <2> DEFINE j == IF order = None THEN Idle
                    ELSE [Idle EXCEPT !.pc = "pay", !.entry = order,
                                      !.mode = IF b THEN "renew" ELSE "new"]
    <2>1. job' = [job EXCEPT ![w] = j] BY <1>1 DEF StartWebhook
    <2>2. JobOK(j)
        <3> DEFINE mode == IF b THEN "renew" ELSE "new"
                   k == [Idle EXCEPT !.pc = "pay", !.entry = order, !.mode = mode]
        <3>1. mode \in Mode BY DEF Mode
        <3>2. order # None => JobOK(k)
            <4> HIDE DEF mode
            <4> QED BY <1>0, <3>1 DEF JobOK, Job, PC, Idle, TypeOK
        <3> QED BY <1>0, <3>2
    <2>3. job' \in [Worker -> Job] /\ \A v \in Worker : JobOK(job'[v])
        BY <2>1, <2>2, JobUpdate
    <2>4. calls' \in Nat /\ renewals' \in Nat
        BY <1>1 DEF StartWebhook, Notified, TypeOK
    <2> QED BY <1>1, <2>3, <2>4 DEF StartWebhook, Notified, TypeOK
<1>2. ASSUME NEW b \in BOOLEAN, DropWebhook(w, b) PROVE TypeOK'
    BY <1>2 DEF DropWebhook, Notified, TypeOK
<1>3. ASSUME NEW b \in BOOLEAN, StartTask(w, b) PROVE TypeOK'
    <2> DEFINE j == [Idle EXCEPT !.pc = "lock", !.copy = order, !.goal = Quantity,
                                 !.mode = IF b THEN "fill" ELSE "task"]
    <2>1. job' = [job EXCEPT ![w] = j] BY <1>3 DEF StartTask
    <2>2. JobOK(j)
        BY <1>0, <1>3, OrderAssumption
           DEF StartTask, Deliverable, JobOK, Job, PC, Mode, Idle, TypeOK
    <2> QED BY <1>3, <2>1, <2>2, JobUpdate DEF StartTask, TypeOK
<1>4. ASSUME NEW pc \in {"clear", "timeout", "old"},
             job' = [job EXCEPT ![w] = [Idle EXCEPT !.pc = pc]],
             UNCHANGED <<now, order, proxies, lock, calls, renewals, admin, faults>>
      PROVE  TypeOK'
    <2> DEFINE j == [Idle EXCEPT !.pc = pc]
    <2>1. JobOK(j) BY <1>0 DEF JobOK, Job, PC, Idle
    <2> QED BY <1>4, <2>1, JobUpdate DEF TypeOK
<1>5. CASE StartOrderCheck(w) \/ StartTimeout(w) \/ StartOld(w)
    BY <1>4, <1>5 DEF StartOrderCheck, StartTimeout, StartOld
<1>6. CASE StartProxySweep(w)
    <2> DEFINE j == [Idle EXCEPT !.pc = "purge", !.rows = proxies]
    <2>1. job' = [job EXCEPT ![w] = j] BY <1>6 DEF StartProxySweep
    <2>2. JobOK(j) BY <1>0 DEF JobOK, Job, PC, Idle, TypeOK
    <2> QED BY <1>6, <2>1, <2>2, JobUpdate DEF StartProxySweep, TypeOK
<1>7. ASSUME NEW b \in BOOLEAN, StartClosing(w, b) PROVE TypeOK'
    <2> DEFINE j == [Idle EXCEPT !.pc = "first", !.copy = order, !.deletes = b]
    <2>1. job' = [job EXCEPT ![w] = j] BY <1>7 DEF StartClosing
    <2>2. JobOK(j) BY <1>0, <1>7 DEF StartClosing, Expired, JobOK, Job, PC, Idle, TypeOK
    <2> QED BY <1>7, <2>1, <2>2, JobUpdate DEF StartClosing, TypeOK
<1>8. ASSUME NEW j, JobOK(j), StartAdmin(w, j) PROVE TypeOK'
    <2>1. job' = [job EXCEPT ![w] = j] BY <1>8 DEF StartAdmin
    <2>2. job' \in [Worker -> Job] /\ \A v \in Worker : JobOK(job'[v])
        BY <1>8, <2>1, JobUpdate
    <2>3. admin' \in Nat BY <1>8 DEF StartAdmin, TypeOK
    <2> QED BY <1>8, <2>2, <2>3 DEF StartAdmin, TypeOK
<1>9. CASE StartWithdraw(w)
    <2>1. JobOK([Idle EXCEPT !.pc = "withdraw", !.rows = proxies])
        BY <1>0 DEF JobOK, Job, PC, Idle, TypeOK
    <2> QED BY <1>8, <1>9, <2>1 DEF StartWithdraw
<1>10. CASE StartRedo(w)
    <2>1. JobOK([Idle EXCEPT !.pc = "redo", !.mode = "task"])
        BY <1>0 DEF JobOK, Job, PC, Mode, Idle
    <2> QED BY <1>8, <1>10, <2>1 DEF StartRedo
<1>11. CASE StartDestroy(w)
    <2>1. JobOK([Idle EXCEPT !.pc = "destroy"]) BY <1>0 DEF JobOK, Job, PC, Idle
    <2> QED BY <1>8, <1>11, <2>1 DEF StartDestroy
<1>12. CASE StartLink(w)
    <2> DEFINE j == [Idle EXCEPT !.pc = "link", !.copy = order]
    <2>1. job' = [job EXCEPT ![w] = j] BY <1>12 DEF StartLink
    <2>2. JobOK(j) BY <1>0, <1>12 DEF StartLink, JobOK, Job, PC, Idle, TypeOK
    <2> QED BY <1>12, <2>1, <2>2, JobUpdate DEF StartLink, TypeOK
<1>13. ASSUME NEW t \in 0 .. MaxTime + 1, StartDate(w, t) PROVE TypeOK'
    <2> DEFINE dated == [order EXCEPT !.expires = t]
               j == [Idle EXCEPT !.pc = "date", !.copy = dated]
    <2>1. StartAdmin(w, j) /\ order \in Row
        BY <1>13 DEF StartDate, StartAdmin, TypeOK
    <2>2. t \in Nat BY OrderAssumption
    <2>3. dated \in Row /\ dated # None BY <2>1, <2>2, OrderAssumption DEF Row
    <2>4. JobOK(j)
        <3> HIDE DEF dated
        <3> QED BY <1>0, <2>3 DEF JobOK, Job, PC, Idle
    <2> QED BY <1>8, <2>1, <2>4
<1> QED BY <1>1, <1>2, <1>3, <1>5, <1>6, <1>7, <1>9, <1>10, <1>11, <1>12, <1>13
        DEF Start

LEMMA CrashType ==
    ASSUME TypeOK, NEW w \in Worker, Crash(w)
    PROVE  TypeOK'
<1>1. job' = [job EXCEPT ![w] = Idle] BY DEF Crash
<1> QED BY <1>1, IdleOK, JobUpdate DEF Crash, TypeOK

LEMMA TypeInit == Init => TypeOK
<1> SUFFICES ASSUME Init PROVE TypeOK OBVIOUS
<1>1. order \in Row
    <2>1. order = [paid |-> FALSE, status |-> "new", expires |-> Period, renewed |-> 0]
        BY DEF Init
    <2> QED BY <2>1, OrderAssumption DEF Row
<1>3. order # None BY <1>1, OrderAssumption
<1>2. NoRows \in Rows BY DEF NoRows, Rows
<1> QED BY <1>1, <1>2, <1>3, IdleOK DEF Init, TypeOK, JobOK

LEMMA TypeStep == TypeOK /\ [Next]_vars => TypeOK'
<1> SUFFICES ASSUME TypeOK, [Next]_vars PROVE TypeOK' OBVIOUS
<1>1. CASE Tick BY <1>1 DEF Tick, TypeOK
<1>2. ASSUME NEW w \in Worker, Start(w) PROVE TypeOK' BY <1>2, StartType
<1>3. ASSUME NEW w \in Worker, Continue(w) PROVE TypeOK'
    BY <1>3, WebhookType, DeliveryType, SweepType, CallType DEF Continue
<1>4. ASSUME NEW w \in Worker, Crash(w) PROVE TypeOK' BY <1>4, CrashType
<1>5. CASE UNCHANGED vars BY <1>5 DEF vars, TypeOK
<1> QED BY <1>1, <1>2, <1>3, <1>4, <1>5 DEF Next

(* Every variable keeps its type and every job the copies its program      *)
(* counter needs; no proxy is without its order.                           *)
THEOREM OrderTypeCorrect == Spec => []TypeOK
BY TypeInit, TypeStep, PTL DEF Spec

-----------------------------------------------------------------------------
(* A step of a worker leaves the others' jobs alone. *)
LEMMA OthersKeep ==
    ASSUME TypeOK, NEW w \in Worker, NEW v \in Worker, v # w,
           Start(w) \/ Continue(w) \/ Crash(w)
    PROVE  job'[v] = job[v]
<1>1. CASE Start(w)
    BY <1>1 DEF Start, StartWebhook, DropWebhook, Notified, StartTask, StartOrderCheck,
                StartProxySweep, StartTimeout, StartOld, StartClosing, StartWithdraw,
                StartRedo, StartDestroy, StartLink, StartDate, StartAdmin, TypeOK
<1>2. CASE WebhookStep(w)
    BY <1>2 DEF WebhookStep, SavePayment, FindRenewed, ReadProxies, SaveRenewal,
                SaveFailure, ExtendProxy, TypeOK
<1>3. CASE DeliveryStep(w)
    BY <1>3 DEF DeliveryStep, FindOrder, AcquireLock, DeliveryFails, FinishDelivery,
                CreateProxy, TypeOK
<1>4. CASE SweepStep(w)
    BY <1>4 DEF SweepStep, ClearProxies, MarkExpired, DeleteTimedOut, FindFirst,
                CloseProxy, SaveArchived, DropOrder, CheckOld, DeleteOld, DeleteOrder,
                SweepProxy, TypeOK
<1>5. CASE CallStep(w)
    BY <1>5 DEF CallStep, RedoDelivery, Destroy, DateProxies, SaveDate, SaveLink,
                WithdrawProxy, DeleteOrder, TypeOK
<1>6. CASE Crash(w) BY <1>6 DEF Crash, TypeOK
<1> QED BY <1>1, <1>2, <1>3, <1>4, <1>5, <1>6 DEF Continue

(* Only StartWebhook makes a worker a handler. *)
LEMMA HandlerOrigin ==
    ASSUME TypeOK, NEW w \in Worker, ~Handling(w),
           Start(w) \/ Continue(w) \/ Crash(w),
           \A b \in BOOLEAN : ~StartWebhook(w, b)
    PROVE  ~Handling(w)'
<1> DEFINE J == job[w]
           K == job'[w]
<1> USE DEF Handling
<1>0. J \in Job BY DEF TypeOK, JobOK
<1>a. ASSUME NEW j, job' = [job EXCEPT ![w] = j] PROVE K = j
    BY <1>a DEF TypeOK
<1>1. CASE Start(w)
    <2>1. ASSUME NEW b \in BOOLEAN, StartTask(w, b) PROVE K.mode \in {"task", "fill"}
        BY <2>1 DEF StartTask, Idle, TypeOK
    <2>2. ASSUME NEW b \in BOOLEAN, DropWebhook(w, b) PROVE ~Handling(w)'
        BY <2>2 DEF DropWebhook
    <2>3. CASE StartOrderCheck(w) \/ StartProxySweep(w) \/ StartTimeout(w) \/ StartOld(w)
        <3> K.pc \in {"clear", "purge", "timeout", "old"}
            BY <2>3 DEF StartOrderCheck, StartProxySweep, StartTimeout, StartOld, Idle, TypeOK
        <3> QED OBVIOUS
    <2>4. ASSUME NEW b \in BOOLEAN, StartClosing(w, b) PROVE K.pc = "first"
        BY <2>4 DEF StartClosing, Idle, TypeOK
    <2>5. CASE StartWithdraw(w) \/ StartRedo(w) \/ StartDestroy(w) \/ StartLink(w)
        <3> K.pc \in {"withdraw", "redo", "destroy", "link"}
            BY <2>5 DEF StartWithdraw, StartRedo, StartDestroy, StartLink,
                              StartAdmin, Idle, TypeOK
        <3> QED OBVIOUS
    <2>6. ASSUME NEW t \in 0 .. MaxTime + 1, StartDate(w, t) PROVE K.pc = "date"
        BY <2>6 DEF StartDate, StartAdmin, Idle, TypeOK
    <2> QED BY <1>1, <2>1, <2>2, <2>3, <2>4, <2>5, <2>6 DEF Start
<1>2. CASE WebhookStep(w)
    <2>1. J.pc = "find" => J.mode = "renew"
        BY <1>2 DEF WebhookStep, SavePayment, FindRenewed, ReadProxies, SaveRenewal,
                    SaveFailure, ExtendProxy
    <2>2. K.pc = "idle" \/ K.mode = J.mode
        <3>1. SavePayment(w) \/ FindRenewed(w) \/ ReadProxies(w) => K.mode = J.mode
            BY <1>0, <1>a DEF SavePayment, FindRenewed, ReadProxies, Job
        <3>2. SaveRenewal(w) \/ SaveFailure(w) => K.pc = "idle"
            BY <1>a DEF SaveRenewal, SaveFailure, Idle
        <3>3. ASSUME NEW s \in Slot, ExtendProxy(w, s)
              PROVE  K.pc = "idle" \/ K.mode = J.mode
            BY <1>0, <1>a, <3>3 DEF ExtendProxy, Idle, Job
        <3> QED BY <1>2, <3>1, <3>2, <3>3 DEF WebhookStep
    <2>3. J.pc \in {"pay", "find", "rows", "extend", "fail"}
        BY <1>2 DEF WebhookStep, SavePayment, FindRenewed, ReadProxies, SaveRenewal,
                    SaveFailure, ExtendProxy
    <2> QED BY <2>2, <2>3
<1>3. CASE DeliveryStep(w)
    <2>1. J.pc \in {"find", "lock", "create"}
        BY <1>3 DEF DeliveryStep, FindOrder, AcquireLock, DeliveryFails,
                    FinishDelivery, CreateProxy
    <2>2. K.pc = "idle" \/ K.mode = J.mode
        <3>1. Failed(w).pc = "idle" \/ Failed(w).mode = J.mode
            BY <1>0 DEF Failed, Idle, Job
        <3>2. FindOrder(w) \/ DeliveryFails(w) => K.pc = "idle" \/ K.mode = J.mode
            BY <1>0, <1>a, <3>1 DEF FindOrder, DeliveryFails, Job
        <3>3. AcquireLock(w) => K.pc = "idle" \/ K.mode = J.mode
            <4>1. job' = [job EXCEPT ![w] = Idle] => K.pc = "idle" BY DEF TypeOK, Idle
            <4>2. ASSUME NEW n,
                         job' = [job EXCEPT ![w] = [J EXCEPT !.goal = n, !.pc = "create"]]
                  PROVE  K.mode = J.mode
                BY <1>0, <4>2 DEF TypeOK, Job
            <4> QED BY <4>1, <4>2 DEF AcquireLock
        <3>4. FinishDelivery(w) => K.pc = "idle"
            BY DEF FinishDelivery, Idle, TypeOK
        <3>5. ASSUME NEW s \in Slot, CreateProxy(w, s)
              PROVE  K.pc = "idle" \/ K.mode = J.mode
            BY <1>0, <1>a, <3>5 DEF CreateProxy, Idle, Job
        <3> QED BY <1>3, <3>2, <3>3, <3>4, <3>5 DEF DeliveryStep
    <2> QED BY <2>1, <2>2
<1>4. CASE SweepStep(w)
    <2> K.pc \in {"idle", "mark", "close", "drop", "archive", "delete", "purge"}
        <3>1. ClearProxies(w) \/ CloseProxy(w) => K.pc \in {"mark", "archive"}
            BY <1>0, <1>a DEF ClearProxies, CloseProxy, Job
        <3>2. FindFirst(w) => K.pc \in {"idle", "close", "drop"}
            <4>1. ASSUME NEW s \in Present,
                         job' = [job EXCEPT ![w] = [J EXCEPT !.rows[s] = proxies[s],
                                                             !.pc = "close"]]
                  PROVE  K.pc = "close"
                BY <1>0, <4>1 DEF TypeOK, Job
            <4>2. ASSUME job' = [job EXCEPT ![w] = IF J.deletes
                                                   THEN [J EXCEPT !.pc = "drop"] ELSE Idle]
                  PROVE  K.pc \in {"drop", "idle"}
                BY <1>0, <4>2 DEF TypeOK, Job, Idle
            <4> QED BY <4>1, <4>2 DEF FindFirst
        <3>3. SaveArchived(w) \/ CheckOld(w) => K.pc \in {"idle", "drop", "delete"}
            BY <1>0, <1>a DEF SaveArchived, CheckOld, Idle, Job
        <3>4. MarkExpired(w) \/ DeleteTimedOut(w) \/ DropOrder(w) \/ DeleteOld(w)
              => K.pc = "idle"
            BY <1>a DEF MarkExpired, DeleteTimedOut, DropOrder, DeleteOld, DeleteOrder,
                        Idle
        <3>5. ASSUME NEW s \in Slot, SweepProxy(w, s) PROVE K.pc \in {"idle", "purge"}
            BY <1>0, <1>a, <3>5 DEF SweepProxy, Idle, Job
        <3> QED BY <1>4, <3>1, <3>2, <3>3, <3>4, <3>5 DEF SweepStep
    <2> QED OBVIOUS
<1>5. CASE CallStep(w)
    <2>1. CASE RedoDelivery(w)
        <3>1. K.mode = "task"
            BY <1>0, <2>1 DEF RedoDelivery, TypeOK, JobOK, Job
        <3> QED BY <3>1
    <2>2. CASE ~RedoDelivery(w)
        <3> K.pc \in {"idle", "save", "withdraw"}
            BY <1>0, <1>5, <2>2 DEF CallStep, Destroy, DateProxies, SaveDate, SaveLink,
                        WithdrawProxy, DeleteOrder, Idle, TypeOK, Job
        <3> QED OBVIOUS
    <2> QED BY <2>1, <2>2
<1>6. CASE Crash(w) BY <1>6 DEF Crash, Idle, TypeOK
<1> QED BY <1>1, <1>2, <1>3, <1>4, <1>5, <1>6 DEF Continue

LEMMA HandlerStep ==
    ASSUME TypeOK, OneHandlerPerProcess, [Next]_vars
    PROVE  OneHandlerPerProcess'
<1>1. CASE Tick \/ UNCHANGED vars
    BY <1>1 DEF Tick, vars, OneHandlerPerProcess, Handling
<1>2. ASSUME NEW w \in Worker, Start(w) \/ Continue(w) \/ Crash(w)
      PROVE  OneHandlerPerProcess'
    <2>1. \A v \in Worker \ {w} : Handling(v)' <=> Handling(v)
        BY <1>2, OthersKeep DEF Handling
    <2>2. CASE Handling(w) BY <2>1, <2>2 DEF OneHandlerPerProcess
    <2>3. CASE ~Handling(w)
        <3>1. CASE \E b \in BOOLEAN : StartWebhook(w, b)
            <4>1. ~Named(w) BY <3>1 DEF StartWebhook
            <4> QED BY <2>1, <4>1 DEF OneHandlerPerProcess, Named
        <3>2. CASE \A b \in BOOLEAN : ~StartWebhook(w, b)
            <4>1. ~Handling(w)' BY <1>2, <2>3, <3>2, HandlerOrigin
            <4> QED BY <2>1, <4>1 DEF OneHandlerPerProcess
        <3> QED BY <3>1, <3>2
    <2> QED BY <2>2, <2>3
<1> QED BY <1>1, <1>2 DEF Next

(* In every process an order's notifications are handled one after the     *)
(* other, under any interleaving with the other jobs and with crashes.     *)
THEOREM HandlersApart == Spec => []OneHandlerPerProcess
<1>1. Init => OneHandlerPerProcess
    BY DEF Init, OneHandlerPerProcess, Handling, Idle
<1>2. TypeOK /\ OneHandlerPerProcess /\ [Next]_vars => OneHandlerPerProcess'
    BY HandlerStep
<1> QED BY <1>1, <1>2, OrderTypeCorrect, PTL DEF Spec

-----------------------------------------------------------------------------
(* Jobs one at a time.                                                     *)

(* The other workers have nothing in progress. *)
Solo(w) == \A v \in Worker \ {w} : job[v].pc = "idle"

(* The buyer's view when at most the job j is in progress. *)
TermOf(j) == IF order = None THEN None
             ELSE IF j.pc = "save" THEN j.copy.expires ELSE order.expires

KeptOf(j) == [s \in Slot |->
    IF proxies[s] # None /\ j.pc = "extend" /\ j.rows[s] = None
    THEN proxies[s] - Period ELSE proxies[s]]

(* The step that the order's buyer sees, and the invariant after it. *)
Good(w) == Fresh(w)' /\ RowsOK' /\ (Sale!Next \/ UNCHANGED Sale!vars)

LEMMA View ==
    ASSUME NEW w \in Worker, Solo(w)
    PROVE  Term = TermOf(job[w]) /\ Kept = KeptOf(job[w]) /\ (Open <=> job[w].pc \in Asked)
<1>1. \A v \in Worker : Dating(v) => v = w BY DEF Solo, Dating
<1>2. (\E v \in Worker : Dating(v)) <=> Dating(w) BY <1>1
<1>3. Dating(w) => (CHOOSE v \in Worker : Dating(v)) = w BY <1>1
<1>4. Term = TermOf(job[w]) BY <1>2, <1>3 DEF Term, TermOf, Dating
<1>5. \A s \in Slot : Extended(s) <=> proxies[s] # None /\ job[w].pc = "extend"
                                      /\ job[w].rows[s] = None
    BY DEF Solo, Extended
<1>6. Kept = KeptOf(job[w]) BY <1>5 DEF Kept, KeptOf
<1>7. Open <=> job[w].pc \in Asked BY DEF Solo, Open, Asked
<1> QED BY <1>4, <1>6, <1>7

LEMMA ViewNext ==
    ASSUME NEW w \in Worker, Solo(w)'
    PROVE  /\ Term' = TermOf(job[w])' /\ Kept' = KeptOf(job[w])'
           /\ Open' <=> job[w]'.pc \in Asked
<1>1. \A v \in Worker : Dating(v)' => v = w BY DEF Solo, Dating
<1>2. (\E v \in Worker : Dating(v)') <=> Dating(w)' BY <1>1
<1>3. Dating(w)' => (CHOOSE v \in Worker : Dating(v)') = w BY <1>1
<1>4. Term' = TermOf(job[w])' BY <1>2, <1>3 DEF Term, TermOf, Dating
<1>5. \A s \in Slot : Extended(s)' <=> proxies'[s] # None /\ job[w]'.pc = "extend"
                                       /\ job[w]'.rows[s] = None
    BY DEF Solo, Extended
<1>6. Kept' = KeptOf(job[w])' BY <1>5 DEF Kept, KeptOf
<1>7. Open' <=> job[w]'.pc \in Asked BY DEF Solo, Open, Asked
<1> QED BY <1>4, <1>6, <1>7

(* Jobs run alone: the worker that steps is the only one with a job. *)
LEMMA SoloStep ==
    ASSUME TypeOK, AtMostOne, SerialNext, NEW w \in Worker, Start(w) \/ Continue(w)
    PROVE  Solo(w) /\ Solo(w)'
<1>1. \A v \in Worker \ {w} : job'[v] = job[v] BY OthersKeep
<1>2. CASE job[w].pc # "idle" BY <1>1, <1>2 DEF Solo, AtMostOne
<1>3. CASE job'[w].pc # "idle" BY <1>1, <1>3 DEF Solo, AtMostOne, SerialNext
<1>4. CASE job[w].pc = "idle" /\ job'[w].pc = "idle"
    <2>1. ~Continue(w)
        <3>1. ~WebhookStep(w)
            BY <1>4 DEF WebhookStep, SavePayment, FindRenewed, ReadProxies, SaveRenewal,
                        SaveFailure, ExtendProxy
        <3>2. ~DeliveryStep(w)
            BY <1>4 DEF DeliveryStep, FindOrder, AcquireLock, DeliveryFails,
                        FinishDelivery, CreateProxy
        <3>3. ~SweepStep(w)
            BY <1>4 DEF SweepStep, ClearProxies, MarkExpired, DeleteTimedOut, FindFirst,
                        CloseProxy, SaveArchived, DropOrder, CheckOld, DeleteOld, SweepProxy
        <3>4. ~CallStep(w)
            BY <1>4 DEF CallStep, RedoDelivery, Destroy, DateProxies, SaveDate, SaveLink,
                        WithdrawProxy
        <3> QED BY <3>1, <3>2, <3>3, <3>4 DEF Continue
    <2>2. \E b \in BOOLEAN : StartWebhook(w, b) \/ DropWebhook(w, b)
        <3>1. \A b \in BOOLEAN : ~StartTask(w, b) /\ ~StartClosing(w, b)
            BY <1>4 DEF StartTask, StartClosing, Idle, TypeOK
        <3>2. ~StartOrderCheck(w) /\ ~StartProxySweep(w) /\ ~StartTimeout(w) /\ ~StartOld(w)
            BY <1>4 DEF StartOrderCheck, StartProxySweep, StartTimeout, StartOld, Idle, TypeOK
        <3>3. ~StartWithdraw(w) /\ ~StartRedo(w) /\ ~StartDestroy(w) /\ ~StartLink(w)
            BY <1>4 DEF StartWithdraw, StartRedo, StartDestroy, StartLink, StartAdmin,
                        Idle, TypeOK
        <3>4. \A t \in 0 .. MaxTime + 1 : ~StartDate(w, t)
            BY <1>4 DEF StartDate, StartAdmin, Idle, TypeOK
        <3> QED BY <2>1, <3>1, <3>2, <3>3, <3>4 DEF Start
    <2>3. calls' # calls BY <2>2 DEF StartWebhook, DropWebhook, Notified, TypeOK
    <2>4. Quiet BY <2>3 DEF SerialNext
    <2> QED BY <1>1, <2>4 DEF Quiet, Solo
<1> QED BY <1>2, <1>3, <1>4

(* A step after which the buyer's view differs at most in Open. *)
LEMMA Unseen ==
    ASSUME NEW w \in Worker, Solo(w), Solo(w)', RowsOK,
           now' = now, PaidUp' = PaidUp,
           TermOf(job[w])' = TermOf(job[w]), KeptOf(job[w])' = KeptOf(job[w]),
           \A s \in Slot : proxies'[s] # None => proxies[s] # None
    PROVE  RowsOK' /\ Sale!Next
<1>1. Term' = Term /\ Kept' = Kept BY View, ViewNext
<1>2. RowsOK' BY <1>1 DEF RowsOK
<1>3. Sale!Ask(Open') BY <1>1 DEF Sale!Ask
<1>4. Open' \in BOOLEAN BY DEF Open
<1> QED BY <1>2, <1>3, <1>4 DEF Sale!Next

(* Starting a job shows nothing but that something was asked for. *)
LEMMA StartGood ==
    ASSUME TypeOK, RowsOK, NEW w \in Worker, Start(w), Solo(w), Solo(w)'
    PROVE  Fresh(w)' /\ RowsOK' /\ Sale!Next
<1> DEFINE K == job'[w]
<1>0. job \in [Worker -> Job] BY DEF TypeOK
<1>1. ~Named(w)
    BY DEF Named, Handling, Solo, Start, StartWebhook, DropWebhook, StartTask,
           StartOrderCheck, StartProxySweep, StartTimeout, StartOld, StartClosing,
           StartWithdraw, StartRedo, StartDestroy, StartLink, StartDate, StartAdmin
<1>2. ASSUME NEW b \in BOOLEAN, StartWebhook(w, b)
      PROVE  Fresh(w)' /\ K.pc \in {"idle", "pay"}
    <2>1. order' = order BY <1>2 DEF StartWebhook, Notified
    <2>2. CASE order = None
        <3>1. K = Idle BY <1>0, <1>2, <2>2 DEF StartWebhook
        <3> QED BY <3>1 DEF Fresh, Idle
    <2>3. CASE order # None
        <3>1. K = [Idle EXCEPT !.pc = "pay", !.entry = order,
                               !.mode = IF b THEN "renew" ELSE "new"]
            BY <1>0, <1>2, <2>3 DEF StartWebhook
        <3>2. K.pc = "pay" /\ K.entry = order BY <3>1 DEF Idle
        <3> QED BY <2>1, <3>2 DEF Fresh
    <2> QED BY <2>2, <2>3
<1>3. ASSUME NEW b \in BOOLEAN, StartTask(w, b) PROVE Fresh(w)' /\ K.pc = "lock"
    <2>1. K = [Idle EXCEPT !.pc = "lock", !.copy = order, !.goal = Quantity,
                           !.mode = IF b THEN "fill" ELSE "task"]
        BY <1>0, <1>3 DEF StartTask
    <2>2. K.pc = "lock" /\ K.copy = order /\ K.entry = None BY <2>1 DEF Idle
    <2>3. order' = order /\ order # None /\ order.paid
        BY <1>3 DEF StartTask, Deliverable
    <2> QED BY <2>2, <2>3 DEF Fresh
<1>4. ASSUME StartOrderCheck(w) \/ StartTimeout(w) \/ StartOld(w)
      PROVE  Fresh(w)'
    <2>1. order' = order /\ now' = now /\ order # None
        BY <1>4 DEF StartOrderCheck, StartTimeout, StartOld, Expired
    <2>2. order \in Row /\ now \in Nat BY <2>1 DEF TypeOK
    <2>3. StartOrderCheck(w) => K.pc = "clear" /\ order.expires <= now
        BY <1>0 DEF StartOrderCheck, Expired, Idle
    <2>4. StartTimeout(w) => K.pc = "timeout" /\ ~order.paid
        BY <1>0 DEF StartTimeout, Idle
    <2>5. StartOld(w) => K.pc = "old" /\ order.expires <= now
        <3>1. order.expires \in Nat BY <2>2 DEF Row
        <3> QED BY <1>0, <2>2, <3>1, OrderAssumption DEF StartOld, Idle
    <2> QED BY <1>4, <2>1, <2>3, <2>4, <2>5 DEF Fresh
<1>5. ASSUME StartProxySweep(w)
      PROVE  Fresh(w)'
    <2>1. K.pc = "purge" /\ K.rows = proxies /\ proxies' = proxies
        BY <1>0, <1>5 DEF StartProxySweep, Idle
    <2> QED BY <2>1 DEF Fresh
<1>6. ASSUME NEW b \in BOOLEAN, StartClosing(w, b) PROVE Fresh(w)' /\ K.pc = "first"
    <2>1. K.pc = "first" /\ K.copy = order
        BY <1>0, <1>6 DEF StartClosing, Idle
    <2>2. order' = order /\ now' = now /\ order # None /\ order.expires <= now
        BY <1>6 DEF StartClosing, Expired
    <2> QED BY <2>1, <2>2 DEF Fresh
<1>7. ASSUME StartWithdraw(w) \/ StartRedo(w) \/ StartDestroy(w) \/ StartLink(w)
      PROVE  Fresh(w)'
    <2>1. K.pc \in {"withdraw", "redo", "destroy", "link"}
        BY <1>0, <1>7 DEF StartWithdraw, StartRedo, StartDestroy, StartLink,
                          StartAdmin, Idle
    <2>2. /\ K.pc = "link" => K.copy = order /\ order' = order
          /\ K.entry = None
        BY <1>0, <1>7 DEF StartWithdraw, StartRedo, StartDestroy, StartLink,
                          StartAdmin, Idle
    <2> QED BY <2>1, <2>2 DEF Fresh
<1>8. ASSUME NEW t \in 0 .. MaxTime + 1, StartDate(w, t)
      PROVE  Fresh(w)' /\ K.pc = "date"
    <2>1. order # None /\ order' = order BY <1>8 DEF StartDate, StartAdmin
    <2>2. order \in Row BY <2>1 DEF TypeOK
    <2>3. K.pc = "date" /\ K.copy = [order EXCEPT !.expires = t]
        BY <1>0, <1>8 DEF StartDate, StartAdmin, Idle
    <2>4. K.copy.expires = t BY <2>2, <2>3 DEF Row
    <2> QED BY <2>1, <2>3, <2>4 DEF Fresh
<1>9. Fresh(w)' /\ K.pc \notin {"extend", "save"}
    <2>1. \A b \in BOOLEAN : ~DropWebhook(w, b) BY <1>1 DEF DropWebhook
    <2>3. StartOrderCheck(w) \/ StartTimeout(w) \/ StartOld(w)
          => K.pc \in {"clear", "timeout", "old"}
        BY <1>0 DEF StartOrderCheck, StartTimeout, StartOld, Idle
    <2>4. StartProxySweep(w) => K.pc = "purge" BY <1>0 DEF StartProxySweep, Idle
    <2>5. StartWithdraw(w) \/ StartRedo(w) \/ StartDestroy(w) \/ StartLink(w)
          => K.pc \in {"withdraw", "redo", "destroy", "link"}
        BY <1>0 DEF StartWithdraw, StartRedo, StartDestroy, StartLink, StartAdmin, Idle
    <2> HIDE DEF K
    <2> QED BY <1>2, <1>3, <1>4, <1>5, <1>6, <1>7, <1>8, <2>1, <2>3, <2>4, <2>5 DEF Start
<1>10. job[w].pc = "idle" /\ UNCHANGED <<now, order, proxies>>
    BY DEF Start, StartWebhook, DropWebhook, Notified, StartTask,
           StartOrderCheck, StartProxySweep, StartTimeout, StartOld, StartClosing,
           StartWithdraw, StartRedo, StartDestroy, StartLink, StartDate, StartAdmin
<1>11. /\ TermOf(job[w])' = TermOf(job[w]) /\ KeptOf(job[w])' = KeptOf(job[w])
       /\ PaidUp' = PaidUp
    BY <1>9, <1>10 DEF TermOf, KeptOf, PaidUp
<1> QED BY <1>9, <1>10, <1>11, Unseen

(* The view unless a renewal or a new date is half done. *)
LEMMA PlainView ==
    ASSUME TypeOK, NEW w \in Worker, Solo(w), job[w].pc \notin {"extend", "save"}
    PROVE  /\ Kept = proxies
           /\ Term = IF order = None THEN None ELSE order.expires
           /\ Open <=> job[w].pc \in Asked
<1>1. KeptOf(job[w]) = [s \in Slot |-> proxies[s]] BY DEF KeptOf
<1>2. proxies = [s \in Slot |-> proxies[s]] BY DEF TypeOK, Rows
<1>3. TermOf(job[w]) = IF order = None THEN None ELSE order.expires BY DEF TermOf
<1> QED BY <1>1, <1>2, <1>3, View

LEMMA PlainViewNext ==
    ASSUME TypeOK', NEW w \in Worker, Solo(w)', job'[w].pc \notin {"extend", "save"}
    PROVE  /\ Kept' = proxies'
           /\ Term' = IF order' = None THEN None ELSE order'.expires
           /\ Open' <=> job'[w].pc \in Asked
<1>1. KeptOf(job[w])' = [s \in Slot |-> proxies'[s]] BY DEF KeptOf
<1>2. proxies' = [s \in Slot |-> proxies'[s]] BY DEF TypeOK, Rows
<1>3. TermOf(job[w])' = IF order' = None THEN None ELSE order'.expires BY DEF TermOf
<1> QED BY <1>1, <1>2, <1>3, ViewNext

(* A step that leaves the proxies, the payment and the expiry alone. *)
LEMMA Plain ==
    ASSUME TypeOK, TypeOK', RowsOK, NEW w \in Worker, Solo(w), Solo(w)',
           job[w].pc \notin {"extend", "save"}, job'[w].pc \notin {"extend", "save"},
           now' = now, proxies' = proxies,
           order' = None <=> order = None,
           order # None => order'.paid = order.paid /\ order'.expires = order.expires
    PROVE  RowsOK' /\ Sale!Next
<1>1. Kept' = Kept /\ Term' = Term BY PlainView, PlainViewNext
<1>2. PaidUp' = PaidUp BY DEF PaidUp
<1>3. RowsOK' BY <1>1, <1>2 DEF RowsOK
<1>4. Sale!Ask(Open') BY <1>1, <1>2 DEF Sale!Ask
<1>5. Open' \in BOOLEAN BY DEF Open
<1> QED BY <1>3, <1>4, <1>5 DEF Sale!Next

(* The steps of the webhook and of a renewal. *)
LEMMA WebhookGood ==
    ASSUME TypeOK, TypeOK', RowsOK, NEW w \in Worker, Solo(w), Solo(w)', Fresh(w),
           WebhookStep(w)
    PROVE  Fresh(w)' /\ RowsOK' /\ Sale!Next
<1> DEFINE J == job[w]
           K == job'[w]
<1>0. /\ job \in [Worker -> Job] /\ J \in Job /\ JobOK(J) /\ order \in Row \cup {None}
      /\ K \in Job /\ JobOK(K) /\ order' \in Row \cup {None}
      /\ proxies \in Rows /\ proxies' \in Rows
    BY DEF TypeOK
<1>1. CASE SavePayment(w)
    <2> DEFINE row == Paid(J.entry, J.mode = "renew")
    <2>1. J.pc = "pay" /\ order' = row /\ K = [J EXCEPT !.entry = row, !.pc = "find"]
        BY <1>0, <1>1 DEF SavePayment
    <2>2. order # None /\ J.entry = order /\ J.entry \in Row
        BY <1>0, <2>1 DEF Fresh, JobOK, Job
    <2>3. K.pc = "find" /\ K.entry = row BY <1>0, <2>1 DEF Job
    <2>4. row.paid = TRUE /\ row.expires = order.expires BY <2>2 DEF Paid, Row
    <2>4a. row.renewed \in Nat BY <1>0, <2>2, <2>1 DEF Paid, Row
    <2>5. row # None BY <2>2, <2>4a, <2>4, OrderAssumption DEF Paid, Row
    <2>6. PaidUp' BY <2>1, <2>4, <2>5 DEF PaidUp
    <2>7. now' = now /\ proxies' = proxies BY <1>1 DEF SavePayment
    <2>8. Kept' = Kept /\ Term' = Term /\ Term # None /\ Open' = Open
        <3>1. order.expires # None BY <2>2, OrderAssumption DEF Row
        <3>2. ~(J.pc \in Asked) /\ ~(K.pc \in Asked) BY <2>1, <2>3 DEF Asked
        <3>3. Kept' = Kept /\ Term' = Term /\ Term # None
            BY <2>1, <2>2, <2>3, <2>4, <2>5, <2>7, <3>1, PlainView, PlainViewNext
        <3>4. ~Open /\ ~Open' BY <2>1, <2>3, <3>2, PlainView, PlainViewNext
        <3> QED BY <3>3, <3>4 DEF Open
    <2>9. RowsOK' BY <2>6, <2>7, <2>8 DEF RowsOK
    <2>10. Sale!Pay
        <3>1. PaidUp' = TRUE BY <2>6 DEF PaidUp
        <3> QED BY <2>7, <2>8, <3>1 DEF Sale!Pay
    <2>11. Fresh(w)' BY <2>1, <2>3 DEF Fresh
    <2> QED BY <2>9, <2>10, <2>11 DEF Sale!Next
<1>2. CASE FindRenewed(w)
    <2>1. J.pc = "find" /\ UNCHANGED <<now, order, proxies>> BY <1>2 DEF FindRenewed
    <2>2. K = IF order = None THEN [J EXCEPT !.pc = "fail"]
              ELSE [J EXCEPT !.copy = order, !.pc = "rows"]
        BY <1>0, <1>2 DEF FindRenewed
    <2>3. \/ K.pc = "fail" /\ K.entry = J.entry
          \/ K.pc = "rows" /\ K.copy = order
        BY <1>0, <2>2 DEF Job
    <2>4. J.entry # None => J.entry = order BY <2>1 DEF Fresh
    <2>5. Fresh(w)' BY <2>1, <2>3, <2>4 DEF Fresh
    <2> QED BY <2>1, <2>3, <2>5, Plain
<1>3. CASE ReadProxies(w)
    <2>1. J.pc = "rows" /\ UNCHANGED <<now, order, proxies>> BY <1>3 DEF ReadProxies
    <2>2. K = [J EXCEPT !.rows = proxies, !.pc = "extend"] BY <1>0, <1>3 DEF ReadProxies
    <2>3. K.pc = "extend" /\ K.rows = proxies /\ K.copy = J.copy BY <1>0, <2>2 DEF Job
    <2>4. J.copy = order BY <2>1 DEF Fresh
    <2>5. Fresh(w)' BY <2>1, <2>3, <2>4 DEF Fresh
    <2>6. KeptOf(J)' = KeptOf(J) BY <2>1, <2>3 DEF KeptOf
    <2>7. TermOf(J)' = TermOf(J) /\ PaidUp' = PaidUp BY <2>1, <2>3 DEF TermOf, PaidUp
    <2> QED BY <2>1, <2>5, <2>6, <2>7, Unseen
<1>5. CASE SaveRenewal(w)
    <2>1. J.pc = "extend" /\ J.rows = NoRows /\ UNCHANGED <<now, proxies>>
        BY <1>5 DEF SaveRenewal
    <2>2. J.copy = order /\ order \in Row BY <1>0, <2>1 DEF Fresh, JobOK
    <2>3. order' = [order EXCEPT !.expires = @ + Period] /\ K = Idle
        BY <1>0, <1>5, <2>2 DEF SaveRenewal
    <2>4. K.pc = "idle" BY <2>3 DEF Idle
    <2>5. order'.paid = order.paid /\ order'.expires = order.expires + Period
        BY <2>2, <2>3 DEF Row
    <2>5a. order' \in Row BY <2>2, <2>3, OrderAssumption DEF Row
    <2>6. order # None /\ order' # None BY <2>2, <2>5a, OrderAssumption
    <2>7. /\ Term = order.expires /\ Term' = order.expires + Period
          /\ Kept' = proxies
        BY <2>1, <2>4, <2>5, <2>6, View, PlainViewNext DEF TermOf
    <2>8. order.expires \in Nat /\ Period \in Nat BY <2>2, OrderAssumption DEF Row
    <2>9. PaidUp' = PaidUp BY <2>5, <2>6 DEF PaidUp
    <2>10. \A s \in Slot : Kept[s] = IF proxies[s] # None THEN proxies[s] - Period ELSE None
        BY <2>1, View DEF KeptOf, NoRows
    <2>11. ASSUME NEW s \in Slot, proxies[s] # None
           PROVE  PaidUp /\ Kept[s] # None /\ proxies[s] = Term'
        <3>1. PaidUp /\ Kept[s] = Term BY <2>11 DEF RowsOK
        <3>2. proxies[s] - Period = order.expires BY <2>7, <2>10, <2>11, <3>1
        <3>3. proxies[s] \in Nat BY <1>0, <2>11 DEF Rows
        <3> QED BY <2>7, <2>8, <3>1, <3>2, <3>3, OrderAssumption
    <2>12. RowsOK' BY <2>1, <2>7, <2>9, <2>11 DEF RowsOK
    <2>13. Sale!Extend
        <3>1. Kept' = [s \in Slot |-> IF Kept[s] = None THEN None ELSE Term']
            <4>1. \A s \in Slot : proxies[s] = IF Kept[s] = None THEN None ELSE Term'
                BY <2>10, <2>11
            <4>2. proxies = [s \in Slot |-> proxies[s]] BY <1>0 DEF Rows
            <4> QED BY <2>7, <4>1, <4>2
        <3>2. Open' = Open
            <4>1. ~Open BY <2>1, View DEF Asked
            <4>2. ~Open' BY <2>4, ViewNext DEF Asked
            <4> QED BY <4>1, <4>2 DEF Open
        <3>3. Term # None BY <2>7, <2>8, OrderAssumption
        <3> QED BY <2>1, <2>7, <2>9, <3>1, <3>2, <3>3 DEF Sale!Extend, Sale!AllUntil
    <2>14. Fresh(w)' BY <2>4 DEF Fresh
    <2> QED BY <2>12, <2>13, <2>14 DEF Sale!Next
<1>6. CASE SaveFailure(w)
    <2>1. J.pc = "fail" /\ order' = J.entry /\ UNCHANGED <<now, proxies>> /\ K = Idle
        BY <1>0, <1>6 DEF SaveFailure
    <2>2. J.entry = order BY <1>0, <2>1 DEF Fresh, JobOK
    <2>3. K.pc = "idle" BY <2>1 DEF Idle
    <2>4. Fresh(w)' BY <2>3 DEF Fresh
    <2> QED BY <2>1, <2>2, <2>3, <2>4, Plain
<1>7. ASSUME NEW s \in Slot, ExtendProxy(w, s) PROVE Fresh(w)' /\ RowsOK' /\ Sale!Next
    <2>1. J.pc = "extend" /\ J.rows[s] # None /\ UNCHANGED <<now, order>>
        BY <1>7 DEF ExtendProxy
    <2>2. J.copy = order /\ order # None /\ J.rows[s] = proxies[s]
        BY <1>0, <2>1 DEF Fresh, JobOK
    <2>3. /\ proxies' = [proxies EXCEPT ![s] = proxies[s] + Period]
          /\ K = [J EXCEPT !.rows[s] = None]
        BY <1>0, <1>7, <2>2 DEF ExtendProxy
    <2>4. /\ K.pc = "extend" /\ K.copy = J.copy /\ K.rows = [J.rows EXCEPT ![s] = None]
        BY <1>0, <2>1, <2>3 DEF Job
    <2>5. J.rows \in Rows BY <1>0 DEF Job
    <2>6. proxies[s] \in Nat /\ proxies[s] # None BY <1>0, <2>1, <2>2 DEF Rows
    <2>7. \A r \in Slot : /\ r # s => K.rows[r] = J.rows[r] /\ proxies'[r] = proxies[r]
                          /\ K.rows[s] = None /\ proxies'[s] = proxies[s] + Period
        BY <1>0, <2>3, <2>4, <2>5 DEF Rows
    <2>8. KeptOf(J)' = KeptOf(J)
        <3>1. proxies[s] + Period # None /\ (proxies[s] + Period) - Period = proxies[s]
            BY <2>6, OrderAssumption
        <3> QED BY <2>1, <2>4, <2>6, <2>7, <3>1 DEF KeptOf
    <2>9. TermOf(J)' = TermOf(J) /\ PaidUp' = PaidUp BY <2>1, <2>4 DEF TermOf, PaidUp
    <2>10. \A r \in Slot : proxies'[r] # None => proxies[r] # None BY <2>6, <2>7
    <2>11. Fresh(w)'
        <3>1. \A r \in Slot : J.rows[r] # None => J.rows[r] = proxies[r]
            BY <2>1 DEF Fresh
        <3>2. \A r \in Slot : K.rows[r] # None => K.rows[r] = proxies'[r]
            BY <2>7, <3>1
        <3> QED BY <2>1, <2>2, <2>4, <3>2 DEF Fresh
    <2> QED BY <2>1, <2>8, <2>9, <2>10, <2>11, Unseen
<1> QED BY <1>1, <1>2, <1>3, <1>5, <1>6, <1>7 DEF WebhookStep

(* The steps of a delivery. *)
LEMMA DeliveryGood ==
    ASSUME TypeOK, TypeOK', RowsOK, NEW w \in Worker, Solo(w), Solo(w)', Fresh(w),
           DeliveryStep(w)
    PROVE  Fresh(w)' /\ RowsOK' /\ Sale!Next
<1> DEFINE J == job[w]
           K == job'[w]
<1>0. /\ job \in [Worker -> Job] /\ J \in Job /\ JobOK(J) /\ order \in Row \cup {None}
      /\ K \in Job /\ JobOK(K) /\ order' \in Row \cup {None}
      /\ proxies \in Rows /\ proxies' \in Rows
    BY DEF TypeOK
<1>a. /\ Failed(w).pc \in {"fail", "idle"}
      /\ Failed(w).pc = "fail" => Failed(w).entry = J.entry
    BY <1>0 DEF Failed, Idle, Job
<1>1. CASE FindOrder(w)
    <2>1. J.pc = "find" /\ UNCHANGED <<now, order, proxies>> BY <1>1 DEF FindOrder
    <2>2. J.entry # None => J.entry = order BY <2>1 DEF Fresh
    <2>3. CASE Deliverable(order)
        <3>1. K = [J EXCEPT !.copy = order, !.goal = Quantity, !.pc = "lock"]
            BY <1>0, <1>1, <2>3 DEF FindOrder
        <3>2. K.pc = "lock" /\ K.copy = order /\ K.entry = J.entry
            BY <1>0, <3>1 DEF Job
        <3>3. order # None /\ order.paid BY <2>3 DEF Deliverable
        <3>4. Fresh(w)' BY <2>1, <2>2, <3>2, <3>3 DEF Fresh
        <3> QED BY <2>1, <3>2, <3>4, Plain
    <2>4. CASE ~Deliverable(order)
        <3>1. K = Failed(w) BY <1>0, <1>1, <2>4 DEF FindOrder
        <3>2. Fresh(w)' BY <1>a, <2>1, <2>2, <3>1 DEF Fresh
        <3> QED BY <1>a, <2>1, <3>1, <3>2, Plain
    <2> QED BY <2>3, <2>4
<1>2. CASE AcquireLock(w)
    <2>1. J.pc = "lock" /\ UNCHANGED <<now, order, proxies>> BY <1>2 DEF AcquireLock
    <2>2. /\ J.copy = order /\ order # None /\ order.paid
          /\ J.entry # None => J.entry = order
        BY <2>1 DEF Fresh
    <2>3. \/ K.pc = "idle"
          \/ K.pc = "create" /\ K.copy = J.copy /\ K.entry = J.entry
        <3>1. ASSUME job' = [job EXCEPT ![w] = Idle] PROVE K.pc = "idle"
            BY <1>0, <3>1 DEF Idle
        <3>2. ASSUME NEW n, job' = [job EXCEPT ![w] = [J EXCEPT !.goal = n, !.pc = "create"]]
              PROVE  K.pc = "create" /\ K.copy = J.copy /\ K.entry = J.entry
            BY <1>0, <3>2 DEF Job
        <3> HIDE DEF K, J
        <3> QED BY <1>2, <3>1, <3>2 DEF AcquireLock, J
    <2>4. Fresh(w)' BY <2>1, <2>2, <2>3 DEF Fresh
    <2> QED BY <2>1, <2>3, <2>4, Plain
<1>3. CASE DeliveryFails(w)
    <2>1. J.pc = "create" /\ UNCHANGED <<now, order, proxies>> /\ K = Failed(w)
        BY <1>0, <1>3 DEF DeliveryFails
    <2>2. J.entry # None => J.entry = order BY <2>1 DEF Fresh
    <2>3. Fresh(w)' BY <1>a, <2>1, <2>2 DEF Fresh
    <2> QED BY <1>a, <2>1, <2>3, Plain
<1>4. CASE FinishDelivery(w)
    <2>1. J.pc = "create" /\ UNCHANGED <<now, proxies>> /\ K = Idle
          /\ order' = [J.copy EXCEPT !.status = "delivered"]
        BY <1>0, <1>4 DEF FinishDelivery
    <2>2. J.copy = order /\ order # None BY <2>1 DEF Fresh
    <2>3. order'.paid = order.paid /\ order'.expires = order.expires
        BY <1>0, <2>1, <2>2 DEF Row
    <2>4. order' \in Row BY <1>0, <2>1, <2>2 DEF Row
    <2>5. K.pc = "idle" BY <2>1 DEF Idle
    <2>6. Fresh(w)' BY <2>5 DEF Fresh
    <2> QED BY <2>1, <2>2, <2>3, <2>4, <2>5, <2>6, Plain, OrderAssumption
<1>5. ASSUME NEW s \in Slot, CreateProxy(w, s) PROVE Fresh(w)' /\ RowsOK' /\ Sale!Next
    <2>1. J.pc = "create" /\ proxies[s] = None /\ UNCHANGED <<now, order>>
        BY <1>5 DEF CreateProxy
    <2>2. /\ J.copy = order /\ order # None /\ order.paid
          /\ J.entry # None => J.entry = order
        BY <2>1 DEF Fresh
    <2>3. /\ proxies' = [proxies EXCEPT ![s] = order.expires]
          /\ K = [J EXCEPT !.made = @ + 1]
        BY <1>0, <1>5, <2>2 DEF CreateProxy
    <2>4. K.pc = "create" /\ K.copy = J.copy /\ K.entry = J.entry
        BY <1>0, <2>1, <2>3 DEF Job
    <2>5. Fresh(w)' BY <2>1, <2>2, <2>4 DEF Fresh
    <2>6. /\ Term = order.expires /\ Term' = Term
          /\ Kept = proxies /\ Kept' = proxies'
        BY <2>1, <2>2, <2>4, PlainView, PlainViewNext
    <2>7. PaidUp /\ PaidUp' BY <2>1, <2>2 DEF PaidUp
    <2>8. Open' = Open
        <3>1. ~Open BY <2>1, View DEF Asked
        <3>2. ~Open' BY <2>4, ViewNext DEF Asked
        <3> QED BY <3>1, <3>2 DEF Open
    <2>9. \A r \in Slot : proxies'[r] = IF r = s THEN Term ELSE proxies[r]
        BY <1>0, <2>3, <2>6 DEF Rows
    <2>10. RowsOK' BY <2>6, <2>7, <2>9 DEF RowsOK
    <2>11. Sale!Give(s) BY <2>1, <2>3, <2>6, <2>7, <2>8 DEF Sale!Give, PaidUp
    <2> QED BY <2>5, <2>10, <2>11 DEF Sale!Next
<1> QED BY <1>1, <1>2, <1>3, <1>4, <1>5 DEF DeliveryStep

(* The view once the order is deleted. *)
LEMMA GoneView ==
    ASSUME TypeOK, TypeOK', NEW w \in Worker, Solo(w)', DeleteOrder(w)
    PROVE  /\ Term' = None /\ PaidUp' = FALSE /\ Open' = FALSE /\ now' = now
           /\ Kept' = [s \in Slot |-> None]
           /\ Fresh(w)' /\ RowsOK'
<1>1. job'[w] = Idle /\ order' = None /\ proxies' = NoRows /\ now' = now
    BY DEF DeleteOrder, TypeOK
<1>2. job'[w].pc = "idle" BY <1>1 DEF Idle
<1>3. Term' = None /\ Kept' = NoRows /\ ~Open'
    BY <1>1, <1>2, PlainViewNext DEF Asked
<1>4. PaidUp' = FALSE BY <1>1 DEF PaidUp
<1>5. Fresh(w)' BY <1>2 DEF Fresh
<1>6. RowsOK' BY <1>1 DEF RowsOK, NoRows
<1> QED BY <1>1, <1>3, <1>4, <1>5, <1>6 DEF NoRows, Open

(* Proxies that are removed because they expired, or that nobody had. *)
LEMMA Expiry ==
    ASSUME TypeOK, TypeOK', RowsOK, NEW w \in Worker, Solo(w), Solo(w)',
           job[w].pc \notin {"extend", "save"} \cup Asked,
           job'[w].pc \notin {"extend", "save"} \cup Asked,
           UNCHANGED <<now, order>>, NEW S \in SUBSET Slot,
           \A s \in S : proxies[s] # None => proxies[s] <= now,
           \A s \in Slot : proxies'[s] = IF s \in S THEN None ELSE proxies[s]
    PROVE  RowsOK' /\ Sale!Next
<1>1. Kept = proxies /\ Kept' = proxies' /\ Term' = Term BY PlainView, PlainViewNext
<1>2. Open' = Open BY View, ViewNext DEF Open
<1>3. PaidUp' = PaidUp BY DEF PaidUp
<1>4. proxies' = [s \in Slot |-> IF s \in S THEN None ELSE proxies[s]]
    BY DEF TypeOK, Rows
<1>5. Sale!Expire(S) BY <1>1, <1>2, <1>3, <1>4 DEF Sale!Expire, Sale!Without
<1>6. RowsOK' BY <1>1, <1>3 DEF RowsOK
<1> QED BY <1>5, <1>6 DEF Sale!Next

(* The steps of the sweeps. *)
LEMMA SweepGood ==
    ASSUME TypeOK, TypeOK', RowsOK, NEW w \in Worker, Solo(w), Solo(w)', Fresh(w),
           SweepStep(w)
    PROVE  Fresh(w)' /\ RowsOK' /\ Sale!Next
<1> DEFINE J == job[w]
           K == job'[w]
<1>0. /\ job \in [Worker -> Job] /\ J \in Job /\ JobOK(J) /\ order \in Row \cup {None}
      /\ K \in Job /\ JobOK(K) /\ order' \in Row \cup {None}
      /\ proxies \in Rows /\ proxies' \in Rows /\ now \in Nat
    BY DEF TypeOK
<1>a. ASSUME J.pc \notin {"extend", "save"}, order # None
      PROVE  /\ Term = order.expires
             /\ \A s \in Slot : proxies[s] # None => proxies[s] = order.expires
    BY <1>a, PlainView DEF RowsOK
<1>1. CASE ClearProxies(w)
    <2>1. J.pc = "clear" /\ UNCHANGED <<now, order>> /\ proxies' = NoRows
          /\ K = [J EXCEPT !.pc = "mark"]
        BY <1>0, <1>1 DEF ClearProxies
    <2>2. order # None /\ order.expires <= now BY <2>1 DEF Fresh
    <2>3. K.pc = "mark" BY <1>0, <2>1 DEF Job
    <2>4. Fresh(w)' BY <2>1, <2>2, <2>3 DEF Fresh
    <2>5. \A s \in Slot : proxies[s] # None => proxies[s] <= now BY <1>a, <2>1, <2>2
    <2>6. \A s \in Slot : proxies'[s] = IF s \in Slot THEN None ELSE proxies[s]
        BY <2>1 DEF NoRows
    <2>7. RowsOK' /\ Sale!Next BY <2>1, <2>3, <2>5, <2>6, Expiry DEF Asked
    <2> QED BY <2>4, <2>7
<1>2. CASE MarkExpired(w)
    <2>1. J.pc = "mark" /\ UNCHANGED <<now, proxies>> /\ K = Idle
        BY <1>0, <1>2 DEF MarkExpired
    <2>2. order # None /\ order \in Row BY <1>0, <2>1 DEF Fresh
    <2>3. order' = [order EXCEPT !.status = "expired"] BY <1>2, <2>2 DEF MarkExpired
    <2>4. order'.paid = order.paid /\ order'.expires = order.expires /\ order' \in Row
        BY <2>2, <2>3 DEF Row
    <2>5. K.pc = "idle" BY <2>1 DEF Idle
    <2>6. Fresh(w)' BY <2>5 DEF Fresh
    <2> QED BY <2>1, <2>2, <2>4, <2>5, <2>6, Plain, OrderAssumption
<1>3. CASE DeleteTimedOut(w) \/ DropOrder(w) \/ DeleteOld(w)
    <2>1. J.pc \in {"timeout", "drop", "delete"} /\ DeleteOrder(w)
        BY <1>3 DEF DeleteTimedOut, DropOrder, DeleteOld
    <2>2. order # None /\ (order.paid => order.expires <= now) BY <2>1 DEF Fresh
    <2>3. /\ Term' = None /\ PaidUp' = FALSE /\ Open' = FALSE /\ now' = now
          /\ Kept' = [s \in Slot |-> None] /\ Fresh(w)' /\ RowsOK'
        BY <2>1, GoneView
    <2>4. Term = order.expires BY <1>a, <2>1, <2>2
    <2>5. Open = FALSE BY <2>1, View DEF Asked, Open
    <2>6. PaidUp => Term <= now BY <2>2, <2>4 DEF PaidUp
    <2>7. Sale!Lapse BY <2>3, <2>5, <2>6 DEF Sale!Lapse, Sale!Without
    <2> QED BY <2>3, <2>7 DEF Sale!Next
<1>4. CASE FindFirst(w)
    <2>1. J.pc = "first" /\ UNCHANGED <<now, order, proxies>> BY <1>4 DEF FindFirst
    <2>2. J.copy = order /\ order # None /\ order.expires <= now BY <2>1 DEF Fresh
    <2>3. \/ K.pc = "close" /\ K.copy = J.copy
          \/ K.pc \in {"drop", "idle"}
        <3>1. ASSUME NEW s \in Present,
                     job' = [job EXCEPT ![w] = [J EXCEPT !.rows[s] = proxies[s],
                                                         !.pc = "close"]]
              PROVE  K.pc = "close" /\ K.copy = J.copy
            BY <1>0, <3>1 DEF Job
        <3>2. ASSUME job' = [job EXCEPT ![w] = IF J.deletes
                                               THEN [J EXCEPT !.pc = "drop"] ELSE Idle]
              PROVE  K.pc \in {"drop", "idle"}
            BY <1>0, <3>2 DEF Job, Idle
        <3> QED BY <1>4, <3>1, <3>2 DEF FindFirst
    <2>4. Fresh(w)' BY <2>1, <2>2, <2>3 DEF Fresh
    <2> QED BY <2>1, <2>3, <2>4, Plain
<1>5. CASE CloseProxy(w)
    <2> DEFINE S == {s \in Slot : J.rows[s] # None}
    <2>1. J.pc = "close" /\ UNCHANGED <<now, order>>
          /\ proxies' = [s \in Slot |-> IF J.rows[s] # None THEN None ELSE proxies[s]]
          /\ K = [J EXCEPT !.rows = NoRows, !.pc = "archive"]
        BY <1>0, <1>5 DEF CloseProxy
    <2>2. J.copy = order /\ order # None /\ order.expires <= now BY <2>1 DEF Fresh
    <2>3. K.pc = "archive" /\ K.copy = J.copy BY <1>0, <2>1 DEF Job
    <2>4. Fresh(w)' BY <2>1, <2>2, <2>3 DEF Fresh
    <2>5. \A s \in S : proxies[s] # None => proxies[s] <= now BY <1>a, <2>1, <2>2
    <2>6. \A s \in Slot : proxies'[s] = IF s \in S THEN None ELSE proxies[s] BY <2>1
    <2>7. S \in SUBSET Slot OBVIOUS
    <2>8. RowsOK' /\ Sale!Next
        <3> HIDE DEF S
        <3> QED BY <2>1, <2>3, <2>5, <2>6, <2>7, Expiry DEF Asked
    <2> QED BY <2>4, <2>8
<1>6. CASE SaveArchived(w)
    <2>1. /\ J.pc = "archive" /\ UNCHANGED <<now, proxies>>
          /\ order' = [J.copy EXCEPT !.status = "expired"]
          /\ K = IF J.deletes THEN [J EXCEPT !.pc = "drop"] ELSE Idle
        BY <1>0, <1>6 DEF SaveArchived
    <2>2. J.copy = order /\ order # None /\ order.expires <= now /\ order \in Row
        BY <1>0, <2>1 DEF Fresh
    <2>3. order'.paid = order.paid /\ order'.expires = order.expires /\ order' \in Row
        BY <2>1, <2>2 DEF Row
    <2>4. K.pc \in {"drop", "idle"} BY <1>0, <2>1 DEF Job, Idle
    <2>5. order' # None BY <2>3, OrderAssumption
    <2>6. Fresh(w)' BY <2>1, <2>2, <2>3, <2>4, <2>5 DEF Fresh
    <2> QED BY <2>1, <2>2, <2>3, <2>4, <2>5, <2>6, Plain
<1>7. CASE CheckOld(w)
    <2>1. /\ J.pc = "old" /\ UNCHANGED <<now, order, proxies>>
          /\ K = IF Present = {} THEN [J EXCEPT !.pc = "delete"] ELSE Idle
        BY <1>0, <1>7 DEF CheckOld
    <2>2. order # None /\ order.expires <= now BY <2>1 DEF Fresh
    <2>3. K.pc \in {"delete", "idle"} BY <1>0, <2>1 DEF Job, Idle
    <2>4. Fresh(w)' BY <2>1, <2>2, <2>3 DEF Fresh
    <2> QED BY <2>1, <2>3, <2>4, Plain
<1>8. ASSUME NEW s \in Slot, SweepProxy(w, s) PROVE Fresh(w)' /\ RowsOK' /\ Sale!Next
    <2> DEFINE S == {r \in {s} : J.rows[s] < now}
    <2>1. /\ J.pc = "purge" /\ J.rows[s] # None /\ UNCHANGED <<now, order>>
          /\ proxies' = IF J.rows[s] < now THEN [proxies EXCEPT ![s] = None] ELSE proxies
          /\ K = IF \A r \in Slot \ {s} : J.rows[r] = None THEN Idle
                 ELSE [J EXCEPT !.rows[s] = None]
        BY <1>0, <1>8 DEF SweepProxy
    <2>2. \A r \in Slot : J.rows[r] # None => J.rows[r] = proxies[r]
        BY <2>1 DEF Fresh
    <2>3. J.rows \in Rows BY <1>0 DEF Job
    <2>4. \/ K.pc = "idle"
          \/ K.pc = "purge" /\ K.rows = [J.rows EXCEPT ![s] = None]
        BY <1>0, <2>1 DEF Job, Idle
    <2>5. \A r \in Slot : r # s => proxies'[r] = proxies[r] BY <1>0, <2>1 DEF Rows
    <2>6. Fresh(w)'
        <3>1. \A r \in Slot : [J.rows EXCEPT ![s] = None][r] # None
                              => J.rows[r] = proxies'[r] /\ r # s
            BY <2>2, <2>3, <2>5 DEF Rows
        <3>2. \A r \in Slot : r # s => [J.rows EXCEPT ![s] = None][r] = J.rows[r]
            BY <2>3 DEF Rows
        <3>3. K.pc = "purge" => \A r \in Slot : K.rows[r] # None => K.rows[r] = proxies'[r]
            BY <2>4, <3>1, <3>2
        <3> QED BY <2>4, <3>3 DEF Fresh
    <2>7. \A r \in S : proxies[r] # None => proxies[r] <= now
        <3>1. J.rows[s] \in Nat BY <2>1, <2>3 DEF Rows
        <3> QED BY <1>0, <2>1, <2>2, <3>1
    <2>8. \A r \in Slot : proxies'[r] = IF r \in S THEN None ELSE proxies[r]
        BY <1>0, <2>1, <2>5 DEF Rows
    <2>9. S \in SUBSET Slot OBVIOUS
    <2>10. RowsOK' /\ Sale!Next
        <3> HIDE DEF S
        <3> QED BY <2>1, <2>4, <2>7, <2>8, <2>9, Expiry DEF Asked
    <2> QED BY <2>6, <2>10
<1> QED BY <1>1, <1>2, <1>3, <1>4, <1>5, <1>6, <1>7, <1>8 DEF SweepStep

(* The steps of the calls. *)
LEMMA CallGood ==
    ASSUME TypeOK, TypeOK', RowsOK, NEW w \in Worker, Solo(w), Solo(w)', Fresh(w),
           CallStep(w)
    PROVE  Fresh(w)' /\ RowsOK' /\ Sale!Next
<1> DEFINE J == job[w]
           K == job'[w]
<1>0. /\ job \in [Worker -> Job] /\ J \in Job /\ JobOK(J) /\ order \in Row \cup {None}
      /\ K \in Job /\ JobOK(K) /\ order' \in Row \cup {None}
      /\ proxies \in Rows /\ proxies' \in Rows
    BY DEF TypeOK
<1>1. CASE RedoDelivery(w)
    <2>1. J.pc = "redo" /\ UNCHANGED <<now, order>> /\ proxies' = NoRows
          /\ K = [J EXCEPT !.pc = "find"]
        BY <1>0, <1>1 DEF RedoDelivery
    <2>2. K.pc = "find" BY <1>0, <2>1 DEF Job
    <2>3. Fresh(w)'
        <3>1. K.entry = J.entry BY <1>0, <2>1 DEF Job
        <3>2. J.entry # None => J.entry = order BY <2>1 DEF Fresh
        <3> QED BY <2>1, <2>2, <3>1, <3>2 DEF Fresh
    <2>4. Kept' = NoRows /\ Term' = Term BY <2>1, <2>2, PlainView, PlainViewNext
    <2>5. Open /\ Open' \in BOOLEAN BY <2>1, View DEF Asked, Open
    <2>6. PaidUp' = PaidUp BY <2>1 DEF PaidUp
    <2>7. Sale!Withdraw(Slot)
        <3>1. Kept' = [s \in Slot |-> IF s \in Slot THEN None ELSE Kept[s]]
            BY <2>4 DEF NoRows
        <3> QED BY <2>1, <2>4, <2>5, <2>6, <3>1 DEF Sale!Withdraw, Sale!Without
    <2>8. RowsOK' BY <2>1 DEF RowsOK, NoRows
    <2> QED BY <2>3, <2>7, <2>8 DEF Sale!Next
<1>2. CASE Destroy(w)
    <2>1. J.pc = "destroy" /\ DeleteOrder(w) BY <1>2 DEF Destroy
    <2>2. Open BY <2>1, View DEF Asked
    <2>3. Sale!Cancel BY <2>1, <2>2, GoneView DEF Sale!Cancel, Sale!Without
    <2> QED BY <2>1, <2>3, GoneView DEF Sale!Next
<1>3. CASE DateProxies(w)
    <2> DEFINE t == J.copy.expires
    <2>1. /\ J.pc = "date" /\ UNCHANGED <<now, order>> /\ K = [J EXCEPT !.pc = "save"]
          /\ proxies' = [s \in Slot |-> IF proxies[s] = None THEN None ELSE t]
        BY <1>0, <1>3 DEF DateProxies
    <2>2. order # None /\ J.copy = [order EXCEPT !.expires = t] BY <2>1 DEF Fresh
    <2>3. K.pc = "save" /\ K.copy = J.copy BY <1>0, <2>1 DEF Job
    <2>4. J.copy \in Row BY <1>0, <2>1 DEF JobOK, Job
    <2>5. t \in Nat /\ t # None BY <2>4, OrderAssumption DEF Row
    <2>6. Term' = t /\ Term = order.expires /\ Term # None
        <3>1. Term' = t BY <2>1, <2>2, <2>3, ViewNext DEF TermOf
        <3>2. Term = order.expires BY <2>1, <2>2, PlainView
        <3>3. order.expires # None BY <1>0, <2>2, OrderAssumption DEF Row
        <3> QED BY <3>1, <3>2, <3>3
    <2>7. Kept = proxies /\ Kept' = proxies'
        <3>1. Kept = proxies BY <2>1, PlainView
        <3>2. Kept' = [s \in Slot |-> proxies'[s]]
            BY <2>3, ViewNext DEF KeptOf
        <3>3. proxies' = [s \in Slot |-> proxies'[s]] BY <1>0 DEF Rows
        <3> QED BY <3>1, <3>2, <3>3
    <2>8. Open /\ Open' BY <2>1, <2>3, View, ViewNext DEF Asked
    <2>9. Open' = Open BY <2>8 DEF Open
    <2>10. PaidUp' = PaidUp BY <2>1 DEF PaidUp
    <2>11. Sale!Reschedule
        BY <2>1, <2>5, <2>6, <2>7, <2>8, <2>9, <2>10 DEF Sale!Reschedule, Sale!AllUntil
    <2>12. RowsOK' BY <2>1, <2>6, <2>7, <2>10 DEF RowsOK
    <2>13. Fresh(w)' BY <2>1, <2>2, <2>3 DEF Fresh
    <2> QED BY <2>11, <2>12, <2>13 DEF Sale!Next
<1>4. CASE SaveDate(w)
    <2>1. /\ J.pc = "save" /\ UNCHANGED <<now, proxies>> /\ K = Idle
          /\ order' = J.copy
        BY <1>0, <1>4 DEF SaveDate
    <2>2. order # None /\ J.copy = [order EXCEPT !.expires = J.copy.expires]
        BY <2>1 DEF Fresh
    <2>3. J.copy # None /\ J.copy.paid = order.paid
        BY <1>0, <2>1, <2>2 DEF JobOK, Row
    <2>4. K.pc = "idle" BY <2>1 DEF Idle
    <2>5. TermOf(J)' = TermOf(J) /\ KeptOf(J)' = KeptOf(J) /\ PaidUp' = PaidUp
        BY <2>1, <2>2, <2>3, <2>4 DEF TermOf, KeptOf, PaidUp
    <2>6. Fresh(w)' BY <2>4 DEF Fresh
    <2> QED BY <2>1, <2>5, <2>6, Unseen
<1>5. CASE SaveLink(w)
    <2>1. J.pc = "link" /\ UNCHANGED <<now, proxies>> /\ K = Idle /\ order' = J.copy
        BY <1>0, <1>5 DEF SaveLink
    <2>2. J.copy = order BY <2>1 DEF Fresh
    <2>3. K.pc = "idle" BY <2>1 DEF Idle
    <2>4. Fresh(w)' BY <2>3 DEF Fresh
    <2> QED BY <2>1, <2>2, <2>3, <2>4, Plain
<1>6. ASSUME NEW s \in Slot, WithdrawProxy(w, s) PROVE Fresh(w)' /\ RowsOK' /\ Sale!Next
    <2>1. /\ J.pc = "withdraw" /\ UNCHANGED <<now, order>>
          /\ proxies' = [proxies EXCEPT ![s] = None]
          /\ K = IF \A r \in Slot \ {s} : J.rows[r] = None THEN Idle
                 ELSE [J EXCEPT !.rows[s] = None]
        BY <1>0, <1>6 DEF WithdrawProxy
    <2>2. K.pc \in {"idle", "withdraw"} BY <1>0, <2>1 DEF Job, Idle
    <2>3. Fresh(w)' BY <2>2 DEF Fresh
    <2>4. Kept = proxies /\ Kept' = proxies' /\ Term' = Term
        BY <2>1, <2>2, PlainView, PlainViewNext
    <2>5. Open /\ Open' \in BOOLEAN BY <2>1, View DEF Asked, Open
    <2>6. PaidUp' = PaidUp BY <2>1 DEF PaidUp
    <2>7. proxies' = [r \in Slot |-> IF r \in {s} THEN None ELSE proxies[r]]
        BY <1>0, <2>1 DEF Rows
    <2>8. Sale!Withdraw({s})
        BY <2>1, <2>4, <2>5, <2>6, <2>7 DEF Sale!Withdraw, Sale!Without
    <2>9. RowsOK' BY <2>4, <2>6, <2>7 DEF RowsOK
    <2> QED BY <2>3, <2>8, <2>9 DEF Sale!Next
<1> QED BY <1>1, <1>2, <1>3, <1>4, <1>5, <1>6 DEF CallStep

(* The clock runs: nothing but the time changes. *)
LEMMA TickGood ==
    ASSUME SerialInv, Tick
    PROVE  AtMostOne' /\ (\A w \in Worker : Fresh(w)') /\ RowsOK' /\ Sale!Next
<1>1. now' = now + 1 /\ UNCHANGED <<order, proxies, job>> BY DEF Tick
<1>2. Term' = Term /\ PaidUp' = PaidUp /\ Kept' = Kept /\ Open' = Open
    BY <1>1 DEF Term, PaidUp, Kept, Extended, Dating, Open
<1>3. ASSUME NEW w \in Worker PROVE Fresh(w)'
    <2>1. now \in Nat /\ order \in Row \cup {None} /\ Fresh(w)
        BY DEF SerialInv, TypeOK
    <2>2. order # None => order.expires \in Nat BY <2>1 DEF Row
    <2>3. order # None /\ order.expires <= now => order'.expires <= now'
        BY <1>1, <2>1, <2>2
    <2> QED BY <1>1, <2>1, <2>3 DEF Fresh
<1>4. Sale!Tick BY <1>1, <1>2 DEF Sale!Tick
<1> QED BY <1>1, <1>2, <1>3, <1>4 DEF SerialInv, AtMostOne, RowsOK, Sale!Next

(* Every step keeps the invariant and is a step of Subscription. *)
LEMMA SerialStep ==
    ASSUME SerialInv, [SerialNext]_vars
    PROVE  SerialInv' /\ [Sale!Next]_(Sale!vars)
<1>1. TypeOK' BY TypeStep DEF SerialInv, SerialNext
<1>2. CASE UNCHANGED vars
    <2>1. UNCHANGED <<now, order, proxies, job>> BY <1>2 DEF vars
    <2>2. Term' = Term /\ PaidUp' = PaidUp /\ Kept' = Kept /\ Open' = Open
        BY <2>1 DEF Term, PaidUp, Kept, Extended, Dating, Open
    <2>3. \A w \in Worker : Fresh(w)' BY <2>1 DEF Fresh, SerialInv
    <2> QED BY <1>1, <2>1, <2>2, <2>3 DEF SerialInv, AtMostOne, RowsOK, Sale!vars
<1>3. CASE SerialNext /\ Tick BY <1>1, <1>3, TickGood DEF SerialInv
<1>4. ASSUME SerialNext, NEW w \in Worker, Start(w) \/ Continue(w)
      PROVE  SerialInv' /\ Sale!Next
    <2>1. /\ TypeOK /\ RowsOK /\ Fresh(w) /\ AtMostOne'
          /\ Solo(w) /\ Solo(w)'
        BY <1>4, SoloStep DEF SerialInv, SerialNext
    <2>2. Fresh(w)' /\ RowsOK' /\ Sale!Next
        BY <1>1, <1>4, <2>1, StartGood, WebhookGood, DeliveryGood, SweepGood, CallGood
           DEF Continue
    <2>3. ASSUME NEW v \in Worker, v # w PROVE Fresh(v)'
        <3>1. job'[v].pc = "idle" BY <2>1, <2>3 DEF Solo
        <3> QED BY <3>1 DEF Fresh
    <2> QED BY <1>1, <2>1, <2>2, <2>3 DEF SerialInv
<1>5. ASSUME SerialNext, NEW w \in Worker PROVE ~Crash(w)
    <2>1. faults' = faults /\ faults \in Nat BY <1>5 DEF SerialNext, SerialInv, TypeOK
    <2> QED BY <2>1 DEF Crash
<1> QED BY <1>2, <1>3, <1>4, <1>5 DEF SerialNext, Next

LEMMA SerialInit == Init => SerialInv /\ Sale!Init
<1> SUFFICES ASSUME Init PROVE SerialInv /\ Sale!Init OBVIOUS
<1>1. TypeOK BY TypeInit
<1>2. \A w \in Worker : job[w].pc = "idle" BY DEF Init, Idle
<1>3. proxies = NoRows /\ now = 0 /\ order # None /\ order.paid = FALSE
      /\ order.expires = Period
    <2>1. order = [paid |-> FALSE, status |-> "new", expires |-> Period, renewed |-> 0]
        BY DEF Init
    <2>2. order \in Row BY <2>1, OrderAssumption DEF Row
    <2>3. order # None BY <2>2, OrderAssumption
    <2>4. order.paid = FALSE /\ order.expires = Period BY <2>1
    <2> QED BY <2>3, <2>4 DEF Init
<1>4. RowsOK BY <1>3 DEF RowsOK, NoRows
<1>5. \A w \in Worker : Fresh(w) BY <1>2 DEF Fresh
<1>6. Term = Period BY <1>2, <1>3 DEF Term, Dating
<1>7. Kept = [s \in Slot |-> None] BY <1>3 DEF Kept, Extended, NoRows
<1>8. PaidUp = FALSE BY <1>3 DEF PaidUp
<1>9. Open = FALSE BY <1>2 DEF Open, Asked
<1>10. AtMostOne BY <1>2 DEF AtMostOne
<1> QED BY <1>1, <1>3, <1>4, <1>5, <1>6, <1>7, <1>8, <1>9, <1>10 DEF SerialInv, Sale!Init

(* Serialised jobs never act on a stale copy and leave no proxy out of     *)
(* step with its order.                                                    *)
THEOREM SerialInvariant == SerialSpec => []SerialInv
<1>1. Init => SerialInv BY SerialInit
<1>2. SerialInv /\ [SerialNext]_vars => SerialInv' BY SerialStep
<1> QED BY <1>1, <1>2, PTL DEF SerialSpec

(* Proxies exist for a paid order only and all expire with it. *)
THEOREM ProxiesFollow == SerialSpec => []FollowOrder
<1>1. SerialInv => FollowOrder
    <2> SUFFICES ASSUME SerialInv, NEW s \in Slot, Kept[s] # None
                 PROVE  PaidUp /\ Term # None /\ Kept[s] = Term
        BY DEF FollowOrder, Sale!ProxiesFollowOrder
    <2>1. proxies[s] # None BY DEF Kept, Extended
    <2>2. PaidUp /\ Kept[s] = Term BY <2>1 DEF SerialInv, RowsOK
    <2> QED BY <2>2
<1> QED BY <1>1, SerialInvariant, PTL

(* One job at a time, the code does to the buyer's proxies what            *)
(* Subscription allows and nothing else.                                   *)
THEOREM Implements == SerialSpec => ImplementsSubscription
<1>1. Init => Sale!Init BY SerialInit
<1>2. SerialInv /\ [SerialNext]_vars => [Sale!Next]_(Sale!vars) BY SerialStep
<1> QED BY <1>1, <1>2, SerialInvariant, PTL
    DEF SerialSpec, ImplementsSubscription, Sale!Spec

-----------------------------------------------------------------------------
(* A renewal that is notified and not yet written to renew_status, and one *)
(* that is not yet written to expired_at.                                  *)
OwedBy(j) == j.pc = "pay" /\ j.mode = "renew"

DueBy(j) == j.pc \in {"pay", "find", "rows", "extend"} /\ j.mode = "renew"

(* What is written and what is still to be written make up the renewals. *)
Sums(owed, due) ==
    order # None =>
        /\ order.renewed + (IF owed THEN 1 ELSE 0) = renewals
        /\ admin = 0 => order.expires + (IF due THEN Period ELSE 0)
                          = Period * (renewals + 1)

ModeOK(j) ==
    /\ j.pc \in {"rows", "extend"} => j.mode = "renew"
    /\ j.pc = "fail" /\ order # None => j.mode = "new"
    /\ j.pc \in {"date", "save"} => admin # 0

CountInv ==
    /\ Sums(\E w \in Worker : OwedBy(job[w]), \E w \in Worker : DueBy(job[w]))
    /\ \A w \in Worker : ModeOK(job[w])

(* The sums when at most the job of w is in progress. *)
LEMMA CountView ==
    ASSUME NEW w \in Worker, Solo(w)
    PROVE  CountInv <=> Sums(OwedBy(job[w]), DueBy(job[w])) /\ ModeOK(job[w])
<1>1. \A v \in Worker \ {w} : ~OwedBy(job[v]) /\ ~DueBy(job[v]) /\ ModeOK(job[v])
    BY DEF Solo, OwedBy, DueBy, ModeOK
<1>2. (\E v \in Worker : OwedBy(job[v])) <=> OwedBy(job[w]) BY <1>1
<1>3. (\E v \in Worker : DueBy(job[v])) <=> DueBy(job[w]) BY <1>1
<1>4. (\A v \in Worker : ModeOK(job[v])) <=> ModeOK(job[w]) BY <1>1
<1> QED BY <1>2, <1>3, <1>4 DEF CountInv, Sums

LEMMA CountViewNext ==
    ASSUME NEW w \in Worker, Solo(w)'
    PROVE  CountInv' <=> Sums(OwedBy(job[w]), DueBy(job[w]))' /\ ModeOK(job[w])'
<1>1. \A v \in Worker \ {w} : ~OwedBy(job[v])' /\ ~DueBy(job[v])' /\ ModeOK(job[v])'
    BY DEF Solo, OwedBy, DueBy, ModeOK
<1>2. (\E v \in Worker : OwedBy(job[v])') <=> OwedBy(job[w])' BY <1>1
<1>3. (\E v \in Worker : DueBy(job[v])') <=> DueBy(job[w])' BY <1>1
<1>4. (\A v \in Worker : ModeOK(job[v])') <=> ModeOK(job[w])' BY <1>1
<1> QED BY <1>2, <1>3, <1>4 DEF CountInv, Sums

(* A step that writes neither renew_status nor expired_at, and neither     *)
(* starts nor ends a renewal.                                              *)
LEMMA CountKept ==
    ASSUME NEW w \in Worker, Solo(w), Solo(w)', CountInv, ModeOK(job[w])',
           renewals' = renewals, admin' = 0 => admin = 0,
           order' # None => /\ order # None
                            /\ order'.renewed = order.renewed
                            /\ order'.expires = order.expires,
           order' # None => /\ OwedBy(job[w])' <=> OwedBy(job[w])
                            /\ DueBy(job[w])' <=> DueBy(job[w])
    PROVE  CountInv'
<1>1. Sums(OwedBy(job[w]), DueBy(job[w])) BY CountView
<1>2. Sums(OwedBy(job[w]), DueBy(job[w]))' BY <1>1 DEF Sums
<1> QED BY <1>2, CountViewNext

LEMMA CountWebhook ==
    ASSUME TypeOK, TypeOK', NEW w \in Worker, Solo(w), Solo(w)', Fresh(w), CountInv,
           WebhookStep(w)
    PROVE  CountInv'
<1> DEFINE J == job[w]
           K == job'[w]
<1>0. /\ job \in [Worker -> Job] /\ J \in Job /\ JobOK(J) /\ order \in Row \cup {None}
      /\ order' \in Row \cup {None} /\ renewals \in Nat
    BY DEF TypeOK
<1>a. Sums(OwedBy(J), DueBy(J)) /\ ModeOK(J) BY CountView
<1>b. renewals' = renewals /\ admin' = admin
    BY DEF WebhookStep, SavePayment, FindRenewed, ReadProxies, SaveRenewal, SaveFailure,
           ExtendProxy
<1>1. CASE SavePayment(w)
    <2> DEFINE row == Paid(J.entry, J.mode = "renew")
    <2>1. J.pc = "pay" /\ order' = row /\ K = [J EXCEPT !.entry = row, !.pc = "find"]
        BY <1>0, <1>1 DEF SavePayment
    <2>2. order # None /\ J.entry = order /\ J.entry \in Row
        BY <1>0, <2>1 DEF Fresh, JobOK, Job
    <2>3. K.pc = "find" /\ K.mode = J.mode BY <1>0, <2>1 DEF Job
    <2>4. /\ row.renewed = order.renewed + (IF J.mode = "renew" THEN 1 ELSE 0)
          /\ row.expires = order.expires
        BY <2>2 DEF Paid, Row
    <2>5. order.renewed \in Nat BY <2>2 DEF Row
    <2>6. Sums(OwedBy(J), DueBy(J))'
        <3>1. /\ OwedBy(J) <=> J.mode = "renew"
              /\ DueBy(J)' <=> DueBy(J)
              /\ ~OwedBy(J)'
            BY <2>1, <2>3 DEF OwedBy, DueBy
        <3>2. /\ order.renewed + (IF J.mode = "renew" THEN 1 ELSE 0) = renewals
              /\ admin = 0 => order.expires + (IF DueBy(J) THEN Period ELSE 0)
                               = Period * (renewals + 1)
            BY <1>a, <2>2, <3>1 DEF Sums
        <3>3. order'.renewed + 0 = renewals BY <1>0, <2>1, <2>4, <2>5, <3>2
        <3> QED BY <1>b, <2>1, <2>4, <3>1, <3>2, <3>3 DEF Sums
    <2>7. ModeOK(J)' BY <2>3 DEF ModeOK
    <2> QED BY <2>6, <2>7, CountViewNext
<1>2. CASE FindRenewed(w)
    <2>1. J.pc = "find" /\ J.mode = "renew" /\ order' = order BY <1>2 DEF FindRenewed
    <2>2. K = IF order = None THEN [J EXCEPT !.pc = "fail"]
              ELSE [J EXCEPT !.copy = order, !.pc = "rows"]
        BY <1>0, <1>2 DEF FindRenewed
    <2>3. /\ K.mode = J.mode
          /\ order = None => K.pc = "fail"
          /\ order # None => K.pc = "rows"
        BY <1>0, <2>2 DEF Job
    <2>4. ModeOK(J)' BY <2>1, <2>3 DEF ModeOK
    <2>5. order' # None => (OwedBy(J)' <=> OwedBy(J)) /\ (DueBy(J)' <=> DueBy(J))
        BY <2>1, <2>3 DEF OwedBy, DueBy
    <2> QED BY <1>b, <2>1, <2>4, <2>5, CountKept
<1>3. CASE ReadProxies(w)
    <2>1. J.pc = "rows" /\ order' = order BY <1>3 DEF ReadProxies
    <2>2. K = [J EXCEPT !.rows = proxies, !.pc = "extend"] BY <1>0, <1>3 DEF ReadProxies
    <2>3. K.pc = "extend" /\ K.mode = J.mode BY <1>0, <2>2 DEF Job
    <2>4. J.mode = "renew" BY <1>a, <2>1 DEF ModeOK
    <2>5. ModeOK(J)' BY <2>3, <2>4 DEF ModeOK
    <2>6. (OwedBy(J)' <=> OwedBy(J)) /\ (DueBy(J)' <=> DueBy(J))
        BY <2>1, <2>3 DEF OwedBy, DueBy
    <2> QED BY <1>b, <2>1, <2>5, <2>6, CountKept
<1>4. CASE SaveRenewal(w)
    <2>1. J.pc = "extend" BY <1>4 DEF SaveRenewal
    <2>2. J.copy = order /\ order # None /\ order \in Row
        BY <1>0, <2>1 DEF Fresh, JobOK
    <2>3. order' = [order EXCEPT !.expires = @ + Period] /\ K = Idle
        BY <1>0, <1>4, <2>2 DEF SaveRenewal
    <2>4. K.pc = "idle" BY <2>3 DEF Idle
    <2>5. order'.renewed = order.renewed /\ order'.expires = order.expires + Period
        BY <2>2, <2>3 DEF Row
    <2>6. OwedBy(J) = FALSE /\ DueBy(J) = TRUE
        BY <1>a, <2>1 DEF ModeOK, OwedBy, DueBy
    <2>7. OwedBy(J)' = FALSE /\ DueBy(J)' = FALSE BY <2>4 DEF OwedBy, DueBy
    <2>8. /\ order.renewed + 0 = renewals
          /\ admin = 0 => order.expires + Period = Period * (renewals + 1)
        BY <1>a, <2>2, <2>6 DEF Sums
    <2>9. order.expires + Period + 0 = order.expires + Period
        BY <2>2, OrderAssumption DEF Row
    <2>10. Sums(OwedBy(J), DueBy(J))' BY <1>b, <2>5, <2>7, <2>8, <2>9 DEF Sums
    <2>11. ModeOK(J)' BY <2>4 DEF ModeOK
    <2> QED BY <2>10, <2>11, CountViewNext
<1>5. CASE SaveFailure(w)
    <2>1. J.pc = "fail" /\ order' = J.entry /\ K = Idle BY <1>0, <1>5 DEF SaveFailure
    <2>2. J.entry = order BY <1>0, <2>1 DEF Fresh, JobOK
    <2>3. K.pc = "idle" BY <2>1 DEF Idle
    <2>4. ModeOK(J)' BY <2>3 DEF ModeOK
    <2>5. (OwedBy(J)' <=> OwedBy(J)) /\ (DueBy(J)' <=> DueBy(J))
        BY <2>1, <2>3 DEF OwedBy, DueBy
    <2> QED BY <1>b, <2>1, <2>2, <2>4, <2>5, CountKept
<1>6. ASSUME NEW s \in Slot, ExtendProxy(w, s) PROVE CountInv'
    <2>1. J.pc = "extend" /\ order' = order BY <1>6 DEF ExtendProxy
    <2>2. order # None BY <1>0, <2>1 DEF Fresh, JobOK
    <2>3. K = [J EXCEPT !.rows[s] = None] BY <1>0, <1>6, <2>2 DEF ExtendProxy
    <2>4. K.pc = J.pc /\ K.mode = J.mode BY <1>0, <2>3 DEF Job
    <2>5. ModeOK(J)' BY <1>a, <1>b, <2>1, <2>4 DEF ModeOK
    <2>6. (OwedBy(J)' <=> OwedBy(J)) /\ (DueBy(J)' <=> DueBy(J))
        BY <2>4 DEF OwedBy, DueBy
    <2> QED BY <1>b, <2>1, <2>5, <2>6, CountKept
<1> QED BY <1>1, <1>2, <1>3, <1>4, <1>5, <1>6 DEF WebhookStep

(* A step of a job that renews nothing. *)
LEMMA CountOther ==
    ASSUME NEW w \in Worker, Solo(w), Solo(w)', CountInv,
           renewals' = renewals, admin' = 0 => admin = 0,
           order' # None => /\ order # None
                            /\ order'.renewed = order.renewed
                            /\ order'.expires = order.expires,
           ~OwedBy(job[w]), ~DueBy(job[w]),
           \/ job'[w].pc \notin {"pay", "find", "rows", "extend", "fail", "date", "save"}
           \/ job'[w].pc = "find" /\ job'[w].mode = "task"
           \/ job'[w].pc = "fail" /\ job'[w].mode = "new"
           \/ job'[w].pc \in {"date", "save"} /\ admin' # 0
    PROVE  CountInv'
<1>1. ~OwedBy(job[w])' /\ ~DueBy(job[w])' /\ ModeOK(job[w])'
    BY DEF OwedBy, DueBy, ModeOK
<1> QED BY <1>1, CountKept

LEMMA CountDelivery ==
    ASSUME TypeOK, TypeOK', NEW w \in Worker, Solo(w), Solo(w)', Fresh(w), CountInv,
           DeliveryStep(w)
    PROVE  CountInv'
<1> DEFINE J == job[w]
           K == job'[w]
           Moved == K.pc \in {"idle", "lock", "create"}
           Failing == K.pc = "fail" /\ K.mode = "new"
<1>0. /\ job \in [Worker -> Job] /\ J \in Job /\ JobOK(J) /\ order \in Row \cup {None}
      /\ order' \in Row \cup {None}
    BY DEF TypeOK
<1>1. renewals' = renewals /\ admin' = admin
    BY DEF DeliveryStep, FindOrder, AcquireLock, DeliveryFails, FinishDelivery, CreateProxy
<1>2. ~OwedBy(J) /\ ~DueBy(J)
    BY DEF DeliveryStep, FindOrder, AcquireLock, DeliveryFails, FinishDelivery, CreateProxy,
           OwedBy, DueBy
<1>3. \/ Failed(w).pc = "idle"
      \/ Failed(w).pc = "fail" /\ Failed(w).mode = "new"
    BY <1>0 DEF Failed, Idle, Job
<1>4. Moved \/ Failing
    <2>1. CASE FindOrder(w)
        <3>1. CASE Deliverable(order)
            <4>1. K = [J EXCEPT !.copy = order, !.goal = Quantity, !.pc = "lock"]
                BY <1>0, <2>1, <3>1 DEF FindOrder
            <4>2. Moved BY <1>0, <4>1 DEF Job
            <4> HIDE DEF Moved, Failing
            <4> QED BY <4>2
        <3>2. CASE ~Deliverable(order)
            <4>1. K = Failed(w) BY <1>0, <2>1, <3>2 DEF FindOrder
            <4> QED BY <1>3, <4>1
        <3> QED BY <3>1, <3>2
    <2>2. ASSUME AcquireLock(w) PROVE Moved
        <3>1. ASSUME job' = [job EXCEPT ![w] = Idle] PROVE K.pc = "idle"
            BY <1>0, <3>1 DEF Idle
        <3>2. ASSUME NEW n, job' = [job EXCEPT ![w] = [J EXCEPT !.goal = n, !.pc = "create"]]
              PROVE  K.pc = "create"
            BY <1>0, <3>2 DEF Job
        <3> HIDE DEF K, J
        <3> QED BY <2>2, <3>1, <3>2 DEF AcquireLock, J
    <2>3. CASE DeliveryFails(w)
        <3>1. K = Failed(w) BY <1>0, <2>3 DEF DeliveryFails
        <3> QED BY <1>3, <3>1
    <2>4. CASE FinishDelivery(w) BY <1>0, <2>4 DEF FinishDelivery, Idle
    <2>5. ASSUME NEW s \in Slot, CreateProxy(w, s) PROVE Moved
        <3>1. J.pc = "create" BY <2>5 DEF CreateProxy
        <3>2. K = Idle \/ K = [J EXCEPT !.made = @ + 1] BY <1>0, <2>5 DEF CreateProxy
        <3> QED BY <1>0, <3>1, <3>2 DEF Idle, Job
    <2> HIDE DEF Moved, Failing
    <2> QED BY <2>1, <2>2, <2>3, <2>4, <2>5 DEF DeliveryStep
<1>5. order' # None => /\ order # None
                       /\ order'.renewed = order.renewed
                       /\ order'.expires = order.expires
    <2>1. CASE FinishDelivery(w)
        <3>1. J.pc = "create" /\ order' = [J.copy EXCEPT !.status = "delivered"]
            BY <2>1 DEF FinishDelivery
        <3>2. J.copy = order /\ order # None BY <3>1 DEF Fresh
        <3> QED BY <1>0, <3>1, <3>2 DEF Row
    <2>2. ~FinishDelivery(w) => order' = order
        BY DEF DeliveryStep, FindOrder, AcquireLock, DeliveryFails, CreateProxy
    <2> QED BY <2>1, <2>2
<1> QED BY <1>1, <1>2, <1>4, <1>5, CountOther

LEMMA CountSweep ==
    ASSUME TypeOK, TypeOK', NEW w \in Worker, Solo(w), Solo(w)', Fresh(w), CountInv,
           SweepStep(w)
    PROVE  CountInv'
<1> DEFINE J == job[w]
           K == job'[w]
<1>0. /\ job \in [Worker -> Job] /\ J \in Job /\ JobOK(J) /\ order \in Row \cup {None}
      /\ order' \in Row \cup {None}
    BY DEF TypeOK
<1>1. renewals' = renewals /\ admin' = admin
    BY DEF SweepStep, ClearProxies, MarkExpired, DeleteTimedOut, FindFirst, CloseProxy,
           SaveArchived, DropOrder, CheckOld, DeleteOld, DeleteOrder, SweepProxy
<1>2. J.pc \in {"clear", "mark", "timeout", "first", "close", "archive", "drop", "old",
                "delete", "purge"}
    BY DEF SweepStep, ClearProxies, MarkExpired, DeleteTimedOut, FindFirst, CloseProxy,
           SaveArchived, DropOrder, CheckOld, DeleteOld, SweepProxy
<1>3. ~OwedBy(J) /\ ~DueBy(J) BY <1>2 DEF OwedBy, DueBy
<1>4. K.pc \in {"idle", "mark", "close", "archive", "drop", "delete", "purge"}
    <2>1. CASE ClearProxies(w)
        <3>1. K = [J EXCEPT !.pc = "mark"] BY <1>0, <2>1 DEF ClearProxies
        <3> QED BY <1>0, <3>1 DEF Job
    <2>2. CASE MarkExpired(w) BY <1>0, <2>2 DEF MarkExpired, Idle
    <2>3. CASE DeleteTimedOut(w) \/ DropOrder(w) \/ DeleteOld(w)
        BY <1>0, <2>3 DEF DeleteTimedOut, DropOrder, DeleteOld, DeleteOrder, Idle
    <2>4. CASE FindFirst(w)
        <3>1. ASSUME NEW s \in Present,
                     job' = [job EXCEPT ![w] = [J EXCEPT !.rows[s] = proxies[s],
                                                         !.pc = "close"]]
              PROVE  K.pc = "close"
            BY <1>0, <3>1 DEF Job
        <3>2. ASSUME job' = [job EXCEPT ![w] = IF J.deletes
                                               THEN [J EXCEPT !.pc = "drop"] ELSE Idle]
              PROVE  K.pc \in {"drop", "idle"}
            BY <1>0, <3>2 DEF Job, Idle
        <3> QED BY <2>4, <3>1, <3>2 DEF FindFirst
    <2>5. CASE CloseProxy(w)
        <3>1. K = [J EXCEPT !.rows = NoRows, !.pc = "archive"]
            BY <1>0, <2>5 DEF CloseProxy
        <3> QED BY <1>0, <3>1 DEF Job
    <2>6. CASE SaveArchived(w)
        <3>1. K = IF J.deletes THEN [J EXCEPT !.pc = "drop"] ELSE Idle
            BY <1>0, <2>6 DEF SaveArchived
        <3> QED BY <1>0, <3>1 DEF Job, Idle
    <2>7. CASE CheckOld(w)
        <3>1. K = IF Present = {} THEN [J EXCEPT !.pc = "delete"] ELSE Idle
            BY <1>0, <2>7 DEF CheckOld
        <3> QED BY <1>0, <3>1 DEF Job, Idle
    <2>8. ASSUME NEW s \in Slot, SweepProxy(w, s) PROVE K.pc \in {"idle", "purge"}
        <3>1. /\ J.pc = "purge"
              /\ K = IF \A r \in Slot \ {s} : J.rows[r] = None THEN Idle
                     ELSE [J EXCEPT !.rows[s] = None]
            BY <1>0, <2>8 DEF SweepProxy
        <3> QED BY <1>0, <3>1 DEF Job, Idle
    <2> QED BY <2>1, <2>2, <2>3, <2>4, <2>5, <2>6, <2>7, <2>8 DEF SweepStep
<1>5. order' # None => /\ order # None
                       /\ order'.renewed = order.renewed
                       /\ order'.expires = order.expires
    <2>1. CASE MarkExpired(w)
        <3>1. order' = IF order = None THEN None ELSE [order EXCEPT !.status = "expired"]
            BY <2>1 DEF MarkExpired
        <3> QED BY <1>0, <3>1 DEF Row
    <2>2. CASE SaveArchived(w)
        <3>1. J.pc = "archive" /\ order' = [J.copy EXCEPT !.status = "expired"]
            BY <2>2 DEF SaveArchived
        <3>2. J.copy = order /\ order # None BY <3>1 DEF Fresh
        <3> QED BY <1>0, <3>1, <3>2 DEF Row
    <2>3. ~MarkExpired(w) /\ ~SaveArchived(w) => order' \in {order, None}
        BY DEF SweepStep, ClearProxies, DeleteTimedOut, FindFirst, CloseProxy,
               DropOrder, CheckOld, DeleteOld, DeleteOrder, SweepProxy
    <2> QED BY <2>1, <2>2, <2>3
<1> QED BY <1>1, <1>3, <1>4, <1>5, CountOther

LEMMA CountCall ==
    ASSUME TypeOK, TypeOK', NEW w \in Worker, Solo(w), Solo(w)', Fresh(w), CountInv,
           CallStep(w)
    PROVE  CountInv'
<1> DEFINE J == job[w]
           K == job'[w]
<1>0. /\ job \in [Worker -> Job] /\ J \in Job /\ JobOK(J) /\ order \in Row \cup {None}
      /\ order' \in Row \cup {None}
    BY DEF TypeOK
<1>a. Sums(OwedBy(J), DueBy(J)) /\ ModeOK(J) BY CountView
<1>1. renewals' = renewals /\ admin' = admin
    BY DEF CallStep, RedoDelivery, Destroy, DeleteOrder, DateProxies, SaveDate, SaveLink,
           WithdrawProxy
<1>2. J.pc \in {"redo", "destroy", "date", "save", "link", "withdraw"}
    BY DEF CallStep, RedoDelivery, Destroy, DateProxies, SaveDate, SaveLink, WithdrawProxy
<1>3. ~OwedBy(J) /\ ~DueBy(J) BY <1>2 DEF OwedBy, DueBy
<1>4. CASE RedoDelivery(w)
    <2>1. J.pc = "redo" /\ order' = order /\ K = [J EXCEPT !.pc = "find"]
        BY <1>0, <1>4 DEF RedoDelivery
    <2>2. K.pc = "find" /\ K.mode = "task" BY <1>0, <2>1 DEF Job, JobOK
    <2> QED BY <1>1, <1>3, <2>1, <2>2, CountOther
<1>5. CASE Destroy(w)
    <2>1. order' = None /\ K.pc = "idle"
        BY <1>0, <1>5 DEF Destroy, DeleteOrder, Idle
    <2> QED BY <1>1, <1>3, <2>1, CountOther
<1>6. CASE DateProxies(w)
    <2>1. J.pc = "date" /\ order' = order /\ K = [J EXCEPT !.pc = "save"]
        BY <1>0, <1>6 DEF DateProxies
    <2>2. K.pc = "save" /\ admin # 0 BY <1>0, <1>a, <2>1 DEF Job, ModeOK
    <2> QED BY <1>1, <1>3, <2>1, <2>2, CountOther
<1>7. CASE SaveDate(w)
    <2>1. J.pc = "save" /\ order' = J.copy /\ K.pc = "idle"
        BY <1>0, <1>7 DEF SaveDate, Idle
    <2>2. order # None /\ J.copy = [order EXCEPT !.expires = J.copy.expires]
        BY <2>1 DEF Fresh
    <2>3. J.copy.renewed = order.renewed
        <3>1. [order EXCEPT !.expires = J.copy.expires].renewed = order.renewed
            BY <1>0, <2>2 DEF Row
        <3> QED BY <2>2, <3>1
    <2>4. admin' # 0 BY <1>1, <1>a, <2>1 DEF ModeOK
    <2>5. ~OwedBy(J)' /\ ~DueBy(J)' /\ ModeOK(J)' BY <2>1 DEF OwedBy, DueBy, ModeOK
    <2>6. Sums(OwedBy(J), DueBy(J))'
        BY <1>1, <1>3, <1>a, <2>1, <2>2, <2>3, <2>4, <2>5 DEF Sums
    <2> QED BY <2>5, <2>6, CountViewNext
<1>8. CASE SaveLink(w)
    <2>1. J.pc = "link" /\ order' = J.copy /\ K.pc = "idle"
        BY <1>0, <1>8 DEF SaveLink, Idle
    <2>2. order' = order BY <2>1 DEF Fresh
    <2> QED BY <1>1, <1>3, <2>1, <2>2, CountOther
<1>9. ASSUME NEW s \in Slot, WithdrawProxy(w, s) PROVE CountInv'
    <2>1. /\ J.pc = "withdraw" /\ order' = order
          /\ K = IF \A r \in Slot \ {s} : J.rows[r] = None THEN Idle
                 ELSE [J EXCEPT !.rows[s] = None]
        BY <1>0, <1>9 DEF WithdrawProxy
    <2>2. K.pc \in {"idle", "withdraw"} BY <1>0, <2>1 DEF Job, Idle
    <2> QED BY <1>1, <1>3, <2>1, <2>2, CountOther
<1> QED BY <1>4, <1>5, <1>6, <1>7, <1>8, <1>9 DEF CallStep

(* Nothing but a notification and an administrator's job starts a change.  *)
LEMMA CountStart ==
    ASSUME TypeOK, NEW w \in Worker, Solo(w), Solo(w)', CountInv, Start(w)
    PROVE  CountInv'
<1> DEFINE K == job'[w]
<1>0. job \in [Worker -> Job] /\ order \in Row \cup {None} /\ renewals \in Nat /\ admin \in Nat
    BY DEF TypeOK
<1>1. job[w].pc = "idle" /\ order' = order
    BY DEF Start, StartWebhook, DropWebhook, Notified, StartTask,
           StartOrderCheck, StartProxySweep, StartTimeout, StartOld, StartClosing,
           StartWithdraw, StartRedo, StartDestroy, StartLink, StartDate, StartAdmin
<1>2. ~OwedBy(job[w]) /\ ~DueBy(job[w]) BY <1>1 DEF OwedBy, DueBy
<1>3. \A b \in BOOLEAN : ~DropWebhook(w, b)
    <2>1. ~Named(w) BY <1>1 DEF Named, Handling, Solo
    <2> QED BY <2>1 DEF DropWebhook
<1>4. ASSUME NEW b \in BOOLEAN, StartWebhook(w, b) PROVE CountInv'
    <2>1. admin' = admin /\ renewals' = renewals + (IF b THEN 1 ELSE 0)
        BY <1>4 DEF StartWebhook, Notified
    <2>2. CASE order = None
        <3>1. K.pc = "idle" BY <1>0, <1>4, <2>2 DEF StartWebhook, Idle
        <3>2. ModeOK(job[w])' /\ Sums(OwedBy(job[w]), DueBy(job[w]))'
            BY <1>1, <2>2, <3>1 DEF ModeOK, Sums
        <3> QED BY <3>2, CountViewNext
    <2>3. CASE order # None
        <3>1. K = [Idle EXCEPT !.pc = "pay", !.entry = order,
                               !.mode = IF b THEN "renew" ELSE "new"]
            BY <1>0, <1>4, <2>3 DEF StartWebhook
        <3>2. K.pc = "pay" /\ K.mode = IF b THEN "renew" ELSE "new" BY <3>1 DEF Idle
        <3>3. (OwedBy(job[w])' <=> b) /\ (DueBy(job[w])' <=> b) /\ ModeOK(job[w])'
            BY <3>2 DEF OwedBy, DueBy, ModeOK
        <3>4. Sums(FALSE, FALSE)
            <4>1. Sums(OwedBy(job[w]), DueBy(job[w])) BY CountView
            <4> QED BY <1>2, <4>1 DEF Sums
        <3>5. order.renewed \in Nat /\ order.expires \in Nat BY <1>0, <2>3 DEF Row
        <3>6. /\ order.renewed = renewals
              /\ admin = 0 => order.expires = Period * (renewals + 1)
            BY <2>3, <3>4, <3>5 DEF Sums
        <3>7. Period * (renewals + 1) + Period = Period * ((renewals + 1) + 1)
            BY <1>0, OrderAssumption
        <3>8. CASE b
            <4>1. order'.renewed + 1 = renewals' BY <1>1, <2>1, <3>6, <3>8
            <4>2. admin' = 0 => order'.expires + Period = Period * (renewals' + 1)
                BY <1>1, <2>1, <3>6, <3>7, <3>8
            <4> QED BY <3>3, <3>8, <4>1, <4>2, CountViewNext DEF Sums
        <3>9. CASE ~b
            <4>1. renewals' = renewals BY <1>0, <2>1, <3>9
            <4>2. Sums(FALSE, FALSE)' BY <1>1, <2>1, <3>4, <4>1 DEF Sums
            <4> QED BY <3>3, <3>9, <4>2, CountViewNext DEF Sums
        <3> QED BY <3>8, <3>9
    <2> QED BY <2>2, <2>3
<1>5. ASSUME \/ StartOrderCheck(w) \/ StartProxySweep(w) \/ StartTimeout(w) \/ StartOld(w)
             \/ StartLink(w)
             \/ \E b \in BOOLEAN : StartTask(w, b) \/ StartClosing(w, b)
      PROVE  CountInv'
    <2>1. renewals' = renewals /\ admin' = admin
        BY <1>5 DEF StartOrderCheck, StartProxySweep, StartTimeout, StartOld, StartLink,
                    StartTask, StartClosing
    <2>2. K.pc \in {"clear", "purge", "timeout", "old", "link", "lock", "first"}
        BY <1>0, <1>5 DEF StartOrderCheck, StartProxySweep, StartTimeout, StartOld,
                          StartLink, StartTask, StartClosing, Idle
    <2> QED BY <1>1, <1>2, <2>1, <2>2, CountOther
<1>6. ASSUME \/ StartWithdraw(w) \/ StartRedo(w) \/ StartDestroy(w)
             \/ \E t \in 0 .. MaxTime + 1 : StartDate(w, t)
      PROVE  CountInv'
    <2>1. renewals' = renewals /\ admin' = admin + 1
        BY <1>6 DEF StartWithdraw, StartRedo, StartDestroy, StartDate, StartAdmin
    <2>2. K.pc \in {"withdraw", "redo", "destroy", "date"}
        BY <1>0, <1>6 DEF StartWithdraw, StartRedo, StartDestroy, StartDate, StartAdmin, Idle
    <2>3. admin' # 0 BY <1>0, <2>1
    <2> QED BY <1>1, <1>2, <2>1, <2>2, <2>3, CountOther
<1> QED BY <1>3, <1>4, <1>5, <1>6 DEF Start

LEMMA CountStep ==
    ASSUME SerialInv, SerialInv', CountInv, [SerialNext]_vars
    PROVE  CountInv'
<1>0. TypeOK /\ TypeOK' /\ AtMostOne BY DEF SerialInv
<1>1. CASE UNCHANGED vars \/ Tick
    <2>1. UNCHANGED <<order, job, renewals, admin>> BY <1>1 DEF vars, Tick
    <2> QED BY <2>1 DEF CountInv, Sums, OwedBy, DueBy, ModeOK
<1>2. ASSUME SerialNext, NEW w \in Worker, Start(w) \/ Continue(w) PROVE CountInv'
    <2>1. Solo(w) /\ Solo(w)' BY <1>0, <1>2, SoloStep
    <2>2. Fresh(w) BY DEF SerialInv
    <2> QED BY <1>0, <1>2, <2>1, <2>2, CountStart, CountWebhook, CountDelivery, CountSweep,
               CountCall DEF Continue
<1>3. ASSUME SerialNext, NEW w \in Worker PROVE ~Crash(w)
    <2>1. faults' = faults /\ faults \in Nat BY <1>0, <1>3 DEF SerialNext, TypeOK
    <2> QED BY <2>1 DEF Crash
<1> QED BY <1>1, <1>2, <1>3 DEF SerialNext, Next

LEMMA CountInit == Init => CountInv
<1> SUFFICES ASSUME Init PROVE CountInv OBVIOUS
<1>1. \A w \in Worker : job[w].pc = "idle" BY DEF Init, Idle
<1>2. order.renewed = 0 /\ order.expires = Period /\ renewals = 0 BY DEF Init
<1>3. Period * (0 + 1) = Period BY OrderAssumption
<1>4. Period + 0 = Period BY OrderAssumption
<1>5. \A w \in Worker : ~OwedBy(job[w]) /\ ~DueBy(job[w]) /\ ModeOK(job[w])
    BY <1>1 DEF OwedBy, DueBy, ModeOK
<1>6. Sums(FALSE, FALSE) BY <1>2, <1>3, <1>4 DEF Sums
<1> QED BY <1>5, <1>6 DEF CountInv, Sums

(* When no job is in progress, renew_status counts the renewals that were  *)
(* paid and, unless an administrator set a date, the order expires one     *)
(* period later for each (webhook_handle and renew_proxy_by_order).        *)
THEOREM RenewalsAdd == SerialSpec => []RenewalsCounted
<1>1. Init => SerialInv /\ CountInv BY SerialInit, CountInit
<1>2. SerialInv /\ CountInv /\ [SerialNext]_vars => SerialInv' /\ CountInv'
    BY SerialStep, CountStep
<1>3. SerialInv /\ CountInv => RenewalsCounted
    <2> SUFFICES ASSUME SerialInv, CountInv, Quiet, order # None
                 PROVE  /\ order.renewed = renewals
                        /\ admin = 0 => order.expires = Period * (renewals + 1)
        BY DEF RenewalsCounted
    <2>1. order.renewed \in Nat /\ order.expires \in Nat BY DEF SerialInv, TypeOK, Row
    <2>2. \A w \in Worker : ~OwedBy(job[w]) /\ ~DueBy(job[w])
        BY DEF Quiet, OwedBy, DueBy
    <2> QED BY <2>1, <2>2 DEF CountInv, Sums
<1> QED BY <1>1, <1>2, <1>3, PTL DEF SerialSpec
=============================================================================
