--------------------------- MODULE StockDelivery ---------------------------
(***************************************************************************)
(* Delivery of proxies to orders and the return of their subnets to stock: *)
(* create_proxy_by_order_obj and its callers, the deletion of proxies, the *)
(* celery task stock_return_task and the writers that save a whole stock   *)
(* row.  A worker is a thread or process that runs one of these at a time  *)
(* (a webhook thread or a celery worker); jobs of different workers        *)
(* interleave between any two database, cache or proxy-server accesses.    *)
(*                                                                         *)
(* A stock row (ProxyStock) is read into memory as a whole and saved as a  *)
(* whole (Model.save() writes every column), so a job carries the rows it  *)
(* read in job.snap and a save replaces the row by the job's copy.         *)
(***************************************************************************)
EXTENDS Naturals, FiniteSets

CONSTANTS
    Cidr,           \* address blocks
    Acl,            \* access lists; a stock row is a CIDR and an ACL
    Subnet,         \* subnets of cart_step addresses, as network addresses
    CidrOf,         \* [Subnet -> Cidr]
    Order,          \* paid, unexpired orders
    NoOrder,        \* "no order" in a job that delivers nothing
    AclsOf,         \* [Order -> SUBSET Acl]: acl_selected
    CidrsOf,        \* [Order -> SUBSET Cidr]: the CIDRs of the order's variant
    Quantity,       \* [Order -> Nat]: product_quantity
    KaxyAnswers,    \* how many proxies the proxy server may answer for a subnet
    Worker,         \* threads and processes
    Free,           \* a lock nobody holds
    Orphan,         \* a lock whose holder died
    MaxFull,        \* bound on full deliveries of an order
    MaxQueued,      \* bound on equal return tasks waiting in the queue
    MaxTouches,     \* bound on administrative saves of stock rows
    MaxFaults       \* bound on crashes and lock timeouts

Row == Cidr \X Acl

Stock == [avail : SUBSET Subnet, excluded : BOOLEAN]

SubnetsOf(r) == {s \in Subnet : CidrOf[s] = r[1]}

(* The rows an order needs for a subnet: the subnet's CIDR with each of    *)
(* the order's ACLs (get_available_cidrs keeps only such subnets).         *)
StocksOf(o, s) == {CidrOf[s]} \X AclsOf[o]

RowsOf(o) == CidrsOf[o] \X AclsOf[o]

(* ip_stock_ids and subnet of a proxy: what its deletion gives back. *)
Claim(o, s) == <<StocksOf(o, s), s>>

Claims == {Claim(o, s) : o \in Order, s \in Subnet}

NoRow == <<>>

ASSUME StockAssumption ==
    /\ Subnet \subseteq Nat
    /\ IsFiniteSet(Subnet)
    /\ CidrOf \in [Subnet -> Cidr]
    /\ AclsOf \in [Order -> (SUBSET Acl) \ {{}}]
    /\ CidrsOf \in [Order -> SUBSET Cidr]
    /\ Quantity \in [Order -> Nat]
    /\ KaxyAnswers \subseteq Nat
    /\ NoOrder \notin Order
    /\ Free \notin Worker
    /\ Orphan \notin Worker
    /\ Free # Orphan
    /\ MaxFull \in Nat /\ MaxQueued \in Nat /\ MaxTouches \in Nat /\ MaxFaults \in Nat

VARIABLES
    stock,          \* [Row -> Stock]: the ip_stock table
    excludeAcl,     \* the (CIDR, ACL) pairs of Cidr.exclude_acl
    proxies,        \* [Order -> [Subnet -> Nat]]: rows of the Proxy table
    returnKey,      \* claims whose stock_return_task key is in redis
    queued,         \* [Claims -> Nat]: stock_return_task messages waiting
    lock,           \* [Order -> ...]: create_proxy_by_id_{pk}
    rowLock,        \* [Row -> ...]: return_subnet_lock_{id}
    job,            \* [Worker -> Job]
    fulls,          \* [Order -> Nat]: full deliveries started so far
    touches,        \* administrative saves so far
    faults          \* crashes and lock timeouts so far

vars == <<stock, excludeAcl, proxies, returnKey, queued, lock, rowLock, job,
          fulls, touches, faults>>

Blank == [avail |-> {}, excluded |-> FALSE]

Idle == [pc |-> "idle", order |-> NoOrder, fill |-> FALSE, rows |-> {},
         snap |-> [r \in Row |-> Blank], todo |-> {}, need |-> 0, got |-> 0,
         subnet |-> 0, making |-> 0, left |-> {}, row |-> NoRow]

PC == {"idle", "lock", "read", "next", "create", "save", "count", "finish",
       "holders", "give", "giving", "exclude", "resave"}

Job == [pc : PC, order : Order \cup {NoOrder}, fill : BOOLEAN,
        rows : SUBSET Row, snap : [Row -> Stock], todo : SUBSET Subnet,
        need : Nat, got : Nat, subnet : Nat, making : Nat,
        left : SUBSET Row, row : Row \cup {NoRow}]

(* The subnet in progress is being created or taken off the rows. *)
Claiming(w) == job[w].pc \in {"create", "save", "count"}

(* The code region under create_proxy_by_id_{pk}. *)
Delivering(w) == job[w].pc \in {"read", "next", "create", "save", "count", "finish"}

SetJob(w, j) == job' = [job EXCEPT ![w] = j]

Read(R) == [r \in Row |-> IF r \in R THEN stock[r] ELSE Blank]

Count(o) == Cardinality(UNION {{s} \X (1 .. proxies[o][s]) : s \in Subnet})

Holders(r, s) == {o \in Order : r \in StocksOf(o, s) /\ proxies[o][s] > 0}

Init ==
    /\ stock = [r \in Row |-> [avail |-> SubnetsOf(r), excluded |-> FALSE]]
    /\ excludeAcl = {}
    /\ proxies = [o \in Order |-> [s \in Subnet |-> 0]]
    /\ returnKey = {}
    /\ queued = [c \in Claims |-> 0]
    /\ lock = [o \in Order |-> Free]
    /\ rowLock = [r \in Row |-> Free]
    /\ job = [w \in Worker |-> Idle]
    /\ fulls = [o \in Order |-> 0]
    /\ touches = 0
    /\ faults = 0

-----------------------------------------------------------------------------
(* Delivery: create_proxy_by_order_obj.                                    *)

(* A webhook, delivery_order, reset_proxy or one_key_delivery_order calls  *)
(* create_proxy: a delivery of the whole quantity, whatever is there.      *)
StartFull(w, o) ==
    /\ job[w].pc = "idle"
    /\ fulls[o] < MaxFull
    /\ fulls' = [fulls EXCEPT ![o] = @ + 1]
    /\ SetJob(w, [Idle EXCEPT !.pc = "lock", !.order = o])
    /\ UNCHANGED <<stock, excludeAcl, proxies, returnKey, queued, lock, rowLock,
                   touches, faults>>

(* devery_order: only when proxies are missing, then with is_continue. *)
StartFill(w, o) ==
    /\ job[w].pc = "idle"
    /\ Count(o) < Quantity[o]
    /\ SetJob(w, [Idle EXCEPT !.pc = "lock", !.order = o, !.fill = TRUE])
    /\ UNCHANGED <<stock, excludeAcl, proxies, returnKey, queued, lock, rowLock,
                   fulls, touches, faults>>

(* Mutant of AcquireLock: the delivery starts without waiting for the lock. *)
AcquireWithoutLock(w) ==
    /\ job[w].pc = "lock"
    /\ SetJob(w, [job[w] EXCEPT !.pc = "read", !.need = Quantity[job[w].order]])
    /\ lock' = [lock EXCEPT ![job[w].order] = w]
    /\ UNCHANGED <<stock, excludeAcl, proxies, returnKey, queued, rowLock, fulls,
                   touches, faults>>

(* Mutant of AcquireLock: is_continue is ignored once the lock is held. *)
AcquireWithoutCount(w) ==
    job[w].pc = "lock" /\ lock[job[w].order] = Free /\ AcquireWithoutLock(w)

(* The blocking redis lock; a fill then counts what the order already has  *)
(* and leaves when nothing is missing.                                     *)
AcquireLock(w) ==
    LET o == job[w].order
        have == IF job[w].fill THEN Count(o) ELSE 0
    IN  /\ job[w].pc = "lock"
        /\ lock[o] = Free
        /\ IF job[w].fill /\ have >= Quantity[o]
           THEN /\ SetJob(w, Idle)
                /\ UNCHANGED lock
           ELSE /\ SetJob(w, [job[w] EXCEPT !.pc = "read",
                                              !.need = Quantity[o] - have])
                /\ lock' = [lock EXCEPT ![o] = w]
        /\ UNCHANGED <<stock, excludeAcl, proxies, returnKey, queued, rowLock,
                       fulls, touches, faults>>

(* Mutant of Available: one of the order's ACLs is enough. *)
AvailableForSome(o, st) ==
    {s \in Subnet : /\ CidrOf[s] \in CidrsOf[o]
                    /\ \E r \in StocksOf(o, s) : s \in st[r].avail /\ ~st[r].excluded}

(* Subnets of the order's CIDRs that a copy of the rows offers for all the *)
(* order's ACLs.                                                           *)
Available(o, st) ==
    {s \in Subnet : /\ CidrOf[s] \in CidrsOf[o]
                    /\ \A r \in StocksOf(o, s) : s \in st[r].avail /\ ~st[r].excluded}

(* get_available_cidrs; with part_send one subnet is enough to go on. *)
ReadStock(w) ==
    LET o == job[w].order
        found == Available(o, stock)
    IN  /\ job[w].pc = "read"
        /\ IF found = {}
           THEN /\ SetJob(w, Idle)
                /\ lock' = [lock EXCEPT ![o] = Free]
           ELSE /\ SetJob(w, [job[w] EXCEPT !.pc = "next", !.rows = RowsOf(o),
                               !.snap = Read(RowsOf(o)), !.todo = found])
                /\ UNCHANGED lock
        /\ UNCHANGED <<stock, excludeAcl, proxies, returnKey, queued, rowLock,
                       fulls, touches, faults>>

(* Mutant of CreateUser: a subnet is tried until its user has proxies. *)
CreateUserAgain(w) ==
    /\ job[w].pc = "next"
    /\ \E s \in job[w].todo, n \in KaxyAnswers :
           SetJob(w, [job[w] EXCEPT !.pc = IF n > 0 THEN "create" ELSE "next",
                       !.todo = IF n > 0 THEN job[w].todo \ {s} ELSE job[w].todo,
                       !.subnet = s, !.making = n,
                       !.left = StocksOf(job[w].order, s)])
    /\ UNCHANGED <<stock, excludeAcl, proxies, returnKey, queued, lock, rowLock,
                   fulls, touches, faults>>

(* The next subnet by network address: the proxy server creates the user   *)
(* on it and answers with its proxies (none after an error response).      *)
CreateUser(w) ==
    /\ job[w].pc = "next"
    /\ \E s \in job[w].todo, n \in KaxyAnswers :
           /\ \A t \in job[w].todo : s <= t
           /\ SetJob(w, [job[w] EXCEPT !.pc = IF n > 0 THEN "create" ELSE "save",
                          !.todo = job[w].todo \ {s}, !.subnet = s, !.making = n,
                          !.left = StocksOf(job[w].order, s)])
    /\ UNCHANGED <<stock, excludeAcl, proxies, returnKey, queued, lock, rowLock,
                   fulls, touches, faults>>

(* The proxy server is down or raises: return False from inside the loop,  *)
(* the subnets delivered so far stay delivered.                            *)
KaxyFails(w) ==
    /\ job[w].pc = "next"
    /\ SetJob(w, Idle)
    /\ lock' = [lock EXCEPT ![job[w].order] = Free]
    /\ UNCHANGED <<stock, excludeAcl, proxies, returnKey, queued, rowLock, fulls,
                   touches, faults>>

(* Mutant of CreateProxy: the loop over the addresses makes one turn more. *)
CreateProxyOnceMore(w) ==
    /\ job[w].pc = "create"
    /\ proxies' = [proxies EXCEPT ![job[w].order][job[w].subnet] = @ + 1]
    /\ SetJob(w, [job[w] EXCEPT
                   !.making = IF job[w].making > 0 THEN job[w].making - 1 ELSE 0,
                   !.pc = IF job[w].making = 0 THEN "save" ELSE "create"])
    /\ UNCHANGED <<stock, excludeAcl, returnKey, queued, lock, rowLock, fulls,
                   touches, faults>>

(* Proxy.objects.create, one row per address. *)
CreateProxy(w) ==
    /\ job[w].pc = "create"
    /\ proxies' = [proxies EXCEPT ![job[w].order][job[w].subnet] = @ + 1]
    /\ SetJob(w, [job[w] EXCEPT !.got = job[w].got + 1, !.making = job[w].making - 1,
                   !.pc = IF job[w].making = 1 THEN "save" ELSE "create"])
    /\ UNCHANGED <<stock, excludeAcl, returnKey, queued, lock, rowLock, fulls,
                   touches, faults>>

(* remove_available_subnet on one of the rows in memory, saved at once. *)
RemoveSubnet(w) ==
    /\ job[w].pc = "save"
    /\ \E r \in job[w].left :
           LET snap == job[w].snap
               mine == [snap[r] EXCEPT !.avail = snap[r].avail \ {job[w].subnet}]
           IN  /\ stock' = [stock EXCEPT ![r] = mine]
               /\ SetJob(w, [job[w] EXCEPT !.pc = "count", !.row = r,
                                           !.snap = [snap EXCEPT ![r] = mine]])
    /\ UNCHANGED <<excludeAcl, proxies, returnKey, queued, lock, rowLock, fulls,
                   touches, faults>>

(* cart_stock and ip_stock are decremented and the row is saved again;     *)
(* after the last row the loop goes on until the quantity is reached.      *)
SaveCounters(w) ==
    LET r == job[w].row
        rest == job[w].left \ {r}
        done == job[w].got >= job[w].need \/ job[w].todo = {}
    IN  /\ job[w].pc = "count"
        /\ stock' = [stock EXCEPT ![r] = job[w].snap[r]]
        /\ SetJob(w, [job[w] EXCEPT !.left = rest, !.row = NoRow,
                       !.pc = IF rest # {} THEN "save"
                              ELSE IF done THEN "finish" ELSE "next"])
        /\ UNCHANGED <<excludeAcl, proxies, returnKey, queued, lock, rowLock,
                       fulls, touches, faults>>

(* The order and the variant are saved and the lock is released. *)
Finish(w) ==
    /\ job[w].pc = "finish"
    /\ SetJob(w, Idle)
    /\ lock' = [lock EXCEPT ![job[w].order] = Free]
    /\ UNCHANGED <<stock, excludeAcl, proxies, returnKey, queued, rowLock, fulls,
                   touches, faults>>

-----------------------------------------------------------------------------
(* Deletion of proxies.                                                    *)

(* Mutant of PostDelete: the redis key does not name the subnet. *)
PostDeleteByStock(gone) ==
    /\ returnKey' = returnKey \cup gone
    /\ queued' = [c \in Claims |->
                    IF c \in gone /\ \A k \in returnKey : k[1] # c[1]
                    THEN queued[c] + 1 ELSE queued[c]]

(* post_delete of Proxy: one return task per claim, unless the claim's key *)
(* of an earlier deletion is still in redis.                               *)
PostDelete(gone) ==
    /\ returnKey' = returnKey \cup gone
    /\ queued' = [c \in Claims |-> IF c \in gone \ returnKey
                                   THEN queued[c] + 1 ELSE queued[c]]

(* proxy.delete(): the loops of delete_proxy_by_order_pk,                  *)
(* delete_proxy_expired and reset_proxy, one proxy per step.               *)
DeleteProxy(o, s) ==
    /\ proxies[o][s] > 0
    /\ proxies' = [proxies EXCEPT ![o][s] = @ - 1]
    /\ PostDelete({Claim(o, s)})
    /\ UNCHANGED <<stock, excludeAcl, lock, rowLock, job, fulls, touches, faults>>

(* A queryset deletion (check_order_expired, one_key_delivery_order) or    *)
(* the cascade of a deleted order: all the proxies in one transaction.     *)
DeleteOrderProxies(o) ==
    LET gone == {s \in Subnet : proxies[o][s] > 0}
    IN  /\ gone # {}
        /\ proxies' = [proxies EXCEPT ![o] = [s \in Subnet |-> 0]]
        /\ PostDelete({Claim(o, s) : s \in gone})
        /\ UNCHANGED <<stock, excludeAcl, lock, rowLock, job, fulls, touches, faults>>

(* The redis key times out (5 minutes). *)
KeyExpires(c) ==
    /\ c \in returnKey
    /\ queued[c] < MaxQueued
    /\ returnKey' = returnKey \ {c}
    /\ UNCHANGED <<stock, excludeAcl, proxies, queued, lock, rowLock, job, fulls,
                   touches, faults>>

-----------------------------------------------------------------------------
(* stock_return_task.                                                      *)

(* Mutant of StartReturn: the message is never acknowledged. *)
StartReturnUnacked(w, c) ==
    /\ job[w].pc = "idle"
    /\ queued[c] > 0
    /\ SetJob(w, [Idle EXCEPT !.pc = "holders", !.rows = c[1],
                              !.snap = Read(c[1]), !.subnet = c[2]])
    /\ UNCHANGED <<stock, excludeAcl, proxies, returnKey, queued, lock, rowLock,
                   fulls, touches, faults>>

(* After the sleep the task reads its stock rows. *)
StartReturn(w, c) ==
    /\ job[w].pc = "idle"
    /\ queued[c] > 0
    /\ queued' = [queued EXCEPT ![c] = @ - 1]
    /\ SetJob(w, [Idle EXCEPT !.pc = "holders", !.rows = c[1],
                              !.snap = Read(c[1]), !.subnet = c[2]])
    /\ UNCHANGED <<stock, excludeAcl, proxies, returnKey, lock, rowLock, fulls,
                   touches, faults>>

(* Mutant of CheckHolders: nobody asks who holds the subnet. *)
CheckNobody(w) ==
    /\ job[w].pc = "holders"
    /\ SetJob(w, [job[w] EXCEPT !.pc = "give", !.left = job[w].rows])
    /\ UNCHANGED <<stock, excludeAcl, proxies, returnKey, queued, lock, rowLock,
                   fulls, touches, faults>>

(* has_proxy is read once: rows on which a proxy holds the subnet are not  *)
(* released.                                                               *)
CheckHolders(w) ==
    LET free == {r \in job[w].rows : Holders(r, job[w].subnet) = {}}
    IN  /\ job[w].pc = "holders"
        /\ SetJob(w, IF free = {} THEN Idle
                        ELSE [job[w] EXCEPT !.pc = "give", !.left = free])
        /\ UNCHANGED <<stock, excludeAcl, proxies, returnKey, queued, lock,
                       rowLock, fulls, touches, faults>>

(* Mutant of AfterRow: the task returns from inside its loop. *)
AfterFirstRow(j, r) == Idle

AfterRow(j, r) == IF j.left = {r} THEN Idle
                  ELSE [j EXCEPT !.pc = "give", !.left = j.left \ {r}, !.row = NoRow]

(* return_subnet: the row's lock is tried once; when it is taken the row   *)
(* is skipped and the task still counts it as returned.                    *)
TryRowLock(w) ==
    /\ job[w].pc = "give"
    /\ \E r \in job[w].left :
           IF rowLock[r] = Free
           THEN /\ rowLock' = [rowLock EXCEPT ![r] = w]
                /\ SetJob(w, [job[w] EXCEPT !.pc = "giving", !.row = r])
           ELSE /\ SetJob(w, AfterRow(job[w], r))
                /\ UNCHANGED rowLock
    /\ UNCHANGED <<stock, excludeAcl, proxies, returnKey, queued, lock, fulls,
                   touches, faults>>

(* _return_subnet writes the row as it was read, with the subnet added,    *)
(* unless the copy already has it.  Releasing a lock that timed out raises *)
(* and celery retries the task.                                            *)
GiveBack(w) ==
    LET r == job[w].row
        s == job[w].subnet
        c == <<job[w].rows, s>>
        mine == job[w].snap[r]
    IN  /\ job[w].pc = "giving"
        /\ stock' = IF s \in mine.avail \/ s \notin SubnetsOf(r) THEN stock
                    ELSE [stock EXCEPT ![r] = [mine EXCEPT !.avail = mine.avail \cup {s}]]
        /\ IF rowLock[r] = w
           THEN /\ rowLock' = [rowLock EXCEPT ![r] = Free]
                /\ SetJob(w, AfterRow(job[w], r))
                /\ UNCHANGED queued
           ELSE /\ SetJob(w, Idle)
                /\ queued' = [queued EXCEPT ![c] = @ + 1]
                /\ UNCHANGED rowLock
        /\ UNCHANGED <<excludeAcl, proxies, returnKey, lock, fulls, touches, faults>>

-----------------------------------------------------------------------------
(* Administrative saves of whole stock rows.                               *)

(* Cidr.exclude_acl becomes A; the m2m handler reads the CIDR's rows and   *)
(* sets exclude_label on its copies, inside the transaction of the change. *)
StartExclude(w, d, A) ==
    LET rows == {d} \X Acl
    IN  /\ job[w].pc = "idle"
        /\ touches < MaxTouches
        /\ {r \in rows : r[2] \in A} # excludeAcl \cap rows
        /\ touches' = touches + 1
        /\ SetJob(w, [Idle EXCEPT !.pc = "exclude", !.rows = rows,
                       !.snap = [r \in Row |-> IF r \in rows
                           THEN [avail |-> stock[r].avail, excluded |-> r[2] \in A]
                           ELSE Blank]])
        /\ UNCHANGED <<stock, excludeAcl, proxies, returnKey, queued, lock, rowLock,
                       fulls, faults>>

SaveCopies(w) ==
    /\ stock' = [r \in Row |-> IF r \in job[w].rows THEN job[w].snap[r] ELSE stock[r]]
    /\ SetJob(w, Idle)
    /\ UNCHANGED <<proxies, returnKey, queued, lock, rowLock, fulls, touches, faults>>

(* The transaction of the change commits. *)
CommitExclude(w) ==
    /\ job[w].pc = "exclude"
    /\ excludeAcl' = (excludeAcl \ job[w].rows)
                         \cup {r \in job[w].rows : job[w].snap[r].excluded}
    /\ SaveCopies(w)

(* Mutant of StartRefresh: the row is put back to its defaults. *)
StartRefreshAnew(w, r) ==
    /\ job[w].pc = "idle"
    /\ touches < MaxTouches
    /\ touches' = touches + 1
    /\ SetJob(w, [Idle EXCEPT !.pc = "resave", !.rows = {r},
                              !.snap = [Read({r}) EXCEPT ![r].excluded = FALSE]])
    /\ UNCHANGED <<stock, excludeAcl, proxies, returnKey, queued, lock, rowLock,
                   fulls, faults>>

(* update_product_acl, add_product_other: a row is read by get_or_create   *)
(* and saved with soft_delete = False.                                     *)
StartRefresh(w, r) ==
    /\ job[w].pc = "idle"
    /\ touches < MaxTouches
    /\ touches' = touches + 1
    /\ SetJob(w, [Idle EXCEPT !.pc = "resave", !.rows = {r}, !.snap = Read({r})])
    /\ UNCHANGED <<stock, excludeAcl, proxies, returnKey, queued, lock, rowLock,
                   fulls, faults>>

SaveRefresh(w) ==
    /\ job[w].pc = "resave"
    /\ SaveCopies(w)
    /\ UNCHANGED excludeAcl

-----------------------------------------------------------------------------
(* Faults.                                                                 *)

(* The process dies.  create_proxy_by_id has no timeout, return_subnet_lock *)
(* has one.                                                                *)
Crash(w) ==
    /\ job[w].pc # "idle"
    /\ faults < MaxFaults
    /\ faults' = faults + 1
    /\ SetJob(w, Idle)
    /\ lock' = [o \in Order |-> IF lock[o] = w THEN Orphan ELSE lock[o]]
    /\ rowLock' = [r \in Row |-> IF rowLock[r] = w THEN Orphan ELSE rowLock[r]]
    /\ UNCHANGED <<stock, excludeAcl, proxies, returnKey, queued, fulls, touches>>

(* return_subnet_lock_{id} times out (30 seconds), the holder dead or slow. *)
RowLockExpires(r) ==
    /\ rowLock[r] # Free
    /\ rowLock[r] # Orphan => faults < MaxFaults
    /\ faults' = IF rowLock[r] = Orphan THEN faults ELSE faults + 1
    /\ rowLock' = [rowLock EXCEPT ![r] = Free]
    /\ UNCHANGED <<stock, excludeAcl, proxies, returnKey, queued, lock, job, fulls,
                   touches>>

-----------------------------------------------------------------------------
DeliveryStep(w) ==
    \/ AcquireLock(w) \/ ReadStock(w) \/ CreateUser(w) \/ KaxyFails(w)
    \/ CreateProxy(w) \/ RemoveSubnet(w) \/ SaveCounters(w) \/ Finish(w)

ReturnStep(w) == CheckHolders(w) \/ TryRowLock(w) \/ GiveBack(w)

JobStep(w) == DeliveryStep(w) \/ ReturnStep(w) \/ CommitExclude(w) \/ SaveRefresh(w)

Start(w) ==
    \/ \E o \in Order : StartFull(w, o) \/ StartFill(w, o)
    \/ \E c \in Claims : StartReturn(w, c)
    \/ \E d \in Cidr, A \in SUBSET Acl : StartExclude(w, d, A)
    \/ \E r \in Row : StartRefresh(w, r)

Environment ==
    \/ \E o \in Order, s \in Subnet : DeleteProxy(o, s)
    \/ \E o \in Order : DeleteOrderProxies(o)
    \/ \E c \in Claims : KeyExpires(c)
    \/ \E w \in Worker : Crash(w)
    \/ \E r \in Row : RowLockExpires(r)

Next == (\E w \in Worker : Start(w) \/ JobStep(w)) \/ Environment

Spec == Init /\ [][Next]_vars

(* A job that runs goes on; celery takes its messages first in, first out, *)
(* so a return task is not passed over for ever whenever a worker is free; *)
(* a redis lock with a timeout expires.                                    *)
Fairness ==
    /\ \A w \in Worker : WF_vars(JobStep(w))
    /\ \A c \in Claims : SF_vars(\E w \in Worker : StartReturn(w, c))
    /\ \A r \in Row : WF_vars(rowLock[r] = Orphan /\ RowLockExpires(r))

FairSpec == Spec /\ Fairness

-----------------------------------------------------------------------------
(* Properties.                                                             *)

(* What a job's program counter says of its other fields: a job that       *)
(* delivers has an order, takes subnets of the order's CIDRs, and works on *)
(* the rows it read; a job that returns a subnet works on a claim.         *)
JobOK(j) ==
    /\ \A r \in Row : j.snap[r].avail \subseteq SubnetsOf(r)
    /\ j.pc \in {"lock", "read", "next", "create", "save", "count", "finish"}
         => j.order \in Order
    /\ j.pc \in {"next", "create", "save", "count", "finish"}
         => /\ j.rows = RowsOf(j.order)
            /\ \A s \in j.todo : CidrOf[s] \in CidrsOf[j.order]
    /\ j.pc \in {"create", "save", "count"}
         => /\ j.subnet \in Subnet
            /\ j.left # {} /\ j.left \subseteq StocksOf(j.order, j.subnet)
            /\ StocksOf(j.order, j.subnet) \subseteq j.rows
    /\ j.pc = "create" => j.making > 0
    /\ j.pc \in {"count", "giving"} => j.row \in j.left
    /\ j.pc \in {"holders", "give", "giving"}
         => <<j.rows, j.subnet>> \in Claims /\ j.left \subseteq j.rows
    /\ j.pc \in {"give", "giving"} => j.left # {}

(* Every variable has its type, a row offers subnets of its own CIDR only, *)
(* and the fields of every job fit its program counter.                    *)
TypeOK ==
    /\ stock \in [Row -> Stock]
    /\ \A r \in Row : stock[r].avail \subseteq SubnetsOf(r)
    /\ excludeAcl \subseteq Row
    /\ proxies \in [Order -> [Subnet -> Nat]]
    /\ returnKey \subseteq Claims
    /\ queued \in [Claims -> Nat]
    /\ lock \in [Order -> Worker \cup {Free, Orphan}]
    /\ rowLock \in [Row -> Worker \cup {Free, Orphan}]
    /\ job \in [Worker -> Job]
    /\ \A w \in Worker : JobOK(job[w])
    /\ fulls \in [Order -> Nat]
    /\ touches \in Nat
    /\ faults \in Nat

(* Two workers never deliver to one order at the same time, whatever       *)
(* crashes: create_proxy_by_id_{pk} of create_proxy_by_order_obj.          *)
OneDelivery ==
    \A v, w \in Worker :
        /\ Delivering(v)
        /\ Delivering(w)
        /\ job[v].order = job[w].order
        => v = w

(* As long as an order is served by fills alone (devery_order), it never   *)
(* gets a subnet more than its quantity needs, however fills, deletions    *)
(* and crashes interleave: the count under the lock is what limits them.   *)
FillsStopAtQuantity ==
    \A o \in Order, n \in KaxyAnswers :
        (\A m \in KaxyAnswers : m <= n) /\ fulls[o] = 0
            => Count(o) < Quantity[o] + n

(* No two orders hold one subnet on a common stock row: fix_tool.py        *)
(* searches the Proxy table for such double deliveries.                    *)
SoldOnce ==
    \A r \in Row, s \in Subnet : \A o, p \in Holders(r, s) : o = p

(* A subnet whose proxies exist is not offered by their rows, except by    *)
(* those the delivery that is creating them has still to save.             *)
HeldNotOffered ==
    \A r \in Row : \A s \in stock[r].avail : \A o \in Holders(r, s) :
        \E w \in Worker : /\ Claiming(w)
                          /\ job[w].order = o
                          /\ job[w].subnet = s
                          /\ r \in job[w].left

(* A subnet is on its way while a delivery or a return works on it or a    *)
(* return task for it waits.                                               *)
UnderWay(r, s) ==
    \/ \E w \in Worker : job[w].pc # "idle" /\ job[w].subnet = s /\ r \in job[w].rows
    \/ \E c \in Claims : r \in c[1] /\ c[2] = s /\ queued[c] > 0

(* No subnet is lost to the shop: each is offered, held by an order or on  *)
(* its way; the post_delete handler of Proxy is there to bring it back.    *)
NoSubnetLost ==
    \A r \in Row : \A s \in SubnetsOf(r) \ stock[r].avail :
        Holders(r, s) # {} \/ UnderWay(r, s)

(* While nobody works on a row its exclude_label is what exclude_acl says: *)
(* no full-row save brings back a label it read before the change.         *)
ExclusionHonoured ==
    \A r \in Row :
        (\A w \in Worker : r \notin job[w].rows)
            => (stock[r].excluded <=> r \in excludeAcl)

(* When stock_return_task counts a row as returned, the row offers the     *)
(* subnet.                                                                 *)
ReturnedIsOffered ==
    [][\A w \in Worker :
          /\ job[w].pc \in {"give", "giving"}
          /\ job'[w].pc \in {"idle", "give"}
          => \A r \in job[w].left \ job'[w].left : job[w].subnet \in stock'[r].avail]_vars

(* The lock of an order does not stay taken: a delivery that failed can be *)
(* repeated, as the answer of fill_proxy promises.                         *)
LockIsReleased == \A o \in Order : lock[o] # Free ~> lock[o] = Free

(* A return task that was sent is carried out: the queue drains. *)
ReturnsAreServed == \A c \in Claims : queued[c] > 0 ~> queued[c] = 0
=============================================================================
