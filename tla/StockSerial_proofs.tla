------------------------- MODULE StockSerial_proofs -------------------------
(* Selling subnets is safe when jobs that read a common stock row do not   *)
(* overlap and no process dies: SerialInv is inductive under SerialNext.   *)
(* On it rest what a return does (RowLocked), the labels of excluded rows  *)
(* (LabelsFresh), that no subnet is lost (NothingLost) and the refinement  *)
(* of SubnetPool (TakenOff).                                               *)
EXTENDS StockSerial, StockDelivery_proofs

USE DEF Row, NoRow, SetJob

(* Where a job's fields point. *)
LEMMA JobPlaces ==
    ASSUME TypeOK, NEW w \in Worker
    PROVE  LET J == job[w] IN
           /\ J \in Job /\ JobOK(J)
           /\ Copies(J) \subseteq J.rows /\ J.rows \subseteq Row
           /\ Claiming(w) => /\ J.order \in Order /\ J.subnet \in Subnet
                             /\ StocksOf(J.order, J.subnet) \subseteq J.rows
                             /\ J.left \subseteq J.rows
           /\ J.pc \in {"give", "giving"} => J.subnet \in Subnet /\ J.left \subseteq J.rows
<1>1. job[w] \in Job /\ JobOK(job[w]) BY DEF TypeOK
<1>2. job[w].pc \in {"give", "giving"}
        => job[w].subnet \in Subnet /\ job[w].left \subseteq job[w].rows
    BY <1>1, ClaimType DEF JobOK
<1> QED BY <1>1, <1>2 DEF JobOK, Copies, Claiming, Job

(* What one worker does to rows it has read does not disturb the others. *)
LEMMA Frame ==
    ASSUME SerialInv, NEW w \in Worker, NEW j, job' = [job EXCEPT ![w] = j],
           \A r \in Row \ job[w].rows :
               /\ stock'[r].avail = stock[r].avail
               /\ \A s \in Subnet : Holders(r, s)' \subseteq Holders(r, s)
    PROVE  \A v \in Worker \ {w} : WorkOK(v)'
<1> SUFFICES ASSUME NEW v \in Worker, v # w PROVE WorkOK(v)'
    OBVIOUS
<1> DEFINE J == job[v]
<1>1. job'[v] = J BY DEF SerialInv, TypeOK
<1>2. J.rows \cap job[w].rows = {} BY DEF SerialInv, Apart
<1>3. WorkOK(v) /\ TypeOK BY DEF SerialInv
<1>4. \A r \in J.rows : /\ stock'[r].avail = stock[r].avail
                        /\ \A s \in Subnet : Holders(r, s)' \subseteq Holders(r, s)
    BY <1>2, <1>3, JobPlaces
<1>5. /\ Copies(J) \subseteq J.rows
      /\ Claiming(v) => J.subnet \in Subnet /\ StocksOf(J.order, J.subnet) \subseteq J.rows
      /\ J.pc \in {"give", "giving"} => J.subnet \in Subnet /\ J.left \subseteq J.rows
    BY <1>3, JobPlaces
<1>6. \A r \in Copies(J) : J.snap[r].avail = stock'[r].avail
    BY <1>3, <1>4, <1>5 DEF WorkOK
<1>7. Claiming(v) => \A r \in StocksOf(J.order, J.subnet) :
                        Holders(r, J.subnet)' \subseteq {J.order}
    BY <1>3, <1>4, <1>5 DEF WorkOK
<1>8. J.pc \in {"give", "giving"} => \A r \in J.left : Holders(r, J.subnet)' = {}
    BY <1>3, <1>4, <1>5 DEF WorkOK
<1>9. Claiming(v)' <=> Claiming(v) BY <1>1 DEF Claiming
<1> QED BY <1>1, <1>3, <1>6, <1>7, <1>8, <1>9 DEF WorkOK

(* A step of a worker that claims nothing and changes neither what the     *)
(* rows offer nor the proxies.                                             *)
LEMMA QuietStep ==
    ASSUME SerialInv, TypeOK', Apart', NEW w \in Worker, NEW j,
           job' = [job EXCEPT ![w] = j], proxies' = proxies, WorkOK(w)', ~Claiming(w),
           \A r \in Row : stock'[r].avail = stock[r].avail
    PROVE  SerialInv'
<1>1. \A r, s : Holders(r, s)' = Holders(r, s) BY DEF Holders
<1>2. \A v \in Worker \ {w} : WorkOK(v)' BY <1>1, Frame
<1>3. \A v \in Worker \ {w} : job'[v] = job[v] BY DEF SerialInv, TypeOK
<1>4. HeldNotOffered'
    <2> SUFFICES ASSUME NEW r \in Row, NEW s \in stock'[r].avail, NEW o \in Holders(r, s)
                 PROVE  \E v \in Worker : /\ Claiming(v)'
                                          /\ job'[v].order = o
                                          /\ job'[v].subnet = s
                                          /\ r \in job'[v].left
        BY <1>1 DEF HeldNotOffered
    <2>1. PICK v \in Worker : /\ Claiming(v) /\ job[v].order = o
                              /\ job[v].subnet = s /\ r \in job[v].left
        BY DEF SerialInv, HeldNotOffered
    <2>2. job'[v] = job[v] BY <1>3, <2>1
    <2> QED BY <2>1, <2>2 DEF Claiming
<1>5. SoldOnce' BY <1>1 DEF SerialInv, SoldOnce
<1> QED BY <1>2, <1>4, <1>5 DEF SerialInv

LEMMA IdleWork ==
    ASSUME NEW w \in Worker, job'[w] = Idle
    PROVE  WorkOK(w)'
BY DEF WorkOK, Copies, Claiming, Idle

(* A job that starts has fresh copies. *)
LEMMA StartSerial ==
    ASSUME SerialInv, TypeOK', Apart', NEW w \in Worker, Start(w)
    PROVE  SerialInv'
<1>0. job \in [Worker -> Job] BY DEF SerialInv, TypeOK
<1>1. ASSUME NEW o \in Order, StartFull(w, o) \/ StartFill(w, o) PROVE SerialInv'
    <2>1. ~Claiming(w) /\ stock' = stock /\ proxies' = proxies
        BY <1>1 DEF StartFull, StartFill, Claiming
    <2>2. PICK j : job' = [job EXCEPT ![w] = j]
        BY <1>1 DEF StartFull, StartFill
    <2>3. job'[w].pc = "lock" /\ job'[w].rows = {}
        <3>1. CASE StartFull(w, o) BY <1>0, <3>1 DEF StartFull, Idle
        <3>2. CASE StartFill(w, o) BY <1>0, <3>2 DEF StartFill, Idle
        <3> QED BY <1>1, <3>1, <3>2
    <2>4. WorkOK(w)' BY <2>3 DEF WorkOK, Copies, Claiming
    <2> QED BY <2>1, <2>2, <2>4, QuietStep
<1>2. ASSUME NEW c \in Claims, StartReturn(w, c) PROVE SerialInv'
    <2> DEFINE j == [Idle EXCEPT !.pc = "holders", !.rows = c[1],
                                 !.snap = Read(c[1]), !.subnet = c[2]]
    <2>1. /\ ~Claiming(w) /\ stock' = stock /\ proxies' = proxies
          /\ job' = [job EXCEPT ![w] = j]
        BY <1>2 DEF StartReturn, Claiming
    <2>2. j.pc = "holders" /\ j.rows = c[1] /\ j.snap = Read(c[1]) BY DEF Idle
    <2>3. \A r \in c[1] : Read(c[1])[r].avail = stock[r].avail
        BY ClaimType DEF Read
    <2>4. job'[w] = j BY <1>0, <2>1
    <2> HIDE DEF j
    <2>5. WorkOK(w)' BY <2>1, <2>2, <2>3, <2>4 DEF WorkOK, Copies, Claiming
    <2> QED BY <2>1, <2>5, QuietStep
<1>3. ASSUME NEW d \in Cidr, NEW A \in SUBSET Acl, StartExclude(w, d, A)
      PROVE  SerialInv'
    <2> DEFINE rows == {d} \X Acl
               snap == [r \in Row |-> IF r \in rows
                           THEN [avail |-> stock[r].avail, excluded |-> r[2] \in A]
                           ELSE Blank]
               j == [Idle EXCEPT !.pc = "exclude", !.rows = rows, !.snap = snap]
    <2>1. /\ ~Claiming(w) /\ stock' = stock /\ proxies' = proxies
          /\ job' = [job EXCEPT ![w] = j]
        BY <1>3 DEF StartExclude, Claiming
    <2>2. j.pc = "exclude" /\ j.rows = rows /\ j.snap = snap BY DEF Idle
    <2>3. \A r \in rows : snap[r].avail = stock[r].avail OBVIOUS
    <2>4. job'[w] = j BY <1>0, <2>1
    <2> HIDE DEF j
    <2>5. WorkOK(w)' BY <2>1, <2>2, <2>3, <2>4 DEF WorkOK, Copies, Claiming
    <2> QED BY <2>1, <2>5, QuietStep
<1>4. ASSUME NEW r \in Row, StartRefresh(w, r) PROVE SerialInv'
    <2> DEFINE j == [Idle EXCEPT !.pc = "resave", !.rows = {r}, !.snap = Read({r})]
    <2>1. /\ ~Claiming(w) /\ stock' = stock /\ proxies' = proxies
          /\ job' = [job EXCEPT ![w] = j]
        BY <1>4 DEF StartRefresh, Claiming
    <2>2. j.pc = "resave" /\ j.rows = {r} /\ j.snap = Read({r}) BY DEF Idle
    <2>3. Read({r})[r].avail = stock[r].avail BY DEF Read
    <2>4. job'[w] = j BY <1>0, <2>1
    <2> HIDE DEF j
    <2>5. WorkOK(w)' BY <2>1, <2>2, <2>3, <2>4 DEF WorkOK, Copies, Claiming
    <2> QED BY <2>1, <2>5, QuietStep
<1> QED BY <1>1, <1>2, <1>3, <1>4 DEF Start

(* The steps of a delivery that write neither stock nor proxies. *)
LEMMA PlanSerial ==
    ASSUME SerialInv, TypeOK', Apart', NEW w \in Worker,
           AcquireLock(w) \/ ReadStock(w) \/ KaxyFails(w) \/ Finish(w)
    PROVE  SerialInv'
<1>0. job \in [Worker -> Job] /\ job[w] \in Job /\ TypeOK BY DEF SerialInv, TypeOK
<1>1. ~Claiming(w) /\ stock' = stock /\ proxies' = proxies
    BY DEF AcquireLock, ReadStock, KaxyFails, Finish, Claiming
<1>2. CASE job' = [job EXCEPT ![w] = Idle]
    <2>1. WorkOK(w)' BY <1>0, <1>2, IdleWork
    <2> QED BY <1>1, <1>2, <2>1, QuietStep
<1>3. CASE AcquireLock(w) /\ job' # [job EXCEPT ![w] = Idle]
    <2>1. PICK n : job' = [job EXCEPT ![w] = [job[w] EXCEPT !.pc = "read", !.need = n]]
        BY <1>3 DEF AcquireLock
    <2>2. job'[w].pc = "read" /\ job'[w].rows = job[w].rows /\ job'[w].snap = job[w].snap
        BY <1>0, <2>1 DEF Job
    <2>3. job[w].pc = "lock" BY <1>3 DEF AcquireLock
    <2>4. \A r \in job[w].rows : job[w].snap[r].avail = stock[r].avail
        BY <2>3 DEF SerialInv, WorkOK, Copies
    <2>5. WorkOK(w)' BY <1>1, <2>2, <2>4 DEF WorkOK, Copies, Claiming
    <2> QED BY <1>1, <2>1, <2>5, QuietStep
<1>4. CASE ReadStock(w) /\ job' # [job EXCEPT ![w] = Idle]
    <2> DEFINE o == job[w].order
               j == [job[w] EXCEPT !.pc = "next", !.rows = RowsOf(o),
                            !.snap = Read(RowsOf(o)), !.todo = Available(o, stock)]
    <2>1. job' = [job EXCEPT ![w] = j] BY <1>4 DEF ReadStock
    <2>2. /\ j.pc = "next" /\ j.rows = RowsOf(o) /\ j.snap = Read(RowsOf(o))
          /\ j.order = o /\ j.todo = Available(o, stock)
        BY <1>0 DEF Job
    <2>3. o \in Order BY <1>0, <1>4 DEF ReadStock, TypeOK, JobOK
    <2>4. RowsOf(o) \subseteq Row BY <2>3, StockAssumption DEF RowsOf
    <2>5. \A r \in RowsOf(o) : Read(RowsOf(o))[r].avail = stock[r].avail
        BY <2>4 DEF Read
    <2>6. \A s \in Available(o, stock) : \A r \in StocksOf(o, s) :
              r \in RowsOf(o) /\ s \in stock[r].avail
        BY DEF Available, StocksOf, RowsOf
    <2>7. job'[w] = j BY <1>0, <2>1
    <2>8. WorkOK(w)' BY <1>1, <2>2, <2>5, <2>6, <2>7 DEF WorkOK, Copies, Claiming
    <2> QED BY <1>1, <2>1, <2>8, QuietStep
<1> QED BY <1>2, <1>3, <1>4 DEF KaxyFails, Finish

(* A subnet a delivery takes next is held by nobody on the order's rows:   *)
(* the rows offer it, and a delivery that holds what its rows still offer  *)
(* would have read a common row.                                           *)
LEMMA CreateUserSerial ==
    ASSUME SerialInv, TypeOK', Apart', NEW w \in Worker, CreateUser(w)
    PROVE  SerialInv'
<1> DEFINE J == job[w]
<1>0. job \in [Worker -> Job] /\ J \in Job /\ TypeOK /\ J.pc = "next" /\ JobOK(J)
    BY DEF SerialInv, TypeOK, CreateUser
<1>1. ~Claiming(w) /\ stock' = stock /\ proxies' = proxies
    BY DEF CreateUser, Claiming
<1>2. PICK s \in J.todo, n \in KaxyAnswers :
          job' = [job EXCEPT ![w] = [J EXCEPT
                     !.pc = IF n > 0 THEN "create" ELSE "save",
                     !.todo = J.todo \ {s}, !.subnet = s, !.making = n,
                     !.left = StocksOf(J.order, s)]]
    BY DEF CreateUser
<1> DEFINE j == [J EXCEPT !.pc = IF n > 0 THEN "create" ELSE "save",
                     !.todo = J.todo \ {s}, !.subnet = s, !.making = n,
                     !.left = StocksOf(J.order, s)]
<1>3. /\ j.pc \in {"create", "save"} /\ j.rows = J.rows /\ j.snap = J.snap
      /\ j.order = J.order /\ j.todo = J.todo \ {s} /\ j.subnet = s
      /\ j.left = StocksOf(J.order, s)
    BY <1>0 DEF Job
<1>4. s \in Subnet /\ J.order \in Order /\ J.rows = RowsOf(J.order) /\ J.rows \subseteq Row
    BY <1>0 DEF Job, JobOK
<1>5. StocksOf(J.order, s) \subseteq J.rows
    BY <1>0, <1>4 DEF JobOK, StocksOf, RowsOf
<1>6. WorkOK(w) BY DEF SerialInv
<1>7. /\ \A r \in J.rows : J.snap[r].avail = stock[r].avail
      /\ \A t \in J.todo : \A r \in StocksOf(J.order, t) : t \in J.snap[r].avail
    BY <1>0, <1>6 DEF WorkOK, Copies
<1>8. ASSUME NEW r \in StocksOf(J.order, s), NEW p \in Holders(r, s)
      PROVE  FALSE
    <2>1. s \in stock[r].avail BY <1>5, <1>7
    <2>2. PICK v \in Worker : Claiming(v) /\ r \in job[v].left
        BY <1>4, <1>5, <1>8, <2>1 DEF SerialInv, HeldNotOffered
    <2>3. r \in job[v].rows BY <1>0, <2>2, JobPlaces
    <2>4. v # w BY <1>1, <2>2
    <2> QED BY <1>5, <2>3, <2>4 DEF SerialInv, Apart
<1>9. \A r, t : Holders(r, t)' = Holders(r, t) BY <1>1 DEF Holders
<1>10. job'[w] = j BY <1>0, <1>2
<1>11. WorkOK(w)'
    BY <1>1, <1>3, <1>7, <1>8, <1>9, <1>10 DEF WorkOK, Copies, Claiming
<1> QED BY <1>1, <1>2, <1>11, QuietStep

(* The proxies of a subnet being created: the rows where the order now     *)
(* holds it are exactly those the delivery has still to save.              *)
LEMMA CreateProxySerial ==
    ASSUME SerialInv, TypeOK', Apart', NEW w \in Worker, CreateProxy(w)
    PROVE  SerialInv'
<1> DEFINE J == job[w]
           o == J.order
           s == J.subnet
           j == [J EXCEPT !.got = J.got + 1, !.making = J.making - 1,
                          !.pc = IF J.making = 1 THEN "save" ELSE "create"]
<1>0. job \in [Worker -> Job] /\ J \in Job /\ TypeOK /\ J.pc = "create" /\ Claiming(w)
    BY DEF SerialInv, TypeOK, CreateProxy, Claiming
<1>1. /\ job' = [job EXCEPT ![w] = j] /\ stock' = stock
      /\ proxies' = [proxies EXCEPT ![o][s] = @ + 1]
    BY DEF CreateProxy
<1>2. /\ j.pc \in {"create", "save"} /\ j.rows = J.rows /\ j.snap = J.snap
      /\ j.order = o /\ j.todo = J.todo /\ j.subnet = s /\ j.left = J.left
    BY <1>0 DEF Job
<1>3. job'[w] = j BY <1>0, <1>1
<1> HIDE DEF j
<1>4. o \in Order /\ s \in Subnet /\ StocksOf(o, s) \subseteq J.rows /\ J.rows \subseteq Row
    BY <1>0, JobPlaces
<1>5. WorkOK(w) BY DEF SerialInv
<1>6. /\ J.left = StocksOf(o, s) /\ s \notin J.todo
      /\ \A r \in StocksOf(o, s) : Holders(r, s) \subseteq {o}
      /\ \A r \in J.rows : J.snap[r].avail = stock[r].avail
      /\ \A t \in J.todo : \A r \in StocksOf(o, t) : t \in J.snap[r].avail
    BY <1>0, <1>5 DEF WorkOK, Copies
<1>7. \A p \in Order, t \in Subnet : p # o \/ t # s => proxies'[p][t] = proxies[p][t]
    BY <1>0, <1>1, <1>4 DEF TypeOK
<1>8. ASSUME NEW r, NEW t \in Subnet, NEW p \in Holders(r, t)',
             p \notin Holders(r, t)
      PROVE  p = o /\ t = s /\ r \in StocksOf(o, s)
    BY <1>7, <1>8 DEF Holders
<1>9. \A v \in Worker \ {w} : WorkOK(v)'
    BY <1>1, <1>4, <1>8, Frame
<1>10. WorkOK(w)'
    <2>1. \A r \in StocksOf(o, s), t \in {s} : Holders(r, t)' \subseteq {o}
        BY <1>4, <1>6, <1>8
    <2> QED BY <1>1, <1>2, <1>3, <1>6, <2>1 DEF WorkOK, Copies, Claiming
<1>11. HeldNotOffered'
    <2> SUFFICES ASSUME NEW r \in Row, NEW t \in stock[r].avail, NEW p \in Holders(r, t)'
                 PROVE  \E v \in Worker : /\ Claiming(v)'
                                          /\ job'[v].order = p
                                          /\ job'[v].subnet = t
                                          /\ r \in job'[v].left
        BY <1>1 DEF HeldNotOffered
    <2>0. t \in Subnet BY <1>0 DEF TypeOK, SubnetsOf
    <2>1. Claiming(w)' BY <1>2, <1>3 DEF Claiming
    <2>2. CASE p \notin Holders(r, t)
        BY <1>2, <1>3, <1>6, <1>8, <2>0, <2>1, <2>2
    <2>3. CASE p \in Holders(r, t)
        <3>1. PICK v \in Worker : /\ Claiming(v) /\ job[v].order = p
                                  /\ job[v].subnet = t /\ r \in job[v].left
            BY <2>3 DEF SerialInv, HeldNotOffered
        <3>2. CASE v = w BY <1>2, <1>3, <2>1, <3>1, <3>2
        <3>3. CASE v # w
            <4>1. job'[v] = job[v] BY <1>0, <1>1, <3>3
            <4> QED BY <3>1, <4>1 DEF Claiming
        <3> QED BY <3>2, <3>3
    <2> QED BY <2>2, <2>3
<1>12. SoldOnce'
    <2> SUFFICES ASSUME NEW r \in Row, NEW t \in Subnet,
                        NEW p \in Holders(r, t)', NEW q \in Holders(r, t)'
                 PROVE  p = q
        BY DEF SoldOnce
    <2>1. CASE r \in StocksOf(o, s) /\ t = s
        BY <1>4, <1>6, <1>8, <2>1
    <2>2. CASE ~(r \in StocksOf(o, s) /\ t = s)
        BY <1>8, <2>2 DEF SerialInv, SoldOnce
    <2> QED BY <2>1, <2>2
<1> QED BY <1>9, <1>10, <1>11, <1>12 DEF SerialInv

(* A row loses the subnet a delivery has given to its order. *)
LEMMA RemoveSubnetSerial ==
    ASSUME SerialInv, TypeOK', Apart', NEW w \in Worker, RemoveSubnet(w)
    PROVE  SerialInv'
<1> DEFINE J == job[w]
           s == J.subnet
<1>0. job \in [Worker -> Job] /\ J \in Job /\ TypeOK /\ J.pc = "save" /\ Claiming(w)
    BY DEF SerialInv, TypeOK, RemoveSubnet, Claiming
<1>1. /\ J.order \in Order /\ s \in Subnet /\ J.rows \subseteq Row
      /\ StocksOf(J.order, s) \subseteq J.rows /\ J.left \subseteq J.rows
    BY <1>0, JobPlaces
<1> DEFINE mine(r) == [J.snap[r] EXCEPT !.avail = J.snap[r].avail \ {s}]
           snap(r) == [J.snap EXCEPT ![r] = mine(r)]
           next(r) == [J EXCEPT !.pc = "count", !.row = r, !.snap = snap(r)]
<1>2. PICK r \in J.left : /\ stock' = [stock EXCEPT ![r] = mine(r)]
                          /\ job' = [job EXCEPT ![w] = next(r)]
    BY DEF RemoveSubnet
<1> DEFINE j == next(r)
<1>3. /\ j.pc = "count" /\ j.rows = J.rows /\ j.snap = snap(r) /\ j.order = J.order
      /\ j.todo = J.todo /\ j.subnet = s /\ j.left = J.left /\ j.row = r
    BY <1>0 DEF Job
<1>4. job'[w] = j BY <1>0, <1>2
<1> HIDE DEF j
<1>5. r \in Row /\ J.snap \in [Row -> Stock] /\ stock \in [Row -> Stock]
    BY <1>0, <1>1 DEF Job, TypeOK
<1>6. /\ snap(r)[r].avail = J.snap[r].avail \ {s}
      /\ \A q \in Row \ {r} : snap(r)[q] = J.snap[q]
      /\ stock'[r].avail = J.snap[r].avail \ {s}
      /\ \A q \in Row \ {r} : stock'[q] = stock[q]
    BY <1>2, <1>5 DEF Stock
<1> HIDE DEF snap, mine, next
<1>7. WorkOK(w) BY DEF SerialInv
<1>8. /\ \A q \in J.rows : J.snap[q].avail = stock[q].avail
      /\ \A t \in J.todo : \A q \in StocksOf(J.order, t) : t \in J.snap[q].avail
      /\ s \notin J.todo
      /\ \A q \in StocksOf(J.order, s) : Holders(q, s) \subseteq {J.order}
    BY <1>0, <1>7 DEF WorkOK, Copies
<1>9. \A q, t : Holders(q, t)' = Holders(q, t)
    BY DEF RemoveSubnet, Holders
<1>10. \A v \in Worker \ {w} : WorkOK(v)'
    BY <1>1, <1>2, <1>6, <1>9, Frame
<1>11. WorkOK(w)'
    <2>1. \A q \in J.rows : snap(r)[q].avail = stock'[q].avail
        BY <1>1, <1>6, <1>8
    <2>2. \A t \in J.todo : \A q \in StocksOf(J.order, t) : t \in snap(r)[q].avail
        <3> SUFFICES ASSUME NEW t \in J.todo, NEW q \in StocksOf(J.order, t)
                     PROVE  t \in snap(r)[q].avail
            OBVIOUS
        <3>1. t \in J.snap[q].avail /\ t # s BY <1>8
        <3>2. q \in Row
            BY <1>0, <1>1, StockAssumption DEF StocksOf, Job
        <3> QED BY <1>6, <3>1, <3>2
    <2> QED BY <1>3, <1>4, <1>6, <1>8, <1>9, <2>1, <2>2 DEF WorkOK, Copies, Claiming
<1>12. HeldNotOffered'
    <2> SUFFICES ASSUME NEW q \in Row, NEW t \in stock'[q].avail, NEW p \in Holders(q, t)
                 PROVE  \E v \in Worker : /\ Claiming(v)'
                                          /\ job'[v].order = p
                                          /\ job'[v].subnet = t
                                          /\ q \in job'[v].left
        BY <1>9 DEF HeldNotOffered
    <2>1. t \in stock[q].avail BY <1>1, <1>6, <1>8
    <2>2. PICK v \in Worker : /\ Claiming(v) /\ job[v].order = p
                              /\ job[v].subnet = t /\ q \in job[v].left
        BY <2>1 DEF SerialInv, HeldNotOffered
    <2>3. CASE v = w BY <1>3, <1>4, <2>2, <2>3 DEF Claiming
    <2>4. CASE v # w
        <3>1. job'[v] = job[v] BY <1>0, <1>2, <2>4
        <3> QED BY <2>2, <3>1 DEF Claiming
    <2> QED BY <2>3, <2>4
<1>13. SoldOnce' BY <1>9 DEF SerialInv, SoldOnce
<1> QED BY <1>10, <1>11, <1>12, <1>13 DEF SerialInv

(* The second save of a row writes what the row offers already, and it is  *)
(* the step at which the delivery is done with the row.                    *)
LEMMA SaveCountersSerial ==
    ASSUME SerialInv, TypeOK', Apart', NEW w \in Worker, SaveCounters(w)
    PROVE  SerialInv'
<1> DEFINE J == job[w]
           s == J.subnet
           r == J.row
           rest == J.left \ {r}
           done == J.got >= J.need \/ J.todo = {}
           j == [J EXCEPT !.left = rest, !.row = NoRow,
                          !.pc = IF rest # {} THEN "save"
                                 ELSE IF done THEN "finish" ELSE "next"]
<1>0. job \in [Worker -> Job] /\ J \in Job /\ TypeOK /\ J.pc = "count" /\ Claiming(w)
    BY DEF SerialInv, TypeOK, SaveCounters, Claiming
<1>1. /\ job' = [job EXCEPT ![w] = j] /\ stock' = [stock EXCEPT ![r] = J.snap[r]]
      /\ proxies' = proxies
    BY DEF SaveCounters
<1>2. /\ j.pc \in {"save", "finish", "next"} /\ (rest # {} <=> j.pc = "save")
      /\ j.rows = J.rows /\ j.snap = J.snap /\ j.order = J.order
      /\ j.todo = J.todo /\ j.subnet = s /\ j.left = rest
    BY <1>0 DEF Job
<1>3. job'[w] = j BY <1>0, <1>1
<1> HIDE DEF j
<1>4. /\ J.order \in Order /\ s \in Subnet /\ J.rows \subseteq Row
      /\ J.left \subseteq J.rows /\ r \in J.left
    BY <1>0, JobPlaces DEF JobOK
<1>5. WorkOK(w) BY DEF SerialInv
<1>6. /\ \A q \in J.rows : J.snap[q].avail = stock[q].avail
      /\ \A t \in J.todo : \A q \in StocksOf(J.order, t) : t \in J.snap[q].avail
      /\ s \notin J.todo /\ s \notin J.snap[r].avail
      /\ \A q \in StocksOf(J.order, s) : Holders(q, s) \subseteq {J.order}
    BY <1>0, <1>5 DEF WorkOK, Copies
<1>7. \A q \in Row : stock'[q].avail = stock[q].avail
    BY <1>0, <1>1, <1>4, <1>6 DEF TypeOK
<1>8. \A q, t : Holders(q, t)' = Holders(q, t) BY <1>1 DEF Holders
<1>9. \A v \in Worker \ {w} : WorkOK(v)'
    BY <1>1, <1>7, <1>8, Frame
<1>10. WorkOK(w)'
    <2>1. \A q \in J.rows : J.snap[q].avail = stock'[q].avail
        BY <1>4, <1>6, <1>7
    <2> QED BY <1>2, <1>3, <1>6, <1>8, <2>1 DEF WorkOK, Copies, Claiming
<1>11. HeldNotOffered'
    <2> SUFFICES ASSUME NEW q \in Row, NEW t \in stock'[q].avail, NEW p \in Holders(q, t)
                 PROVE  \E v \in Worker : /\ Claiming(v)'
                                          /\ job'[v].order = p
                                          /\ job'[v].subnet = t
                                          /\ q \in job'[v].left
        BY <1>8 DEF HeldNotOffered
    <2>1. t \in stock[q].avail BY <1>7
    <2>2. PICK v \in Worker : /\ Claiming(v) /\ job[v].order = p
                              /\ job[v].subnet = t /\ q \in job[v].left
        BY <2>1 DEF SerialInv, HeldNotOffered
    <2>3. CASE v = w
        <3>1. q # r BY <1>4, <1>6, <2>1, <2>2, <2>3
        <3> QED BY <1>2, <1>3, <2>2, <2>3, <3>1 DEF Claiming
    <2>4. CASE v # w
        <3>1. job'[v] = job[v] BY <1>0, <1>1, <2>4
        <3> QED BY <2>2, <3>1 DEF Claiming
    <2> QED BY <2>3, <2>4
<1>12. SoldOnce' BY <1>8 DEF SerialInv, SoldOnce
<1> QED BY <1>9, <1>10, <1>11, <1>12 DEF SerialInv

(* A return gives a row back only a subnet that had no holder on it when   *)
(* the task looked, and nobody else works on the row since.                *)
LEMMA ReturnSerial ==
    ASSUME SerialInv, TypeOK', Apart', NEW w \in Worker, ReturnStep(w)
    PROVE  SerialInv'
<1> DEFINE J == job[w]
           s == J.subnet
<1>0. job \in [Worker -> Job] /\ J \in Job /\ TypeOK /\ JobOK(J) /\ WorkOK(w)
    BY DEF SerialInv, TypeOK
<1>1. /\ ~Claiming(w) /\ J.pc \in {"holders", "give", "giving"} /\ proxies' = proxies
      /\ \A q, t : Holders(q, t)' = Holders(q, t)
    BY DEF ReturnStep, CheckHolders, TryRowLock, GiveBack, Claiming, Holders
<1>2. /\ J.rows \subseteq Row /\ J.left \subseteq J.rows /\ Copies(J) \subseteq J.rows
      /\ s \in Subnet
    BY <1>0, <1>1, ClaimType, JobPlaces DEF JobOK
<1>3. \A q \in Copies(J) : J.snap[q].avail = stock[q].avail BY <1>0 DEF WorkOK
<1>4. ASSUME CheckHolders(w) PROVE SerialInv'
    <2> DEFINE free == {r \in J.rows : Holders(r, s) = {}}
               k == [J EXCEPT !.pc = "give", !.left = free]
    <2>1. /\ stock' = stock /\ J.pc = "holders"
          /\ job' = [job EXCEPT ![w] = IF free = {} THEN Idle ELSE k]
        BY <1>4 DEF CheckHolders
    <2>2. CASE free = {}
        <3>1. job' = [job EXCEPT ![w] = Idle] BY <2>1, <2>2
        <3>2. WorkOK(w)' BY <1>0, <3>1, IdleWork
        <3> QED BY <1>1, <2>1, <3>1, <3>2, QuietStep
    <2>3. CASE free # {}
        <3>1. job' = [job EXCEPT ![w] = k] BY <2>1, <2>3
        <3>2. k.pc = "give" /\ k.left = free /\ k.snap = J.snap /\ k.subnet = s
            BY <1>0 DEF Job
        <3>3. job'[w] = k BY <1>0, <3>1
        <3> HIDE DEF k
        <3>4. \A q \in free : k.snap[q].avail = stock'[q].avail
            BY <1>3, <2>1, <3>2 DEF Copies
        <3>5. WorkOK(w)'
            BY <1>1, <3>2, <3>3, <3>4 DEF WorkOK, Copies, Claiming
        <3> QED BY <1>1, <2>1, <3>1, <3>5, QuietStep
    <2> QED BY <2>2, <2>3
<1>5. ASSUME NEW r \in J.left, J.pc \in {"give", "giving"},
             job' = [job EXCEPT ![w] = AfterRow(J, r)],
             \A q \in J.left \ {r} : stock'[q].avail = stock[q].avail
      PROVE  WorkOK(w)'
    <2>1. CASE J.left = {r}
        <3>1. job'[w] = Idle BY <1>0, <1>5, <2>1 DEF AfterRow
        <3> QED BY <3>1, IdleWork
    <2>2. CASE J.left # {r}
        <3> DEFINE k == [J EXCEPT !.pc = "give", !.left = J.left \ {r}, !.row = NoRow]
        <3>1. job'[w] = k BY <1>0, <1>5, <2>2 DEF AfterRow
        <3>2. k.pc = "give" /\ k.left = J.left \ {r} /\ k.snap = J.snap /\ k.subnet = s
            BY <1>0 DEF Job
        <3> HIDE DEF k
        <3>3. \A q \in k.left : k.snap[q].avail = stock'[q].avail
            BY <1>3, <1>5, <3>2 DEF Copies
        <3>4. \A q \in J.left : Holders(q, s) = {} BY <1>0, <1>5 DEF WorkOK
        <3> QED BY <1>1, <3>1, <3>2, <3>3, <3>4 DEF WorkOK, Copies, Claiming
    <2> QED BY <2>1, <2>2
<1>6. ASSUME TryRowLock(w) PROVE SerialInv'
    <2>1. stock' = stock /\ J.pc = "give" BY <1>6 DEF TryRowLock
    <2>2. PICK r \in J.left :
              \/ job' = [job EXCEPT ![w] = [J EXCEPT !.pc = "giving", !.row = r]]
              \/ job' = [job EXCEPT ![w] = AfterRow(J, r)]
        BY <1>6 DEF TryRowLock
    <2>3. CASE job' = [job EXCEPT ![w] = AfterRow(J, r)]
        <3>1. WorkOK(w)' BY <1>5, <2>1, <2>3
        <3> QED BY <1>1, <2>1, <2>3, <3>1, QuietStep
    <2>4. CASE job' = [job EXCEPT ![w] = [J EXCEPT !.pc = "giving", !.row = r]]
        <3> DEFINE k == [J EXCEPT !.pc = "giving", !.row = r]
        <3>1. k.pc = "giving" /\ k.left = J.left /\ k.snap = J.snap /\ k.subnet = s
            BY <1>0 DEF Job
        <3>2. job'[w] = k BY <1>0, <2>4
        <3> HIDE DEF k
        <3>3. /\ \A q \in J.left : Holders(q, s) = {}
              /\ \A q \in J.left : J.snap[q].avail = stock'[q].avail
            BY <1>0, <1>3, <2>1 DEF WorkOK, Copies
        <3>4. WorkOK(w)' BY <1>1, <3>1, <3>2, <3>3 DEF WorkOK, Copies, Claiming
        <3> QED BY <1>1, <2>1, <2>4, <3>4, QuietStep
    <2> QED BY <2>2, <2>3, <2>4
<1>7. ASSUME GiveBack(w) PROVE SerialInv'
    <2> DEFINE r == J.row
    <2>1. J.pc = "giving" BY <1>7 DEF GiveBack
    <2>2. r \in J.left /\ r \in Row BY <1>0, <1>2, <2>1 DEF JobOK
    <2>3. Holders(r, s) = {} BY <1>0, <2>1, <2>2 DEF WorkOK
    <2>4. /\ \A q \in Row \ {r} : stock'[q].avail = stock[q].avail
          /\ stock'[r].avail \subseteq stock[r].avail \cup {s}
        <3>1. J.snap[r].avail = stock[r].avail /\ J.snap[r] \in Stock
            BY <1>0, <1>3, <2>1, <2>2 DEF Copies, Job
        <3>2. stock \in [Row -> Stock] BY <1>0 DEF TypeOK
        <3>3. CASE stock' = stock BY <3>3
        <3>4. CASE stock' = [stock EXCEPT ![r] =
                       [J.snap[r] EXCEPT !.avail = J.snap[r].avail \cup {s}]]
            BY <2>2, <3>1, <3>2, <3>4 DEF Stock
        <3> QED BY <1>7, <3>3, <3>4 DEF GiveBack
    <2>5. PICK k : job' = [job EXCEPT ![w] = k] /\ k \in {Idle, AfterRow(J, r)}
        BY <1>7 DEF GiveBack
    <2>6. job'[w] = k BY <1>0, <2>5
    <2>7. WorkOK(w)'
        <3>1. CASE k = Idle BY <2>6, <3>1, IdleWork
        <3>2. CASE k = AfterRow(J, r)
            <4>1. \A q \in J.left \ {r} : stock'[q].avail = stock[q].avail
                BY <1>2, <2>4
            <4> QED BY <1>5, <2>1, <2>2, <2>5, <3>2, <4>1
        <3> QED BY <2>5, <3>1, <3>2
    <2>8. \A v \in Worker \ {w} : WorkOK(v)'
        BY <1>1, <1>2, <2>2, <2>4, <2>5, Frame
    <2>9. HeldNotOffered'
        <3> SUFFICES ASSUME NEW q \in Row, NEW t \in stock'[q].avail, NEW p \in Holders(q, t)
                     PROVE  \E v \in Worker : /\ Claiming(v)'
                                              /\ job'[v].order = p
                                              /\ job'[v].subnet = t
                                              /\ q \in job'[v].left
            BY <1>1 DEF HeldNotOffered
        <3>1. t \in stock[q].avail BY <2>3, <2>4
        <3>2. PICK v \in Worker : /\ Claiming(v) /\ job[v].order = p
                                  /\ job[v].subnet = t /\ q \in job[v].left
            BY <3>1 DEF SerialInv, HeldNotOffered
        <3>3. job'[v] = job[v] BY <1>0, <1>1, <2>5, <3>2
        <3> QED BY <3>2, <3>3 DEF Claiming
    <2>10. SoldOnce' BY <1>1 DEF SerialInv, SoldOnce
    <2> QED BY <2>7, <2>8, <2>9, <2>10 DEF SerialInv
<1> QED BY <1>4, <1>6, <1>7 DEF ReturnStep

(* Saving copies that are what the table has changes nothing on offer. *)
LEMMA SaveSerial ==
    ASSUME SerialInv, TypeOK', Apart', NEW w \in Worker,
           CommitExclude(w) \/ SaveRefresh(w)
    PROVE  SerialInv'
<1>1. /\ job \in [Worker -> Job] /\ ~Claiming(w) /\ proxies' = proxies
      /\ job' = [job EXCEPT ![w] = Idle]
      /\ stock' = [r \in Row |-> IF r \in job[w].rows THEN job[w].snap[r] ELSE stock[r]]
    BY DEF SerialInv, TypeOK, CommitExclude, SaveRefresh, SaveCopies, Claiming
<1>2. \A r \in job[w].rows : job[w].snap[r].avail = stock[r].avail
    BY DEF SerialInv, WorkOK, CommitExclude, SaveRefresh, Copies
<1>3. \A r \in Row : stock'[r].avail = stock[r].avail BY <1>1, <1>2
<1>4. WorkOK(w)' BY <1>1, IdleWork
<1> QED BY <1>1, <1>3, <1>4, QuietStep

(* Steps that leave the rows and the jobs alone and create no proxy: a     *)
(* deletion, the timeout of a key or a lock, a stuttering step.            *)
LEMMA QuietEnvironment ==
    ASSUME SerialInv, TypeOK', stock' = stock, job' = job,
           \A o \in Order, s \in Subnet : proxies'[o][s] > 0 => proxies[o][s] > 0
    PROVE  SerialInv'
<1>1. \A r : \A s \in Subnet : Holders(r, s)' \subseteq Holders(r, s)
    BY DEF Holders
<1>2. Apart' BY DEF SerialInv, Apart
<1>3. \A w \in Worker : WorkOK(w)'
    <2> SUFFICES ASSUME NEW w \in Worker PROVE WorkOK(w)'
        OBVIOUS
    <2>1. WorkOK(w) /\ TypeOK BY DEF SerialInv
    <2>2. /\ Claiming(w) => job[w].subnet \in Subnet
          /\ job[w].pc \in {"give", "giving"} => job[w].subnet \in Subnet
        BY <2>1, JobPlaces
    <2> QED BY <1>1, <2>1, <2>2 DEF WorkOK, Copies, Claiming
<1>4. HeldNotOffered'
    <2>1. \A r \in Row : stock[r].avail \subseteq Subnet
        BY DEF SerialInv, TypeOK, SubnetsOf
    <2> QED BY <1>1, <2>1 DEF SerialInv, HeldNotOffered, Claiming
<1>5. SoldOnce' BY <1>1 DEF SerialInv, SoldOnce
<1> QED BY <1>2, <1>3, <1>4, <1>5 DEF SerialInv

(* SerialInv is inductive. *)
LEMMA SerialStep ==
    ASSUME SerialInv, [SerialNext]_vars
    PROVE  SerialInv'
<1>0. TypeOK BY DEF SerialInv
<1>1. CASE UNCHANGED vars
    <2>1. TypeOK' BY <1>0, <1>1, TypeStep DEF vars
    <2> QED BY <1>1, <2>1, QuietEnvironment DEF vars
<1>2. CASE SerialNext
    <2>1. TypeOK' BY <1>0, <1>2, TypeStep DEF SerialNext
    <2>2. Apart' BY <1>2 DEF SerialNext
    <2>3. ASSUME NEW w \in Worker, Start(w) PROVE SerialInv'
        BY <2>1, <2>2, <2>3, StartSerial
    <2>4. ASSUME NEW w \in Worker, DeliveryStep(w) PROVE SerialInv'
        BY <2>1, <2>2, <2>4, PlanSerial, CreateUserSerial, CreateProxySerial,
           RemoveSubnetSerial, SaveCountersSerial DEF DeliveryStep
    <2>5. ASSUME NEW w \in Worker, ReturnStep(w) PROVE SerialInv'
        BY <2>1, <2>2, <2>5, ReturnSerial
    <2>6. ASSUME NEW w \in Worker, CommitExclude(w) \/ SaveRefresh(w) PROVE SerialInv'
        BY <2>1, <2>2, <2>6, SaveSerial
    <2>7. CASE Environment
        <3>1. ASSUME NEW w \in Worker, Crash(w) PROVE FALSE
            BY <1>0, <1>2, <3>1 DEF SerialNext, Crash, TypeOK
        <3>2. ASSUME NEW o \in Order, NEW s \in Subnet, DeleteProxy(o, s) PROVE SerialInv'
            <4>1. stock' = stock /\ job' = job BY <3>2 DEF DeleteProxy
            <4>2. \A p \in Order, t \in Subnet : proxies'[p][t] > 0 => proxies[p][t] > 0
                BY <1>0, <3>2 DEF DeleteProxy, TypeOK
            <4> QED BY <2>1, <4>1, <4>2, QuietEnvironment
        <3>3. ASSUME NEW o \in Order, DeleteOrderProxies(o) PROVE SerialInv'
            <4>1. stock' = stock /\ job' = job BY <3>3 DEF DeleteOrderProxies
            <4>2. \A p \in Order, t \in Subnet : proxies'[p][t] > 0 => proxies[p][t] > 0
                BY <1>0, <3>3 DEF DeleteOrderProxies, TypeOK
            <4> QED BY <2>1, <4>1, <4>2, QuietEnvironment
        <3>4. ASSUME NEW c \in Claims, KeyExpires(c) PROVE SerialInv'
            BY <2>1, <3>4, QuietEnvironment DEF KeyExpires
        <3>5. ASSUME NEW r \in Row, RowLockExpires(r) PROVE SerialInv'
            BY <2>1, <3>5, QuietEnvironment DEF RowLockExpires
        <3> QED BY <2>7, <3>1, <3>2, <3>3, <3>4, <3>5 DEF Environment
    <2> QED BY <1>2, <2>3, <2>4, <2>5, <2>6, <2>7 DEF SerialNext, Next, JobStep
<1> QED BY <1>1, <1>2

(* Initially no worker has read a row and no proxy exists. *)
LEMMA SerialInit == Init => SerialInv
<1> SUFFICES ASSUME Init PROVE SerialInv
    OBVIOUS
<1>1. TypeOK BY TypeInit
<1>2. \A w \in Worker : job[w] = Idle BY DEF Init
<1>3. Apart /\ \A w \in Worker : WorkOK(w)
    BY <1>2 DEF Apart, WorkOK, Copies, Claiming, Idle
<1>4. \A r \in Row, s \in Subnet : Holders(r, s) = {} BY DEF Holders, Init
<1>5. SoldOnce BY <1>4 DEF SoldOnce
<1>6. HeldNotOffered BY <1>1, <1>4 DEF HeldNotOffered, TypeOK, SubnetsOf
<1> QED BY <1>1, <1>3, <1>5, <1>6 DEF SerialInv

(* Jobs on common rows that do not overlap, and no process that dies, keep *)
(* SerialInv: no delivery of create_proxy_by_order_obj and no return of    *)
(* stock_return_task ever works on a stale copy of a stock row.            *)
THEOREM SerialCorrect == SerialSpec => []SerialInv
<1>1. Init => SerialInv BY SerialInit
<1>2. SerialInv /\ [SerialNext]_vars => SerialInv' BY SerialStep
<1> QED BY <1>1, <1>2, PTL DEF SerialSpec

(* Then create_proxy_by_order_obj never gives one subnet of a stock row to *)
(* two orders, for any orders, access lists, quantities and answers of the *)
(* proxy server.                                                           *)
THEOREM SerialSoldOnce == SerialSpec => []SoldOnce
<1>1. SerialInv => SoldOnce BY DEF SerialInv
<1> QED BY <1>1, SerialCorrect, PTL

(* And no row offers a subnet whose proxies exist, whatever                *)
(* stock_return_task gives back and in whatever order.                     *)
THEOREM SerialHeldNotOffered == SerialSpec => []HeldNotOffered
<1>1. SerialInv => HeldNotOffered BY DEF SerialInv
<1> QED BY <1>1, SerialCorrect, PTL

-----------------------------------------------------------------------------
(* Steps that take no part in claims and returns.                          *)

(* The step replaces the job of one worker. *)
Moves(w) ==
    /\ job' = [job EXCEPT ![w] = job'[w]]
    /\ \A v \in Worker \ {w} : job'[v] = job[v]

LEMMA MovesBy ==
    ASSUME TypeOK, NEW w \in Worker, NEW j, job' = [job EXCEPT ![w] = j]
    PROVE  Moves(w) /\ job'[w] = j
BY DEF TypeOK, Moves

Working == {"create", "save", "count", "holders", "give", "giving"}

(* A step of a worker that neither claims nor returns a subnet. *)
Plain(w) ==
    /\ job[w].pc \notin Working /\ job'[w].pc \notin Working
    /\ Moves(w)
    /\ \A r \in Row : stock'[r].avail = stock[r].avail
    /\ UNCHANGED <<proxies, queued, rowLock, returnKey>>

LEMMA PlainSteps ==
    ASSUME SerialInv, NEW w \in Worker,
           \/ \E o \in Order : StartFull(w, o) \/ StartFill(w, o)
           \/ \E d \in Cidr, A \in SUBSET Acl : StartExclude(w, d, A)
           \/ \E r \in Row : StartRefresh(w, r)
           \/ AcquireLock(w) \/ ReadStock(w) \/ KaxyFails(w) \/ Finish(w)
           \/ CommitExclude(w) \/ SaveRefresh(w)
    PROVE  Plain(w)
<1>1. TypeOK /\ job[w] \in Job /\ WorkOK(w) BY DEF SerialInv, TypeOK
<1>2. ASSUME job[w].pc \notin Working, UNCHANGED <<stock, proxies, queued, rowLock, returnKey>>,
             NEW j, j.pc \notin Working, job' = [job EXCEPT ![w] = j]
      PROVE  Plain(w)
    <2>1. Moves(w) /\ job'[w] = j BY <1>1, <1>2, MovesBy
    <2> QED BY <1>2, <2>1 DEF Plain
<1>3. CASE \E o \in Order : StartFull(w, o) \/ StartFill(w, o)
    <2>1. PICK o \in Order : StartFull(w, o) \/ StartFill(w, o) BY <1>3
    <2>2. /\ [Idle EXCEPT !.pc = "lock", !.order = o].pc \notin Working
          /\ [Idle EXCEPT !.pc = "lock", !.order = o, !.fill = TRUE].pc \notin Working
        BY DEF Idle, Working
    <2>3. /\ job[w].pc \notin Working
          /\ UNCHANGED <<stock, proxies, queued, rowLock, returnKey>>
        BY <2>1 DEF StartFull, StartFill, Working
    <2> QED BY <1>2, <2>1, <2>2, <2>3 DEF StartFull, StartFill
<1>4. CASE \E d \in Cidr, A \in SUBSET Acl : StartExclude(w, d, A)
    <2>1. PICK d \in Cidr, A \in SUBSET Acl : StartExclude(w, d, A) BY <1>4
    <2>2. PICK R, snap : job' = [job EXCEPT ![w] = [Idle EXCEPT !.pc = "exclude",
                                                    !.rows = R, !.snap = snap]]
        BY <2>1 DEF StartExclude
    <2>3. [Idle EXCEPT !.pc = "exclude", !.rows = R, !.snap = snap].pc \notin Working
        BY DEF Idle, Working
    <2>4. /\ job[w].pc \notin Working
          /\ UNCHANGED <<stock, proxies, queued, rowLock, returnKey>>
        BY <2>1 DEF StartExclude, Working
    <2> QED BY <1>2, <2>2, <2>3, <2>4
<1>5. CASE \E r \in Row : StartRefresh(w, r)
    <2>1. PICK r \in Row : StartRefresh(w, r) BY <1>5
    <2>2. [Idle EXCEPT !.pc = "resave", !.rows = {r}, !.snap = Read({r})].pc \notin Working
        BY DEF Idle, Working
    <2>3. /\ job[w].pc \notin Working
          /\ UNCHANGED <<stock, proxies, queued, rowLock, returnKey>>
        BY <2>1 DEF StartRefresh, Working
    <2> QED BY <1>2, <2>1, <2>2, <2>3 DEF StartRefresh
<1>6. CASE AcquireLock(w) \/ ReadStock(w)
    <2>1. /\ job[w].pc \notin Working
          /\ UNCHANGED <<stock, proxies, queued, rowLock, returnKey>>
        BY <1>6 DEF AcquireLock, ReadStock, Working
    <2>2. Idle.pc \notin Working BY DEF Idle, Working
    <2>3. /\ \A n : [job[w] EXCEPT !.pc = "read", !.need = n].pc \notin Working
          /\ \A R, snap, todo : [job[w] EXCEPT !.pc = "next", !.rows = R, !.snap = snap,
                                               !.todo = todo].pc \notin Working
        BY <1>1 DEF Job, Working
    <2>4. \/ job' = [job EXCEPT ![w] = Idle]
          \/ \E n : job' = [job EXCEPT ![w] = [job[w] EXCEPT !.pc = "read", !.need = n]]
          \/ \E R, snap, todo : job' = [job EXCEPT ![w] = [job[w] EXCEPT !.pc = "next",
                                         !.rows = R, !.snap = snap, !.todo = todo]]
        <3>1. CASE AcquireLock(w) BY <3>1 DEF AcquireLock
        <3>2. CASE ReadStock(w) BY <3>2 DEF ReadStock
        <3> QED BY <1>6, <3>1, <3>2
    <2>5. CASE job' = [job EXCEPT ![w] = Idle] BY <1>2, <2>1, <2>2, <2>5
    <2>6. ASSUME NEW n, job' = [job EXCEPT ![w] = [job[w] EXCEPT !.pc = "read", !.need = n]]
          PROVE  Plain(w)
        BY <1>2, <2>1, <2>3, <2>6
    <2>7. ASSUME NEW R, NEW snap, NEW todo, job' = [job EXCEPT ![w] = [job[w] EXCEPT
                     !.pc = "next", !.rows = R, !.snap = snap, !.todo = todo]]
          PROVE  Plain(w)
        BY <1>2, <2>1, <2>3, <2>7
    <2> QED BY <2>4, <2>5, <2>6, <2>7
<1>8. CASE KaxyFails(w) \/ Finish(w)
    <2>1. Idle.pc \notin Working BY DEF Idle, Working
    <2>2. /\ job[w].pc \notin Working /\ job' = [job EXCEPT ![w] = Idle]
          /\ UNCHANGED <<stock, proxies, queued, rowLock, returnKey>>
        BY <1>8 DEF KaxyFails, Finish, Working
    <2> QED BY <1>2, <2>1, <2>2
<1>9. CASE CommitExclude(w) \/ SaveRefresh(w)
    <2>1. /\ job[w].pc \in {"exclude", "resave"} /\ job' = [job EXCEPT ![w] = Idle]
          /\ stock' = [r \in Row |-> IF r \in job[w].rows THEN job[w].snap[r] ELSE stock[r]]
          /\ UNCHANGED <<proxies, queued, rowLock, returnKey>>
        BY <1>9 DEF CommitExclude, SaveRefresh, SaveCopies
    <2>2. \A r \in job[w].rows : job[w].snap[r].avail = stock[r].avail
        BY <1>1, <2>1 DEF WorkOK, Copies
    <2>3. \A r \in Row : stock'[r].avail = stock[r].avail BY <2>1, <2>2
    <2>4. Moves(w) /\ job'[w] = Idle BY <1>1, <2>1, MovesBy
    <2>5. job'[w].pc = "idle" BY <2>4 DEF Idle
    <2> QED BY <2>1, <2>3, <2>4, <2>5 DEF Plain, Working
<1> QED BY <1>3, <1>4, <1>5, <1>6, <1>8, <1>9

-----------------------------------------------------------------------------
(* What the steps of a delivery do to its subnet.                          *)

LEMMA CreateUserMove ==
    ASSUME SerialInv, NEW w \in Worker, CreateUser(w)
    PROVE  LET J == job[w]
               K == job'[w] IN
           /\ UNCHANGED <<stock, excludeAcl, proxies, queued, rowLock, returnKey>>
           /\ Moves(w) /\ J.pc = "next" /\ J.order \in Order
           /\ K.pc = "create" \/ (K.pc = "save" /\ 0 \in KaxyAnswers)
           /\ K.subnet \in Subnet /\ K.left = StocksOf(K.order, K.subnet)
           /\ K.order = J.order /\ K.rows = J.rows /\ K.snap = J.snap
           /\ StocksOf(K.order, K.subnet) \subseteq J.rows
           /\ \A r \in StocksOf(K.order, K.subnet) : K.subnet \in stock[r].avail
<1> DEFINE J == job[w]
           K == job'[w]
<1>1. /\ TypeOK /\ J \in Job /\ JobOK(J) /\ WorkOK(w) /\ J.pc = "next"
      /\ UNCHANGED <<stock, excludeAcl, proxies, queued, rowLock, returnKey>>
    BY DEF SerialInv, TypeOK, CreateUser
<1>2. PICK s \in J.todo, n \in KaxyAnswers :
          job' = [job EXCEPT ![w] = [J EXCEPT
                     !.pc = IF n > 0 THEN "create" ELSE "save",
                     !.todo = J.todo \ {s}, !.subnet = s, !.making = n,
                     !.left = StocksOf(J.order, s)]]
    BY DEF CreateUser
<1> DEFINE j == [J EXCEPT !.pc = IF n > 0 THEN "create" ELSE "save",
                     !.todo = J.todo \ {s}, !.subnet = s, !.making = n,
                     !.left = StocksOf(J.order, s)]
<1>3. /\ s \in Subnet /\ J.order \in Order /\ J.rows = RowsOf(J.order)
      /\ J.rows \subseteq Row /\ n \in Nat
    BY <1>1, StockAssumption DEF Job, JobOK
<1>4. StocksOf(J.order, s) \subseteq J.rows
    BY <1>1, <1>3 DEF JobOK, StocksOf, RowsOf
<1>5. /\ j.pc = IF n > 0 THEN "create" ELSE "save"
      /\ j.order = J.order /\ j.subnet = s /\ j.left = StocksOf(J.order, s)
      /\ j.rows = J.rows /\ j.snap = J.snap
    BY <1>1 DEF Job
<1>6. Moves(w) /\ K = j BY <1>1, <1>2, MovesBy
<1>7. \A r \in StocksOf(J.order, s) : s \in stock[r].avail
    BY <1>1, <1>4 DEF WorkOK, Copies
<1>8. n > 0 \/ n = 0 BY <1>3
<1> HIDE DEF j
<1> QED BY <1>1, <1>3, <1>4, <1>5, <1>6, <1>7, <1>8

LEMMA CreateProxyMove ==
    ASSUME SerialInv, NEW w \in Worker, CreateProxy(w)
    PROVE  LET J == job[w]
               K == job'[w] IN
           /\ UNCHANGED <<stock, excludeAcl, queued, rowLock, returnKey>>
           /\ Moves(w) /\ J.pc = "create" /\ J.order \in Order /\ J.subnet \in Subnet
           /\ J.left = StocksOf(J.order, J.subnet)
           /\ proxies' = [proxies EXCEPT ![J.order][J.subnet] = @ + 1]
           /\ K.pc \in {"create", "save"} /\ K.order = J.order
           /\ K.subnet = J.subnet /\ K.left = J.left
           /\ K.rows = J.rows /\ K.snap = J.snap
<1> DEFINE J == job[w]
           K == job'[w]
           j == [J EXCEPT !.got = J.got + 1, !.making = J.making - 1,
                          !.pc = IF J.making = 1 THEN "save" ELSE "create"]
<1>1. /\ TypeOK /\ J \in Job /\ JobOK(J) /\ WorkOK(w) /\ J.pc = "create"
      /\ UNCHANGED <<stock, excludeAcl, queued, rowLock, returnKey>>
      /\ job' = [job EXCEPT ![w] = j]
      /\ proxies' = [proxies EXCEPT ![J.order][J.subnet] = @ + 1]
    BY DEF SerialInv, TypeOK, CreateProxy
<1>2. /\ j.pc \in {"create", "save"} /\ j.rows = J.rows /\ j.snap = J.snap
      /\ j.order = J.order /\ j.subnet = J.subnet /\ j.left = J.left
    BY <1>1 DEF Job
<1> HIDE DEF j
<1>3. Moves(w) /\ K = j BY <1>1, MovesBy
<1> QED BY <1>1, <1>2, <1>3 DEF JobOK, WorkOK

LEMMA RemoveSubnetMove ==
    ASSUME SerialInv, NEW w \in Worker, RemoveSubnet(w)
    PROVE  LET J == job[w]
               K == job'[w]
               r == K.row IN
           /\ UNCHANGED <<excludeAcl, proxies, queued, rowLock, returnKey>>
           /\ Moves(w) /\ J.pc = "save" /\ r \in J.left /\ r \in Row
           /\ stock'[r].avail = stock[r].avail \ {J.subnet}
           /\ stock'[r].excluded = J.snap[r].excluded
           /\ \A q \in Row \ {r} : stock'[q] = stock[q]
           /\ K.pc = "count" /\ K.order = J.order /\ K.subnet = J.subnet
           /\ K.left = J.left /\ K.rows = J.rows
           /\ \A q \in Row : K.snap[q].excluded = J.snap[q].excluded
<1> DEFINE J == job[w]
           K == job'[w]
           mine(r) == [J.snap[r] EXCEPT !.avail = J.snap[r].avail \ {J.subnet}]
           next(r) == [J EXCEPT !.pc = "count", !.row = r,
                                !.snap = [J.snap EXCEPT ![r] = mine(r)]]
<1>1. /\ TypeOK /\ J \in Job /\ JobOK(J) /\ WorkOK(w) /\ J.pc = "save"
      /\ J.left \subseteq J.rows /\ J.rows \subseteq Row
      /\ UNCHANGED <<excludeAcl, proxies, queued, rowLock, returnKey>>
      /\ stock \in [Row -> Stock]
    BY JobPlaces DEF SerialInv, TypeOK, RemoveSubnet, Claiming
<1>2. PICK r \in J.left : /\ stock' = [stock EXCEPT ![r] = mine(r)]
                          /\ job' = [job EXCEPT ![w] = next(r)]
    BY DEF RemoveSubnet
<1>3. J.snap[r] \in Stock /\ J.snap[r].avail = stock[r].avail /\ r \in Row
    BY <1>1 DEF Job, WorkOK, Copies
<1>4. /\ mine(r) \in Stock /\ mine(r).avail = stock[r].avail \ {J.subnet}
      /\ mine(r).excluded = J.snap[r].excluded
    BY <1>3 DEF Stock
<1> HIDE DEF mine
<1>5. /\ stock'[r] = mine(r) /\ \A q \in Row \ {r} : stock'[q] = stock[q]
    BY <1>1, <1>2, <1>3
<1>6. /\ next(r).pc = "count" /\ next(r).rows = J.rows /\ next(r).order = J.order
      /\ next(r).subnet = J.subnet /\ next(r).left = J.left /\ next(r).row = r
      /\ next(r).snap = [J.snap EXCEPT ![r] = mine(r)]
    BY <1>1 DEF Job
<1> HIDE DEF next
<1>7. \A q \in Row : next(r).snap[q].excluded = J.snap[q].excluded
    BY <1>1, <1>3, <1>4, <1>6 DEF Job
<1>8. Moves(w) /\ K = next(r) BY <1>1, <1>2, MovesBy
<1>9. K.row = r BY <1>6, <1>8
<1>10. /\ stock'[K.row].avail = stock[K.row].avail \ {J.subnet}
       /\ stock'[K.row].excluded = J.snap[K.row].excluded
       /\ \A q \in Row \ {K.row} : stock'[q] = stock[q]
    BY <1>4, <1>5, <1>9
<1> QED BY <1>1, <1>3, <1>6, <1>7, <1>8, <1>9, <1>10

LEMMA SaveCountersMove ==
    ASSUME SerialInv, NEW w \in Worker, SaveCounters(w)
    PROVE  LET J == job[w]
               K == job'[w] IN
           /\ UNCHANGED <<excludeAcl, proxies, queued, rowLock, returnKey>>
           /\ Moves(w) /\ J.pc = "count" /\ J.row \in J.left /\ J.row \in Row
           /\ \A r \in Row : stock'[r].avail = stock[r].avail
           /\ stock'[J.row].excluded = J.snap[J.row].excluded
           /\ \A r \in Row \ {J.row} : stock'[r] = stock[r]
           /\ J.subnet \notin stock[J.row].avail
           /\ K.order = J.order /\ K.subnet = J.subnet /\ K.rows = J.rows
           /\ K.left = J.left \ {J.row} /\ K.snap = J.snap
           /\ K.pc \in {"save", "finish", "next"}
           /\ K.pc = "save" <=> K.left # {}
<1> DEFINE J == job[w]
           K == job'[w]
           r == J.row
           rest == J.left \ {r}
           done == J.got >= J.need \/ J.todo = {}
           j == [J EXCEPT !.left = rest, !.row = NoRow,
                          !.pc = IF rest # {} THEN "save"
                                 ELSE IF done THEN "finish" ELSE "next"]
<1>1. /\ TypeOK /\ J \in Job /\ JobOK(J) /\ WorkOK(w) /\ J.pc = "count"
      /\ J.left \subseteq J.rows /\ J.rows \subseteq Row
      /\ UNCHANGED <<excludeAcl, proxies, queued, rowLock, returnKey>>
      /\ stock \in [Row -> Stock] /\ stock' = [stock EXCEPT ![r] = J.snap[r]]
      /\ job' = [job EXCEPT ![w] = j]
    BY JobPlaces DEF SerialInv, TypeOK, SaveCounters, Claiming
<1>2. r \in J.left /\ r \in Row BY <1>1 DEF JobOK
<1>3. J.snap[r].avail = stock[r].avail /\ J.subnet \notin stock[r].avail
    BY <1>1, <1>2 DEF WorkOK, Copies
<1>4. /\ \A q \in Row : stock'[q].avail = stock[q].avail
      /\ stock'[r].excluded = J.snap[r].excluded
      /\ \A q \in Row \ {r} : stock'[q] = stock[q]
    BY <1>1, <1>2, <1>3
<1>5. /\ j.pc = (IF rest # {} THEN "save" ELSE IF done THEN "finish" ELSE "next")
      /\ j.rows = J.rows /\ j.snap = J.snap /\ j.order = J.order
      /\ j.subnet = J.subnet /\ j.left = rest
    BY <1>1 DEF Job
<1> HIDE DEF j
<1>6. Moves(w) /\ K = j BY <1>1, MovesBy
<1> QED BY <1>1, <1>2, <1>3, <1>4, <1>5, <1>6

LEMMA CheckHoldersMove ==
    ASSUME SerialInv, NEW w \in Worker, CheckHolders(w)
    PROVE  LET J == job[w]
               K == job'[w]
               free == {r \in J.rows : Holders(r, J.subnet) = {}} IN
           /\ UNCHANGED <<stock, excludeAcl, proxies, queued, rowLock, returnKey>>
           /\ Moves(w) /\ J.pc = "holders" /\ J.subnet \in Subnet
           /\ \/ free = {} /\ K = Idle
              \/ /\ K.pc = "give" /\ K.left = free /\ K.rows = J.rows
                 /\ K.subnet = J.subnet /\ K.snap = J.snap
<1> DEFINE J == job[w]
           K == job'[w]
           free == {r \in J.rows : Holders(r, J.subnet) = {}}
           k == [J EXCEPT !.pc = "give", !.left = free]
<1>1. /\ TypeOK /\ J \in Job /\ JobOK(J) /\ J.pc = "holders"
      /\ UNCHANGED <<stock, excludeAcl, proxies, queued, rowLock, returnKey>>
      /\ job' = [job EXCEPT ![w] = IF free = {} THEN Idle ELSE k]
    BY DEF SerialInv, TypeOK, CheckHolders
<1>2. J.subnet \in Subnet BY <1>1, ClaimType DEF JobOK
<1>3. /\ k.pc = "give" /\ k.left = free /\ k.rows = J.rows
      /\ k.subnet = J.subnet /\ k.snap = J.snap
    BY <1>1 DEF Job
<1>4. Moves(w) /\ K = IF free = {} THEN Idle ELSE k BY <1>1, MovesBy
<1> HIDE DEF k
<1>5. CASE free = {} BY <1>1, <1>2, <1>4, <1>5
<1>6. CASE free # {} BY <1>1, <1>2, <1>3, <1>4, <1>6
<1> QED BY <1>5, <1>6

(* The task has read the rows of its claim. *)
LEMMA StartReturnMove ==
    ASSUME SerialInv, NEW w \in Worker, NEW c \in Claims, StartReturn(w, c)
    PROVE  LET K == job'[w] IN
           /\ UNCHANGED <<stock, excludeAcl, proxies, rowLock, returnKey>>
           /\ Moves(w) /\ job[w].pc = "idle" /\ queued[c] > 0
           /\ queued' = [queued EXCEPT ![c] = @ - 1]
           /\ K.pc = "holders" /\ K.rows = c[1] /\ K.subnet = c[2]
           /\ K.snap = Read(c[1])
<1> DEFINE j == [Idle EXCEPT !.pc = "holders", !.rows = c[1],
                             !.snap = Read(c[1]), !.subnet = c[2]]
<1>1. /\ j.pc = "holders" /\ j.rows = c[1] /\ j.subnet = c[2] /\ j.snap = Read(c[1])
    BY DEF Idle
<1>2. Moves(w) /\ job'[w] = j BY MovesBy DEF StartReturn, SerialInv
<1> HIDE DEF j
<1> QED BY <1>1, <1>2 DEF StartReturn

-----------------------------------------------------------------------------
(* The lock of a row is free unless its holder is writing that row.        *)

RowLocked ==
    /\ \A r \in Row : rowLock[r] # Free =>
          /\ rowLock[r] \in Worker
          /\ job[rowLock[r]].pc = "giving" /\ job[rowLock[r]].row = r
    /\ \A w \in Worker : job[w].pc = "giving" => rowLock[job[w].row] = w

(* A return finds the lock of its row free. *)
LEMMA LockFree ==
    ASSUME SerialInv, RowLocked, NEW w \in Worker, job[w].pc = "give",
           NEW r \in job[w].left
    PROVE  r \in Row /\ rowLock[r] = Free
<1>1. TypeOK /\ JobOK(job[w]) /\ r \in job[w].rows /\ r \in Row
    BY JobPlaces DEF SerialInv, TypeOK
<1>2. ASSUME rowLock[r] # Free PROVE FALSE
    <2> DEFINE v == rowLock[r]
    <2>1. v \in Worker /\ job[v].pc = "giving" /\ job[v].row = r
        BY <1>1, <1>2 DEF RowLocked
    <2>2. JobOK(job[v]) BY <1>1, <2>1 DEF TypeOK
    <2>3. r \in job[v].rows BY <2>1, <2>2 DEF JobOK
    <2> QED BY <1>1, <2>1, <2>3 DEF SerialInv, Apart
<1> QED BY <1>1, <1>2

(* What the steps of a return do. *)
LEMMA ReturnMoves ==
    ASSUME SerialInv, RowLocked, NEW w \in Worker, TryRowLock(w) \/ GiveBack(w)
    PROVE  LET J == job[w] IN
           /\ UNCHANGED <<excludeAcl, proxies, queued, returnKey>>
           /\ Moves(w) /\ J.subnet \in Subnet /\ J.left \subseteq Row
           /\ \/ /\ J.pc = "give" /\ stock' = stock
                 /\ \E r \in J.left :
                       /\ job' = [job EXCEPT ![w] = [J EXCEPT !.pc = "giving", !.row = r]]
                       /\ rowLock' = [rowLock EXCEPT ![r] = w]
              \/ /\ J.pc = "giving" /\ J.row \in J.left
                 /\ J.subnet \in SubnetsOf(J.row)
                 /\ job' = [job EXCEPT ![w] = AfterRow(J, J.row)]
                 /\ rowLock' = [rowLock EXCEPT ![J.row] = Free]
                 /\ stock'[J.row].avail = stock[J.row].avail \cup {J.subnet}
                 /\ stock'[J.row].excluded = J.snap[J.row].excluded
                       \/ stock'[J.row] = stock[J.row]
                 /\ \A q \in Row \ {J.row} : stock'[q] = stock[q]
<1> DEFINE J == job[w]
           s == J.subnet
<1>1. TypeOK /\ J \in Job /\ JobOK(J) /\ WorkOK(w) /\ stock \in [Row -> Stock]
    BY DEF SerialInv, TypeOK
<1>2. J.pc \in {"give", "giving"} BY DEF TryRowLock, GiveBack
<1>3. s \in Subnet /\ J.left \subseteq Row
    BY <1>1, <1>2, JobPlaces
<1>4. CASE TryRowLock(w)
    <2>1. \A q \in J.left : rowLock[q] = Free BY <1>4, LockFree DEF TryRowLock
    <2>2. PICK r \in J.left :
              /\ job' = [job EXCEPT ![w] = [J EXCEPT !.pc = "giving", !.row = r]]
              /\ rowLock' = [rowLock EXCEPT ![r] = w]
        BY <1>4, <2>1 DEF TryRowLock
    <2>3. Moves(w) BY <1>1, <2>2, MovesBy
    <2> QED BY <1>3, <1>4, <2>2, <2>3 DEF TryRowLock
<1>5. CASE GiveBack(w)
    <2> DEFINE r == J.row
    <2>1. J.pc = "giving" /\ r \in J.left /\ r \in Row
        BY <1>1, <1>3, <1>5 DEF GiveBack, JobOK
    <2>2. rowLock[r] = w BY <2>1 DEF RowLocked
    <2>3. J.snap[r] \in Stock /\ J.snap[r].avail = stock[r].avail
        BY <1>1, <2>1 DEF Job, WorkOK, Copies
    <2>4. s \in SubnetsOf(r)
        <3>1. <<J.rows, s>> \in Claims /\ r \in J.rows BY <1>1, <2>1 DEF JobOK
        <3>2. PICK o \in Order, t \in Subnet : <<J.rows, s>> = <<StocksOf(o, t), t>>
            BY <3>1 DEF Claims, Claim
        <3>3. r \in StocksOf(o, s) BY <3>1, <3>2
        <3> QED BY <1>3, <3>3 DEF StocksOf, SubnetsOf
    <2>5. /\ job' = [job EXCEPT ![w] = AfterRow(J, r)]
          /\ rowLock' = [rowLock EXCEPT ![r] = Free]
          /\ UNCHANGED <<excludeAcl, proxies, queued, returnKey>>
          /\ stock' = IF s \in J.snap[r].avail THEN stock
                      ELSE [stock EXCEPT ![r] = [J.snap[r] EXCEPT
                                                    !.avail = J.snap[r].avail \cup {s}]]
        BY <1>5, <2>2, <2>4 DEF GiveBack
    <2>6. /\ stock'[r].avail = stock[r].avail \cup {s}
          /\ stock'[r].excluded = J.snap[r].excluded \/ stock'[r] = stock[r]
          /\ \A q \in Row \ {r} : stock'[q] = stock[q]
        <3>1. CASE s \in J.snap[r].avail BY <2>3, <2>5, <3>1
        <3>2. CASE s \notin J.snap[r].avail BY <1>1, <2>1, <2>3, <2>5, <3>2 DEF Stock
        <3> QED BY <3>1, <3>2
    <2>7. Moves(w) BY <1>1, <2>5, MovesBy
    <2> QED BY <1>3, <2>1, <2>4, <2>5, <2>6, <2>7
<1> QED BY <1>4, <1>5

(* What a step of a worker may be, by what it does to claims and returns. *)
LEMMA SerialCases ==
    ASSUME SerialInv, NEW w \in Worker, Start(w) \/ JobStep(w)
    PROVE  \/ Plain(w)
           \/ \E c \in Claims : StartReturn(w, c)
           \/ CreateUser(w) \/ CreateProxy(w) \/ RemoveSubnet(w) \/ SaveCounters(w)
           \/ CheckHolders(w) \/ TryRowLock(w) \/ GiveBack(w)
BY PlainSteps DEF Start, JobStep, DeliveryStep, ReturnStep

(* What happens without a worker, and a stuttering step: deletions and the *)
(* timeouts of keys.  The locks of rows do not time out under a holder.    *)
LEMMA SerialEnvironment ==
    ASSUME SerialInv, RowLocked, SerialNext, Environment
    PROVE  /\ UNCHANGED <<stock, excludeAcl, job, rowLock>>
           /\ \/ proxies' = proxies /\ queued' = queued /\ returnKey' \subseteq returnKey
              \/ \E o \in Order, s \in Subnet : DeleteProxy(o, s)
              \/ \E o \in Order : DeleteOrderProxies(o)
<1>1. TypeOK /\ faults' = faults /\ faults \in Nat BY DEF SerialInv, TypeOK, SerialNext
<1>2. ASSUME NEW w \in Worker, Crash(w) PROVE FALSE BY <1>1, <1>2 DEF Crash
<1>3. ASSUME NEW r \in Row, RowLockExpires(r) PROVE FALSE
    <2>1. rowLock[r] # Orphan BY <1>3, StockAssumption DEF RowLockExpires, RowLocked
    <2> QED BY <1>1, <1>3, <2>1 DEF RowLockExpires
<1>4. CASE \E c \in Claims : KeyExpires(c) BY <1>4 DEF KeyExpires
<1>5. CASE \E o \in Order, s \in Subnet : DeleteProxy(o, s) BY <1>5 DEF DeleteProxy
<1>6. CASE \E o \in Order : DeleteOrderProxies(o) BY <1>6 DEF DeleteOrderProxies
<1> QED BY <1>2, <1>3, <1>4, <1>5, <1>6 DEF Environment

LEMMA RowLockedStep ==
    ASSUME SerialInv, RowLocked, [SerialNext]_vars
    PROVE  RowLocked'
<1>1. TypeOK /\ job \in [Worker -> Job] /\ rowLock \in [Row -> Worker \cup {Free, Orphan}]
    BY DEF SerialInv, TypeOK
<1>2. ASSUME rowLock' = rowLock, NEW w \in Worker, NEW j, job' = [job EXCEPT ![w] = j],
             job[w].pc # "giving", j.pc # "giving"
      PROVE  RowLocked'
    <2>1. job'[w] = j /\ \A v \in Worker \ {w} : job'[v] = job[v] BY <1>1, <1>2
    <2> QED BY <1>2, <2>1 DEF RowLocked
<1>3. ASSUME NEW w \in Worker, Plain(w) PROVE RowLocked'
    <2> QED BY <1>2, <1>3 DEF Plain, Moves, Working
<1>4. ASSUME NEW w \in Worker, NEW c \in Claims, StartReturn(w, c) PROVE RowLocked'
    <2>1. [Idle EXCEPT !.pc = "holders", !.rows = c[1], !.snap = Read(c[1]),
                       !.subnet = c[2]].pc = "holders"
        BY DEF Idle
    <2>2. job[w].pc = "idle" /\ rowLock' = rowLock BY <1>4 DEF StartReturn
    <2> QED BY <1>2, <1>4, <2>1, <2>2 DEF StartReturn
<1>5. ASSUME NEW w \in Worker,
             CreateUser(w) \/ CreateProxy(w) \/ RemoveSubnet(w) \/ SaveCounters(w)
      PROVE  RowLocked'
    <2>1. PICK j : job' = [job EXCEPT ![w] = j] /\ j.pc # "giving"
        <3>1. CASE CreateUser(w) BY <3>1, CreateUserMove DEF Moves
        <3>2. CASE CreateProxy(w) BY <3>2, CreateProxyMove DEF Moves
        <3>3. CASE RemoveSubnet(w) BY <3>3, RemoveSubnetMove DEF Moves
        <3>4. CASE SaveCounters(w) BY <3>4, SaveCountersMove DEF Moves
        <3> QED BY <1>5, <3>1, <3>2, <3>3, <3>4
    <2>2. rowLock' = rowLock /\ job[w].pc # "giving"
        BY <1>5 DEF CreateUser, CreateProxy, RemoveSubnet, SaveCounters
    <2> QED BY <1>2, <2>1, <2>2
<1>6. ASSUME NEW w \in Worker, CheckHolders(w) PROVE RowLocked'
    <2>1. PICK j : job' = [job EXCEPT ![w] = j] /\ j.pc # "giving"
        <3>1. Idle.pc = "idle" BY DEF Idle
        <3> QED BY <1>6, <3>1, CheckHoldersMove DEF Moves
    <2> QED BY <1>2, <1>6, <2>1 DEF CheckHolders
<1>7. ASSUME NEW w \in Worker, TryRowLock(w) \/ GiveBack(w) PROVE RowLocked'
    <2> DEFINE J == job[w]
    <2>0. J \in Job /\ J.left \subseteq Row /\ \A v \in Worker : job[v] \in Job
        BY <1>1, <1>7, ReturnMoves
    <2>1. ASSUME NEW r \in J.left, rowLock' = [rowLock EXCEPT ![r] = w], J.pc = "give",
                 job' = [job EXCEPT ![w] = [J EXCEPT !.pc = "giving", !.row = r]]
          PROVE  RowLocked'
        <3>1. /\ job'[w].pc = "giving" /\ job'[w].row = r
              /\ \A v \in Worker \ {w} : job'[v] = job[v]
              /\ rowLock'[r] = w /\ \A q \in Row \ {r} : rowLock'[q] = rowLock[q]
            BY <1>1, <2>0, <2>1 DEF Job
        <3>2. rowLock[r] = Free BY <2>1, LockFree
        <3>3. \A v \in Worker : job[v].pc = "giving" => job[v].row # r /\ job[v].row \in Row
            BY <1>1, <3>2, JobPlaces, StockAssumption DEF RowLocked, TypeOK, JobOK
        <3> QED BY <2>0, <2>1, <3>1, <3>3 DEF RowLocked
    <2>2. ASSUME J.pc = "giving", rowLock' = [rowLock EXCEPT ![J.row] = Free], J.row \in Row,
                 job' = [job EXCEPT ![w] = AfterRow(J, J.row)]
          PROVE  RowLocked'
        <3>1. job'[w].pc # "giving" /\ \A v \in Worker \ {w} : job'[v] = job[v]
            BY <1>1, <2>0, <2>2 DEF AfterRow, Idle, Job
        <3>2. /\ rowLock'[J.row] = Free
              /\ \A q \in Row \ {J.row} : rowLock'[q] = rowLock[q]
            BY <1>1, <2>2
        <3>3. \A v \in Worker : job[v].pc = "giving" => job[v].row \in Row
            BY <1>1, JobPlaces DEF TypeOK, JobOK
        <3> QED BY <2>2, <3>1, <3>2, <3>3 DEF RowLocked
    <2> QED BY <1>7, <2>0, <2>1, <2>2, ReturnMoves
<1>8. ASSUME job' = job, rowLock' = rowLock PROVE RowLocked' BY <1>8 DEF RowLocked
<1>9. ASSUME SerialNext, Environment PROVE RowLocked' BY <1>8, <1>9, SerialEnvironment
<1>10. CASE SerialNext
    BY <1>3, <1>4, <1>5, <1>6, <1>7, <1>9, <1>10, SerialCases DEF SerialNext, Next
<1>11. CASE UNCHANGED vars BY <1>8, <1>11 DEF vars
<1> QED BY <1>10, <1>11

LEMMA RowLockedInit == Init => RowLocked
<1> SUFFICES ASSUME Init PROVE RowLocked OBVIOUS
<1>1. \A w \in Worker : job[w].pc = "idle" BY DEF Init, Idle
<1> QED BY <1>1 DEF Init, RowLocked

(* A row is given back under its lock. *)
LEMMA RowsAreLocked == SerialSpec => []RowLocked
<1>1. Init => RowLocked BY RowLockedInit
<1>2. SerialInv /\ RowLocked /\ [SerialNext]_vars => RowLocked' BY RowLockedStep
<1> QED BY <1>1, <1>2, SerialCorrect, PTL DEF SerialSpec

(* A step of a worker leaves the jobs of the others alone. *)
LEMMA SerialMoves ==
    ASSUME SerialInv, RowLocked, NEW w \in Worker, Start(w) \/ JobStep(w)
    PROVE  Moves(w)
<1>1. CASE Plain(w) BY <1>1 DEF Plain
<1> QED BY <1>1, SerialCases, StartReturnMove, CreateUserMove, CreateProxyMove,
           RemoveSubnetMove, SaveCountersMove, CheckHoldersMove, ReturnMoves

LEMMA ReturnedStep ==
    ASSUME SerialInv, RowLocked, SerialNext, NEW w \in Worker,
           job[w].pc \in {"give", "giving"}, job'[w].pc \in {"idle", "give"},
           NEW r \in job[w].left \ job'[w].left
    PROVE  job[w].subnet \in stock'[r].avail
<1> DEFINE J == job[w]
<1>1. J \in Job BY DEF SerialInv, TypeOK
<1>2. ~Environment BY SerialEnvironment
<1>3. PICK v \in Worker : Start(v) \/ JobStep(v) BY <1>2 DEF SerialNext, Next
<1>4. v = w BY <1>3, SerialMoves DEF Moves
<1>5. TryRowLock(w) \/ GiveBack(w)
    BY <1>3, <1>4, SerialCases DEF Plain, Working, StartReturn, CreateUser, CreateProxy,
       RemoveSubnet, SaveCounters, CheckHolders
<1>6. J.left \subseteq Row /\ J.pc \in {"give", "giving"} BY <1>5, ReturnMoves
<1>7. ASSUME NEW q \in J.left,
             job' = [job EXCEPT ![w] = [J EXCEPT !.pc = "giving", !.row = q]]
      PROVE  FALSE
    <2>1. job'[w] = [J EXCEPT !.pc = "giving", !.row = q]
        BY <1>7, MovesBy DEF SerialInv
    <2>2. job'[w].pc = "giving" BY <1>1, <2>1 DEF Job
    <2> QED BY <2>2
<1>8. /\ J.pc = "giving" /\ J.row \in J.left
      /\ job' = [job EXCEPT ![w] = AfterRow(J, J.row)]
      /\ stock'[J.row].avail = stock[J.row].avail \cup {J.subnet}
    BY <1>5, <1>7, ReturnMoves
<1>9. job'[w] = AfterRow(J, J.row) BY <1>8, MovesBy DEF SerialInv
<1>10. J.left \ job'[w].left \subseteq {J.row}
    <2>1. CASE J.left = {J.row} BY <2>1
    <2>2. CASE J.left # {J.row}
        <3>1. job'[w].left = J.left \ {J.row} BY <1>1, <1>9, <2>2 DEF AfterRow, Job
        <3> QED BY <3>1
    <2> QED BY <2>1, <2>2
<1> QED BY <1>8, <1>10

(* With separated jobs stock_return_task counts a row as returned only     *)
(* when the row offers the subnet: no lock of a row is ever found taken.   *)
THEOREM SerialReturnsAreOffered == SerialSpec => ReturnedIsOffered
<1>1. SerialInv /\ RowLocked /\ [SerialNext]_vars =>
         [\A w \in Worker :
             /\ job[w].pc \in {"give", "giving"}
             /\ job'[w].pc \in {"idle", "give"}
             => \A r \in job[w].left \ job'[w].left :
                    job[w].subnet \in stock'[r].avail]_vars
    BY ReturnedStep
<1> QED BY <1>1, SerialCorrect, RowsAreLocked, PTL DEF SerialSpec, ReturnedIsOffered

-----------------------------------------------------------------------------
(* The label a row carries is what exclude_acl says, in the table and in   *)
(* every copy except those that are about to change it.                    *)

LabelsFresh ==
    /\ \A r \in Row : stock[r].excluded <=> r \in excludeAcl
    /\ \A w \in Worker : job[w].pc # "exclude" =>
          \A r \in Copies(job[w]) : job[w].snap[r].excluded = stock[r].excluded

(* A step that changes no label, of a job whose copies stay fresh. *)
LEMMA SameLabels ==
    ASSUME SerialInv, LabelsFresh, NEW w \in Worker, Moves(w), excludeAcl' = excludeAcl,
           \A r \in Row : stock'[r].excluded = stock[r].excluded,
           job'[w].pc # "exclude" => \A r \in Copies(job'[w]) :
               r \in Row /\ job'[w].snap[r].excluded = stock[r].excluded
    PROVE  LabelsFresh'
<1>1. ASSUME NEW v \in Worker, v # w, job'[v].pc # "exclude", NEW r \in Copies(job'[v])
      PROVE  job'[v].snap[r].excluded = stock'[r].excluded
    <2>1. job'[v] = job[v] BY <1>1 DEF Moves
    <2>2. r \in Row BY <1>1, <2>1, JobPlaces DEF SerialInv
    <2> QED BY <1>1, <2>1, <2>2 DEF LabelsFresh
<1> QED BY <1>1 DEF LabelsFresh

LEMMA ReadLabels ==
    ASSUME SerialInv, NEW R \in SUBSET Row, NEW r \in R
    PROVE  Read(R)[r].excluded = stock[r].excluded
BY DEF Read

(* Jobs that start, and the steps of a delivery around its loop. *)
LEMMA LabelsStart ==
    ASSUME SerialInv, LabelsFresh, NEW w \in Worker,
           \/ \E o \in Order : StartFull(w, o) \/ StartFill(w, o)
           \/ \E d \in Cidr, A \in SUBSET Acl : StartExclude(w, d, A)
           \/ \E r \in Row : StartRefresh(w, r)
           \/ \E c \in Claims : StartReturn(w, c)
           \/ KaxyFails(w) \/ Finish(w)
    PROVE  LabelsFresh'
<1>0. TypeOK BY DEF SerialInv
<1>1. stock' = stock /\ excludeAcl' = excludeAcl
    BY DEF StartFull, StartFill, StartExclude, StartRefresh, StartReturn, KaxyFails, Finish
<1>2. ASSUME NEW j, job' = [job EXCEPT ![w] = j], j.pc # "exclude" => j.rows = {} /\
             j.pc \notin {"give", "giving"}
      PROVE  LabelsFresh'
    <2>1. Moves(w) /\ job'[w] = j BY <1>0, <1>2, MovesBy
    <2> QED BY <1>1, <1>2, <2>1, SameLabels DEF Copies
<1>3. ASSUME NEW j, NEW R \in SUBSET Row, job' = [job EXCEPT ![w] = j],
             j.rows = R, j.snap = Read(R), j.pc \in {"holders", "resave"}
      PROVE  LabelsFresh'
    <2>1. Moves(w) /\ job'[w] = j BY <1>0, <1>3, MovesBy
    <2>2. \A r \in R : Read(R)[r].excluded = stock[r].excluded BY ReadLabels
    <2> QED BY <1>1, <1>3, <2>1, <2>2, SameLabels DEF Copies
<1>4. ASSUME NEW o \in Order, StartFull(w, o) \/ StartFill(w, o) PROVE LabelsFresh'
    <2> DEFINE full == [Idle EXCEPT !.pc = "lock", !.order = o]
               fill == [Idle EXCEPT !.pc = "lock", !.order = o, !.fill = TRUE]
    <2>1. full.pc = "lock" /\ full.rows = {} /\ fill.pc = "lock" /\ fill.rows = {}
        BY DEF Idle
    <2>2. job' = [job EXCEPT ![w] = full] \/ job' = [job EXCEPT ![w] = fill]
        BY <1>4 DEF StartFull, StartFill
    <2> HIDE DEF full, fill
    <2> QED BY <1>2, <2>1, <2>2
<1>5. ASSUME NEW d \in Cidr, NEW A \in SUBSET Acl, StartExclude(w, d, A)
      PROVE  LabelsFresh'
    <2>1. PICK R, snap : job' = [job EXCEPT ![w] = [Idle EXCEPT !.pc = "exclude",
                                                    !.rows = R, !.snap = snap]]
        BY <1>5 DEF StartExclude
    <2>2. [Idle EXCEPT !.pc = "exclude", !.rows = R, !.snap = snap].pc = "exclude"
        BY DEF Idle
    <2> QED BY <1>2, <2>1, <2>2
<1>6. ASSUME NEW r \in Row, StartRefresh(w, r) PROVE LabelsFresh'
    <2> DEFINE j == [Idle EXCEPT !.pc = "resave", !.rows = {r}, !.snap = Read({r})]
    <2>1. j.pc = "resave" /\ j.rows = {r} /\ j.snap = Read({r}) BY DEF Idle
    <2>2. job' = [job EXCEPT ![w] = j] /\ {r} \in SUBSET Row BY <1>6 DEF StartRefresh
    <2> HIDE DEF j
    <2> QED BY <1>3, <2>1, <2>2
<1>7. ASSUME NEW c \in Claims, StartReturn(w, c) PROVE LabelsFresh'
    <2>1. PICK j : /\ job' = [job EXCEPT ![w] = j] /\ j.pc = "holders"
                   /\ j.rows = c[1] /\ j.snap = Read(c[1])
        BY <1>7, StartReturnMove DEF Moves
    <2> QED BY <1>3, <2>1, ClaimType
<1>8. CASE KaxyFails(w) \/ Finish(w)
    <2>1. job' = [job EXCEPT ![w] = Idle] BY <1>8 DEF KaxyFails, Finish
    <2>2. Idle.pc = "idle" /\ Idle.rows = {} BY DEF Idle
    <2> QED BY <1>2, <2>1, <2>2
<1> QED BY <1>4, <1>5, <1>6, <1>7, <1>8

LEMMA LabelsPlan ==
    ASSUME SerialInv, LabelsFresh, NEW w \in Worker, AcquireLock(w) \/ ReadStock(w)
    PROVE  LabelsFresh'
<1> DEFINE J == job[w]
<1>0. TypeOK /\ J \in Job /\ JobOK(J) BY DEF SerialInv, TypeOK
<1>1. stock' = stock /\ excludeAcl' = excludeAcl /\ J.pc \in {"lock", "read"}
    BY DEF AcquireLock, ReadStock
<1>2. CASE job' = [job EXCEPT ![w] = Idle]
    <2>1. Moves(w) /\ job'[w] = Idle BY <1>0, <1>2, MovesBy
    <2>2. Copies(Idle) = {} BY DEF Idle, Copies
    <2> QED BY <1>1, <2>1, <2>2, SameLabels
<1>3. CASE AcquireLock(w) /\ job' # [job EXCEPT ![w] = Idle]
    <2>1. PICK n : job' = [job EXCEPT ![w] = [J EXCEPT !.pc = "read", !.need = n]]
        BY <1>3 DEF AcquireLock
    <2> DEFINE j == [J EXCEPT !.pc = "read", !.need = n]
    <2>2. j.pc = "read" /\ j.rows = J.rows /\ j.snap = J.snap BY <1>0 DEF Job
    <2>3. Moves(w) /\ job'[w] = j BY <1>0, <2>1, MovesBy
    <2> HIDE DEF j
    <2>4. \A r \in J.rows : r \in Row /\ J.snap[r].excluded = stock[r].excluded
        BY <1>0, <1>1, JobPlaces DEF LabelsFresh, Copies
    <2> QED BY <1>1, <2>2, <2>3, <2>4, SameLabels DEF Copies
<1>4. CASE ReadStock(w) /\ job' # [job EXCEPT ![w] = Idle]
    <2> DEFINE o == J.order
               j == [J EXCEPT !.pc = "next", !.rows = RowsOf(o),
                              !.snap = Read(RowsOf(o)), !.todo = Available(o, stock)]
    <2>1. job' = [job EXCEPT ![w] = j] /\ J.pc = "read" BY <1>4 DEF ReadStock
    <2>2. j.pc = "next" /\ j.rows = RowsOf(o) /\ j.snap = Read(RowsOf(o))
        BY <1>0 DEF Job
    <2>3. Moves(w) /\ job'[w] = j BY <1>0, <2>1, MovesBy
    <2> HIDE DEF j
    <2>4. RowsOf(o) \subseteq Row BY <1>0, <2>1, StockAssumption DEF JobOK, RowsOf
    <2>5. \A r \in RowsOf(o) : Read(RowsOf(o))[r].excluded = stock[r].excluded
        BY <2>4, ReadLabels
    <2> QED BY <1>1, <2>2, <2>3, <2>4, <2>5, SameLabels DEF Copies
<1> QED BY <1>2, <1>3, <1>4

(* The steps inside the loop of a delivery, and of a return. *)
LEMMA LabelsWork ==
    ASSUME SerialInv, RowLocked, LabelsFresh, NEW w \in Worker,
           \/ CreateUser(w) \/ CreateProxy(w) \/ RemoveSubnet(w) \/ SaveCounters(w)
           \/ ReturnStep(w)
    PROVE  LabelsFresh'
<1> DEFINE J == job[w]
           K == job'[w]
<1>0. /\ TypeOK /\ J \in Job /\ JobOK(J) /\ Copies(J) \subseteq Row
      /\ J.pc # "exclude" => \A r \in Copies(J) : J.snap[r].excluded = stock[r].excluded
    BY JobPlaces DEF SerialInv, TypeOK, LabelsFresh
<1>1. CASE CreateUser(w)
    BY <1>0, <1>1, CreateUserMove, SameLabels DEF Copies
<1>2. CASE CreateProxy(w)
    <2>1. /\ Moves(w) /\ J.pc = "create" /\ stock' = stock /\ excludeAcl' = excludeAcl
          /\ K.pc \in {"create", "save"} /\ K.rows = J.rows /\ K.snap = J.snap
        BY <1>2, CreateProxyMove
    <2> QED BY <1>0, <2>1, SameLabels DEF Copies
<1>3. CASE RemoveSubnet(w)
    <2>1. /\ Moves(w) /\ J.pc = "save" /\ K.row \in J.left /\ K.pc = "count"
          /\ K.row \in Row /\ K.rows = J.rows /\ excludeAcl' = excludeAcl
          /\ stock'[K.row].excluded = J.snap[K.row].excluded
          /\ \A q \in Row \ {K.row} : stock'[q] = stock[q]
          /\ \A q \in Row : K.snap[q].excluded = J.snap[q].excluded
        BY <1>3, RemoveSubnetMove
    <2>2. J.left \subseteq J.rows BY <1>0, <2>1, JobPlaces DEF Claiming
    <2>3. \A q \in Row : stock'[q].excluded = stock[q].excluded
        BY <1>0, <2>1, <2>2 DEF Copies
    <2> QED BY <1>0, <2>1, <2>3, SameLabels DEF Copies
<1>4. CASE SaveCounters(w)
    <2>1. /\ Moves(w) /\ J.pc = "count" /\ J.row \in J.left /\ K.snap = J.snap
          /\ J.row \in Row /\ K.rows = J.rows /\ excludeAcl' = excludeAcl
          /\ stock'[J.row].excluded = J.snap[J.row].excluded
          /\ \A q \in Row \ {J.row} : stock'[q] = stock[q]
          /\ K.pc \in {"save", "finish", "next"}
        BY <1>4, SaveCountersMove
    <2>2. J.left \subseteq J.rows BY <1>0, <2>1, JobPlaces DEF Claiming
    <2>3. \A q \in Row : stock'[q].excluded = stock[q].excluded
        BY <1>0, <2>1, <2>2 DEF Copies
    <2> QED BY <1>0, <2>1, <2>3, SameLabels DEF Copies
<1>5. CASE CheckHolders(w)
    <2>1. Copies(Idle) = {} BY DEF Idle, Copies
    <2> QED BY <1>0, <1>5, <2>1, CheckHoldersMove, SameLabels DEF Copies
<1>6. CASE TryRowLock(w) \/ GiveBack(w)
    <2>1. /\ Moves(w) /\ excludeAcl' = excludeAcl /\ J.left \subseteq Row
          /\ J.pc \in {"give", "giving"}
        BY <1>6, ReturnMoves
    <2>2. \A q \in Row : stock'[q].excluded = stock[q].excluded
        <3>1. CASE stock' = stock BY <3>1
        <3>2. CASE /\ J.pc = "giving" /\ J.row \in J.left
                   /\ stock'[J.row].excluded = J.snap[J.row].excluded
                         \/ stock'[J.row] = stock[J.row]
                   /\ \A q \in Row \ {J.row} : stock'[q] = stock[q]
            BY <1>0, <3>2 DEF Copies
        <3> QED BY <1>6, <3>1, <3>2, ReturnMoves
    <2>3. \/ \E r \in J.left : K = [J EXCEPT !.pc = "giving", !.row = r]
          \/ K = AfterRow(J, J.row)
        <3>1. \A j : job' = [job EXCEPT ![w] = j] => K = j BY <1>0, MovesBy
        <3> QED BY <1>6, <3>1, ReturnMoves
    <2>4. \A r \in J.left : /\ [J EXCEPT !.pc = "giving", !.row = r].pc = "giving"
                            /\ [J EXCEPT !.pc = "giving", !.row = r].left = J.left
                            /\ [J EXCEPT !.pc = "giving", !.row = r].snap = J.snap
        BY <1>0 DEF Job
    <2>5. \/ AfterRow(J, J.row) = Idle
          \/ /\ AfterRow(J, J.row).pc = "give" /\ AfterRow(J, J.row).snap = J.snap
             /\ AfterRow(J, J.row).left \subseteq J.left
        BY <1>0 DEF Job, AfterRow
    <2>6. Copies(Idle) = {} BY DEF Idle, Copies
    <2>7. \/ K = Idle
          \/ K.pc \in {"give", "giving"} /\ K.left \subseteq J.left /\ K.snap = J.snap
        BY <2>3, <2>4, <2>5
    <2> QED BY <1>0, <2>1, <2>2, <2>6, <2>7, SameLabels DEF Copies
<1> QED BY <1>1, <1>2, <1>3, <1>4, <1>5, <1>6 DEF ReturnStep

(* The change of exclude_acl commits with the labels of all its rows, and  *)
(* a refresh puts back the label the row has.                              *)
LEMMA LabelsSave ==
    ASSUME SerialInv, LabelsFresh, NEW w \in Worker, CommitExclude(w) \/ SaveRefresh(w)
    PROVE  LabelsFresh'
<1> DEFINE J == job[w]
<1>1. /\ J.pc \in {"exclude", "resave"} /\ job' = [job EXCEPT ![w] = Idle]
      /\ stock' = [r \in Row |-> IF r \in J.rows THEN J.snap[r] ELSE stock[r]]
    BY DEF CommitExclude, SaveRefresh, SaveCopies
<1>2. TypeOK /\ J.rows \subseteq Row /\ Copies(J) = J.rows
    BY <1>1, JobPlaces DEF SerialInv, Copies
<1>3. Moves(w) /\ job'[w] = Idle BY <1>1, <1>2, MovesBy
<1>4. Copies(Idle) = {} BY DEF Idle, Copies
<1>5. CASE SaveRefresh(w)
    <2>1. excludeAcl' = excludeAcl /\ J.pc = "resave" BY <1>5 DEF SaveRefresh
    <2>2. \A r \in Row : stock'[r].excluded = stock[r].excluded
        BY <1>1, <1>2, <2>1 DEF LabelsFresh
    <2> QED BY <1>3, <1>4, <2>1, <2>2, SameLabels
<1>6. CASE CommitExclude(w)
    <2>1. excludeAcl' = (excludeAcl \ J.rows) \cup {r \in J.rows : J.snap[r].excluded}
        BY <1>6 DEF CommitExclude
    <2>2. \A r \in Row : stock'[r].excluded <=> r \in excludeAcl'
        BY <1>1, <1>2, <2>1 DEF LabelsFresh
    <2>3. ASSUME NEW v \in Worker, job'[v].pc # "exclude", NEW r \in Copies(job'[v])
          PROVE  job'[v].snap[r].excluded = stock'[r].excluded
        <3>1. v # w /\ job'[v] = job[v] BY <1>3, <1>4, <2>3 DEF Moves
        <3>2. r \in job[v].rows /\ r \in Row BY <1>2, <2>3, <3>1, JobPlaces
        <3>3. r \notin J.rows BY <3>1, <3>2 DEF SerialInv, Apart
        <3> QED BY <1>1, <2>3, <3>1, <3>2, <3>3 DEF LabelsFresh
    <2> QED BY <2>2, <2>3 DEF LabelsFresh
<1> QED BY <1>5, <1>6

LEMMA LabelsStep ==
    ASSUME SerialInv, RowLocked, LabelsFresh, [SerialNext]_vars
    PROVE  LabelsFresh'
<1>1. CASE stock' = stock /\ excludeAcl' = excludeAcl /\ job' = job
    BY <1>1 DEF LabelsFresh
<1>2. ASSUME NEW w \in Worker, Start(w) PROVE LabelsFresh'
    BY <1>2, LabelsStart DEF Start
<1>3. ASSUME NEW w \in Worker, JobStep(w) PROVE LabelsFresh'
    BY <1>3, LabelsStart, LabelsPlan, LabelsWork, LabelsSave DEF JobStep, DeliveryStep
<1>4. CASE SerialNext
    BY <1>1, <1>2, <1>3, <1>4, SerialEnvironment DEF SerialNext, Next
<1> QED BY <1>1, <1>4 DEF vars

LEMMA LabelsInit == Init => LabelsFresh
<1> SUFFICES ASSUME Init PROVE LabelsFresh OBVIOUS
<1>1. \A w \in Worker : Copies(job[w]) = {} BY DEF Init, Idle, Copies
<1> QED BY <1>1 DEF Init, LabelsFresh

LEMMA LabelsStayFresh == SerialSpec => []LabelsFresh
<1>1. Init => LabelsFresh BY LabelsInit
<1>2. SerialInv /\ RowLocked /\ LabelsFresh /\ [SerialNext]_vars => LabelsFresh'
    BY LabelsStep
<1> QED BY <1>1, <1>2, SerialCorrect, RowsAreLocked, PTL DEF SerialSpec

(* With separated jobs no save of a whole row (a delivery, a return, a     *)
(* refresh) brings back an exclude_label read before exclude_acl changed.  *)
THEOREM SerialExclusion == SerialSpec => []ExclusionHonoured
<1>1. LabelsFresh => ExclusionHonoured BY DEF LabelsFresh, ExclusionHonoured
<1> QED BY <1>1, LabelsStayFresh, PTL

-----------------------------------------------------------------------------
(* No subnet is lost: where a subnet that a row does not offer is.         *)

(* A return task for the subnet waits. *)
Tasked(r, s) == \E c \in Claims : r \in c[1] /\ c[2] = s /\ queued[c] > 0

Used(r, s) == Holders(r, s) # {} \/ Tasked(r, s)

(* A return has still to look at the row or to give it the subnet. *)
Pending(w, r, s) ==
    /\ job[w].subnet = s
    /\ \/ job[w].pc = "holders" /\ r \in job[w].rows
       \/ job[w].pc \in {"give", "giving"} /\ r \in job[w].left

Accounted(r, s) ==
    s \in stock[r].avail \/ Used(r, s) \/ \E w \in Worker : Pending(w, r, s)

(* What a delivery takes off the rows is used. *)
InHand(w) ==
    job[w].pc \in {"save", "count"} =>
        \A r \in StocksOf(job[w].order, job[w].subnet) : Used(r, job[w].subnet)

NothingLost ==
    /\ \A w \in Worker : InHand(w)
    /\ \A r \in Row : \A s \in SubnetsOf(r) : Accounted(r, s)

(* A deletion that takes the last proxies of a subnet sends a task. *)
LEMMA UsedEnvironment ==
    ASSUME SerialInv, RowLocked, SpacedNext, Environment,
           NEW r, NEW s \in Subnet, Used(r, s)
    PROVE  Used(r, s)'
<1>0. TypeOK BY DEF SerialInv
<1>1. CASE proxies' = proxies /\ queued' = queued BY <1>1 DEF Used, Holders, Tasked
<1>2. ASSUME NEW gone \in SUBSET Claims, PostDelete(gone),
             \A o \in Order, t \in Subnet : proxies'[o][t] # proxies[o][t] =>
                 Claim(o, t) \in gone /\ proxies'[o][t] < proxies[o][t]
      PROVE  Used(r, s)'
    <2>1. \A c \in Claims : queued[c] > 0 => queued'[c] > 0
        BY <1>0, <1>2 DEF PostDelete, TypeOK
    <2>2. CASE Tasked(r, s) BY <2>1, <2>2 DEF Tasked, Used
    <2>3. ASSUME NEW o \in Holders(r, s) PROVE Used(r, s)'
        <3>1. o \in Order /\ r \in StocksOf(o, s) /\ proxies[o][s] > 0
            BY <2>3 DEF Holders
        <3>2. CASE proxies'[o][s] = proxies[o][s]
            <4>1. o \in Holders(r, s)' BY <3>1, <3>2 DEF Holders
            <4> QED BY <4>1 DEF Used
        <3>3. CASE proxies'[o][s] # proxies[o][s]
            <4>1. Claim(o, s) \in gone \ returnKey
                BY <1>2, <3>1, <3>3 DEF SpacedNext, Spaced
            <4>2. Claim(o, s) \in Claims /\ queued[Claim(o, s)] \in Nat
                BY <1>0, <3>1 DEF Claims, TypeOK
            <4>3. queued'[Claim(o, s)] > 0 BY <1>2, <4>1, <4>2 DEF PostDelete
            <4>4. r \in Claim(o, s)[1] /\ Claim(o, s)[2] = s BY <3>1 DEF Claim
            <4> QED BY <4>2, <4>3, <4>4 DEF Tasked, Used
        <3> QED BY <3>2, <3>3
    <2> QED BY <2>2, <2>3 DEF Used
<1>3. ASSUME NEW o \in Order, NEW t \in Subnet, DeleteProxy(o, t) PROVE Used(r, s)'
    <2>1. {Claim(o, t)} \in SUBSET Claims BY DEF Claims
    <2>2. \A p \in Order, u \in Subnet : proxies'[p][u] # proxies[p][u] =>
              Claim(p, u) \in {Claim(o, t)} /\ proxies'[p][u] < proxies[p][u]
        BY <1>0, <1>3 DEF DeleteProxy, TypeOK
    <2> QED BY <1>2, <1>3, <2>1, <2>2 DEF DeleteProxy
<1>4. ASSUME NEW o \in Order, DeleteOrderProxies(o) PROVE Used(r, s)'
    <2> DEFINE gone == {Claim(o, t) : t \in {t \in Subnet : proxies[o][t] > 0}}
    <2>1. gone \in SUBSET Claims BY DEF Claims
    <2>2. /\ proxies' = [proxies EXCEPT ![o] = [t \in Subnet |-> 0]]
          /\ PostDelete(gone)
        BY <1>4 DEF DeleteOrderProxies
    <2>3. \A p \in Order, u \in Subnet : proxies'[p][u] # proxies[p][u] =>
              p = o /\ proxies'[p][u] = 0 /\ proxies[p][u] > 0
        BY <1>0, <2>2 DEF TypeOK
    <2>4. \A p \in Order, u \in Subnet : proxies'[p][u] # proxies[p][u] =>
              Claim(p, u) \in gone /\ proxies'[p][u] < proxies[p][u]
        BY <2>3
    <2> HIDE DEF gone
    <2> QED BY <1>2, <2>1, <2>2, <2>4
<1> QED BY <1>1, <1>3, <1>4, SerialEnvironment DEF SpacedNext

(* Only the start of its own return takes a task off the queue. *)
LEMMA UsedWorker ==
    ASSUME SerialInv, RowLocked, NEW w \in Worker, Start(w) \/ JobStep(w),
           NEW r, NEW s \in Subnet, Used(r, s)
    PROVE  \/ Used(r, s)'
           \/ \E c \in Claims : StartReturn(w, c) /\ r \in c[1] /\ c[2] = s
<1>0. TypeOK BY DEF SerialInv
<1>1. CASE UNCHANGED <<proxies, queued>> BY <1>1 DEF Used, Holders, Tasked
<1>2. CASE CreateProxy(w)
    <2>1. /\ queued' = queued /\ job[w].order \in Order /\ job[w].subnet \in Subnet
          /\ proxies' = [proxies EXCEPT ![job[w].order][job[w].subnet] = @ + 1]
        BY <1>2, CreateProxyMove
    <2>2. \A o \in Order : proxies[o][s] > 0 => proxies'[o][s] > 0
        BY <1>0, <2>1 DEF TypeOK
    <2> QED BY <2>1, <2>2 DEF Used, Holders, Tasked
<1>3. ASSUME NEW c \in Claims, StartReturn(w, c), ~(r \in c[1] /\ c[2] = s)
      PROVE  Used(r, s)'
    <2>1. proxies' = proxies /\ queued' = [queued EXCEPT ![c] = @ - 1]
        BY <1>3, StartReturnMove
    <2>2. \A d \in Claims : d # c => queued'[d] = queued[d] BY <1>0, <2>1 DEF TypeOK
    <2> QED BY <1>3, <2>1, <2>2 DEF Used, Holders, Tasked
<1> QED BY <1>1, <1>2, <1>3, SerialCases, CreateUserMove, RemoveSubnetMove,
           SaveCountersMove, CheckHoldersMove, ReturnMoves DEF Plain

(* The start of a return is the return's business from then on. *)
LEMMA StartedReturn ==
    ASSUME SerialInv, NEW w \in Worker, NEW c \in Claims, StartReturn(w, c),
           NEW r \in c[1]
    PROVE  Pending(w, r, c[2])' /\ r \in job'[w].rows
BY StartReturnMove DEF Pending

(* A worker keeps the subnets of deliveries used. *)
LEMMA InHandStep ==
    ASSUME SerialInv, RowLocked, Apart', 0 \notin KaxyAnswers,
           \A v \in Worker : InHand(v),
           NEW w \in Worker, Start(w) \/ JobStep(w), NEW v \in Worker
    PROVE  InHand(v)'
<1> DEFINE J == job[v]
           K == job'[v]
<1>0. TypeOK /\ J \in Job BY DEF SerialInv, TypeOK
<1>1. ASSUME J.pc \in {"save", "count"}, K.order = J.order, K.subnet = J.subnet,
             \A c \in Claims : StartReturn(w, c) => v # w /\ K.rows = J.rows
      PROVE  InHand(v)'
    <2>1. /\ J.subnet \in Subnet /\ StocksOf(J.order, J.subnet) \subseteq J.rows
          /\ \A r \in StocksOf(J.order, J.subnet) : Used(r, J.subnet)
        BY <1>0, <1>1, JobPlaces DEF Claiming, InHand
    <2>2. ASSUME NEW r \in StocksOf(J.order, J.subnet) PROVE Used(r, J.subnet)'
        <3>1. ASSUME NEW c \in Claims, StartReturn(w, c), r \in c[1] PROVE FALSE
            <4>1. r \in job'[w].rows BY <3>1, StartedReturn
            <4>2. r \in K.rows /\ v # w BY <1>1, <2>1, <3>1
            <4> QED BY <4>1, <4>2 DEF Apart
        <3>2. J.subnet \in Subnet /\ Used(r, J.subnet) BY <2>1
        <3> QED BY <1>1, <3>1, <3>2, UsedWorker
    <2> QED BY <1>1, <2>2 DEF InHand
<1>2. CASE v # w
    <2>1. K = J BY <1>2, SerialMoves DEF Moves
    <2> QED BY <1>1, <1>2, <2>1 DEF InHand
<1>3. CASE v = w /\ CreateProxy(w)
    <2>1. /\ J.order \in Order /\ J.subnet \in Subnet
          /\ proxies' = [proxies EXCEPT ![J.order][J.subnet] = @ + 1]
          /\ K.order = J.order /\ K.subnet = J.subnet
        BY <1>3, CreateProxyMove
    <2>2. proxies'[J.order][J.subnet] > 0 BY <1>0, <2>1 DEF TypeOK
    <2>3. \A r \in StocksOf(J.order, J.subnet) : J.order \in Holders(r, J.subnet)'
        BY <2>1, <2>2 DEF Holders
    <2> QED BY <2>1, <2>3 DEF InHand, Used
<1>4. CASE v = w /\ RemoveSubnet(w)
    <2>1. J.pc = "save" /\ K.order = J.order /\ K.subnet = J.subnet
        BY <1>4, RemoveSubnetMove
    <2> QED BY <1>1, <1>4, <2>1 DEF StartReturn
<1>5. CASE v = w /\ SaveCounters(w)
    <2>1. J.pc = "count" /\ K.order = J.order /\ K.subnet = J.subnet
        BY <1>5, SaveCountersMove
    <2> QED BY <1>1, <1>5, <2>1 DEF StartReturn
<1>6. ASSUME K.pc \notin {"save", "count"} PROVE InHand(v)' BY <1>6 DEF InHand
<1>7. CASE v = w /\ (TryRowLock(w) \/ GiveBack(w))
    <2>1. \/ \E r \in J.left : job' = [job EXCEPT ![w] = [J EXCEPT !.pc = "giving", !.row = r]]
          \/ job' = [job EXCEPT ![w] = AfterRow(J, J.row)]
        BY <1>7, ReturnMoves
    <2>2. \/ \E r \in J.left : K = [J EXCEPT !.pc = "giving", !.row = r]
          \/ K = AfterRow(J, J.row)
        BY <1>0, <1>7, <2>1, MovesBy
    <2>3. /\ \A r : [J EXCEPT !.pc = "giving", !.row = r].pc = "giving"
          /\ AfterRow(J, J.row).pc \in {"idle", "give"}
        BY <1>0 DEF Job, AfterRow, Idle
    <2>4. K.pc \notin {"save", "count"} BY <2>2, <2>3
    <2> QED BY <1>6, <2>4
<1>8. CASE v = w /\ CheckHolders(w)
    <2>1. Idle.pc = "idle" BY DEF Idle
    <2> QED BY <1>6, <1>8, <2>1, CheckHoldersMove
<1>9. CASE v = w /\ (Plain(w) \/ CreateUser(w) \/ \E c \in Claims : StartReturn(w, c))
    <2>1. CASE Plain(w) BY <1>6, <1>9, <2>1 DEF Plain, Working
    <2>2. CASE CreateUser(w) BY <1>6, <1>9, <2>2, CreateUserMove
    <2>3. ASSUME NEW c \in Claims, StartReturn(w, c) PROVE InHand(v)'
        BY <1>6, <1>9, <2>3, StartReturnMove
    <2> QED BY <1>9, <2>1, <2>2, <2>3
<1> QED BY <1>2, <1>3, <1>4, <1>5, <1>7, <1>8, <1>9, SerialCases

(* A worker that takes a subnet off a row, or off a return, leaves it      *)
(* somewhere else.                                                         *)
LEMMA AccountedStep ==
    ASSUME SerialInv, RowLocked, \A v \in Worker : InHand(v),
           NEW w \in Worker, Start(w) \/ JobStep(w),
           NEW r \in Row, NEW s \in SubnetsOf(r), Accounted(r, s)
    PROVE  Accounted(r, s)'
<1> DEFINE J == job[w]
           K == job'[w]
<1>0. TypeOK /\ J \in Job /\ s \in Subnet BY DEF SerialInv, TypeOK, SubnetsOf
<1>1. CASE Used(r, s)
    <2>1. ASSUME NEW c \in Claims, StartReturn(w, c), r \in c[1], c[2] = s
          PROVE  Accounted(r, s)'
        BY <2>1, StartedReturn DEF Accounted
    <2> QED BY <1>0, <1>1, <2>1, UsedWorker DEF Accounted
<1>2. CASE s \in stock[r].avail /\ ~Used(r, s)
    <2>1. CASE s \in stock'[r].avail BY <2>1 DEF Accounted
    <2>2. CASE stock' = stock BY <1>2, <2>2 DEF Accounted
    <2>3. CASE RemoveSubnet(w)
        <3>1. /\ J.pc = "save" /\ K.row \in J.left
              /\ stock'[K.row].avail = stock[K.row].avail \ {J.subnet}
              /\ \A q \in Row \ {K.row} : stock'[q] = stock[q]
            BY <2>3, RemoveSubnetMove
        <3>2. J.left \subseteq StocksOf(J.order, J.subnet)
            BY <1>0, <3>1 DEF TypeOK, JobOK
        <3>3. ~(r = K.row /\ s = J.subnet) BY <1>2, <3>1, <3>2 DEF InHand
        <3>4. s \in stock'[r].avail BY <1>2, <3>1, <3>3
        <3> QED BY <3>4 DEF Accounted
    <2>4. CASE TryRowLock(w) \/ GiveBack(w)
        <3>1. \/ stock' = stock
              \/ /\ stock'[J.row].avail = stock[J.row].avail \cup {J.subnet}
                 /\ \A q \in Row \ {J.row} : stock'[q] = stock[q]
            BY <2>4, ReturnMoves
        <3>2. s \in stock'[r].avail BY <1>2, <3>1
        <3> QED BY <3>2 DEF Accounted
    <2>5. CASE Plain(w) BY <1>2, <2>1, <2>5 DEF Plain
    <2>6. CASE SaveCounters(w) BY <1>2, <2>1, <2>6, SaveCountersMove
    <2> QED BY <2>2, <2>3, <2>4, <2>5, <2>6, SerialCases, StartReturnMove, CreateUserMove,
               CreateProxyMove, CheckHoldersMove
<1>3. ASSUME NEW v \in Worker, Pending(v, r, s), ~Used(r, s) PROVE Accounted(r, s)'
    <2>1. CASE v # w
        <3>1. job'[v] = job[v] BY <2>1, SerialMoves DEF Moves
        <3>2. Pending(v, r, s)' BY <1>3, <3>1 DEF Pending
        <3> QED BY <3>2 DEF Accounted
    <2>2. CASE v = w /\ CheckHolders(w)
        <3> DEFINE free == {q \in J.rows : Holders(q, J.subnet) = {}}
        <3>1. /\ J.pc = "holders"
              /\ \/ free = {} /\ K = Idle
                 \/ /\ K.pc = "give" /\ K.left = free /\ K.rows = J.rows
                    /\ K.subnet = J.subnet /\ K.snap = J.snap
            BY <2>2, CheckHoldersMove
        <3>2. J.subnet = s /\ r \in J.rows BY <1>3, <2>2, <3>1 DEF Pending
        <3>3. r \in free BY <1>3, <3>2 DEF Used
        <3>4. Pending(w, r, s)' BY <3>1, <3>2, <3>3 DEF Pending
        <3> QED BY <3>4 DEF Accounted
    <2>3. CASE v = w /\ (TryRowLock(w) \/ GiveBack(w))
        <3>1. J.subnet = s /\ r \in J.left /\ J.pc \in {"give", "giving"}
            BY <1>3, <2>3, ReturnMoves DEF Pending
        <3>2. ASSUME NEW q \in J.left,
                     job' = [job EXCEPT ![w] = [J EXCEPT !.pc = "giving", !.row = q]]
              PROVE  Accounted(r, s)'
            <4>1. K = [J EXCEPT !.pc = "giving", !.row = q] BY <1>0, <3>2, MovesBy
            <4>2. K.pc = "giving" /\ K.left = J.left /\ K.subnet = s
                BY <1>0, <3>1, <4>1 DEF Job
            <4>3. Pending(w, r, s)' BY <3>1, <4>2 DEF Pending
            <4> QED BY <4>3 DEF Accounted
        <3>3. ASSUME job' = [job EXCEPT ![w] = AfterRow(J, J.row)], J.row \in J.left,
                     stock'[J.row].avail = stock[J.row].avail \cup {J.subnet}
              PROVE  Accounted(r, s)'
            <4>1. K = AfterRow(J, J.row) BY <1>0, <3>3, MovesBy
            <4>2. CASE r = J.row BY <3>1, <3>3, <4>2 DEF Accounted
            <4>3. CASE r # J.row
                <5>1. J.left # {J.row} BY <3>1, <4>3
                <5>2. K.pc = "give" /\ K.left = J.left \ {J.row} /\ K.subnet = s
                    BY <1>0, <3>1, <4>1, <5>1 DEF Job, AfterRow
                <5>3. Pending(w, r, s)' BY <3>1, <4>3, <5>2 DEF Pending
                <5> QED BY <5>3 DEF Accounted
            <4> QED BY <4>2, <4>3
        <3> QED BY <2>3, <3>2, <3>3, ReturnMoves
    <2>4. J.pc \in {"holders", "give", "giving"} => v # w \/ CheckHolders(w)
              \/ TryRowLock(w) \/ GiveBack(w)
        BY SerialCases DEF Plain, Working, StartReturn, CreateUser, CreateProxy,
           RemoveSubnet, SaveCounters
    <2>5. v = w => J.pc \in {"holders", "give", "giving"} BY <1>3 DEF Pending
    <2> QED BY <2>1, <2>2, <2>3, <2>4, <2>5
<1> QED BY <1>1, <1>2, <1>3 DEF Accounted

LEMMA NothingLostStep ==
    ASSUME SerialInv, RowLocked, NothingLost, [SpacedNext]_vars, 0 \notin KaxyAnswers
    PROVE  NothingLost'
<1>1. CASE UNCHANGED vars
    BY <1>1 DEF vars, NothingLost, InHand, Accounted, Used, Holders, Tasked, Pending
<1>2. CASE SpacedNext /\ Environment
    <2>1. job' = job /\ stock' = stock BY <1>2, SerialEnvironment DEF SpacedNext
    <2>2. ASSUME NEW w \in Worker PROVE InHand(w)'
        <3>1. job[w].pc \in {"save", "count"} => job[w].subnet \in Subnet
            BY JobPlaces DEF SerialInv, Claiming
        <3> QED BY <1>2, <2>1, <3>1, UsedEnvironment DEF NothingLost, InHand
    <2>3. ASSUME NEW r \in Row, NEW s \in SubnetsOf(r) PROVE Accounted(r, s)'
        <3>1. s \in Subnet /\ Accounted(r, s) BY DEF SubnetsOf, NothingLost
        <3> QED BY <1>2, <2>1, <3>1, UsedEnvironment DEF Accounted, Pending
    <2> QED BY <2>2, <2>3 DEF NothingLost
<1>3. ASSUME SpacedNext, NEW w \in Worker, Start(w) \/ JobStep(w) PROVE NothingLost'
    <2>1. Apart' BY <1>3 DEF SpacedNext, SerialNext
    <2>2. \A v \in Worker : InHand(v)' BY <1>3, <2>1, InHandStep DEF NothingLost
    <2>3. \A r \in Row : \A s \in SubnetsOf(r) : Accounted(r, s)'
        BY <1>3, AccountedStep DEF NothingLost
    <2> QED BY <2>2, <2>3 DEF NothingLost
<1> QED BY <1>1, <1>2, <1>3 DEF SpacedNext, SerialNext, Next

LEMMA NothingLostInit == Init => NothingLost
<1> SUFFICES ASSUME Init PROVE NothingLost OBVIOUS
<1>1. \A w \in Worker : job[w].pc = "idle" BY DEF Init, Idle
<1>2. \A r \in Row : stock[r].avail = SubnetsOf(r) BY DEF Init
<1> QED BY <1>1, <1>2 DEF NothingLost, InHand, Accounted

(* Proxies are deleted a subnet at a time and not within five minutes of   *)
(* an earlier deletion of the same subnet, jobs are separated, and the     *)
(* proxy server never answers with an empty list (the code would take such *)
(* a subnet off the rows without an owner): then no subnet is lost, for    *)
(* any orders, quantities, deletions and order of deliveries and returns.  *)
THEOREM SpacedNoSubnetLost ==
    ASSUME 0 \notin KaxyAnswers
    PROVE  SpacedSpec => []NoSubnetLost
<1>1. SpacedSpec => SerialSpec
    <2>1. [SpacedNext]_vars => [SerialNext]_vars BY DEF SpacedNext
    <2> QED BY <2>1, PTL DEF SpacedSpec, SerialSpec
<1>2. Init => NothingLost BY NothingLostInit
<1>3. SerialInv /\ RowLocked /\ NothingLost /\ [SpacedNext]_vars => NothingLost'
    BY NothingLostStep
<1>4. SpacedSpec => []NothingLost
    BY <1>1, <1>2, <1>3, SerialCorrect, RowsAreLocked, PTL DEF SpacedSpec
<1>5. SerialInv /\ NothingLost => NoSubnetLost
    <2> SUFFICES ASSUME SerialInv, NothingLost, NEW r \in Row,
                        NEW s \in SubnetsOf(r) \ stock[r].avail, Holders(r, s) = {}
                 PROVE  UnderWay(r, s)
        BY DEF NoSubnetLost
    <2>1. CASE Tasked(r, s) BY <2>1 DEF Tasked, UnderWay
    <2>2. ASSUME NEW w \in Worker, Pending(w, r, s) PROVE UnderWay(r, s)
        <3>1. job[w].pc # "idle" /\ job[w].subnet = s BY <2>2 DEF Pending
        <3>2. r \in job[w].rows
            BY <2>2, JobPlaces DEF SerialInv, Pending
        <3> QED BY <3>1, <3>2 DEF UnderWay
    <2> QED BY <2>1, <2>2 DEF NothingLost, Accounted, Used
<1> QED BY <1>1, <1>4, <1>5, SerialCorrect, PTL

-----------------------------------------------------------------------------
(* The refinement of SubnetPool.                                           *)

(* A row that a delivery is done with does not offer the subnet. *)
TakenOff(w) ==
    Claiming(w) => \A r \in StocksOf(job[w].order, job[w].subnet) \ job[w].left :
                       job[w].subnet \notin stock[r].avail

ClaimsAs(w, o, s) == Claiming(w) /\ job[w].order = o /\ job[w].subnet = s

LEMMA ClaimSets ==
    /\ \A o, s : s \in ClaimedBy(o) <=> \E w \in Worker : ClaimsAs(w, o, s)
    /\ \A r, s : s \in ClaimedOn(r) <=>
           \E w \in Worker : \E o : ClaimsAs(w, o, s) /\ r \in StocksOf(o, s)
BY DEF ClaimedBy, ClaimedOn, ClaimsAs

LEMMA ClaimSetsNext ==
    /\ \A o, s : s \in ClaimedBy(o)' <=> \E w \in Worker : ClaimsAs(w, o, s)'
    /\ \A r, s : s \in ClaimedOn(r)' <=>
           \E w \in Worker : \E o : ClaimsAs(w, o, s)' /\ r \in StocksOf(o, s)
BY DEF ClaimedBy, ClaimedOn, ClaimsAs, Claiming

(* Nobody else claims a subnet on a row that a worker has read. *)
LEMMA OneClaim ==
    ASSUME SerialInv, NEW v \in Worker, NEW w \in Worker, NEW o, NEW s,
           ClaimsAs(v, o, s), NEW r \in StocksOf(o, s), r \in job[w].rows
    PROVE  v = w
BY JobPlaces DEF SerialInv, Apart, ClaimsAs

LEMMA SomeRow ==
    ASSUME NEW o \in Order, NEW s
    PROVE  StocksOf(o, s) # {}
<1>1. PICK a \in AclsOf[o] : TRUE BY StockAssumption
<1>2. <<CidrOf[s], a>> \in StocksOf(o, s) BY DEF StocksOf
<1> QED BY <1>2

(* A worker whose claim stays what it was changes no set of claims. *)
LEMMA SameClaims ==
    ASSUME NEW w \in Worker, Moves(w), Claiming(w)' <=> Claiming(w),
           Claiming(w) => job'[w].order = job[w].order /\ job'[w].subnet = job[w].subnet
    PROVE  /\ \A o : ClaimedBy(o)' = ClaimedBy(o)
           /\ \A r : ClaimedOn(r)' = ClaimedOn(r)
<1>1. \A v \in Worker : \A o, s : ClaimsAs(v, o, s)' <=> ClaimsAs(v, o, s)
    <2>1. \A v \in Worker \ {w} : job'[v] = job[v] BY DEF Moves
    <2> QED BY <2>1 DEF ClaimsAs, Claiming
<1>2. \A o, s : s \in ClaimedBy(o)' <=> s \in ClaimedBy(o)
    BY <1>1, ClaimSets, ClaimSetsNext
<1>3. \A r, s : s \in ClaimedOn(r)' <=> s \in ClaimedOn(r)
    BY <1>1, ClaimSets, ClaimSetsNext
<1>4. \A S, T : (\A x : x \in S <=> x \in T) => S = T OBVIOUS
<1> QED BY <1>2, <1>3, <1>4

(* A step that changes neither claims nor proxies, and takes only claimed  *)
(* subnets off the rows, is no step of the pool.                           *)
LEMMA PoolStutters ==
    ASSUME proxies' = proxies, \A o \in Order : ClaimedBy(o)' = ClaimedBy(o),
           \A r \in Row : ClaimedOn(r)' = ClaimedOn(r),
           \A r \in Row : stock'[r].avail \ ClaimedOn(r) = stock[r].avail \ ClaimedOn(r)
    PROVE  UNCHANGED Pool!vars
<1>1. \A o : HeldBy(o)' = HeldBy(o) BY DEF HeldBy
<1> QED BY <1>1 DEF Pool!vars

(* Other steps than those of a delivery's loop claim nothing. *)
LEMMA NoNewClaim ==
    ASSUME SerialInv, RowLocked, NEW w \in Worker,
           \/ Plain(w) \/ CheckHolders(w) \/ TryRowLock(w) \/ GiveBack(w)
           \/ \E c \in Claims : StartReturn(w, c)
    PROVE  ~Claiming(w) /\ ~Claiming(w)'
<1> DEFINE J == job[w]
           K == job'[w]
<1>0. TypeOK /\ J \in Job BY DEF SerialInv, TypeOK
<1>1. CASE Plain(w) BY <1>1 DEF Plain, Working, Claiming
<1>2. CASE CheckHolders(w)
    <2>1. Idle.pc = "idle" BY DEF Idle
    <2> QED BY <1>2, <2>1, CheckHoldersMove DEF Claiming
<1>3. CASE TryRowLock(w) \/ GiveBack(w)
    <2>1. /\ J.pc \in {"give", "giving"}
          /\ \/ \E r \in J.left :
                    job' = [job EXCEPT ![w] = [J EXCEPT !.pc = "giving", !.row = r]]
             \/ job' = [job EXCEPT ![w] = AfterRow(J, J.row)]
        BY <1>3, ReturnMoves
    <2>2. \/ \E r \in J.left : K = [J EXCEPT !.pc = "giving", !.row = r]
          \/ K = AfterRow(J, J.row)
        BY <1>0, <2>1, MovesBy
    <2>3. /\ \A r : [J EXCEPT !.pc = "giving", !.row = r].pc = "giving"
          /\ AfterRow(J, J.row).pc \in {"idle", "give"}
        BY <1>0 DEF Job, AfterRow, Idle
    <2> QED BY <2>1, <2>2, <2>3 DEF Claiming
<1>4. ASSUME NEW c \in Claims, StartReturn(w, c) PROVE ~Claiming(w) /\ ~Claiming(w)'
    BY <1>4, StartReturnMove DEF Claiming
<1> QED BY <1>1, <1>2, <1>3, <1>4

(* A worker changes what is offered only on rows it has read. *)
LEMMA OwnRows ==
    ASSUME SerialInv, RowLocked, NEW w \in Worker, Start(w) \/ JobStep(w)
    PROVE  \A r \in Row \ job[w].rows : stock'[r].avail = stock[r].avail
<1> DEFINE J == job[w]
<1>0. TypeOK BY DEF SerialInv
<1>1. CASE RemoveSubnet(w)
    <2>1. J.pc = "save" /\ job'[w].row \in J.left BY <1>1, RemoveSubnetMove
    <2>2. job'[w].row \in J.rows BY <1>0, <2>1, JobPlaces DEF Claiming
    <2> QED BY <1>1, <2>2, RemoveSubnetMove
<1>2. CASE TryRowLock(w) \/ GiveBack(w)
    <2>1. J.left \subseteq J.rows
        BY <1>0, <1>2, JobPlaces DEF TryRowLock, GiveBack
    <2>2. \/ stock' = stock
          \/ J.row \in J.left /\ \A q \in Row \ {J.row} : stock'[q] = stock[q]
        BY <1>2, ReturnMoves
    <2> QED BY <2>1, <2>2
<1>3. CASE Plain(w) BY <1>3 DEF Plain
<1>4. CASE SaveCounters(w) BY <1>4, SaveCountersMove
<1> QED BY <1>1, <1>2, <1>3, <1>4, SerialCases, StartReturnMove, CreateUserMove,
           CreateProxyMove, CheckHoldersMove

LEMMA TakenOffStep ==
    ASSUME SerialInv, RowLocked, NEW w \in Worker, Start(w) \/ JobStep(w),
           NEW v \in Worker, TakenOff(v)
    PROVE  TakenOff(v)'
<1> DEFINE J == job[w]
           K == job'[w]
<1>0. TypeOK BY DEF SerialInv
<1>1. CASE v # w
    <2>1. job'[v] = job[v] BY <1>1, SerialMoves DEF Moves
    <2>2. Claiming(v) => /\ StocksOf(job[v].order, job[v].subnet) \subseteq job[v].rows
                         /\ job[v].rows \subseteq Row
        BY <1>0, JobPlaces
    <2>3. job[v].rows \cap job[w].rows = {} BY <1>1 DEF SerialInv, Apart
    <2>4. Claiming(v) => \A r \in StocksOf(job[v].order, job[v].subnet) :
              stock'[r].avail = stock[r].avail
        BY <2>2, <2>3, OwnRows
    <2> QED BY <2>1, <2>4 DEF TakenOff, Claiming
<1>2. CASE v = w /\ CreateUser(w)
    BY <1>2, CreateUserMove DEF TakenOff
<1>3. CASE v = w /\ CreateProxy(w)
    BY <1>3, CreateProxyMove DEF TakenOff, Claiming
<1>4. CASE v = w /\ RemoveSubnet(w)
    <2>1. /\ J.pc = "save" /\ K.order = J.order /\ K.subnet = J.subnet
          /\ K.left = J.left
        BY <1>4, RemoveSubnetMove
    <2>2. \A r \in Row : stock'[r].avail \subseteq stock[r].avail
        BY <1>4, RemoveSubnetMove
    <2>3. StocksOf(J.order, J.subnet) \subseteq Row
        BY <1>0, <2>1, JobPlaces DEF Claiming
    <2> QED BY <1>4, <2>1, <2>2, <2>3 DEF TakenOff, Claiming
<1>5. CASE v = w /\ SaveCounters(w)
    <2>1. /\ J.pc = "count" /\ K.order = J.order /\ K.subnet = J.subnet
          /\ K.left = J.left \ {J.row} /\ J.subnet \notin stock[J.row].avail
          /\ \A r \in Row : stock'[r].avail = stock[r].avail
        BY <1>5, SaveCountersMove
    <2>2. StocksOf(J.order, J.subnet) \subseteq Row
        BY <1>0, <2>1, JobPlaces DEF Claiming
    <2> QED BY <1>5, <2>1, <2>2 DEF TakenOff, Claiming
<1>6. CASE v = w /\ ~Claiming(w)' BY <1>6 DEF TakenOff
<1> QED BY <1>1, <1>2, <1>3, <1>4, <1>5, <1>6, NoNewClaim, SerialCases

LEMMA TakenOffInit == Init => \A w \in Worker : TakenOff(w)
BY DEF Init, TakenOff, Claiming, Idle

(* A delivery that takes the next subnet claims it on all the rows of its  *)
(* order at once.                                                          *)
LEMMA PoolClaim ==
    ASSUME SerialInv, NEW w \in Worker, CreateUser(w)
    PROVE  \E o \in Order, s \in Subnet : Pool!Claim(o, s)
<1> DEFINE J == job[w]
           K == job'[w]
<1>0. TypeOK BY DEF SerialInv
<1>1. PICK o \in Order, s \in Subnet : o = J.order /\ s = K.subnet
    BY CreateUserMove
<1>2. /\ stock' = stock /\ proxies' = proxies /\ Moves(w)
      /\ J.pc = "next" /\ Claiming(w)' /\ K.order = o
      /\ StocksOf(o, s) \subseteq J.rows
      /\ \A r \in StocksOf(o, s) : s \in stock[r].avail
    BY <1>1, CreateUserMove DEF Claiming
<1>3. StocksOf(o, s) \subseteq Row BY <1>0, <1>2, JobPlaces
<1>4. \A v \in Worker : \A p, t :
          ClaimsAs(v, p, t)' <=> ClaimsAs(v, p, t) \/ (v = w /\ p = o /\ t = s)
    <2>1. \A v \in Worker \ {w} : job'[v] = job[v] BY <1>2 DEF Moves
    <2>2. ~Claiming(w) BY <1>2 DEF Claiming
    <2> QED BY <1>1, <1>2, <2>1, <2>2 DEF ClaimsAs, Claiming
<1>5. \A r \in StocksOf(o, s) : s \notin ClaimedOn(r)
    <2>1. ~Claiming(w) BY <1>2 DEF Claiming
    <2> QED BY <1>2, <2>1, ClaimSets, OneClaim DEF ClaimsAs
<1>6. \A r : ClaimedOn(r)' = IF r \in StocksOf(o, s) THEN ClaimedOn(r) \cup {s}
                             ELSE ClaimedOn(r)
    <2>1. \A r, t : t \in ClaimedOn(r)' <=> \/ t \in ClaimedOn(r)
                                            \/ r \in StocksOf(o, s) /\ t = s
        BY <1>4, ClaimSets, ClaimSetsNext
    <2>2. \A S, T : (\A x : x \in S <=> x \in T) => S = T OBVIOUS
    <2>3. ASSUME NEW r \in StocksOf(o, s) PROVE ClaimedOn(r)' = ClaimedOn(r) \cup {s}
        BY <2>1, <2>2
    <2>4. ASSUME NEW r, r \notin StocksOf(o, s) PROVE ClaimedOn(r)' = ClaimedOn(r)
        BY <2>1, <2>2, <2>4
    <2> QED BY <2>3, <2>4
<1>7. \A p : ClaimedBy(p)' = IF p = o THEN ClaimedBy(p) \cup {s} ELSE ClaimedBy(p)
    <2>1. \A p, t : t \in ClaimedBy(p)' <=> \/ t \in ClaimedBy(p)
                                            \/ p = o /\ t = s
        BY <1>4, ClaimSets, ClaimSetsNext
    <2> QED BY <2>1
<1> DEFINE offered == [r \in Row |-> stock[r].avail \ ClaimedOn(r)]
           claimed == [p \in Order |-> ClaimedBy(p)]
<1>8. \A r \in StocksOf(o, s) : s \in offered[r] BY <1>2, <1>3, <1>5
<1>9. offered' = [r \in Row |-> IF r \in StocksOf(o, s) THEN offered[r] \ {s}
                                ELSE offered[r]]
    BY <1>2, <1>6
<1>10. claimed' = [claimed EXCEPT ![o] = @ \cup {s}] BY <1>7
<1>11. [p \in Order |-> HeldBy(p)]' = [p \in Order |-> HeldBy(p)]
    BY <1>2 DEF HeldBy
<1> QED BY <1>8, <1>9, <1>10, <1>11 DEF Pool!Claim

(* A proxy is recorded for a subnet the order has claimed. *)
LEMMA PoolGive ==
    ASSUME SerialInv, NEW w \in Worker, CreateProxy(w)
    PROVE  \E o \in Order, s \in Subnet : Pool!Give(o, s)
<1> DEFINE J == job[w]
           K == job'[w]
<1>0. TypeOK BY DEF SerialInv
<1>1. PICK o \in Order, s \in Subnet : o = J.order /\ s = J.subnet
    BY CreateProxyMove
<1>2. /\ stock' = stock /\ Moves(w) /\ Claiming(w) /\ Claiming(w)'
      /\ K.order = o /\ K.subnet = s
      /\ proxies' = [proxies EXCEPT ![o][s] = @ + 1]
    BY <1>1, CreateProxyMove DEF Claiming
<1>3. (\A p : ClaimedBy(p)' = ClaimedBy(p)) /\ (\A r : ClaimedOn(r)' = ClaimedOn(r))
    BY <1>1, <1>2, SameClaims
<1>4. s \in ClaimedBy(o) BY <1>1, <1>2, ClaimSets DEF ClaimsAs
<1>5. \A p \in Order : HeldBy(p)' = IF p = o THEN HeldBy(p) \cup {s} ELSE HeldBy(p)
    <2>1. \A p \in Order, t \in Subnet :
              proxies'[p][t] > 0 <=> proxies[p][t] > 0 \/ (p = o /\ t = s)
        BY <1>0, <1>2 DEF TypeOK
    <2> QED BY <2>1 DEF HeldBy
<1> DEFINE held == [p \in Order |-> HeldBy(p)]
<1>6. held' = [held EXCEPT ![o] = @ \cup {s}] BY <1>5
<1> QED BY <1>2, <1>3, <1>4, <1>6 DEF Pool!Give

(* The last row of a subnet is saved: its claim is settled. *)
LEMMA PoolSettle ==
    ASSUME SerialInv, NEW w \in Worker, SaveCounters(w), TakenOff(w),
           job'[w].pc # "save"
    PROVE  \E o \in Order, s \in Subnet : Pool!Settle(o, s)
<1> DEFINE J == job[w]
           K == job'[w]
<1>0. TypeOK BY DEF SerialInv
<1>1. /\ Moves(w) /\ J.pc = "count" /\ Claiming(w) /\ ~Claiming(w)'
      /\ proxies' = proxies
      /\ \A r \in Row : stock'[r].avail = stock[r].avail
      /\ J.left \subseteq {J.row} /\ J.subnet \notin stock[J.row].avail
    BY SaveCountersMove DEF Claiming
<1>2. PICK o \in Order, s \in Subnet : o = J.order /\ s = J.subnet
    BY <1>0, <1>1, JobPlaces
<1>3. StocksOf(o, s) \subseteq J.rows BY <1>0, <1>1, <1>2, JobPlaces
<1>4. \A r \in StocksOf(o, s) : s \notin stock[r].avail
    BY <1>1, <1>2 DEF TakenOff
<1>5. \A v \in Worker : \A p, t :
          ClaimsAs(v, p, t)' <=> ClaimsAs(v, p, t) /\ v # w
    <2>1. \A v \in Worker \ {w} : job'[v] = job[v] BY <1>1 DEF Moves
    <2> QED BY <1>1, <2>1 DEF ClaimsAs, Claiming
<1>6. \A v \in Worker : \A p, t : ClaimsAs(v, p, t) =>
          (v = w <=> p = o /\ t = s)
    <2>1. PICK r : r \in StocksOf(o, s) BY SomeRow
    <2>2. \A v \in Worker : ClaimsAs(v, o, s) => v = w BY <1>3, <2>1, OneClaim
    <2> QED BY <1>2, <2>2 DEF ClaimsAs
<1>7. \A p : ClaimedBy(p)' = IF p = o THEN ClaimedBy(p) \ {s} ELSE ClaimedBy(p)
    <2>1. \A p, t : t \in ClaimedBy(p)' <=> t \in ClaimedBy(p) /\ ~(p = o /\ t = s)
        BY <1>5, <1>6, ClaimSets, ClaimSetsNext
    <2> QED BY <2>1
<1>8. \A r \in Row : stock'[r].avail \ ClaimedOn(r)' = stock[r].avail \ ClaimedOn(r)
    <2>1. \A r, t : t \in ClaimedOn(r)' =>  t \in ClaimedOn(r)
        BY <1>5, ClaimSets, ClaimSetsNext
    <2>2. \A r, t : t \in ClaimedOn(r) =>
              t \in ClaimedOn(r)' \/ (r \in StocksOf(o, s) /\ t = s)
        BY <1>5, <1>6, ClaimSets, ClaimSetsNext
    <2> QED BY <1>1, <1>4, <2>1, <2>2
<1>9. s \in ClaimedBy(o) BY <1>1, <1>2, ClaimSets DEF ClaimsAs
<1> DEFINE claimed == [p \in Order |-> ClaimedBy(p)]
<1>10. claimed' = [claimed EXCEPT ![o] = @ \ {s}] BY <1>7
<1>11. [p \in Order |-> HeldBy(p)]' = [p \in Order |-> HeldBy(p)]
    BY <1>1 DEF HeldBy
<1> QED BY <1>8, <1>9, <1>10, <1>11 DEF Pool!Settle

(* A return gives a row a subnet that nobody claims or holds on it. *)
LEMMA PoolTakeBack ==
    ASSUME SerialInv, RowLocked, NEW w \in Worker, GiveBack(w)
    PROVE  \E r \in Row, s \in Subnet : Pool!TakeBack(r, s)
<1> DEFINE J == job[w]
<1>0. TypeOK /\ WorkOK(w) /\ JobOK(J) BY DEF SerialInv, TypeOK
<1>1. J.pc = "giving" BY DEF GiveBack
<1>2. /\ Moves(w) /\ J.subnet \in SubnetsOf(J.row) /\ J.row \in J.left
      /\ J.subnet \in Subnet /\ J.left \subseteq Row /\ proxies' = proxies
      /\ stock'[J.row].avail = stock[J.row].avail \cup {J.subnet}
      /\ \A q \in Row \ {J.row} : stock'[q] = stock[q]
    BY <1>1, ReturnMoves
<1>3. PICK r \in Row, s \in Subnet : r = J.row /\ s = J.subnet BY <1>2
<1>4. ~Claiming(w) /\ ~Claiming(w)' BY NoNewClaim
<1>5. (\A p : ClaimedBy(p)' = ClaimedBy(p)) /\ (\A q : ClaimedOn(q)' = ClaimedOn(q))
    BY <1>2, <1>4, SameClaims
<1>6. r \in J.rows /\ Holders(r, s) = {}
    BY <1>0, <1>1, <1>2, <1>3, JobPlaces DEF WorkOK
<1>7. \A v \in Worker : \A o : ~(ClaimsAs(v, o, s) /\ r \in StocksOf(o, s))
    BY <1>4, <1>6, OneClaim DEF ClaimsAs
<1>8. s \notin ClaimedOn(r) BY <1>7, ClaimSets
<1> DEFINE offered == [q \in Row |-> stock[q].avail \ ClaimedOn(q)]
           claimed == [o \in Order |-> ClaimedBy(o)]
           held == [o \in Order |-> HeldBy(o)]
<1>9. \A o \in Order : r \in StocksOf(o, s) => s \notin claimed[o] /\ s \notin held[o]
    BY <1>6, <1>7, ClaimSets DEF HeldBy, Holders
<1>10. Pool!Users(r, s) = {} BY <1>9 DEF Pool!Users, Pool!Holds
<1>11. offered' = [offered EXCEPT ![r] = @ \cup {s}]
    BY <1>2, <1>3, <1>5, <1>8
<1>12. claimed' = claimed BY <1>5
<1>13. held' = held BY <1>2 DEF HeldBy
<1> QED BY <1>2, <1>3, <1>10, <1>11, <1>12, <1>13 DEF Pool!TakeBack

(* A worker's step is a step of the pool or leaves it alone. *)
LEMMA PoolWorker ==
    ASSUME SerialInv, RowLocked, NEW w \in Worker, Start(w) \/ JobStep(w), TakenOff(w)
    PROVE  Pool!Next
<1> DEFINE J == job[w]
           K == job'[w]
<1>0. TypeOK BY DEF SerialInv
<1>1. ASSUME proxies' = proxies, Moves(w), Claiming(w)' <=> Claiming(w),
             Claiming(w) => K.order = J.order /\ K.subnet = J.subnet,
             \A r \in Row : stock'[r].avail \ ClaimedOn(r) = stock[r].avail \ ClaimedOn(r)
      PROVE  Pool!Next
    BY <1>1, SameClaims, PoolStutters DEF Pool!Next
<1>2. CASE \/ Plain(w) \/ CheckHolders(w) \/ TryRowLock(w)
           \/ \E c \in Claims : StartReturn(w, c)
    <2>1. ~Claiming(w) /\ ~Claiming(w)' BY <1>2, NoNewClaim
    <2>2. CASE Plain(w) BY <1>1, <2>1, <2>2 DEF Plain
    <2>3. CASE CheckHolders(w) BY <1>1, <2>1, <2>3, CheckHoldersMove
    <2>4. CASE TryRowLock(w)
        <3>1. stock' = stock /\ proxies' = proxies BY <2>4 DEF TryRowLock
        <3> QED BY <1>1, <2>1, <2>4, <3>1, ReturnMoves
    <2>5. ASSUME NEW c \in Claims, StartReturn(w, c) PROVE Pool!Next
        BY <1>1, <2>1, <2>5, StartReturnMove
    <2> QED BY <1>2, <2>2, <2>3, <2>4, <2>5
<1>3. CASE RemoveSubnet(w)
    <2>1. /\ J.pc = "save" /\ Claiming(w) /\ Claiming(w)' /\ Moves(w)
          /\ K.order = J.order /\ K.subnet = J.subnet /\ proxies' = proxies
          /\ K.row \in J.left /\ K.row \in Row
          /\ stock'[K.row].avail = stock[K.row].avail \ {J.subnet}
          /\ \A q \in Row \ {K.row} : stock'[q] = stock[q]
        BY <1>3, RemoveSubnetMove DEF Claiming
    <2>2. K.row \in StocksOf(J.order, J.subnet)
        BY <1>0, <2>1 DEF TypeOK, JobOK
    <2>3. J.subnet \in ClaimedOn(K.row) BY <2>1, <2>2, ClaimSets DEF ClaimsAs
    <2>4. \A r \in Row : stock'[r].avail \ ClaimedOn(r) = stock[r].avail \ ClaimedOn(r)
        BY <2>1, <2>3
    <2> QED BY <1>1, <2>1, <2>4
<1>4. CASE SaveCounters(w)
    <2>1. CASE K.pc = "save"
        <3>1. /\ Claiming(w) /\ Claiming(w)' /\ Moves(w) /\ proxies' = proxies
              /\ K.order = J.order /\ K.subnet = J.subnet
              /\ \A r \in Row : stock'[r].avail = stock[r].avail
            BY <1>4, <2>1, SaveCountersMove DEF Claiming
        <3> QED BY <1>1, <3>1
    <2>2. CASE K.pc # "save" BY <1>4, <2>2, PoolSettle DEF Pool!Next
    <2> QED BY <2>1, <2>2
<1>5. CASE CreateUser(w) BY <1>5, PoolClaim DEF Pool!Next
<1>6. CASE CreateProxy(w) BY <1>6, PoolGive DEF Pool!Next
<1>7. CASE GiveBack(w) BY <1>7, PoolTakeBack DEF Pool!Next
<1> QED BY <1>2, <1>3, <1>4, <1>5, <1>6, <1>7, SerialCases

(* Deletions give subnets up. *)
LEMMA PoolEnvironment ==
    ASSUME SerialInv, RowLocked, SerialNext, Environment
    PROVE  Pool!Next
<1>0. TypeOK /\ stock' = stock /\ job' = job BY SerialEnvironment DEF SerialInv
<1>1. /\ \A r : ClaimedOn(r)' = ClaimedOn(r) /\ \A o : ClaimedBy(o)' = ClaimedBy(o)
    BY <1>0 DEF ClaimedOn, ClaimedBy, Claiming
<1> DEFINE held == [o \in Order |-> HeldBy(o)]
<1>2. CASE proxies' = proxies BY <1>0, <1>1, <1>2, PoolStutters DEF Pool!Next
<1>3. ASSUME NEW o \in Order, NEW S \in SUBSET Subnet,
             \A p \in Order, t \in Subnet :
                 proxies'[p][t] > 0 <=> proxies[p][t] > 0 /\ ~(p = o /\ t \in S)
      PROVE  Pool!Next
    <2>1. \A p \in Order : HeldBy(p)' = IF p = o THEN HeldBy(p) \ S ELSE HeldBy(p)
        BY <1>3 DEF HeldBy
    <2>2. held' = [held EXCEPT ![o] = @ \ S] BY <2>1
    <2>3. Pool!GiveUp(o, S) BY <1>0, <1>1, <2>2 DEF Pool!GiveUp
    <2> QED BY <1>3, <2>3 DEF Pool!Next
<1>4. ASSUME NEW o \in Order, NEW s \in Subnet, DeleteProxy(o, s) PROVE Pool!Next
    <2> DEFINE S == {t \in {s} : proxies[o][t] = 1}
    <2>1. /\ proxies[o][s] > 0 /\ proxies' = [proxies EXCEPT ![o][s] = @ - 1]
        BY <1>4 DEF DeleteProxy
    <2>2. \A p \in Order, t \in Subnet :
              proxies'[p][t] > 0 <=> proxies[p][t] > 0 /\ ~(p = o /\ t \in S)
        BY <1>0, <2>1 DEF TypeOK
    <2> QED BY <1>3, <2>2
<1>5. ASSUME NEW o \in Order, DeleteOrderProxies(o) PROVE Pool!Next
    <2>1. proxies' = [proxies EXCEPT ![o] = [t \in Subnet |-> 0]]
        BY <1>5 DEF DeleteOrderProxies
    <2>2. \A p \in Order, t \in Subnet :
              proxies'[p][t] > 0 <=> proxies[p][t] > 0 /\ ~(p = o /\ t \in Subnet)
        BY <1>0, <2>1 DEF TypeOK
    <2> QED BY <1>3, <2>2
<1> QED BY <1>2, <1>4, <1>5, SerialEnvironment

LEMMA PoolInit == Init => Pool!Init
<1> SUFFICES ASSUME Init PROVE Pool!Init OBVIOUS
<1>1. \A w \in Worker : ~Claiming(w) BY DEF Init, Idle, Claiming
<1>2. \A r : ClaimedOn(r) = {} BY <1>1 DEF ClaimedOn
<1>3. \A o : ClaimedBy(o) = {} BY <1>1 DEF ClaimedBy
<1>4. \A o \in Order : HeldBy(o) = {} BY DEF Init, HeldBy
<1> QED BY <1>2, <1>3, <1>4 DEF Init, Pool!Init

LEMMA TakenOffNext ==
    ASSUME SerialInv, RowLocked, [SerialNext]_vars, \A w \in Worker : TakenOff(w)
    PROVE  \A w \in Worker : TakenOff(w)'
<1>1. CASE stock' = stock /\ job' = job BY <1>1 DEF TakenOff, Claiming
<1>2. ASSUME NEW w \in Worker, Start(w) \/ JobStep(w) PROVE \A v \in Worker : TakenOff(v)'
    BY <1>2, TakenOffStep
<1> QED BY <1>1, <1>2, SerialEnvironment DEF SerialNext, Next, vars

LEMMA PoolStep ==
    ASSUME SerialInv, RowLocked, [SerialNext]_vars, \A w \in Worker : TakenOff(w)
    PROVE  [Pool!Next]_(Pool!vars)
<1>1. CASE UNCHANGED vars
    <2>1. stock' = stock /\ job' = job /\ proxies' = proxies BY <1>1 DEF vars
    <2>2. /\ \A r : ClaimedOn(r)' = ClaimedOn(r) /\ \A o : ClaimedBy(o)' = ClaimedBy(o)
        BY <2>1 DEF ClaimedOn, ClaimedBy, Claiming
    <2> QED BY <2>1, <2>2, PoolStutters
<1>2. CASE SerialNext
    BY <1>2, PoolWorker, PoolEnvironment DEF SerialNext, Next
<1> QED BY <1>1, <1>2

(* With separated jobs create_proxy_by_order_obj, the deletions and        *)
(* stock_return_task implement the subnet pool: every step is a claim of   *)
(* all the rows of an order, a record of a proxy, the settling of a claim, *)
(* the giving up or the taking back of a subnet nobody uses, or no step of *)
(* the pool.                                                               *)
THEOREM SerialImplementsPool == SerialSpec => ImplementsPool
<1>1. Init => Pool!Init BY PoolInit
<1>2. Init => \A w \in Worker : TakenOff(w) BY TakenOffInit
<1>3. SerialInv /\ RowLocked /\ [SerialNext]_vars /\ (\A w \in Worker : TakenOff(w))
          => (\A w \in Worker : TakenOff(w))'
    BY TakenOffNext
<1>4. SerialInv /\ RowLocked /\ [SerialNext]_vars /\ (\A w \in Worker : TakenOff(w))
          => [Pool!Next]_(Pool!vars)
    BY PoolStep
<1> QED BY <1>1, <1>2, <1>3, <1>4, SerialCorrect, RowsAreLocked, PTL
    DEF SerialSpec, ImplementsPool, Pool!Spec
=============================================================================
