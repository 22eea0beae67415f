------------------------ MODULE StockDelivery_proofs ------------------------
(* What holds of StockDelivery for every value of its constants and every  *)
(* interleaving and crash.                                                 *)
EXTENDS StockDelivery, FiniteSetTheorems, TLAPS

USE DEF Row, NoRow, SetJob

(* The Proxy rows of one order, numbered within each subnet. *)
Numbered(f) == UNION {{s} \X (1 .. f[s]) : s \in Subnet}

LEMMA NumberedFinite ==
    ASSUME NEW f \in [Subnet -> Nat]
    PROVE  IsFiniteSet(Numbered(f)) /\ Cardinality(Numbered(f)) \in Nat
<1> DEFINE Of(s) == {s} \X (1 .. f[s])
           all == {Of(s) : s \in Subnet}
           g == [s \in Subnet |-> Of(s)]
<1>1. ASSUME NEW s \in Subnet PROVE IsFiniteSet(Of(s))
    <2>1. IsFiniteSet({s}) BY FS_Singleton
    <2>2. f[s] \in Int /\ 1 \in Int OBVIOUS
    <2>3. IsFiniteSet(1 .. f[s]) BY <2>2, FS_Interval
    <2> QED BY <2>1, <2>3, FS_Product
<1>2. g \in Surjection(Subnet, all) BY DEF Surjection
<1>3. IsFiniteSet(all) BY <1>2, FS_Surjection, StockAssumption
<1>4. \A T \in all : IsFiniteSet(T) BY <1>1
<1>5. IsFiniteSet(UNION all) BY <1>3, <1>4, FS_UNION
<1> QED BY <1>5, FS_CardinalityType DEF Numbered

(* An order has a number of proxies: the Proxy rows of its subnets are     *)
(* finitely many.                                                          *)
LEMMA CountType ==
    ASSUME NEW o \in Order, proxies \in [Order -> [Subnet -> Nat]]
    PROVE  Count(o) \in Nat
<1>1. proxies[o] \in [Subnet -> Nat] OBVIOUS
<1> QED BY <1>1, NumberedFinite DEF Count, Numbered

(* A row as the table or a job has it. *)
LEMMA IdleOK == Idle \in Job /\ JobOK(Idle)
BY DEF Idle, Job, JobOK, PC, Blank, Stock, SubnetsOf

(* Replacing one worker's job by a well-formed one. *)
LEMMA JobUpdate ==
    ASSUME TypeOK, NEW w \in Worker, NEW j \in Job, JobOK(j),
           job' = [job EXCEPT ![w] = j]
    PROVE  job' \in [Worker -> Job] /\ \A v \in Worker : JobOK(job'[v])
BY DEF TypeOK

(* A delivery's steps keep every variable in its type. *)
LEMMA DeliveryType ==
    ASSUME TypeOK, NEW w \in Worker, DeliveryStep(w)
    PROVE  TypeOK'
<1> DEFINE J == job[w]
<1>0. /\ J \in Job /\ JobOK(J) /\ Idle \in Job /\ JobOK(Idle)
    BY IdleOK DEF TypeOK
<1>1. CASE AcquireLock(w)
    <2> DEFINE o == J.order
               have == IF J.fill THEN Count(o) ELSE 0
               j == [J EXCEPT !.pc = "read", !.need = Quantity[o] - have]
    <2>1. J.pc = "lock" /\ o \in Order BY <1>0, <1>1 DEF AcquireLock, JobOK
    <2>2. have \in Nat /\ Quantity[o] \in Nat
        BY <2>1, CountType, StockAssumption DEF TypeOK
    <2>3. CASE J.fill /\ have >= Quantity[o]
        <3>1. job' = [job EXCEPT ![w] = Idle] BY <1>1, <2>3 DEF AcquireLock
        <3>2. job' \in [Worker -> Job] /\ \A v \in Worker : JobOK(job'[v])
            BY <1>0, <3>1, JobUpdate
        <3> QED BY <1>1, <2>3, <3>2 DEF AcquireLock, TypeOK
    <2>4. CASE ~(J.fill /\ have >= Quantity[o])
        <3>1. job' = [job EXCEPT ![w] = j] /\ lock' = [lock EXCEPT ![o] = w]
            BY <1>1, <2>4 DEF AcquireLock
        <3>2. Quantity[o] - have \in Nat BY <2>2, <2>4
        <3>3. j \in Job BY <1>0, <3>2 DEF Job, PC
        <3>4. JobOK(j) BY <1>0, <2>1 DEF Job, JobOK
        <3>5. job' \in [Worker -> Job] /\ \A v \in Worker : JobOK(job'[v])
            BY <3>1, <3>3, <3>4, JobUpdate
        <3> QED BY <1>1, <2>1, <3>1, <3>5 DEF AcquireLock, TypeOK
    <2> QED BY <2>3, <2>4
<1>2. CASE ReadStock(w)
    <2> DEFINE o == J.order
               j == [J EXCEPT !.pc = "next", !.rows = RowsOf(o),
                              !.snap = Read(RowsOf(o)), !.todo = Available(o, stock)]
    <2>1. J.pc = "read" /\ o \in Order BY <1>0, <1>2 DEF ReadStock, JobOK
    <2>2. CASE Available(o, stock) = {}
        <3>1. job' = [job EXCEPT ![w] = Idle] BY <1>2, <2>2 DEF ReadStock
        <3>2. job' \in [Worker -> Job] /\ \A v \in Worker : JobOK(job'[v])
            BY <1>0, <3>1, JobUpdate
        <3> QED BY <1>2, <2>1, <2>2, <3>2 DEF ReadStock, TypeOK
    <2>3. CASE Available(o, stock) # {}
        <3>1. job' = [job EXCEPT ![w] = j] BY <1>2, <2>3 DEF ReadStock
        <3>2. RowsOf(o) \subseteq Row BY <2>1, StockAssumption DEF RowsOf
        <3>3. Read(RowsOf(o)) \in [Row -> Stock] BY DEF Read, Blank, Stock, TypeOK
        <3>4. Available(o, stock) \subseteq Subnet BY DEF Available
        <3>5. j \in Job BY <1>0, <3>2, <3>3, <3>4 DEF Job, PC
        <3>6. \A r \in Row : Read(RowsOf(o))[r].avail \subseteq SubnetsOf(r)
            BY DEF Read, Blank, TypeOK
        <3>7. JobOK(j) BY <1>0, <2>1, <3>6 DEF Job, JobOK, Available
        <3>8. job' \in [Worker -> Job] /\ \A v \in Worker : JobOK(job'[v])
            BY <3>1, <3>5, <3>7, JobUpdate
        <3> QED BY <1>2, <2>3, <3>8 DEF ReadStock, TypeOK
    <2> QED BY <2>2, <2>3
<1>3. CASE CreateUser(w)
    <2>1. PICK s \in J.todo, n \in KaxyAnswers :
              job' = [job EXCEPT ![w] = [J EXCEPT
                         !.pc = IF n > 0 THEN "create" ELSE "save",
                         !.todo = J.todo \ {s}, !.subnet = s, !.making = n,
                         !.left = StocksOf(J.order, s)]]
        BY <1>3 DEF CreateUser
    <2> DEFINE j == [J EXCEPT !.pc = IF n > 0 THEN "create" ELSE "save",
                              !.todo = J.todo \ {s}, !.subnet = s, !.making = n,
                              !.left = StocksOf(J.order, s)]
    <2>2. J.pc = "next" /\ J.order \in Order BY <1>0, <1>3 DEF CreateUser, JobOK
    <2>3. s \in Subnet /\ s \in Nat /\ n \in Nat /\ CidrOf[s] \in Cidr
        BY <1>0, StockAssumption DEF Job
    <2>4. CidrOf[s] \in CidrsOf[J.order] BY <1>0, <2>2 DEF JobOK
    <2>5. /\ StocksOf(J.order, s) \subseteq Row /\ StocksOf(J.order, s) # {}
          /\ StocksOf(J.order, s) \subseteq RowsOf(J.order)
        <3>1. AclsOf[J.order] \subseteq Acl /\ AclsOf[J.order] # {}
            BY <2>2, StockAssumption
        <3>2. PICK a \in AclsOf[J.order] : TRUE BY <3>1
        <3>3. <<CidrOf[s], a>> \in StocksOf(J.order, s) BY DEF StocksOf
        <3> QED BY <2>3, <2>4, <3>1, <3>3 DEF StocksOf, RowsOf
    <2>6. j \in Job BY <1>0, <2>3, <2>5 DEF Job, PC
    <2>7. JobOK(j) BY <1>0, <2>2, <2>3, <2>5 DEF Job, JobOK
    <2>8. job' \in [Worker -> Job] /\ \A v \in Worker : JobOK(job'[v])
        BY <2>1, <2>6, <2>7, JobUpdate
    <2> QED BY <1>3, <2>8 DEF CreateUser, TypeOK
<1>4. CASE KaxyFails(w) \/ Finish(w)
    <2>1. job' = [job EXCEPT ![w] = Idle] BY <1>4 DEF KaxyFails, Finish
    <2>2. job' \in [Worker -> Job] /\ \A v \in Worker : JobOK(job'[v])
        BY <1>0, <2>1, JobUpdate
    <2> QED BY <1>4, <2>2 DEF KaxyFails, Finish, TypeOK
<1>5. CASE CreateProxy(w)
    <2> DEFINE j == [J EXCEPT !.got = J.got + 1, !.making = J.making - 1,
                              !.pc = IF J.making = 1 THEN "save" ELSE "create"]
    <2>1. J.pc = "create" /\ J.order \in Order /\ J.subnet \in Subnet
        BY <1>0, <1>5 DEF CreateProxy, JobOK
    <2>2. J.making \in Nat /\ J.making > 0 /\ J.got \in Nat
        BY <1>0, <2>1 DEF JobOK, Job
    <2>3. job' = [job EXCEPT ![w] = j] BY <1>5 DEF CreateProxy
    <2>a. J.got + 1 \in Nat /\ J.making - 1 \in Nat BY <2>2
    <2>b. (IF J.making = 1 THEN "save" ELSE "create") \in PC BY DEF PC
    <2>4. j \in Job BY <1>0, <2>a, <2>b DEF Job
    <2>5. JobOK(j) BY <1>0, <2>1, <2>2 DEF Job, JobOK
    <2>6. job' \in [Worker -> Job] /\ \A v \in Worker : JobOK(job'[v])
        BY <2>3, <2>4, <2>5, JobUpdate
    <2>7. proxies' \in [Order -> [Subnet -> Nat]]
        BY <1>5, <2>1 DEF CreateProxy, TypeOK
    <2> QED BY <1>5, <2>6, <2>7 DEF CreateProxy, TypeOK
<1>6. CASE RemoveSubnet(w)
    <2>1. PICK r \in J.left :
              LET mine == [J.snap[r] EXCEPT !.avail = J.snap[r].avail \ {J.subnet}]
              IN  /\ stock' = [stock EXCEPT ![r] = mine]
                  /\ job' = [job EXCEPT ![w] = [J EXCEPT !.pc = "count", !.row = r,
                                 !.snap = [J.snap EXCEPT ![r] = mine]]]
        BY <1>6 DEF RemoveSubnet
    <2> DEFINE mine == [J.snap[r] EXCEPT !.avail = J.snap[r].avail \ {J.subnet}]
               snap == [J.snap EXCEPT ![r] = mine]
               j == [J EXCEPT !.pc = "count", !.row = r, !.snap = snap]
    <2>2. J.pc = "save" BY <1>6 DEF RemoveSubnet
    <2>3. r \in Row /\ J.snap \in [Row -> Stock] BY <1>0 DEF Job
    <2>4. mine \in Stock /\ mine.avail \subseteq SubnetsOf(r)
        BY <1>0, <2>3 DEF JobOK, Stock
    <2>5. snap \in [Row -> Stock] /\ \A q \in Row : snap[q].avail \subseteq SubnetsOf(q)
        BY <1>0, <2>3, <2>4 DEF JobOK
    <2>6. j \in Job BY <1>0, <2>3, <2>5 DEF Job, PC
    <2>7. JobOK(j) BY <1>0, <2>2, <2>5 DEF Job, JobOK
    <2>8. job' \in [Worker -> Job] /\ \A v \in Worker : JobOK(job'[v])
        BY <2>1, <2>6, <2>7, JobUpdate
    <2>9. stock' \in [Row -> Stock] /\ \A q \in Row : stock'[q].avail \subseteq SubnetsOf(q)
        BY <2>1, <2>3, <2>4 DEF TypeOK
    <2> QED BY <1>6, <2>8, <2>9 DEF RemoveSubnet, TypeOK
<1>7. CASE SaveCounters(w)
    <2> DEFINE r == J.row
               rest == J.left \ {r}
               done == J.got >= J.need \/ J.todo = {}
               j == [J EXCEPT !.left = rest, !.row = NoRow,
                              !.pc = IF rest # {} THEN "save"
                                     ELSE IF done THEN "finish" ELSE "next"]
    <2>1. J.pc = "count" /\ r \in J.left /\ r \in Row
        BY <1>0, <1>7 DEF SaveCounters, JobOK, Job
    <2>2. job' = [job EXCEPT ![w] = j] BY <1>7 DEF SaveCounters
    <2>a. (IF rest # {} THEN "save" ELSE IF done THEN "finish" ELSE "next") \in PC
        BY DEF PC
    <2>3. j \in Job BY <1>0, <2>a DEF Job
    <2>4. JobOK(j) BY <1>0, <2>1 DEF Job, JobOK
    <2>5. job' \in [Worker -> Job] /\ \A v \in Worker : JobOK(job'[v])
        BY <2>2, <2>3, <2>4, JobUpdate
    <2>6. stock' \in [Row -> Stock] /\ \A q \in Row : stock'[q].avail \subseteq SubnetsOf(q)
        BY <1>0, <1>7, <2>1 DEF SaveCounters, TypeOK, Job, JobOK
    <2> QED BY <1>7, <2>5, <2>6 DEF SaveCounters, TypeOK
<1> QED BY <1>1, <1>2, <1>3, <1>4, <1>5, <1>6, <1>7 DEF DeliveryStep

(* A claim is a set of rows and a subnet. *)
LEMMA ClaimType ==
    ASSUME NEW c \in Claims
    PROVE  c[1] \subseteq Row /\ c[2] \in Subnet /\ c = <<c[1], c[2]>>
<1>1. PICK o \in Order, s \in Subnet : c = <<StocksOf(o, s), s>> BY DEF Claims, Claim
<1>2. CidrOf[s] \in Cidr /\ AclsOf[o] \subseteq Acl BY StockAssumption
<1> QED BY <1>1, <1>2 DEF StocksOf

LEMMA ReadType ==
    ASSUME TypeOK, NEW R
    PROVE  /\ Read(R) \in [Row -> Stock]
           /\ \A r \in Row : Read(R)[r].avail \subseteq SubnetsOf(r)
BY DEF Read, Blank, Stock, TypeOK

(* The steps of stock_return_task keep every variable in its type. *)
LEMMA ReturnType ==
    ASSUME TypeOK, NEW w \in Worker, ReturnStep(w)
    PROVE  TypeOK'
<1> DEFINE J == job[w]
<1>0. /\ J \in Job /\ JobOK(J) /\ Idle \in Job /\ JobOK(Idle)
    BY IdleOK DEF TypeOK
<1>a. ASSUME NEW r \in J.left, J.pc \in {"give", "giving"}
      PROVE  AfterRow(J, r) \in Job /\ JobOK(AfterRow(J, r))
    <2>1. CASE J.left = {r} BY <1>0, <2>1 DEF AfterRow
    <2>2. CASE J.left # {r}
        <3> DEFINE j == [J EXCEPT !.pc = "give", !.left = J.left \ {r}, !.row = NoRow]
        <3>1. j \in Job BY <1>0 DEF Job, PC
        <3>2. J.left \ {r} # {} BY <2>2
        <3>3. JobOK(j) BY <1>0, <1>a, <3>2 DEF Job, JobOK
        <3> QED BY <2>2, <3>1, <3>3 DEF AfterRow
    <2> QED BY <2>1, <2>2
<1>1. CASE CheckHolders(w)
    <2> DEFINE free == {r \in J.rows : Holders(r, J.subnet) = {}}
               j == [J EXCEPT !.pc = "give", !.left = free]
    <2>1. J.pc = "holders" BY <1>1 DEF CheckHolders
    <2>2. CASE free = {}
        <3>1. job' = [job EXCEPT ![w] = Idle] BY <1>1, <2>2 DEF CheckHolders
        <3>2. job' \in [Worker -> Job] /\ \A v \in Worker : JobOK(job'[v])
            BY <1>0, <3>1, JobUpdate
        <3> QED BY <1>1, <3>2 DEF CheckHolders, TypeOK
    <2>3. CASE free # {}
        <3>1. job' = [job EXCEPT ![w] = j] BY <1>1, <2>3 DEF CheckHolders
        <3>2. j \in Job BY <1>0 DEF Job, PC
        <3>3. JobOK(j) BY <1>0, <2>1, <2>3 DEF Job, JobOK
        <3>4. job' \in [Worker -> Job] /\ \A v \in Worker : JobOK(job'[v])
            BY <3>1, <3>2, <3>3, JobUpdate
        <3> QED BY <1>1, <3>4 DEF CheckHolders, TypeOK
    <2> QED BY <2>2, <2>3
<1>2. CASE TryRowLock(w)
    <2>1. J.pc = "give" BY <1>2 DEF TryRowLock
    <2>2. PICK r \in J.left :
              IF rowLock[r] = Free
              THEN /\ rowLock' = [rowLock EXCEPT ![r] = w]
                   /\ job' = [job EXCEPT ![w] = [J EXCEPT !.pc = "giving", !.row = r]]
              ELSE /\ job' = [job EXCEPT ![w] = AfterRow(J, r)]
                   /\ UNCHANGED rowLock
        BY <1>2 DEF TryRowLock
    <2> DEFINE j == [J EXCEPT !.pc = "giving", !.row = r]
    <2>3. r \in Row BY <1>0 DEF Job
    <2>4. j \in Job BY <1>0, <2>3 DEF Job, PC
    <2>5. JobOK(j) BY <1>0, <2>1 DEF Job, JobOK
    <2>6. job' \in [Worker -> Job] /\ \A v \in Worker : JobOK(job'[v])
        BY <1>a, <2>1, <2>2, <2>4, <2>5, JobUpdate
    <2>7. rowLock' \in [Row -> Worker \cup {Free, Orphan}]
        BY <2>2, <2>3 DEF TypeOK
    <2> QED BY <1>2, <2>6, <2>7 DEF TryRowLock, TypeOK
<1>3. CASE GiveBack(w)
    <2> DEFINE r == J.row
               s == J.subnet
               c == <<J.rows, s>>
               mine == J.snap[r]
               st == [mine EXCEPT !.avail = mine.avail \cup {s}]
    <2>1. J.pc = "giving" /\ r \in J.left BY <1>0, <1>3 DEF GiveBack, JobOK
    <2>2. r \in Row BY <1>0, <2>1 DEF Job
    <2>3. c \in Claims BY <1>0, <2>1 DEF JobOK
    <2>4. s \in Subnet BY <2>3, ClaimType
    <2>5. job' = [job EXCEPT ![w] = AfterRow(J, r)] \/ job' = [job EXCEPT ![w] = Idle]
        BY <1>3 DEF GiveBack
    <2>6. job' \in [Worker -> Job] /\ \A v \in Worker : JobOK(job'[v])
        BY <1>0, <1>a, <2>1, <2>5, JobUpdate
    <2>7. mine \in Stock /\ mine.avail \subseteq SubnetsOf(r)
        BY <1>0, <2>2 DEF Job, JobOK
    <2>a. rowLock' \in [Row -> Worker \cup {Free, Orphan}]
        <3>1. rowLock' = [rowLock EXCEPT ![r] = Free] \/ rowLock' = rowLock
            BY <1>3 DEF GiveBack
        <3> QED BY <2>2, <3>1 DEF TypeOK
    <2>b. queued' \in [Claims -> Nat]
        <3> HIDE DEF c
        <3>1. queued' = [queued EXCEPT ![c] = queued[c] + 1] \/ queued' = queued
            BY <1>3 DEF GiveBack, c
        <3>2. queued[c] + 1 \in Nat BY <2>3 DEF TypeOK
        <3> QED BY <2>3, <3>1, <3>2 DEF TypeOK
    <2>8. CASE s \in mine.avail \/ s \notin SubnetsOf(r)
        <3>1. stock' = stock BY <1>3, <2>8 DEF GiveBack
        <3> QED BY <1>3, <2>6, <2>a, <2>b, <3>1 DEF GiveBack, TypeOK
    <2>9. CASE ~(s \in mine.avail \/ s \notin SubnetsOf(r))
        <3>1. stock' = [stock EXCEPT ![r] = st] BY <1>3, <2>9 DEF GiveBack
        <3>2. st \in Stock /\ st.avail \subseteq SubnetsOf(r)
            BY <2>4, <2>7, <2>9 DEF Stock
        <3>3. stock' \in [Row -> Stock] /\ \A q \in Row : stock'[q].avail \subseteq SubnetsOf(q)
            BY <2>2, <3>1, <3>2 DEF TypeOK
        <3> QED BY <1>3, <2>6, <2>a, <2>b, <3>3 DEF GiveBack, TypeOK
    <2> QED BY <2>8, <2>9
<1> QED BY <1>1, <1>2, <1>3 DEF ReturnStep

(* The administrative saves keep every variable in its type. *)
LEMMA SaveType ==
    ASSUME TypeOK, NEW w \in Worker, CommitExclude(w) \/ SaveRefresh(w)
    PROVE  TypeOK'
<1>1. SaveCopies(w) BY DEF CommitExclude, SaveRefresh
<1>2. job' = [job EXCEPT ![w] = Idle] BY <1>1 DEF SaveCopies
<1>3. job' \in [Worker -> Job] /\ \A v \in Worker : JobOK(job'[v])
    BY <1>2, IdleOK, JobUpdate
<1>4. job[w] \in Job /\ JobOK(job[w]) BY DEF TypeOK
<1>5. stock' \in [Row -> Stock] /\ \A r \in Row : stock'[r].avail \subseteq SubnetsOf(r)
    BY <1>1, <1>4 DEF SaveCopies, TypeOK, Job, JobOK
<1>6. excludeAcl' \subseteq Row BY <1>4 DEF CommitExclude, SaveRefresh, TypeOK, Job
<1> QED BY <1>1, <1>3, <1>5, <1>6 DEF SaveCopies, TypeOK

(* Starting a job keeps every variable in its type. *)
LEMMA StartType ==
    ASSUME TypeOK, NEW w \in Worker, Start(w)
    PROVE  TypeOK'
<1>0. Idle \in Job /\ JobOK(Idle) BY IdleOK
<1>1. ASSUME NEW o \in Order, StartFull(w, o) PROVE TypeOK'
    <2> DEFINE j == [Idle EXCEPT !.pc = "lock", !.order = o]
    <2>1. j \in Job BY <1>0 DEF Job, PC
    <2>2. JobOK(j) BY <1>0 DEF Idle, JobOK
    <2>3. job' = [job EXCEPT ![w] = j] BY <1>1 DEF StartFull
    <2>4. job' \in [Worker -> Job] /\ \A v \in Worker : JobOK(job'[v])
        BY <2>1, <2>2, <2>3, JobUpdate
    <2>5. fulls' \in [Order -> Nat] BY <1>1 DEF StartFull, TypeOK
    <2> QED BY <1>1, <2>4, <2>5 DEF StartFull, TypeOK
<1>5. ASSUME NEW o \in Order, StartFill(w, o) PROVE TypeOK'
    <2> DEFINE j == [Idle EXCEPT !.pc = "lock", !.order = o, !.fill = TRUE]
    <2>1. j \in Job BY <1>0 DEF Job, PC
    <2>2. JobOK(j) BY <1>0 DEF Idle, JobOK
    <2>3. job' = [job EXCEPT ![w] = j] BY <1>5 DEF StartFill
    <2>4. job' \in [Worker -> Job] /\ \A v \in Worker : JobOK(job'[v])
        BY <2>1, <2>2, <2>3, JobUpdate
    <2> QED BY <1>5, <2>4 DEF StartFill, TypeOK
<1>2. ASSUME NEW c \in Claims, StartReturn(w, c) PROVE TypeOK'
    <2> DEFINE j == [Idle EXCEPT !.pc = "holders", !.rows = c[1],
                                 !.snap = Read(c[1]), !.subnet = c[2]]
    <2>1. c[1] \subseteq Row /\ c[2] \in Subnet /\ c[2] \in Nat /\ <<c[1], c[2]>> \in Claims
        BY ClaimType, StockAssumption
    <2>2. Read(c[1]) \in [Row -> Stock] BY ReadType
    <2>3. \A r \in Row : Read(c[1])[r].avail \subseteq SubnetsOf(r) BY ReadType
    <2>4. j \in Job BY <1>0, <2>1, <2>2 DEF Job, PC
    <2>5. JobOK(j) BY <2>1, <2>3 DEF Idle, JobOK
    <2>6. job' = [job EXCEPT ![w] = j] BY <1>2 DEF StartReturn
    <2>7. job' \in [Worker -> Job] /\ \A v \in Worker : JobOK(job'[v])
        BY <2>4, <2>5, <2>6, JobUpdate
    <2>8. queued' \in [Claims -> Nat] BY <1>2 DEF StartReturn, TypeOK
    <2> QED BY <1>2, <2>7, <2>8 DEF StartReturn, TypeOK
<1>3. ASSUME NEW d \in Cidr, NEW A \in SUBSET Acl, StartExclude(w, d, A) PROVE TypeOK'
    <2> DEFINE rows == {d} \X Acl
               snap == [r \in Row |-> IF r \in rows
                           THEN [avail |-> stock[r].avail, excluded |-> r[2] \in A]
                           ELSE Blank]
               j == [Idle EXCEPT !.pc = "exclude", !.rows = rows, !.snap = snap]
    <2>1. rows \subseteq Row OBVIOUS
    <2>2. snap \in [Row -> Stock] BY DEF Blank, Stock, TypeOK
    <2>3. \A r \in Row : snap[r].avail \subseteq SubnetsOf(r) BY DEF Blank, TypeOK
    <2>4. j \in Job BY <1>0, <2>1, <2>2 DEF Job, PC
    <2>5. JobOK(j) BY <2>3 DEF Idle, JobOK
    <2>6. job' = [job EXCEPT ![w] = j] BY <1>3 DEF StartExclude
    <2>7. job' \in [Worker -> Job] /\ \A v \in Worker : JobOK(job'[v])
        BY <2>4, <2>5, <2>6, JobUpdate
    <2>8. touches' \in Nat BY <1>3 DEF StartExclude, TypeOK
    <2> QED BY <1>3, <2>7, <2>8 DEF StartExclude, TypeOK
<1>4. ASSUME NEW r \in Row, StartRefresh(w, r) PROVE TypeOK'
    <2> DEFINE j == [Idle EXCEPT !.pc = "resave", !.rows = {r}, !.snap = Read({r})]
    <2>1. Read({r}) \in [Row -> Stock] BY ReadType
    <2>2. \A q \in Row : Read({r})[q].avail \subseteq SubnetsOf(q) BY ReadType
    <2>3. j \in Job BY <1>0, <2>1 DEF Job, PC
    <2>4. JobOK(j) BY <2>2 DEF Idle, JobOK
    <2>5. job' = [job EXCEPT ![w] = j] BY <1>4 DEF StartRefresh
    <2>6. job' \in [Worker -> Job] /\ \A v \in Worker : JobOK(job'[v])
        BY <2>3, <2>4, <2>5, JobUpdate
    <2>7. touches' \in Nat BY <1>4 DEF StartRefresh, TypeOK
    <2> QED BY <1>4, <2>6, <2>7 DEF StartRefresh, TypeOK
<1> QED BY <1>1, <1>2, <1>3, <1>4, <1>5 DEF Start

(* Deletions, timeouts and crashes keep every variable in its type. *)
LEMMA EnvironmentType ==
    ASSUME TypeOK, Environment
    PROVE  TypeOK'
<1>a. ASSUME NEW gone \in SUBSET Claims, PostDelete(gone)
      PROVE  returnKey' \subseteq Claims /\ queued' \in [Claims -> Nat]
    BY <1>a DEF PostDelete, TypeOK
<1>1. ASSUME NEW o \in Order, NEW s \in Subnet, DeleteProxy(o, s) PROVE TypeOK'
    <2>1. {Claim(o, s)} \in SUBSET Claims BY DEF Claims
    <2>2. returnKey' \subseteq Claims /\ queued' \in [Claims -> Nat]
        BY <1>a, <1>1, <2>1 DEF DeleteProxy
    <2>3. proxies[o][s] - 1 \in Nat BY <1>1 DEF DeleteProxy, TypeOK
    <2>4. proxies' \in [Order -> [Subnet -> Nat]]
        BY <1>1, <2>3 DEF DeleteProxy, TypeOK
    <2> QED BY <1>1, <2>2, <2>4 DEF DeleteProxy, TypeOK
<1>2. ASSUME NEW o \in Order, DeleteOrderProxies(o) PROVE TypeOK'
    <2> DEFINE gone == {s \in Subnet : proxies[o][s] > 0}
    <2>1. {Claim(o, s) : s \in gone} \in SUBSET Claims BY DEF Claims
    <2>2. returnKey' \subseteq Claims /\ queued' \in [Claims -> Nat]
        BY <1>a, <1>2, <2>1 DEF DeleteOrderProxies
    <2>3. proxies' \in [Order -> [Subnet -> Nat]]
        BY <1>2 DEF DeleteOrderProxies, TypeOK
    <2> QED BY <1>2, <2>2, <2>3 DEF DeleteOrderProxies, TypeOK
<1>3. ASSUME NEW c \in Claims, KeyExpires(c) PROVE TypeOK'
    BY <1>3 DEF KeyExpires, TypeOK
<1>4. ASSUME NEW w \in Worker, Crash(w) PROVE TypeOK'
    <2>1. job' \in [Worker -> Job] /\ \A v \in Worker : JobOK(job'[v])
        BY <1>4, IdleOK, JobUpdate DEF Crash
    <2>2. faults' \in Nat BY <1>4 DEF Crash, TypeOK
    <2>3. /\ lock' \in [Order -> Worker \cup {Free, Orphan}]
          /\ rowLock' \in [Row -> Worker \cup {Free, Orphan}]
        BY <1>4 DEF Crash, TypeOK
    <2> QED BY <1>4, <2>1, <2>2, <2>3 DEF Crash, TypeOK
<1>5. ASSUME NEW r \in Row, RowLockExpires(r) PROVE TypeOK'
    <2>1. faults' \in Nat BY <1>5 DEF RowLockExpires, TypeOK
    <2>2. rowLock' \in [Row -> Worker \cup {Free, Orphan}]
        BY <1>5 DEF RowLockExpires, TypeOK
    <2> QED BY <1>5, <2>1, <2>2 DEF RowLockExpires, TypeOK
<1> QED BY <1>1, <1>2, <1>3, <1>4, <1>5 DEF Environment

LEMMA TypeStep ==
    ASSUME TypeOK, [Next]_vars
    PROVE  TypeOK'
<1>1. CASE Next
    BY <1>1, DeliveryType, ReturnType, SaveType, StartType, EnvironmentType
    DEF Next, JobStep
<1>2. CASE UNCHANGED vars BY <1>2 DEF vars, TypeOK
<1> QED BY <1>1, <1>2

LEMMA TypeInit == ASSUME Init PROVE TypeOK
<1>1. \A w \in Worker : job[w] = Idle BY DEF Init
<1>2. job \in [Worker -> Job] /\ \A w \in Worker : JobOK(job[w])
    BY <1>1, IdleOK DEF Init
<1>3. stock \in [Row -> Stock] /\ \A r \in Row : stock[r].avail \subseteq SubnetsOf(r)
    BY DEF Init, Stock, SubnetsOf
<1> QED BY <1>2, <1>3 DEF Init, TypeOK

(* In every behaviour of the code, with crashes, each variable has its     *)
(* type, rows offer only subnets of their CIDR, and every job is           *)
(* well-formed.                                                            *)
THEOREM TypeCorrect == Spec => []TypeOK
BY TypeInit, TypeStep, PTL DEF Spec

-----------------------------------------------------------------------------
(* A worker that delivers holds the lock of its order.                     *)
LockInv ==
    \A w \in Worker : Delivering(w) => lock[job[w].order] = w

(* What a return task and the administrative saves do to a worker's job. *)
LEMMA OtherMove ==
    ASSUME TypeOK, NEW w \in Worker, ReturnStep(w) \/ CommitExclude(w) \/ SaveRefresh(w)
    PROVE  /\ \E j : /\ job' = [job EXCEPT ![w] = j]
                     /\ j.pc \in {"idle", "give", "giving"}
           /\ UNCHANGED <<proxies, lock, fulls>>
<1>0. job[w] \in Job BY DEF TypeOK
<1>1. Idle.pc = "idle" BY DEF Idle
<1>2. \A r : AfterRow(job[w], r).pc \in {"idle", "give"}
    BY <1>0, <1>1 DEF AfterRow, Job
<1>3. UNCHANGED <<proxies, lock, fulls>>
    BY DEF ReturnStep, CheckHolders, TryRowLock, GiveBack, CommitExclude, SaveRefresh,
           SaveCopies
<1>4. CASE CheckHolders(w)
    <2> DEFINE free == {r \in job[w].rows : Holders(r, job[w].subnet) = {}}
               j == IF free = {} THEN Idle
                    ELSE [job[w] EXCEPT !.pc = "give", !.left = free]
    <2>1. job' = [job EXCEPT ![w] = j] BY <1>4 DEF CheckHolders
    <2>2. j.pc \in {"idle", "give"} BY <1>0, <1>1 DEF Job
    <2> QED BY <1>3, <2>1, <2>2
<1>5. CASE TryRowLock(w)
    <2>1. PICK r : \/ job' = [job EXCEPT ![w] = [job[w] EXCEPT !.pc = "giving", !.row = r]]
                   \/ job' = [job EXCEPT ![w] = AfterRow(job[w], r)]
        BY <1>5 DEF TryRowLock
    <2>2. [job[w] EXCEPT !.pc = "giving", !.row = r].pc = "giving"
        BY <1>0 DEF Job
    <2> QED BY <1>2, <1>3, <2>1, <2>2
<1>6. CASE GiveBack(w) BY <1>1, <1>2, <1>3, <1>6 DEF GiveBack
<1>7. CASE CommitExclude(w) \/ SaveRefresh(w)
    BY <1>1, <1>3, <1>7 DEF CommitExclude, SaveRefresh, SaveCopies
<1> QED BY <1>4, <1>5, <1>6, <1>7 DEF ReturnStep

(* What the start of a job does to the worker's job: a delivery that is    *)
(* not a fill is counted in fulls.                                         *)
LEMMA StartMove ==
    ASSUME TypeOK, NEW w \in Worker, Start(w)
    PROVE  /\ \E j : /\ job' = [job EXCEPT ![w] = j]
                     /\ j.pc \in {"lock", "holders", "exclude", "resave"}
                     /\ j.pc = "lock" => j.got = 0 /\ (j.fill \/ fulls'[j.order] > 0)
           /\ UNCHANGED <<proxies, lock>>
           /\ \A o \in Order : fulls'[o] = 0 => fulls[o] = 0
<1> DEFINE Moves ==
        \E j : /\ job' = [job EXCEPT ![w] = j]
               /\ j.pc \in {"lock", "holders", "exclude", "resave"}
               /\ j.pc = "lock" => j.got = 0 /\ (j.fill \/ fulls'[j.order] > 0)
<1>0. fulls \in [Order -> Nat] BY DEF TypeOK
<1>1. UNCHANGED <<proxies, lock>>
    BY DEF Start, StartFull, StartFill, StartReturn, StartExclude, StartRefresh
<1>2. ASSUME NEW o \in Order, StartFull(w, o)
      PROVE  Moves /\ \A p \in Order : fulls'[p] = 0 => fulls[p] = 0
    <2> DEFINE j == [Idle EXCEPT !.pc = "lock", !.order = o]
    <2>1. job' = [job EXCEPT ![w] = j] /\ fulls' = [fulls EXCEPT ![o] = @ + 1]
        BY <1>2 DEF StartFull
    <2>2. j.pc = "lock" /\ j.got = 0 /\ j.order = o BY DEF Idle
    <2>3. fulls'[o] > 0 /\ \A p \in Order : fulls'[p] = 0 => fulls[p] = 0
        BY <1>0, <2>1
    <2> HIDE DEF j
    <2> QED BY <2>1, <2>2, <2>3
<1>3. ASSUME NEW o \in Order, StartFill(w, o) PROVE Moves /\ fulls' = fulls
    <2> DEFINE j == [Idle EXCEPT !.pc = "lock", !.order = o, !.fill = TRUE]
    <2>1. job' = [job EXCEPT ![w] = j] /\ fulls' = fulls BY <1>3 DEF StartFill
    <2>2. j.pc = "lock" /\ j.got = 0 /\ j.fill = TRUE BY DEF Idle
    <2> HIDE DEF j
    <2> QED BY <2>1, <2>2
<1>4. ASSUME NEW c \in Claims, StartReturn(w, c) PROVE Moves /\ fulls' = fulls
    <2> DEFINE j == [Idle EXCEPT !.pc = "holders", !.rows = c[1],
                                 !.snap = Read(c[1]), !.subnet = c[2]]
    <2>1. job' = [job EXCEPT ![w] = j] /\ fulls' = fulls BY <1>4 DEF StartReturn
    <2>2. j.pc = "holders" BY DEF Idle
    <2> HIDE DEF j
    <2> QED BY <2>1, <2>2
<1>5. ASSUME NEW d \in Cidr, NEW A \in SUBSET Acl, StartExclude(w, d, A)
      PROVE  Moves /\ fulls' = fulls
    <2>1. PICK rows, snap : job' = [job EXCEPT ![w] =
              [Idle EXCEPT !.pc = "exclude", !.rows = rows, !.snap = snap]]
        BY <1>5 DEF StartExclude
    <2> DEFINE j == [Idle EXCEPT !.pc = "exclude", !.rows = rows, !.snap = snap]
    <2>2. j.pc = "exclude" BY DEF Idle
    <2>3. job' = [job EXCEPT ![w] = j] /\ fulls' = fulls BY <1>5, <2>1 DEF StartExclude
    <2> HIDE DEF j
    <2> QED BY <2>2, <2>3
<1>6. ASSUME NEW r \in Row, StartRefresh(w, r) PROVE Moves /\ fulls' = fulls
    <2> DEFINE j == [Idle EXCEPT !.pc = "resave", !.rows = {r}, !.snap = Read({r})]
    <2>1. job' = [job EXCEPT ![w] = j] /\ fulls' = fulls BY <1>6 DEF StartRefresh
    <2>2. j.pc = "resave" BY DEF Idle
    <2> HIDE DEF j
    <2> QED BY <2>1, <2>2
<1>7. fulls' = fulls => \A o \in Order : fulls'[o] = 0 => fulls[o] = 0 OBVIOUS
<1> HIDE DEF Moves
<1>8. Moves /\ \A o \in Order : fulls'[o] = 0 => fulls[o] = 0
    BY <1>2, <1>3, <1>4, <1>5, <1>6, <1>7 DEF Start
<1> QED BY <1>1, <1>8 DEF Moves

LEMMA LockStep ==
    ASSUME TypeOK, LockInv, [Next]_vars
    PROVE  LockInv'
<1>0. /\ \A w \in Worker : /\ job[w] \in Job /\ JobOK(job[w])
                           /\ Delivering(w) => job[w].order \in Order
      /\ lock \in [Order -> Worker \cup {Free, Orphan}]
      /\ job \in [Worker -> Job]
    BY DEF TypeOK, JobOK, Delivering
(* A step that leaves the locks alone and moves one worker, which delivers *)
(* the same order before it when it does after it.                         *)
<1>a. ASSUME NEW w \in Worker, NEW j, job' = [job EXCEPT ![w] = j], lock' = lock,
             \/ j.pc \notin {"read", "next", "create", "save", "count", "finish"}
             \/ Delivering(w) /\ j.order = job[w].order
      PROVE  LockInv'
    BY <1>0, <1>a DEF LockInv, Delivering
(* A step by which a worker stops delivering and releases its lock. *)
<1>b. ASSUME NEW w \in Worker, Delivering(w), job' = [job EXCEPT ![w] = Idle],
             lock' = [lock EXCEPT ![job[w].order] = Free]
      PROVE  LockInv'
    <2> SUFFICES ASSUME NEW v \in Worker, Delivering(v)'
                 PROVE  (lock[job[v].order] = v)'
        BY DEF LockInv
    <2>1. v # w BY <1>0, <1>b DEF Delivering, Idle
    <2>2. job'[v] = job[v] /\ Delivering(v) BY <1>0, <1>b, <2>1 DEF Delivering
    <2>3. lock[job[v].order] = v /\ lock[job[w].order] = w BY <1>b, <2>2 DEF LockInv
    <2> QED BY <1>0, <1>b, <2>1, <2>2, <2>3
<1>1. ASSUME NEW w \in Worker, AcquireLock(w) PROVE LockInv'
    <2> DEFINE o == job[w].order
    <2>1. job[w].pc = "lock" /\ o \in Order /\ lock[o] = Free
        BY <1>0, <1>1 DEF AcquireLock, JobOK
    <2>2. CASE lock' = lock
        <3>1. job' = [job EXCEPT ![w] = Idle]
            BY <1>0, <1>1, <2>1, <2>2, StockAssumption DEF AcquireLock
        <3> QED BY <1>a, <2>2, <3>1 DEF Idle
    <2>3. CASE lock' # lock
        <3>1. PICK n : /\ lock' = [lock EXCEPT ![o] = w]
                       /\ job' = [job EXCEPT ![w] =
                                     [job[w] EXCEPT !.pc = "read", !.need = n]]
            BY <1>1, <2>3 DEF AcquireLock
        <3> SUFFICES ASSUME NEW v \in Worker, Delivering(v)'
                     PROVE  (lock[job[v].order] = v)'
            BY DEF LockInv
        <3>2. CASE v = w
            <4>1. job'[w].order = o BY <1>0, <3>1 DEF Job
            <4> QED BY <1>0, <2>1, <3>1, <3>2, <4>1
        <3>3. CASE v # w
            <4>1. job'[v] = job[v] /\ Delivering(v) BY <1>0, <3>1, <3>3 DEF Delivering
            <4>2. lock[job[v].order] = v BY <4>1 DEF LockInv
            <4>3. job[v].order # o BY <2>1, <4>2, StockAssumption
            <4> QED BY <1>0, <3>1, <4>1, <4>2, <4>3
        <3> QED BY <3>2, <3>3
    <2> QED BY <2>2, <2>3
<1>2. ASSUME NEW w \in Worker, ReadStock(w) PROVE LockInv'
    <2>1. Delivering(w) BY <1>2 DEF ReadStock, Delivering
    <2>2. CASE Available(job[w].order, stock) = {}
        BY <1>2, <1>b, <2>1, <2>2 DEF ReadStock
    <2>3. CASE Available(job[w].order, stock) # {}
        <3> DEFINE o == job[w].order
                   j == [job[w] EXCEPT !.pc = "next", !.rows = RowsOf(o),
                            !.snap = Read(RowsOf(o)), !.todo = Available(o, stock)]
        <3>1. job' = [job EXCEPT ![w] = j] /\ lock' = lock
            BY <1>2, <2>3 DEF ReadStock
        <3>2. j.order = o BY <1>0 DEF Job
        <3> QED BY <1>a, <2>1, <3>1, <3>2
    <2> QED BY <2>2, <2>3
<1>3. ASSUME NEW w \in Worker, CreateUser(w) PROVE LockInv'
    <2>1. Delivering(w) /\ lock' = lock BY <1>3 DEF CreateUser, Delivering
    <2>2. PICK s \in job[w].todo, n \in KaxyAnswers :
              job' = [job EXCEPT ![w] = [job[w] EXCEPT
                         !.pc = IF n > 0 THEN "create" ELSE "save",
                         !.todo = job[w].todo \ {s}, !.subnet = s, !.making = n,
                         !.left = StocksOf(job[w].order, s)]]
        BY <1>3 DEF CreateUser
    <2> DEFINE j == [job[w] EXCEPT !.pc = IF n > 0 THEN "create" ELSE "save",
                         !.todo = job[w].todo \ {s}, !.subnet = s, !.making = n,
                         !.left = StocksOf(job[w].order, s)]
    <2>3. j.order = job[w].order BY <1>0 DEF Job
    <2> QED BY <1>a, <2>1, <2>2, <2>3
<1>4. ASSUME NEW w \in Worker, KaxyFails(w) \/ Finish(w) PROVE LockInv'
    BY <1>4, <1>b DEF KaxyFails, Finish, Delivering
<1>5. ASSUME NEW w \in Worker, CreateProxy(w) PROVE LockInv'
    <2>1. Delivering(w) /\ lock' = lock BY <1>5 DEF CreateProxy, Delivering
    <2>2. PICK g, m, p : job' = [job EXCEPT ![w] = [job[w] EXCEPT
                                    !.got = g, !.making = m, !.pc = p]]
        BY <1>5 DEF CreateProxy
    <2> DEFINE j == [job[w] EXCEPT !.got = g, !.making = m, !.pc = p]
    <2>3. j.order = job[w].order BY <1>0 DEF Job
    <2> QED BY <1>a, <2>1, <2>2, <2>3
<1>6. ASSUME NEW w \in Worker, RemoveSubnet(w) PROVE LockInv'
    <2>1. Delivering(w) /\ lock' = lock BY <1>6 DEF RemoveSubnet, Delivering
    <2>2. PICK r, sn : job' = [job EXCEPT ![w] = [job[w] EXCEPT
                                  !.pc = "count", !.row = r, !.snap = sn]]
        BY <1>6 DEF RemoveSubnet
    <2> DEFINE j == [job[w] EXCEPT !.pc = "count", !.row = r, !.snap = sn]
    <2>3. j.order = job[w].order BY <1>0 DEF Job
    <2> QED BY <1>a, <2>1, <2>2, <2>3
<1>7. ASSUME NEW w \in Worker, SaveCounters(w) PROVE LockInv'
    <2>1. Delivering(w) /\ lock' = lock BY <1>7 DEF SaveCounters, Delivering
    <2>2. PICK l, p : job' = [job EXCEPT ![w] = [job[w] EXCEPT
                                 !.left = l, !.row = NoRow, !.pc = p]]
        BY <1>7 DEF SaveCounters
    <2> DEFINE j == [job[w] EXCEPT !.left = l, !.row = NoRow, !.pc = p]
    <2>3. j.order = job[w].order BY <1>0 DEF Job
    <2> QED BY <1>a, <2>1, <2>2, <2>3
<1>8. ASSUME NEW w \in Worker, ReturnStep(w) \/ CommitExclude(w) \/ SaveRefresh(w)
      PROVE  LockInv'
    BY <1>8, <1>a, OtherMove
<1>9. ASSUME NEW w \in Worker, Start(w) PROVE LockInv' BY <1>9, <1>a, StartMove
<1>10. ASSUME NEW w \in Worker, Crash(w) PROVE LockInv'
    <2> SUFFICES ASSUME NEW v \in Worker, Delivering(v)'
                 PROVE  (lock[job[v].order] = v)'
        BY DEF LockInv
    <2>1. v # w BY <1>0, <1>10 DEF Crash, Delivering, Idle
    <2>2. job'[v] = job[v] /\ Delivering(v) BY <1>0, <1>10, <2>1 DEF Crash, Delivering
    <2>3. lock[job[v].order] = v /\ job[v].order \in Order BY <1>0, <2>2 DEF LockInv
    <2> QED BY <1>10, <2>1, <2>2, <2>3 DEF Crash
<1>11. CASE /\ Environment
            /\ ~\E w \in Worker : Crash(w)
    <2>1. UNCHANGED <<lock, job>>
        BY <1>11 DEF Environment, DeleteProxy, DeleteOrderProxies, KeyExpires,
                     RowLockExpires
    <2> QED BY <2>1 DEF LockInv, Delivering
<1>12. CASE UNCHANGED vars BY <1>12 DEF vars, LockInv, Delivering
<1> QED BY <1>1, <1>2, <1>3, <1>4, <1>5, <1>6, <1>7, <1>8, <1>9, <1>10, <1>11, <1>12
        DEF Next, JobStep, DeliveryStep, Environment

LEMMA LockInit == ASSUME Init PROVE LockInv
BY DEF Init, LockInv, Delivering, Idle

(* Two workers never deliver to one order at the same time, for any number *)
(* of workers and orders, whatever crashes.                                *)
THEOREM DeliveriesExclusive == Spec => []OneDelivery
<1>1. Init => TypeOK /\ LockInv BY TypeInit, LockInit
<1>2. TypeOK /\ LockInv /\ [Next]_vars => (TypeOK /\ LockInv)'
    BY TypeStep, LockStep
<1>3. TypeOK /\ LockInv => OneDelivery BY DEF LockInv, OneDelivery
<1> QED BY <1>1, <1>2, <1>3, PTL DEF Spec

-----------------------------------------------------------------------------
(* A fill stops when the order has what its quantity needs.              *)

LEMMA NumberedIn ==
    ASSUME NEW f \in [Subnet -> Nat], NEW s, NEW i
    PROVE  <<s, i>> \in Numbered(f) <=> s \in Subnet /\ i \in 1 .. f[s]
BY DEF Numbered

LEMMA NumberedPairs ==
    ASSUME NEW f \in [Subnet -> Nat], NEW x \in Numbered(f)
    PROVE  \E s \in Subnet, i \in Nat : i \in 1 .. f[s] /\ x = <<s, i>>
<1>1. PICK s \in Subnet : x \in {s} \X (1 .. f[s]) BY DEF Numbered
<1>2. x[2] \in 1 .. f[s] /\ x = <<s, x[2]>> BY <1>1
<1> QED BY <1>2

(* Fewer proxies on every subnet, fewer proxies of the order. *)
LEMMA CountLess ==
    ASSUME proxies \in [Order -> [Subnet -> Nat]], proxies' \in [Order -> [Subnet -> Nat]],
           NEW o \in Order, \A s \in Subnet : proxies'[o][s] <= proxies[o][s]
    PROVE  Count(o)' <= Count(o)
<1> DEFINE f == proxies[o]
           g == proxies'[o]
<1>1. f \in [Subnet -> Nat] /\ g \in [Subnet -> Nat] OBVIOUS
<1>2. Count(o) = Cardinality(Numbered(f)) /\ Count(o)' = Cardinality(Numbered(g))
    BY DEF Count, Numbered
<1>3. \A s \in Subnet : g[s] <= f[s] OBVIOUS
<1> HIDE DEF f, g
<1>4. Numbered(g) \subseteq Numbered(f)
    <2> SUFFICES ASSUME NEW x \in Numbered(g) PROVE x \in Numbered(f) OBVIOUS
    <2>1. PICK s \in Subnet, i \in Nat : i \in 1 .. g[s] /\ x = <<s, i>> BY <1>1, NumberedPairs
    <2>2. g[s] \in Nat /\ f[s] \in Nat /\ g[s] <= f[s] BY <1>1, <1>3
    <2>3. i \in 1 .. f[s] BY <2>1, <2>2
    <2> QED BY <1>1, <2>1, <2>3, NumberedIn
<1> QED BY <1>1, <1>2, <1>4, NumberedFinite, FS_Subset

(* One proxy more on one subnet, one proxy more of the order. *)
LEMMA CountMore ==
    ASSUME proxies \in [Order -> [Subnet -> Nat]], proxies' \in [Order -> [Subnet -> Nat]],
           NEW o \in Order, NEW s \in Subnet,
           proxies' = [proxies EXCEPT ![o][s] = @ + 1]
    PROVE  /\ Count(o)' = Count(o) + 1
           /\ \A p \in Order \ {o} : Count(p)' = Count(p)
<1> DEFINE f == proxies[o]
           g == proxies'[o]
<1>1. f \in [Subnet -> Nat] /\ g \in [Subnet -> Nat] OBVIOUS
<1>2. Count(o) = Cardinality(Numbered(f)) /\ Count(o)' = Cardinality(Numbered(g))
    BY DEF Count, Numbered
<1>3. g[s] = f[s] + 1 /\ \A t \in Subnet \ {s} : g[t] = f[t] OBVIOUS
<1>4. \A p \in Order \ {o} : proxies'[p] = proxies[p] OBVIOUS
<1>5. \A p \in Order \ {o} : Count(p)' = Count(p) BY <1>4 DEF Count
<1> HIDE DEF f, g
<1> DEFINE new == <<s, f[s] + 1>>
<1>6. f[s] \in Nat /\ new \notin Numbered(f) BY <1>1, NumberedIn
<1>7. Numbered(g) = Numbered(f) \cup {new}
    <2>1. ASSUME NEW x \in Numbered(g) PROVE x \in Numbered(f) \cup {new}
        <3>1. PICK t \in Subnet, i \in Nat : i \in 1 .. g[t] /\ x = <<t, i>> BY <1>1, NumberedPairs
        <3>2. CASE t = s /\ i = f[s] + 1 BY <3>1, <3>2
        <3>3. CASE t = s /\ i # f[s] + 1
            <4>1. i \in 1 .. f[s] + 1 BY <1>3, <3>1, <3>3
            <4>2. i # f[s] + 1 /\ f[t] = f[s] BY <3>3
            <4>3. i \in 1 .. f[t] BY <1>6, <4>1, <4>2
            <4> QED BY <1>1, <3>1, <4>3, NumberedIn
        <3>4. CASE t # s
            <4>1. i \in 1 .. f[t] BY <1>3, <3>1, <3>4
            <4> QED BY <1>1, <3>1, <4>1, NumberedIn
        <3> QED BY <3>2, <3>3, <3>4
    <2>2. ASSUME NEW x \in Numbered(f) PROVE x \in Numbered(g)
        <3>1. PICK t \in Subnet, i \in Nat : i \in 1 .. f[t] /\ x = <<t, i>> BY <1>1, NumberedPairs
        <3>2. f[t] \in Nat /\ g[t] \in Nat /\ f[t] <= g[t] BY <1>1, <1>3
        <3>3. i \in 1 .. g[t] BY <3>1, <3>2
        <3> QED BY <1>1, <3>1, <3>3, NumberedIn
    <2>3. new \in Numbered(g)
        <3>1. f[s] + 1 \in 1 .. g[s] BY <1>3, <1>6
        <3> QED BY <1>1, <3>1, NumberedIn
    <2> QED BY <2>1, <2>2, <2>3
<1>8. Cardinality(Numbered(g)) = Cardinality(Numbered(f)) + 1
    <2> HIDE DEF new
    <2> QED BY <1>1, <1>6, <1>7, NumberedFinite, FS_AddElement
<1> QED BY <1>2, <1>5, <1>8

(* What bounds a fill j of the order o, which has c proxies, when an       *)
(* answer of the proxy server has at most n: the count under the lock      *)
(* leaves room for need proxies, and no subnet is begun beyond them.       *)
FillJob(j, o, n, c) ==
    /\ j.pc = "lock" => j.fill /\ j.got = 0
    /\ j.pc \in {"read", "next", "create", "save", "count", "finish"}
         => j.fill /\ c + j.need <= Quantity[o] + j.got
    /\ j.pc \in {"read", "next"} => j.got < j.need
    /\ j.pc = "create" => j.got + j.making < j.need + n
    /\ j.pc \in {"save", "count", "finish"} => j.got < j.need + n

FillOK(o, n) ==
    fulls[o] = 0 =>
        /\ Count(o) < Quantity[o] + n
        /\ \A w \in Worker : job[w].order = o => FillJob(job[w], o, n, Count(o))

Most == {n \in KaxyAnswers : \A m \in KaxyAnswers : m <= n}

FillInv == \A o \in Order, n \in Most : FillOK(o, n)

LEMMA CountNat ==
    ASSUME NEW o \in Order
    PROVE  TypeOK => Count(o) \in Nat
BY CountType DEF TypeOK

LEMMA FillJobLess ==
    ASSUME NEW j \in Job, NEW o \in Order, NEW n \in Nat, NEW c \in Nat, NEW d \in Nat,
           d <= c, FillJob(j, o, n, c)
    PROVE  FillJob(j, o, n, d)
<1>1. j.need \in Nat /\ j.got \in Nat /\ Quantity[o] \in Nat
    BY StockAssumption DEF Job
<1>2. c + j.need <= Quantity[o] + j.got => d + j.need <= Quantity[o] + j.got
    BY <1>1
<1> QED BY <1>2 DEF FillJob

(* A worker moves to a job that is bound as well, and no proxy is made. *)
LEMMA FillMove ==
    ASSUME TypeOK, TypeOK', NEW o \in Order, NEW n \in Nat, FillOK(o, n),
           fulls'[o] = 0 => fulls[o] = 0, Count(o)' <= Count(o),
           NEW w \in Worker, NEW j, job' = [job EXCEPT ![w] = j],
           fulls[o] = 0 /\ fulls'[o] = 0 /\ j.order = o => FillJob(j, o, n, Count(o)')
    PROVE  FillOK(o, n)'
<1> SUFFICES ASSUME fulls'[o] = 0
             PROVE  /\ Count(o)' < Quantity[o] + n
                    /\ \A v \in Worker : job'[v].order = o
                                         => FillJob(job'[v], o, n, Count(o)')
    BY DEF FillOK, FillJob
<1>1. Count(o) \in Nat /\ Count(o)' \in Nat
    <2>1. proxies'[o] \in [Subnet -> Nat] BY DEF TypeOK
    <2>2. Count(o)' \in Nat BY <2>1, NumberedFinite DEF Count, Numbered
    <2> QED BY <2>2, CountNat
<1>2. /\ Count(o) < Quantity[o] + n
      /\ \A v \in Worker : job[v].order = o => FillJob(job[v], o, n, Count(o))
    BY DEF FillOK
<1>3. Count(o)' < Quantity[o] + n
    <2>1. Quantity[o] \in Nat BY StockAssumption
    <2> QED BY <1>1, <1>2, <2>1
<1>4. ASSUME NEW v \in Worker, job'[v].order = o PROVE FillJob(job'[v], o, n, Count(o)')
    <2>0. job \in [Worker -> Job] BY DEF TypeOK
    <2>1. CASE v = w BY <1>4, <2>0, <2>1
    <2>2. CASE v # w
        <3>1. job'[v] = job[v] /\ job[v] \in Job BY <2>0, <2>2
        <3>2. FillJob(job[v], o, n, Count(o)) BY <1>2, <1>4, <3>1
        <3>3. FillJob(job[v], o, n, Count(o)') BY <1>1, <3>1, <3>2, FillJobLess
        <3> QED BY <3>1, <3>3
    <2> QED BY <2>1, <2>2
<1> QED BY <1>3, <1>4

(* A job that delivers nothing is not bound. *)
LEMMA NotFilling ==
    ASSUME NEW j, NEW o, NEW n, NEW c,
           j.pc \notin {"lock", "read", "next", "create", "save", "count", "finish"}
    PROVE  FillJob(j, o, n, c)
BY DEF FillJob

(* The steps of a delivery. *)
LEMMA FillDelivery ==
    ASSUME TypeOK, TypeOK', LockInv, NEW w \in Worker, DeliveryStep(w),
           NEW o \in Order, NEW n \in Most, FillOK(o, n)
    PROVE  FillOK(o, n)'
<1> DEFINE J == job[w]
<1>0. /\ job \in [Worker -> Job] /\ J \in Job /\ JobOK(J)
      /\ J.need \in Nat /\ J.got \in Nat /\ J.making \in Nat
      /\ Quantity[o] \in Nat /\ Count(o) \in Nat /\ n \in Nat
      /\ \A m \in KaxyAnswers : m \in Nat /\ m <= n
    BY CountNat, StockAssumption DEF TypeOK, Job, Most
<1>1. fulls' = fulls
    BY DEF DeliveryStep, AcquireLock, ReadStock, CreateUser, KaxyFails, CreateProxy,
           RemoveSubnet, SaveCounters, Finish
<1>2. ~CreateProxy(w) => Count(o)' = Count(o) /\ Count(o)' <= Count(o)
    <2>1. ~CreateProxy(w) => proxies' = proxies
        BY DEF DeliveryStep, AcquireLock, ReadStock, CreateUser, KaxyFails,
               RemoveSubnet, SaveCounters, Finish
    <2>2. ~CreateProxy(w) => Count(o)' = Count(o) BY <2>1 DEF Count
    <2> QED BY <1>0, <2>2
<1>3. fulls[o] = 0 /\ J.order = o => FillJob(J, o, n, Count(o)) BY DEF FillOK
<1>4. Idle.pc = "idle" BY DEF Idle
<1>5. CASE KaxyFails(w) \/ Finish(w)
    <2>1. job' = [job EXCEPT ![w] = Idle] BY <1>5 DEF KaxyFails, Finish
    <2>2. ~CreateProxy(w) BY <1>5 DEF KaxyFails, Finish, CreateProxy
    <2>3. FillJob(Idle, o, n, Count(o)') BY <1>4, NotFilling
    <2> QED BY <1>0, <1>1, <1>2, <2>1, <2>2, <2>3, FillMove
<1>6. CASE AcquireLock(w)
    <2> DEFINE have == IF J.fill THEN Count(J.order) ELSE 0
               j == [J EXCEPT !.pc = "read", !.need = Quantity[J.order] - have]
    <2>1. J.pc = "lock" /\ ~CreateProxy(w) BY <1>6 DEF AcquireLock, CreateProxy
    <2>2. CASE J.fill /\ have >= Quantity[J.order]
        <3>1. job' = [job EXCEPT ![w] = Idle] BY <1>6, <2>2 DEF AcquireLock
        <3>2. FillJob(Idle, o, n, Count(o)') BY <1>4, NotFilling
        <3> QED BY <1>0, <1>1, <1>2, <2>1, <3>1, <3>2, FillMove
    <2>3. CASE ~(J.fill /\ have >= Quantity[J.order])
        <3>1. job' = [job EXCEPT ![w] = j] BY <1>6, <2>3 DEF AcquireLock
        <3>2. ASSUME fulls[o] = 0, j.order = o PROVE FillJob(j, o, n, Count(o)')
            <4>1. /\ j.order = J.order /\ j.pc = "read" /\ j.fill = J.fill
                  /\ j.got = J.got /\ j.need = Quantity[J.order] - have
                BY <1>0 DEF Job
            <4>2. J.order = o /\ J.fill /\ J.got = 0
                BY <1>3, <2>1, <3>2, <4>1 DEF FillJob
            <4>3. have = Count(o) /\ Count(o) < Quantity[o] BY <1>0, <2>3, <4>2
            <4>4. j.need = Quantity[o] - Count(o) BY <4>1, <4>2, <4>3
            <4>5. Count(o) + j.need <= Quantity[o] + j.got /\ j.got < j.need
                BY <1>0, <4>1, <4>2, <4>3, <4>4
            <4>6. Count(o)' = Count(o) BY <1>2, <2>1
            <4> HIDE DEF j
            <4> QED BY <4>1, <4>2, <4>5, <4>6 DEF FillJob
        <3> HIDE DEF j
        <3> QED BY <1>0, <1>1, <1>2, <2>1, <3>1, <3>2, FillMove
    <2> QED BY <2>2, <2>3
<1>7. CASE ReadStock(w)
    <2> DEFINE j == [J EXCEPT !.pc = "next", !.rows = RowsOf(J.order),
                              !.snap = Read(RowsOf(J.order)),
                              !.todo = Available(J.order, stock)]
    <2>1. J.pc = "read" /\ ~CreateProxy(w) BY <1>7 DEF ReadStock, CreateProxy
    <2>2. CASE Available(J.order, stock) = {}
        <3>1. job' = [job EXCEPT ![w] = Idle] BY <1>7, <2>2 DEF ReadStock
        <3>2. FillJob(Idle, o, n, Count(o)') BY <1>4, NotFilling
        <3> QED BY <1>0, <1>1, <1>2, <2>1, <3>1, <3>2, FillMove
    <2>3. CASE Available(J.order, stock) # {}
        <3>1. job' = [job EXCEPT ![w] = j] BY <1>7, <2>3 DEF ReadStock
        <3>2. /\ j.order = J.order /\ j.pc = "next" /\ j.fill = J.fill
              /\ j.got = J.got /\ j.need = J.need
            BY <1>0 DEF Job
        <3> HIDE DEF j
        <3>3. ASSUME fulls[o] = 0, j.order = o PROVE FillJob(j, o, n, Count(o)')
            BY <1>2, <1>3, <2>1, <3>2, <3>3 DEF FillJob
        <3> QED BY <1>0, <1>1, <1>2, <2>1, <3>1, <3>3, FillMove
    <2> QED BY <2>2, <2>3
<1>8. CASE CreateUser(w)
    <2>1. J.pc = "next" /\ ~CreateProxy(w) BY <1>8 DEF CreateUser, CreateProxy
    <2>2. PICK s \in J.todo, k \in KaxyAnswers :
              job' = [job EXCEPT ![w] = [J EXCEPT
                         !.pc = IF k > 0 THEN "create" ELSE "save",
                         !.todo = J.todo \ {s}, !.subnet = s, !.making = k,
                         !.left = StocksOf(J.order, s)]]
        BY <1>8 DEF CreateUser
    <2> DEFINE j == [J EXCEPT !.pc = IF k > 0 THEN "create" ELSE "save",
                         !.todo = J.todo \ {s}, !.subnet = s, !.making = k,
                         !.left = StocksOf(J.order, s)]
    <2>3. /\ j.order = J.order /\ j.pc \in {"create", "save"} /\ j.fill = J.fill
          /\ j.got = J.got /\ j.need = J.need /\ j.making = k
        BY <1>0 DEF Job
    <2>4. job' = [job EXCEPT ![w] = j] BY <2>2
    <2> HIDE DEF j
    <2>5. ASSUME fulls[o] = 0, j.order = o PROVE FillJob(j, o, n, Count(o)')
        <3>1. J.fill /\ Count(o) + J.need <= Quantity[o] + J.got /\ J.got < J.need
            BY <1>3, <2>1, <2>3, <2>5 DEF FillJob
        <3>2. k \in Nat /\ k <= n BY <1>0
        <3>3. j.got + j.making < j.need + n /\ j.got < j.need + n
            BY <1>0, <2>3, <3>1, <3>2
        <3> QED BY <1>2, <2>1, <2>3, <3>1, <3>3 DEF FillJob
    <2> QED BY <1>0, <1>1, <1>2, <2>1, <2>4, <2>5, FillMove
<1>9. CASE RemoveSubnet(w)
    <2>1. J.pc = "save" /\ ~CreateProxy(w) BY <1>9 DEF RemoveSubnet, CreateProxy
    <2>2. PICK r, sn : job' = [job EXCEPT ![w] = [J EXCEPT
                                  !.pc = "count", !.row = r, !.snap = sn]]
        BY <1>9 DEF RemoveSubnet
    <2> DEFINE j == [J EXCEPT !.pc = "count", !.row = r, !.snap = sn]
    <2>3. /\ j.order = J.order /\ j.pc = "count" /\ j.fill = J.fill
          /\ j.got = J.got /\ j.need = J.need
        BY <1>0 DEF Job
    <2>4. job' = [job EXCEPT ![w] = j] BY <2>2
    <2> HIDE DEF j
    <2>5. ASSUME fulls[o] = 0, j.order = o PROVE FillJob(j, o, n, Count(o)')
        BY <1>2, <1>3, <2>1, <2>3, <2>5 DEF FillJob
    <2> QED BY <1>0, <1>1, <1>2, <2>1, <2>4, <2>5, FillMove
<1>10. CASE SaveCounters(w)
    <2> DEFINE rest == J.left \ {J.row}
               done == J.got >= J.need \/ J.todo = {}
               p == IF rest # {} THEN "save" ELSE IF done THEN "finish" ELSE "next"
               j == [J EXCEPT !.left = rest, !.row = NoRow, !.pc = p]
    <2>1. J.pc = "count" /\ ~CreateProxy(w) BY <1>10 DEF SaveCounters, CreateProxy
    <2>2. job' = [job EXCEPT ![w] = j] BY <1>10 DEF SaveCounters
    <2>3. /\ j.order = J.order /\ j.pc = p /\ j.fill = J.fill
          /\ j.got = J.got /\ j.need = J.need
        BY <1>0 DEF Job
    <2>4. p \in {"save", "finish"} \/ (p = "next" /\ J.got < J.need) BY <1>0
    <2> HIDE DEF j, p
    <2>5. ASSUME fulls[o] = 0, j.order = o PROVE FillJob(j, o, n, Count(o)')
        BY <1>2, <1>3, <2>1, <2>3, <2>4, <2>5 DEF FillJob
    <2> QED BY <1>0, <1>1, <1>2, <2>1, <2>2, <2>5, FillMove
<1>11. CASE CreateProxy(w)
    <2> DEFINE q == IF J.making = 1 THEN "save" ELSE "create"
               j == [J EXCEPT !.got = J.got + 1, !.making = J.making - 1, !.pc = q]
    <2>1. J.pc = "create" /\ J.order \in Order /\ J.subnet \in Subnet /\ J.making > 0
        BY <1>0, <1>11 DEF CreateProxy, JobOK
    <2>2. /\ proxies' = [proxies EXCEPT ![J.order][J.subnet] = @ + 1]
          /\ job' = [job EXCEPT ![w] = j]
        BY <1>11 DEF CreateProxy
    <2>3. /\ j.order = J.order /\ j.pc = q /\ j.fill = J.fill
          /\ j.got = J.got + 1 /\ j.need = J.need /\ j.making = J.making - 1
        BY <1>0 DEF Job
    <2>a. q = (IF J.making = 1 THEN "save" ELSE "create") OBVIOUS
    <2>b. PICK p \in Order, s \in Subnet : p = J.order /\ s = J.subnet BY <2>1
    <2>4. /\ Count(p)' = Count(p) + 1
          /\ \A r \in Order \ {p} : Count(r)' = Count(r)
        <3>1. proxies' = [proxies EXCEPT ![p][s] = @ + 1] BY <2>2, <2>b
        <3> HIDE DEF J
        <3> QED BY <3>1, CountMore DEF TypeOK
    <2> HIDE DEF j, q
    <2>5. CASE J.order # o
        <3>1. Count(o)' = Count(o) /\ Count(o)' <= Count(o) BY <1>0, <2>4, <2>5, <2>b
        <3> QED BY <1>0, <1>1, <2>2, <2>3, <2>5, <3>1, FillMove
    <2>6. CASE J.order = o
        <3> SUFFICES ASSUME fulls[o] = 0 PROVE FillOK(o, n)' BY <1>1 DEF FillOK
        <3>1. /\ J.fill /\ Count(o) + J.need <= Quantity[o] + J.got
              /\ J.got + J.making < J.need + n
            BY <1>3, <2>1, <2>6 DEF FillJob
        <3>2. Count(o)' = Count(o) + 1 BY <2>4, <2>6, <2>b
        <3>3. Count(o)' < Quantity[o] + n BY <1>0, <2>1, <3>1, <3>2
        <3>4. ASSUME NEW v \in Worker, job'[v].order = o
              PROVE  FillJob(job'[v], o, n, Count(o)')
            <4>1. CASE v = w
                <5>1. job'[v] = j BY <1>0, <2>2, <4>1
                <5>2. j.fill /\ Count(o)' + j.need <= Quantity[o] + j.got
                    BY <1>0, <2>3, <3>1, <3>2
                <5>3. q = "create" => j.got + j.making < j.need + n
                    BY <1>0, <2>1, <2>3, <3>1
                <5>4. j.got < j.need + n BY <1>0, <2>1, <2>3, <3>1
                <5>5. q \in {"create", "save"} BY <2>a
                <5> QED BY <2>3, <5>1, <5>2, <5>3, <5>4, <5>5 DEF FillJob
            <4>2. CASE v # w
                <5>1. job'[v] = job[v] BY <1>0, <2>2, <4>2
                <5>2. ~Delivering(v)
                    BY <2>1, <2>6, <3>4, <4>2, <5>1 DEF LockInv, Delivering
                <5>3. FillJob(job[v], o, n, Count(o)) BY <3>4, <5>1 DEF FillOK
                <5> QED BY <5>1, <5>2, <5>3 DEF FillJob, Delivering
            <4> QED BY <4>1, <4>2
        <3> QED BY <3>3, <3>4 DEF FillOK, FillJob
    <2> QED BY <2>5, <2>6
<1> QED BY <1>5, <1>6, <1>7, <1>8, <1>9, <1>10, <1>11 DEF DeliveryStep

LEMMA FillEnvironment ==
    ASSUME TypeOK, TypeOK', Environment, NEW o \in Order, NEW n \in Most, FillOK(o, n)
    PROVE  FillOK(o, n)'
<1>0. /\ Count(o) \in Nat /\ Count(o)' \in Nat /\ n \in Nat
      /\ job \in [Worker -> Job]
    <2>1. proxies'[o] \in [Subnet -> Nat] BY DEF TypeOK
    <2>2. Count(o)' \in Nat BY <2>1, NumberedFinite DEF Count, Numbered
    <2> QED BY <2>2, CountNat, StockAssumption DEF TypeOK, Most
<1>1. fulls' = fulls
    BY DEF Environment, DeleteProxy, DeleteOrderProxies, KeyExpires, Crash, RowLockExpires
<1>2. Count(o)' <= Count(o)
    <2>1. \A s \in Subnet : proxies'[o][s] <= proxies[o][s]
        <3>0. \A p \in Order, s \in Subnet : proxies[p][s] \in Nat BY DEF TypeOK
        <3>1. ASSUME NEW p \in Order, NEW t \in Subnet, DeleteProxy(p, t) PROVE <2>1
            <4>1. proxies' = [proxies EXCEPT ![p][t] = proxies[p][t] - 1]
                BY <3>1 DEF DeleteProxy
            <4>2. ASSUME NEW s \in Subnet PROVE proxies'[o][s] \in {proxies[o][s], proxies[o][s] - 1}
                BY <4>1 DEF TypeOK
            <4> QED BY <3>0, <4>2
        <3>2. ASSUME NEW p \in Order, DeleteOrderProxies(p) PROVE <2>1
            <4>1. proxies' = [proxies EXCEPT ![p] = [s \in Subnet |-> 0]]
                BY <3>2 DEF DeleteOrderProxies
            <4>2. ASSUME NEW s \in Subnet PROVE proxies'[o][s] \in {proxies[o][s], 0}
                BY <4>1 DEF TypeOK
            <4> QED BY <3>0, <4>2
        <3>3. CASE proxies' = proxies BY <3>0, <3>3
        <3> QED BY <3>1, <3>2, <3>3 DEF Environment, KeyExpires, Crash, RowLockExpires
    <2> QED BY <2>1, CountLess DEF TypeOK
<1>3. ASSUME NEW w \in Worker, Crash(w) PROVE FillOK(o, n)'
    <2>1. job' = [job EXCEPT ![w] = Idle] BY <1>3 DEF Crash
    <2>2. Idle.pc = "idle" BY DEF Idle
    <2>3. FillJob(Idle, o, n, Count(o)') BY <2>2, NotFilling
    <2> QED BY <1>0, <1>1, <1>2, <2>1, <2>3, FillMove
<1>4. CASE job' = job
    <2> SUFFICES ASSUME fulls[o] = 0 PROVE FillOK(o, n)' BY <1>1 DEF FillOK
    <2>1. Count(o)' < Quantity[o] + n
        <3>1. Quantity[o] \in Nat BY StockAssumption
        <3> QED BY <1>0, <1>2, <3>1 DEF FillOK
    <2>2. ASSUME NEW v \in Worker, job[v].order = o PROVE FillJob(job[v], o, n, Count(o)')
        <3>1. FillJob(job[v], o, n, Count(o)) /\ job[v] \in Job BY <1>0, <2>2 DEF FillOK
        <3> QED BY <1>0, <1>2, <3>1, FillJobLess
    <2> QED BY <1>4, <2>1, <2>2 DEF FillOK, FillJob
<1> QED BY <1>3, <1>4
        DEF Environment, DeleteProxy, DeleteOrderProxies, KeyExpires, RowLockExpires

LEMMA FillStep ==
    ASSUME TypeOK, TypeOK', LockInv, FillInv, [Next]_vars
    PROVE  FillInv'
<1> SUFFICES ASSUME NEW o \in Order, NEW n \in Most PROVE FillOK(o, n)'
    BY DEF FillInv, Most
<1>0. FillOK(o, n) /\ n \in Nat /\ Count(o) \in Nat
    BY CountNat, StockAssumption DEF FillInv, Most
<1>1. proxies' = proxies => Count(o)' <= Count(o)
    <2>1. proxies' = proxies => Count(o)' = Count(o) BY DEF Count
    <2> QED BY <1>0, <2>1
<1>2. ASSUME NEW w \in Worker, DeliveryStep(w) PROVE FillOK(o, n)'
    BY <1>0, <1>2, FillDelivery
<1>3. ASSUME NEW w \in Worker, ReturnStep(w) \/ CommitExclude(w) \/ SaveRefresh(w)
      PROVE  FillOK(o, n)'
    <2>1. PICK j : job' = [job EXCEPT ![w] = j] /\ j.pc \in {"idle", "give", "giving"}
        BY <1>3, OtherMove
    <2>2. proxies' = proxies /\ fulls' = fulls BY <1>3, OtherMove
    <2>3. FillJob(j, o, n, Count(o)') BY <2>1, NotFilling
    <2> QED BY <1>0, <1>1, <2>1, <2>2, <2>3, FillMove
<1>4. ASSUME NEW w \in Worker, Start(w) PROVE FillOK(o, n)'
    <2>1. PICK j : /\ job' = [job EXCEPT ![w] = j]
                   /\ j.pc \in {"lock", "holders", "exclude", "resave"}
                   /\ j.pc = "lock" => j.got = 0 /\ (j.fill \/ fulls'[j.order] > 0)
        BY <1>4, StartMove
    <2>2. proxies' = proxies /\ (fulls'[o] = 0 => fulls[o] = 0) BY <1>4, StartMove
    <2>3. ASSUME fulls'[o] = 0, j.order = o PROVE FillJob(j, o, n, Count(o)')
        BY <2>1, <2>3 DEF FillJob
    <2> QED BY <1>0, <1>1, <2>1, <2>2, <2>3, FillMove
<1>5. CASE Environment BY <1>0, <1>5, FillEnvironment
<1>6. CASE UNCHANGED vars
    <2>1. job' = job /\ fulls' = fulls /\ Count(o)' = Count(o) BY <1>6 DEF vars, Count
    <2> QED BY <1>0, <2>1 DEF FillOK, FillJob
<1> QED BY <1>2, <1>3, <1>4, <1>5, <1>6 DEF Next, JobStep

LEMMA FillInit ==
    ASSUME Init, \/ \E n \in KaxyAnswers : n > 0
                 \/ \A o \in Order : Quantity[o] > 0
    PROVE  FillInv
<1> SUFFICES ASSUME NEW o \in Order, NEW n \in Most PROVE FillOK(o, n) BY DEF FillInv
<1>1. Count(o) = 0
    <2>1. \A s \in Subnet : 1 .. proxies[o][s] = {} BY DEF Init
    <2>2. UNION {{s} \X (1 .. proxies[o][s]) : s \in Subnet} = {} BY <2>1
    <2> QED BY <2>2, FS_EmptySet DEF Count
<1>2. 0 < Quantity[o] + n
    <2>1. Quantity[o] \in Nat /\ n \in Nat BY StockAssumption DEF Most
    <2>2. (\E m \in KaxyAnswers : m > 0) => n > 0
        BY <2>1, StockAssumption DEF Most
    <2> QED BY <2>1, <2>2
<1>3. \A w \in Worker : job[w].order # o BY StockAssumption DEF Init, Idle
<1> QED BY <1>1, <1>2, <1>3 DEF FillOK

(* An order that is served by fills alone never gets a subnet more than    *)
(* its quantity needs, for any number of workers, however fills, deletions *)
(* and crashes interleave (devery_order, is_continue of                    *)
(* create_proxy_by_order_obj).  An order for nothing at a proxy server     *)
(* that gives nothing is all that is left out: it is filled from the start.*)
THEOREM FillsStop ==
    ASSUME \/ \E n \in KaxyAnswers : n > 0
           \/ \A o \in Order : Quantity[o] > 0
    PROVE  Spec => []FillsStopAtQuantity
<1>1. Init => TypeOK /\ LockInv /\ FillInv BY TypeInit, LockInit, FillInit
<1>2. TypeOK /\ LockInv /\ FillInv /\ [Next]_vars => (TypeOK /\ LockInv /\ FillInv)'
    BY TypeStep, LockStep, FillStep
<1>3. FillInv => FillsStopAtQuantity
    BY DEF FillInv, FillOK, Most, FillsStopAtQuantity
<1> QED BY <1>1, <1>2, <1>3, PTL DEF Spec
=============================================================================
