------------------------- MODULE ProductStock_proofs -------------------------
(***************************************************************************)
(* What holds of ProductStock for any number of ranges, lists, groups and  *)
(* jobs, as long as no two jobs have met on a row or a product.            *)
(***************************************************************************)
EXTENDS ProductStock, TLAPS

Row == [free : 0..Size, excludeLabel : BOOLEAN]

Product == Group \X Acl

-----------------------------------------------------------------------------
(* The inductive invariant.                                                *)

(* Each range of a group has its rows, and each product its two counts. *)
Tables ==
    /\ DOMAIN excludeAcl \subseteq Cidr
    /\ DOMAIN stocks \subseteq (DOMAIN excludeAcl) \X Acl
    /\ \A r \in DOMAIN stocks : stocks[r] \in Row
    /\ DOMAIN groups = Group
    /\ \A g \in Group : groups[g] \subseteq Cidr /\ groups[g] \X Acl \subseteq DOMAIN stocks
    /\ DOMAIN products = Product /\ DOMAIN shown = Product
    /\ DOMAIN saver = Saver

(* A row says that it is excluded when its list is. *)
Labels == \A r \in DOMAIN stocks : stocks[r].excludeLabel <=> r[2] \in excludeAcl[r[1]]

Apart == \A v, w \in Saver : v # w => ~Together(saver[v], saver[w])

Counting == {"count", "store", "cache"}

Fields == {"kind", "pc", "target", "add", "drop", "reads", "copies", "queue", "counts"}

(* The fields of a job, whose copies are of the rows it reads ... *)
IsJob(s) ==
    /\ DOMAIN s = Fields
    /\ s.reads \subseteq Cidr \X Acl
    /\ DOMAIN s.copies \subseteq s.reads
    /\ \A r \in DOMAIN s.copies : s.copies[r] \in Row
    /\ s.queue \subseteq Product /\ DOMAIN s.counts \subseteq Product

(* ... and which of them it uses at each program counter. *)
Shape(s) ==
    /\ s.pc = "idle" => s = AtRest
    /\ s.pc \in Counting =>
           DOMAIN s.copies = {} /\ s.reads = {} /\ s.target \subseteq Cidr \X Acl
    /\ s.pc \in {"count", "rows", "save"} => DOMAIN s.counts = {}
    /\ s.pc \in {"store", "cache"} => \E p \in s.queue : DOMAIN s.counts = {p}
    /\ s.pc \in {"rows", "save", "commit"} => s.queue = {}
    /\ s.pc = "rows" => s.kind = "sale"
    /\ s.pc = "save" /\ s.kind = "return" => DOMAIN s.copies = s.reads
    /\ s.pc \in {"save", "commit"} /\ s.kind = "exclude" => s.reads = s.target \X Acl
    /\ s.kind = "servers" =>
           /\ DOMAIN s.copies = s.reads /\ s.add \X Acl \subseteq s.reads
           /\ s.add \subseteq Cidr /\ s.target \subseteq Group

(* The groups and the lists as the transaction of the job leaves them. *)
GroupsAfter(s, contents) == IF s.kind = "servers" THEN Changed(contents, s) ELSE contents
ListsAfter(s, lists) == IF s.kind = "exclude" THEN Changed(lists, s) ELSE lists

(* A transaction that changes a list has all rows of its range, one that   *)
(* changes a group counts all products of the group.                       *)
Whole(s, rows, lists) == s.pc = "commit" =>
    /\ \A r \in DOMAIN s.copies : r[1] \in DOMAIN lists
    /\ s.kind = "servers" => DOMAIN s.counts = s.target \X Acl
    /\ s.kind = "exclude" => DOMAIN s.copies = {r \in DOMAIN rows : r[1] \in s.target}

(* Its copies have the labels that will be right. *)
CopiesLabelled(s, lists) == \A r \in DOMAIN s.copies : r[1] \in DOMAIN lists =>
    (s.copies[r].excludeLabel <=> r[2] \in ListsAfter(s, lists)[r[1]])

(* A product it did not count sells none of the rows it changes. *)
Covered(s, rows, contents) == s.pc = "commit" =>
    \A r \in DOMAIN s.copies : \A p \in ProductsOf(r, contents) \ DOMAIN s.counts :
        r \in DOMAIN rows /\ s.copies[r] = rows[r]

JobOK(s, rows, lists, contents) ==
    /\ IsJob(s) /\ Shape(s) /\ Whole(s, rows, lists)
    /\ CopiesLabelled(s, lists) /\ Covered(s, rows, contents)

(* A job that saved a row other than these has yet to count the product. *)
Waits(s, p, rows, contents) ==
    /\ s.pc \in Counting /\ p \in s.queue \ DOMAIN s.counts
    /\ \E r \in s.target \ rows : p \in ProductsOf(r, contents)

Awaited(p, rows, contents) == \E v \in Saver : Waits(saver[v], p, rows, contents)

Stock(p) == CountStock(stocks, groups, p)

(* What the transaction of a job will make of the stock of a product. *)
StockAfter(w, p) == CountStock(Over(saver[w].copies, stocks), GroupsAfter(saver[w], groups), p)

AwaitedAfter(w, p) == Awaited(p, DOMAIN saver[w].copies, GroupsAfter(saver[w], groups))

(* The count of a delivery is right, unless a recount follows, and is in   *)
(* the table before it is in the hash.                                     *)
TaskCounts(w, p) == saver[w].pc \in {"store", "cache"} /\ p \in DOMAIN saver[w].counts =>
    /\ p \notin owed /\ ~Awaited(p, {}, groups) => saver[w].counts[p] = Stock(p)
    /\ saver[w].pc = "cache" => products[p] = saver[w].counts[p]

(* That of a transaction will be, and is in the hash already. *)
TransactionCounts(w, p) == saver[w].pc = "commit" /\ p \in DOMAIN saver[w].counts =>
    /\ p \notin owed /\ ~AwaitedAfter(w, p) => saver[w].counts[p] = StockAfter(w, p)
    /\ shown[p] = saver[w].counts[p]

(* Without a count at work or to come, the product shows its stock. *)
AtPeace(p) ==
    p \notin owed /\ ~Awaited(p, {}, groups) /\ (\A v \in Saver : p \notin DOMAIN saver[v].counts) =>
        products[p] = Stock(p) /\ shown[p] = Stock(p)

Jobs == \A w \in Saver : JobOK(saver[w], stocks, excludeAcl, groups)

Counts == \A p \in Product :
    AtPeace(p) /\ \A w \in Saver : TaskCounts(w, p) /\ TransactionCounts(w, p)

Good == Tables /\ Labels /\ Apart /\ Jobs /\ Counts

StockInv == ~mixed => Good

-----------------------------------------------------------------------------
(* Lemmas about the operators.                                             *)

LEMMA Sells ==
    ASSUME NEW r, NEW contents, NEW p \in Product
    PROVE  p \in ProductsOf(r, contents) <=> r[1] \in contents[p[1]] /\ r[2] = p[2]
BY DEF ProductsOf, Product

LEMMA SameCount ==
    ASSUME NEW p \in Product, NEW rows, NEW table, NEW contents, NEW changed,
           contents[p[1]] = changed[p[1]],
           \A r : p \in ProductsOf(r, contents) =>
                     /\ r \in DOMAIN rows <=> r \in DOMAIN table
                     /\ r \in DOMAIN rows => rows[r] = table[r]
    PROVE  CountStock(rows, contents, p) = CountStock(table, changed, p)
<1> DEFINE A == {s \in DOMAIN rows :
        s[1] \in contents[p[1]] /\ s[2] = p[2] /\ ~rows[s].excludeLabel}
<1> DEFINE B == {s \in DOMAIN table :
        s[1] \in changed[p[1]] /\ s[2] = p[2] /\ ~table[s].excludeLabel}
<1>1. \A r : r[1] \in contents[p[1]] /\ r[2] = p[2] => p \in ProductsOf(r, contents) BY Sells
<1>2. A = B /\ \A r \in A : rows[r] = table[r] BY <1>1
<1>3. [r \in A |-> rows[r].free] = [r \in B |-> table[r].free] BY <1>2
<1> QED BY <1>3 DEF CountStock

LEMMA OverFacts ==
    ASSUME NEW rows, NEW table
    PROVE  /\ DOMAIN Over(rows, table) = DOMAIN rows \cup DOMAIN table
           /\ \A x \in DOMAIN rows : Over(rows, table)[x] = rows[x]
           /\ \A x \in (DOMAIN table) \ DOMAIN rows : Over(rows, table)[x] = table[x]
BY DEF Over

LEMMA RestFacts ==
    /\ AtRest.kind = "none" /\ AtRest.pc = "idle" /\ AtRest.target = {} /\ AtRest.add = {}
    /\ AtRest.drop = {} /\ AtRest.reads = {} /\ DOMAIN AtRest.copies = {}
    /\ AtRest.queue = {} /\ DOMAIN AtRest.counts = {}
BY DEF AtRest

LEMMA RestOK ==
    ASSUME NEW rows, NEW lists, NEW contents
    PROVE  JobOK(AtRest, rows, lists, contents)
BY DEF AtRest, JobOK, IsJob, Fields, Shape, Whole, CopiesLabelled, Covered, Counting

LEMMA RestWaits ==
    ASSUME NEW p, NEW rows, NEW contents
    PROVE  ~Waits(AtRest, p, rows, contents)
BY RestFacts DEF Waits, Counting

LEMMA SaverMove ==
    ASSUME Tables, NEW w \in Saver, NEW j, saver' = [saver EXCEPT ![w] = j]
    PROVE  /\ DOMAIN saver' = Saver /\ saver'[w] = j
           /\ \A v \in Saver \ {w} : saver'[v] = saver[v]
BY DEF Tables

(* Steps of a job that counts nothing and leaves the tables alone: what it *)
(* no longer waits for is owed.                                            *)
LEMMA JobStep ==
    ASSUME Good, Apart', NEW w \in Saver, NEW j, saver' = [saver EXCEPT ![w] = j],
           UNCHANGED <<stocks, excludeAcl, groups, products, shown>>, owed \subseteq owed',
           JobOK(j, stocks, excludeAcl, groups), DOMAIN j.counts = {},
           \A p \in Product \ owed' :
               /\ p \notin DOMAIN saver[w].counts
               /\ Waits(saver[w], p, {}, groups) => Waits(j, p, {}, groups)
               /\ \A v \in Saver \ {w} :
                      LET R == DOMAIN saver[v].copies
                          G == GroupsAfter(saver[v], groups)
                      IN  saver[v].pc = "commit" /\ Waits(saver[w], p, R, G) => Waits(j, p, R, G)
    PROVE  Good'
<1>1. DOMAIN saver' = Saver /\ saver'[w] = j /\ \A v \in Saver \ {w} : saver'[v] = saver[v]
    BY SaverMove DEF Good
<1>2. Tables' /\ Labels' BY <1>1 DEF Good, Tables, Labels
<1>3. Jobs' BY <1>1 DEF Good, Jobs
<1>4. ASSUME NEW p \in Product
      PROVE  AtPeace(p)' /\ \A v \in Saver : TaskCounts(v, p)' /\ TransactionCounts(v, p)'
    <2>1. AtPeace(p) /\ \A v \in Saver : TaskCounts(v, p) /\ TransactionCounts(v, p)
        BY DEF Good, Counts
    <2>2. Stock(p)' = Stock(p) BY DEF Stock
    <2>3. p \notin owed' /\ Awaited(p, {}, groups) => Awaited(p, {}, groups)'
        BY <1>1 DEF Awaited
    <2>4. AtPeace(p)' BY <1>1, <2>1, <2>2, <2>3 DEF AtPeace
    <2>5. ASSUME NEW v \in Saver \ {w} PROVE TaskCounts(v, p)'
        BY <1>1, <2>1, <2>2, <2>3 DEF TaskCounts
    <2>6. ASSUME NEW v \in Saver \ {w} PROVE TransactionCounts(v, p)'
        <3>1. saver'[v] = saver[v] BY <1>1
        <3>2. StockAfter(v, p)' = StockAfter(v, p) BY <3>1 DEF StockAfter
        <3>3. ASSUME saver[v].pc = "commit", p \notin owed', AwaitedAfter(v, p)
              PROVE  AwaitedAfter(v, p)'
            <4> DEFINE R == DOMAIN saver[v].copies
                       G == GroupsAfter(saver[v], groups)
            <4>1. PICK u \in Saver : Waits(saver[u], p, R, G) BY <3>3 DEF AwaitedAfter, Awaited
            <4>2. Waits(saver'[u], p, R, G)
                <5>1. CASE u = w BY <1>1, <3>3, <4>1, <5>1
                <5>2. CASE u # w BY <1>1, <4>1, <5>2
                <5> QED BY <5>1, <5>2
            <4> QED BY <3>1, <4>2 DEF AwaitedAfter, Awaited
        <3> QED BY <2>1, <3>1, <3>2, <3>3 DEF TransactionCounts
    <2>7. TaskCounts(w, p)' /\ TransactionCounts(w, p)'
        BY <1>1 DEF TaskCounts, TransactionCounts
    <2> QED BY <2>4, <2>5, <2>6, <2>7
<1> QED BY <1>2, <1>3, <1>4 DEF Good, Counts

(* A job that begins, with nothing to count. *)
LEMMA StartStep ==
    ASSUME Good, Apart', NEW w \in Saver, NEW j, StartSaver(w, j),
           UNCHANGED <<stocks, excludeAcl, groups, products, shown, owed>>,
           JobOK(j, stocks, excludeAcl, groups), DOMAIN j.counts = {}
    PROVE  Good'
<1>1. saver' = [saver EXCEPT ![w] = j] BY DEF StartSaver, SetSaver
<1>2. saver[w] = AtRest
    <2>1. saver[w].pc = "idle" BY DEF StartSaver
    <2> QED BY <2>1 DEF Good, Jobs, JobOK, Shape
<1>3. owed \subseteq owed' OBVIOUS
<1>4. \A p \in Product \ owed' :
          /\ p \notin DOMAIN saver[w].counts
          /\ Waits(saver[w], p, {}, groups) => Waits(j, p, {}, groups)
          /\ \A v \in Saver \ {w} :
                LET R == DOMAIN saver[v].copies
                    G == GroupsAfter(saver[v], groups)
                IN  saver[v].pc = "commit" /\ Waits(saver[w], p, R, G) => Waits(j, p, R, G)
    BY <1>2, RestWaits, RestFacts
<1> QED BY <1>1, <1>3, <1>4, JobStep

LEMMA SizeType == Size \in Nat BY ProductStockAssumption

LEMMA StartSaleKeeps ==
    ASSUME Good, Apart', NEW w \in Saver, NEW r \in DOMAIN stocks, StartSale(w, r)
    PROVE  Good'
<1>1. PICK free \in {stocks[r].free - 1, stocks[r].free} \cap 0..Size :
          StartSaver(w, [AtRest EXCEPT !.kind = "sale", !.pc = "rows", !.reads = {r},
                             !.copies = [s \in {r} |-> [stocks[r] EXCEPT !.free = free]]])
    BY DEF StartSale
<1> DEFINE row == [stocks[r] EXCEPT !.free = free]
           j == [AtRest EXCEPT !.kind = "sale", !.pc = "rows", !.reads = {r},
                               !.copies = [s \in {r} |-> row]]
<1>2. r \in Cidr \X Acl /\ r[1] \in DOMAIN excludeAcl BY DEF Good, Tables
<1>3. row \in Row /\ row.excludeLabel = stocks[r].excludeLabel BY DEF Good, Tables, Row
<1>4. stocks[r].excludeLabel <=> r[2] \in excludeAcl[r[1]] BY DEF Good, Labels
<1> HIDE DEF row
<1>5. /\ j.kind = "sale" /\ j.pc = "rows" /\ j.reads = {r} /\ DOMAIN j.copies = {r}
      /\ j.copies[r] = row /\ j.queue = {} /\ DOMAIN j.counts = {}
      /\ DOMAIN j = Fields
    BY DEF AtRest, Fields
<1>6. StartSaver(w, j) BY <1>1 DEF row
<1> HIDE DEF j
<1>7. IsJob(j) /\ Shape(j) BY <1>2, <1>3, <1>5 DEF IsJob, Shape, Counting
<1>8. JobOK(j, stocks, excludeAcl, groups)
    BY <1>3, <1>4, <1>5, <1>7 DEF JobOK, Whole, Covered, CopiesLabelled, ListsAfter
<1> QED BY <1>5, <1>6, <1>8, StartStep DEF StartSale

LEMMA StartGiveBackKeeps ==
    ASSUME Good, Apart', NEW w \in Saver, NEW r \in DOMAIN stocks, StartGiveBack(w, r)
    PROVE  Good'
<1> DEFINE row == [stocks[r] EXCEPT !.free = @ + 1]
           j == [AtRest EXCEPT !.kind = "return", !.pc = "save", !.reads = {r},
                               !.copies = [s \in {r} |-> row]]
<1>1. StartSaver(w, j) BY DEF StartGiveBack
<1>2. r \in Cidr \X Acl /\ r[1] \in DOMAIN excludeAcl BY DEF Good, Tables
<1>3. row \in Row /\ row.excludeLabel = stocks[r].excludeLabel
    BY SizeType DEF Good, Tables, Row, StartGiveBack
<1>4. stocks[r].excludeLabel <=> r[2] \in excludeAcl[r[1]] BY DEF Good, Labels
<1> HIDE DEF row
<1>5. /\ j.kind = "return" /\ j.pc = "save" /\ j.reads = {r} /\ DOMAIN j.copies = {r}
      /\ j.copies[r] = row /\ j.queue = {} /\ DOMAIN j.counts = {}
      /\ DOMAIN j = Fields
    BY DEF AtRest, Fields
<1> HIDE DEF j
<1>7. IsJob(j) /\ Shape(j) BY <1>2, <1>3, <1>5 DEF IsJob, Shape, Counting
<1>8. JobOK(j, stocks, excludeAcl, groups)
    BY <1>3, <1>4, <1>5, <1>7 DEF JobOK, Whole, Covered, CopiesLabelled, ListsAfter
<1> QED BY <1>1, <1>5, <1>8, StartStep DEF StartGiveBack

LEMMA StartExclusionKeeps ==
    ASSUME Good, Apart', NEW w \in Saver, NEW c \in DOMAIN excludeAcl, NEW a \in Acl,
           StartExclusion(w, c, a)
    PROVE  Good'
<1> DEFINE change == IF a \in excludeAcl[c] THEN [AtRest EXCEPT !.drop = {a}]
                                            ELSE [AtRest EXCEPT !.add = {a}]
           j == [change EXCEPT !.kind = "exclude", !.pc = "save",
                               !.target = {c}, !.reads = {c} \X Acl]
<1>1. StartSaver(w, j) BY DEF StartExclusion
<1>2. c \in Cidr BY DEF Good, Tables
<1>3. /\ j.kind = "exclude" /\ j.pc = "save" /\ j.reads = {c} \X Acl /\ DOMAIN j.copies = {}
      /\ j.target = {c} /\ j.queue = {} /\ DOMAIN j.counts = {}
      /\ DOMAIN j = Fields
    BY DEF AtRest, Fields
<1> HIDE DEF j
<1>4. IsJob(j) /\ Shape(j) BY <1>2, <1>3 DEF IsJob, Shape, Counting
<1>5. JobOK(j, stocks, excludeAcl, groups)
    BY <1>3, <1>4 DEF JobOK, Whole, Covered, CopiesLabelled
<1> QED BY <1>1, <1>3, <1>5, StartStep DEF StartExclusion

LEMMA StartServersKeeps ==
    ASSUME Good, Apart', NEW w \in Saver, NEW g \in Group, NEW c \in DOMAIN excludeAcl,
           StartServers(w, g, c)
    PROVE  Good'
<1> DEFINE s == [AtRest EXCEPT !.kind = "servers", !.pc = "save", !.target = {g},
                               !.add = {c} \ groups[g], !.drop = {c} \cap groups[g]]
           ranges == Changed(groups, s)[g]
           rows == ranges \X Acl
           Read(r) == IF r \in DOMAIN stocks THEN stocks[r]
                      ELSE [free |-> Size, excludeLabel |-> FALSE]
           Copy(r) == [Read(r) EXCEPT !.excludeLabel = @ \/ r[2] \in excludeAcl[r[1]]]
           j == [s EXCEPT !.reads = rows, !.copies = [r \in rows |-> Copy(r)]]
<1>1. StartSaver(w, j) BY DEF StartServers
<1>2. c \in Cidr /\ groups[g] \subseteq Cidr BY DEF Good, Tables
<1>3. ranges = (groups[g] \cup s.add) \ s.drop BY DEF Good, Tables, Changed, AtRest
<1>4. s.add = {c} \ groups[g] /\ s.drop = {c} \cap groups[g] BY DEF AtRest
<1>5. s.add \subseteq ranges /\ ranges \subseteq Cidr BY <1>2, <1>3, <1>4
<1>6. ASSUME NEW r \in rows
      PROVE  /\ Copy(r) \in Row
             /\ r[1] \in DOMAIN excludeAcl =>
                    (Copy(r).excludeLabel <=> r[2] \in excludeAcl[r[1]])
    <2>1. Read(r) \in Row BY SizeType DEF Row, Good, Tables
    <2>2. Copy(r) \in Row BY <2>1 DEF Row
    <2>3. Copy(r).excludeLabel = (Read(r).excludeLabel \/ r[2] \in excludeAcl[r[1]])
        BY <2>1 DEF Row
    <2>4. Read(r).excludeLabel => r[2] \in excludeAcl[r[1]] BY DEF Good, Labels
    <2> QED BY <2>2, <2>3, <2>4
<1> HIDE DEF ranges, Read, Copy
<1>7. /\ j.kind = "servers" /\ j.pc = "save" /\ j.reads = rows /\ DOMAIN j.copies = rows
      /\ j.target = {g} /\ j.add = s.add /\ j.queue = {} /\ DOMAIN j.counts = {}
      /\ \A r \in rows : j.copies[r] = Copy(r)
      /\ DOMAIN j = Fields
    BY DEF AtRest, Fields
<1> HIDE DEF j, s
<1>8. IsJob(j) /\ Shape(j)
    <2>1. rows \subseteq Cidr \X Acl /\ s.add \X Acl \subseteq rows BY <1>5
    <2>2. s.add \subseteq Cidr BY <1>5
    <2>3. IsJob(j) BY <1>6, <1>7, <2>1 DEF IsJob
    <2> QED BY <1>7, <2>1, <2>2, <2>3 DEF Shape, Counting
<1>9. JobOK(j, stocks, excludeAcl, groups)
    BY <1>6, <1>7, <1>8 DEF JobOK, Whole, Covered, CopiesLabelled, ListsAfter
<1> QED BY <1>1, <1>7, <1>9, StartStep DEF StartServers

(* A job that ends: what it had to count is owed. *)
LEMMA RestStep ==
    ASSUME Good, Apart', NEW w \in Saver, SetSaver(w, AtRest),
           UNCHANGED <<stocks, excludeAcl, groups, products, shown>>, owed \subseteq owed',
           \A p \in Product \ owed' : p \notin DOMAIN saver[w].counts /\ p \notin saver[w].queue
    PROVE  Good'
<1>1. saver' = [saver EXCEPT ![w] = AtRest] BY DEF SetSaver
<1>2. \A p \in Product \ owed' :
          /\ p \notin DOMAIN saver[w].counts
          /\ \A R, G : ~Waits(saver[w], p, R, G)
    BY DEF Waits
<1>3. \A p \in Product \ owed' :
          /\ p \notin DOMAIN saver[w].counts
          /\ Waits(saver[w], p, {}, groups) => Waits(AtRest, p, {}, groups)
          /\ \A v \in Saver \ {w} :
                LET R == DOMAIN saver[v].copies
                    G == GroupsAfter(saver[v], groups)
                IN  saver[v].pc = "commit" /\ Waits(saver[w], p, R, G) => Waits(AtRest, p, R, G)
    BY <1>2
<1> QED BY <1>1, <1>3, RestOK, RestFacts, JobStep

LEMMA FailKeeps ==
    ASSUME Good, Apart', NEW w \in Saver, Fail(w)
    PROVE  Good'
BY RestStep DEF Fail

LEMMA RefusedKeeps ==
    ASSUME Good, Apart', NEW w \in Saver, saver[w].pc = "save", Refused(w)
    PROVE  Good'
<1>1. saver[w].queue = {} /\ DOMAIN saver[w].counts = {} BY DEF Good, Jobs, JobOK, Shape
<1> QED BY <1>1, RestStep DEF Refused

(* The rows of a transaction are locked. *)
LEMMA RowsLocked ==
    ASSUME NEW v \in Saver, saver[v].pc = "commit", NEW r \in DOMAIN saver[v].copies
    PROVE  r \in LockedStocks
BY DEF LockedStocks

LEMMA SavedRowKeeps ==
    ASSUME Good, Apart', NEW w \in Saver, NEW r \in DOMAIN stocks, SaveRow(w, r)
    PROVE  Good'
<1> DEFINE j == [AtRest EXCEPT !.kind = "sale", !.pc = "count",
                               !.target = {r}, !.queue = Group \X {r[2]}]
           row == saver[w].copies[r]
<1>1. /\ saver[w].pc = "rows" /\ r \in DOMAIN saver[w].copies /\ r \notin LockedStocks
      /\ stocks' = [stocks EXCEPT ![r] = row] /\ saver' = [saver EXCEPT ![w] = j]
      /\ UNCHANGED <<excludeAcl, groups, products, shown, owed>>
    BY DEF SaveRow, SetSaver
<1>2. JobOK(saver[w], stocks, excludeAcl, groups) BY DEF Good, Jobs
<1>3. r \in Cidr \X Acl /\ r[1] \in DOMAIN excludeAcl BY DEF Good, Tables
<1>4. saver[w].kind = "sale" /\ saver[w].queue = {} /\ DOMAIN saver[w].counts = {}
    BY <1>1, <1>2 DEF JobOK, Shape
<1>5. row \in Row /\ (row.excludeLabel <=> r[2] \in excludeAcl[r[1]])
    BY <1>1, <1>2, <1>3, <1>4 DEF JobOK, IsJob, CopiesLabelled, ListsAfter
<1>6. /\ j.kind = "sale" /\ j.pc = "count" /\ j.reads = {} /\ DOMAIN j.copies = {}
      /\ j.target = {r} /\ j.queue = Group \X {r[2]} /\ DOMAIN j.counts = {}
      /\ DOMAIN j = Fields
    BY DEF AtRest, Fields
<1> HIDE DEF j, row
<1>7. DOMAIN saver' = Saver /\ saver'[w] = j /\ \A v \in Saver \ {w} : saver'[v] = saver[v]
    BY <1>1, SaverMove DEF Good
<1>8. DOMAIN stocks' = DOMAIN stocks /\ stocks'[r] = row
      /\ \A s \in DOMAIN stocks \ {r} : stocks'[s] = stocks[s]
    BY <1>1
<1>9. Tables' BY <1>1, <1>5, <1>7, <1>8 DEF Good, Tables
<1>10. Labels' BY <1>1, <1>5, <1>8 DEF Good, Labels
<1>11. Jobs'
    <2>1. JobOK(j, stocks', excludeAcl', groups')
        <3>1. j.queue \subseteq Product BY <1>3, <1>6 DEF Product
        <3>2. IsJob(j) BY <1>6, <3>1 DEF IsJob
        <3>3. Shape(j) BY <1>3, <1>6 DEF Shape, Counting
        <3> QED BY <1>6, <3>2, <3>3 DEF JobOK, Whole, CopiesLabelled, Covered
    <2>2. ASSUME NEW v \in Saver \ {w} PROVE JobOK(saver[v], stocks', excludeAcl', groups')
        <3>1. JobOK(saver[v], stocks, excludeAcl, groups) BY DEF Good, Jobs
        <3>2. saver[v].pc = "commit" => r \notin DOMAIN saver[v].copies BY <1>1, RowsLocked
        <3>3. Whole(saver[v], stocks', excludeAcl') BY <1>1, <1>8, <3>1 DEF JobOK, Whole
        <3>4. Covered(saver[v], stocks', groups') BY <1>1, <1>8, <3>1, <3>2 DEF JobOK, Covered
        <3> QED BY <1>1, <3>1, <3>3, <3>4 DEF JobOK
    <2> QED BY <1>7, <2>1, <2>2 DEF Jobs
<1>12. ASSUME NEW p \in Product
       PROVE  AtPeace(p)' /\ \A v \in Saver : TaskCounts(v, p)' /\ TransactionCounts(v, p)'
    <2>1. AtPeace(p) /\ \A v \in Saver : TaskCounts(v, p) /\ TransactionCounts(v, p)
        BY DEF Good, Counts
    <2>2. ASSUME NEW R, NEW G, r \notin R, p \in ProductsOf(r, G)
          PROVE  \E u \in Saver : Waits(saver'[u], p, R, G)
        <3>1. p \in j.queue \ DOMAIN j.counts BY <1>6, <2>2 DEF ProductsOf, Product
        <3>2. Waits(j, p, R, G) BY <1>6, <2>2, <3>1 DEF Waits, Counting
        <3> QED BY <1>7, <3>2
    <2>3. ASSUME NEW R, NEW G, NEW u \in Saver, Waits(saver[u], p, R, G)
          PROVE  Waits(saver'[u], p, R, G)
        <3>1. ~Waits(saver[w], p, R, G) BY <1>1 DEF Waits, Counting
        <3> QED BY <1>7, <2>3, <3>1
    <2>4. ~Awaited(p, {}, groups)' => ~Awaited(p, {}, groups) /\ Stock(p)' = Stock(p)
        <3>1. ASSUME ~Awaited(p, {}, groups)' PROVE Stock(p)' = Stock(p)
            <4>1. p \notin ProductsOf(r, groups) BY <1>1, <2>2, <3>1 DEF Awaited
            <4>2. \A s : p \in ProductsOf(s, groups) =>
                      /\ s \in DOMAIN stocks' <=> s \in DOMAIN stocks
                      /\ s \in DOMAIN stocks' => stocks'[s] = stocks[s]
                BY <1>8, <4>1
            <4>3. CountStock(stocks', groups, p) = CountStock(stocks, groups, p)
                BY <4>2, SameCount
            <4> QED BY <1>1, <4>3 DEF Stock
        <3>2. Awaited(p, {}, groups) => Awaited(p, {}, groups)' BY <1>1, <2>3 DEF Awaited
        <3> QED BY <3>1, <3>2
    <2>5. AtPeace(p)' BY <1>1, <1>4, <1>6, <1>7, <2>1, <2>4 DEF AtPeace
    <2>6. ASSUME NEW v \in Saver PROVE TaskCounts(v, p)'
        BY <1>1, <1>6, <1>7, <2>1, <2>4 DEF TaskCounts
    <2>7. ASSUME NEW v \in Saver PROVE TransactionCounts(v, p)'
        <3>1. CASE v = w BY <1>6, <1>7, <3>1 DEF TransactionCounts
        <3>2. CASE v # w /\ saver[v].pc = "commit"
            <4> DEFINE R == DOMAIN saver[v].copies
                       G == GroupsAfter(saver[v], groups)
            <4>1. saver'[v] = saver[v] /\ r \notin R BY <1>1, <1>7, <3>2, RowsLocked
            <4>2. ASSUME ~AwaitedAfter(v, p)' PROVE StockAfter(v, p)' = StockAfter(v, p)
                <5>1. ~ \E u \in Saver : Waits(saver'[u], p, R, G)
                    BY <1>1, <4>1, <4>2 DEF AwaitedAfter, Awaited
                <5>2. p \notin ProductsOf(r, G) BY <2>2, <4>1, <5>1
                <5>3. \A s : p \in ProductsOf(s, G) =>
                          /\ s \in DOMAIN Over(saver[v].copies, stocks')
                                 <=> s \in DOMAIN Over(saver[v].copies, stocks)
                          /\ s \in DOMAIN Over(saver[v].copies, stocks') =>
                                 Over(saver[v].copies, stocks')[s] = Over(saver[v].copies, stocks)[s]
                    BY <1>8, <5>2 DEF Over
                <5>4. CountStock(Over(saver[v].copies, stocks'), G, p)
                          = CountStock(Over(saver[v].copies, stocks), G, p)
                    BY <5>3, SameCount
                <5> QED BY <1>1, <4>1, <5>4 DEF StockAfter
            <4>3. ~AwaitedAfter(v, p)' => ~AwaitedAfter(v, p)
                BY <1>1, <2>3, <4>1 DEF AwaitedAfter, Awaited
            <4> QED BY <1>1, <2>1, <4>1, <4>2, <4>3 DEF TransactionCounts
        <3> QED BY <1>7, <3>1, <3>2 DEF TransactionCounts
    <2> QED BY <2>5, <2>6, <2>7
<1> QED BY <1>9, <1>10, <1>11, <1>12 DEF Good, Counts

LEMMA SaveRowKeeps ==
    ASSUME Good, Apart', NEW w \in Saver, NEW r, SaveRow(w, r)
    PROVE  Good'
<1>1. CASE r \in DOMAIN stocks BY <1>1, SavedRowKeeps
<1>2. CASE r \notin DOMAIN stocks
    <2>1. saver[w].queue = {} /\ DOMAIN saver[w].counts = {}
        BY DEF SaveRow, Good, Jobs, JobOK, Shape
    <2> QED BY <1>2, <2>1, RestStep DEF SaveRow
<1> QED BY <1>1, <1>2

(* A step of a job at the product p says nothing of the others. *)
LEMMA CountingStep ==
    ASSUME Good, Apart', NEW w \in Saver, NEW p \in Product, NEW j,
           saver' = [saver EXCEPT ![w] = j], UNCHANGED <<stocks, excludeAcl, groups>>,
           JobOK(j, stocks, excludeAcl, groups), j.pc # "commit",
           DOMAIN saver[w].counts \subseteq {p}, DOMAIN j.counts \subseteq {p},
           p \in DOMAIN saver[w].counts \/ p \in DOMAIN j.counts,
           DOMAIN products' = Product, DOMAIN shown' = Product,
           \A q \in Product \ {p} :
               /\ \A R, G : Waits(j, q, R, G) <=> Waits(saver[w], q, R, G)
               /\ products'[q] = products[q] /\ shown'[q] = shown[q]
               /\ q \in owed' <=> q \in owed,
           AtPeace(p)', TaskCounts(w, p)'
    PROVE  Good'
<1>1. DOMAIN saver' = Saver /\ saver'[w] = j /\ \A v \in Saver \ {w} : saver'[v] = saver[v]
    BY SaverMove DEF Good
<1>2. Tables' /\ Labels' BY <1>1 DEF Good, Tables, Labels
<1>3. Jobs' BY <1>1 DEF Good, Jobs
<1>4. ASSUME NEW v \in Saver \ {w} PROVE p \notin DOMAIN saver[v].counts
    <2>1. ~Together(saver[v], saver[w]) /\ ~Together(saver'[v], saver'[w])
        BY DEF Good, Apart
    <2> QED BY <1>1, <2>1 DEF Together
<1>5. ASSUME NEW v \in Saver PROVE TaskCounts(v, p)' /\ TransactionCounts(v, p)'
    <2>1. CASE v = w BY <1>1, <2>1 DEF TransactionCounts
    <2>2. CASE v # w BY <1>1, <1>4, <2>2 DEF TaskCounts, TransactionCounts
    <2> QED BY <2>1, <2>2
<1>6. ASSUME NEW q \in Product \ {p}
      PROVE  AtPeace(q)' /\ \A v \in Saver : TaskCounts(v, q)' /\ TransactionCounts(v, q)'
    <2>1. AtPeace(q) /\ \A v \in Saver : TaskCounts(v, q) /\ TransactionCounts(v, q)
        BY DEF Good, Counts
    <2>2. ASSUME NEW R, NEW G
          PROVE  (\E u \in Saver : Waits(saver'[u], q, R, G))
                     <=> (\E u \in Saver : Waits(saver[u], q, R, G))
        <3>1. \A u \in Saver : Waits(saver'[u], q, R, G) <=> Waits(saver[u], q, R, G)
            BY <1>1
        <3> QED BY <3>1
    <2>3. Awaited(q, {}, groups)' <=> Awaited(q, {}, groups) BY <2>2 DEF Awaited
    <2>4. Stock(q)' = Stock(q) BY DEF Stock
    <2>5. q \notin DOMAIN saver[w].counts /\ q \notin DOMAIN j.counts OBVIOUS
    <2>6. AtPeace(q)' BY <1>1, <2>1, <2>3, <2>4, <2>5 DEF AtPeace
    <2>7. ASSUME NEW v \in Saver PROVE TaskCounts(v, q)' /\ TransactionCounts(v, q)'
        <3>1. CASE v = w BY <1>1, <2>5, <3>1 DEF TaskCounts, TransactionCounts
        <3>2. CASE v # w
            <4>1. saver'[v] = saver[v] BY <1>1, <3>2
            <4>2. StockAfter(v, q)' = StockAfter(v, q) BY <4>1 DEF StockAfter
            <4>3. AwaitedAfter(v, q)' <=> AwaitedAfter(v, q)
                BY <2>2, <4>1 DEF AwaitedAfter, Awaited
            <4>4. TaskCounts(v, q)' BY <2>1, <2>3, <2>4, <4>1 DEF TaskCounts
            <4>5. TransactionCounts(v, q)' BY <2>1, <4>1, <4>2, <4>3 DEF TransactionCounts
            <4> QED BY <4>4, <4>5
        <3> QED BY <3>1, <3>2
    <2> QED BY <2>6, <2>7
<1>7. Counts' BY <1>5, <1>6 DEF Counts
<1> QED BY <1>2, <1>3, <1>7 DEF Good

LEMMA NextOK ==
    ASSUME NEW s, NEW p \in Product, NEW rows, NEW lists, NEW contents,
           JobOK(s, rows, lists, contents), s.pc \in Counting, DOMAIN s.counts \subseteq {p}
    PROVE  /\ JobOK(NextProduct(s, p), rows, lists, contents)
           /\ NextProduct(s, p).pc # "commit" /\ DOMAIN NextProduct(s, p).counts = {}
           /\ \A R, G : ~Waits(NextProduct(s, p), p, R, G)
           /\ \A q \in Product \ {p} :
                  \A R, G : Waits(NextProduct(s, p), q, R, G) <=> Waits(s, q, R, G)
<1> DEFINE j == [s EXCEPT !.pc = "count", !.queue = @ \ {p}, !.counts = <<>>]
<1>1. CASE s.queue = {p}
    <2>1. NextProduct(s, p) = AtRest BY <1>1 DEF NextProduct
    <2>2. \A q \in Product \ {p} : \A R, G : ~Waits(s, q, R, G) BY <1>1 DEF Waits
    <2> QED BY <2>1, <2>2, RestOK, RestFacts, RestWaits
<1>2. CASE s.queue # {p}
    <2>1. NextProduct(s, p) = j BY <1>2 DEF NextProduct
    <2>2. DOMAIN s = Fields BY DEF JobOK, IsJob
    <2>3. /\ j.pc = "count" /\ j.queue = s.queue \ {p} /\ DOMAIN j.counts = {}
          /\ j.kind = s.kind /\ j.target = s.target /\ j.add = s.add /\ j.reads = s.reads
          /\ j.copies = s.copies /\ DOMAIN j = Fields
        BY <2>2 DEF Fields
    <2> HIDE DEF j
    <2>4. \A R, G : ~Waits(j, p, R, G) BY <2>3 DEF Waits
    <2>5. ASSUME NEW q \in Product \ {p}, NEW R, NEW G
          PROVE  Waits(j, q, R, G) <=> Waits(s, q, R, G)
        BY <2>3 DEF Waits, Counting
    <2>6. DOMAIN s.copies = {} /\ s.reads = {} /\ s.target \subseteq Cidr \X Acl
        BY DEF JobOK, Shape
    <2>7. IsJob(j) BY <2>3 DEF JobOK, IsJob
    <2>8. s.kind = "servers" =>
              /\ DOMAIN s.copies = s.reads /\ s.add \X Acl \subseteq s.reads
           /\ s.add \subseteq Cidr /\ s.target \subseteq Group
        BY DEF JobOK, Shape
    <2>9. Shape(j) BY <2>3, <2>6, <2>8 DEF Shape, Counting
    <2>10. JobOK(j, rows, lists, contents)
        BY <2>3, <2>6, <2>7, <2>9 DEF JobOK, Whole, CopiesLabelled, Covered
    <2> QED BY <2>1, <2>3, <2>4, <2>5, <2>10
<1> QED BY <1>1, <1>2

LEMMA SkipKeeps ==
    ASSUME Good, Apart', NEW w \in Saver, NEW p \in Product, CountProduct(w, p),
           ~ \E r \in saver[w].target : p \in ProductsOf(r, groups)
    PROVE  Good'
<1> DEFINE j == NextProduct(saver[w], p)
<1>1. /\ saver' = [saver EXCEPT ![w] = j] /\ saver[w].pc = "count"
      /\ UNCHANGED <<stocks, excludeAcl, groups, products, shown, owed>>
    BY DEF CountProduct, SetSaver
<1>2. JobOK(saver[w], stocks, excludeAcl, groups) BY DEF Good, Jobs
<1>3. DOMAIN saver[w].counts = {} /\ saver[w].target \subseteq Cidr \X Acl
    BY <1>1, <1>2 DEF JobOK, Shape, Counting
<1>4. /\ JobOK(j, stocks, excludeAcl, groups) /\ DOMAIN j.counts = {}
      /\ \A q \in Product \ {p} : \A R, G : Waits(saver[w], q, R, G) => Waits(j, q, R, G)
    BY <1>1, <1>2, <1>3, NextOK DEF Counting
<1> HIDE DEF j
<1>5. ~Waits(saver[w], p, {}, groups) BY DEF Waits
<1>6. ASSUME NEW v \in Saver,
             Waits(saver[w], p, DOMAIN saver[v].copies, GroupsAfter(saver[v], groups))
      PROVE  FALSE
    <2>1. PICK r \in saver[w].target \ DOMAIN saver[v].copies :
              p \in ProductsOf(r, GroupsAfter(saver[v], groups))
        BY <1>6 DEF Waits
    <2>2. p \notin ProductsOf(r, groups) OBVIOUS
    <2>3. p[1] \in Group BY DEF Product
    <2>4. /\ r[1] \in GroupsAfter(saver[v], groups)[p[1]] /\ r[2] = p[2]
          /\ r[1] \notin groups[p[1]]
        BY <2>1, <2>2, Sells
    <2>5. saver[v].kind = "servers" /\ r[1] \in saver[v].add
        BY <2>3, <2>4 DEF GroupsAfter, Changed, Good, Tables
    <2>6. JobOK(saver[v], stocks, excludeAcl, groups) BY DEF Good, Jobs
    <2>7. r \in saver[v].add \X Acl BY <1>3, <2>5
    <2> QED BY <2>1, <2>5, <2>6, <2>7 DEF JobOK, Shape
<1>7. \A q \in Product \ owed' :
          /\ q \notin DOMAIN saver[w].counts
          /\ Waits(saver[w], q, {}, groups) => Waits(j, q, {}, groups)
          /\ \A v \in Saver \ {w} :
                LET R == DOMAIN saver[v].copies
                    G == GroupsAfter(saver[v], groups)
                IN  saver[v].pc = "commit" /\ Waits(saver[w], q, R, G) => Waits(j, q, R, G)
    BY <1>3, <1>4, <1>5, <1>6
<1> QED BY <1>1, <1>4, <1>7, JobStep

LEMMA CountProductKeeps ==
    ASSUME Good, Apart', NEW w \in Saver, NEW p \in Product, CountProduct(w, p)
    PROVE  Good'
<1>1. CASE ~ \E r \in saver[w].target : p \in ProductsOf(r, groups) BY <1>1, SkipKeeps
<1>2. CASE \E r \in saver[w].target : p \in ProductsOf(r, groups)
    <2> DEFINE s == saver[w]
               counts == [q \in {p} |-> CountStock(stocks, groups, p)]
               j == [s EXCEPT !.pc = "store", !.counts = counts]
    <2>1. /\ saver' = [saver EXCEPT ![w] = j] /\ s.pc = "count" /\ p \in s.queue
          /\ owed' = owed \ {p} /\ UNCHANGED <<stocks, excludeAcl, groups, products, shown>>
        BY <1>2 DEF CountProduct, SetSaver
    <2>2. JobOK(s, stocks, excludeAcl, groups) BY DEF Good, Jobs
    <2>3. DOMAIN counts = {p} /\ counts[p] = Stock(p) BY DEF Stock
    <2>4. DOMAIN s = Fields BY <2>2 DEF JobOK, IsJob
    <2> HIDE DEF counts
    <2>5. /\ j.pc = "store" /\ j.queue = s.queue /\ j.counts = counts
          /\ j.kind = s.kind /\ j.target = s.target /\ j.add = s.add /\ j.reads = s.reads
          /\ j.copies = s.copies /\ DOMAIN j = Fields
        BY <2>4 DEF Fields
    <2> HIDE DEF j
    <2>6. DOMAIN s.counts = {} /\ DOMAIN s.copies = {} /\ s.reads = {}
          /\ s.target \subseteq Cidr \X Acl
        BY <2>1, <2>2 DEF JobOK, Shape, Counting
    <2>7. JobOK(j, stocks, excludeAcl, groups)
        <3>1. s.kind = "servers" =>
                 /\ DOMAIN s.copies = s.reads /\ s.add \X Acl \subseteq s.reads
           /\ s.add \subseteq Cidr /\ s.target \subseteq Group
            BY <2>2 DEF JobOK, Shape
        <3>2. IsJob(j) BY <2>2, <2>3, <2>5 DEF JobOK, IsJob
        <3>3. Shape(j) BY <2>1, <2>3, <2>5, <2>6, <3>1 DEF Shape, Counting
        <3> QED BY <2>5, <2>6, <3>2, <3>3 DEF JobOK, Whole, CopiesLabelled, Covered
    <2>8. \A q \in Product \ {p} : \A R, G : Waits(j, q, R, G) <=> Waits(s, q, R, G)
        BY <2>1, <2>3, <2>5, <2>6 DEF Waits, Counting
    <2>9. saver'[w] = j BY <2>1, SaverMove DEF Good
    <2>10. AtPeace(p)' BY <2>3, <2>5, <2>9 DEF AtPeace
    <2>11. TaskCounts(w, p)'
        <3>1. Stock(p)' = Stock(p) BY <2>1 DEF Stock
        <3> QED BY <2>3, <2>5, <2>9, <3>1 DEF TaskCounts
    <2>12. DOMAIN products' = Product /\ DOMAIN shown' = Product BY <2>1 DEF Good, Tables
    <2> QED BY <2>1, <2>3, <2>5, <2>6, <2>7, <2>8, <2>10, <2>11, <2>12, CountingStep
<1> QED BY <1>1, <1>2

LEMMA StoreProductKeeps ==
    ASSUME Good, Apart', NEW w \in Saver, NEW p \in Product, StoreProduct(w, p)
    PROVE  Good'
<1> DEFINE s == saver[w]
           j == [s EXCEPT !.pc = "cache"]
<1>1. /\ saver' = [saver EXCEPT ![w] = j] /\ s.pc = "store" /\ p \in DOMAIN s.counts
      /\ products' = [products EXCEPT ![p] = s.counts[p]]
      /\ UNCHANGED <<stocks, excludeAcl, groups, shown, owed>>
    BY DEF StoreProduct, SetSaver
<1>2. JobOK(s, stocks, excludeAcl, groups) BY DEF Good, Jobs
<1>3. DOMAIN s = Fields BY <1>2 DEF JobOK, IsJob
<1>4. /\ j.pc = "cache" /\ j.queue = s.queue /\ j.counts = s.counts
      /\ j.kind = s.kind /\ j.target = s.target /\ j.add = s.add /\ j.reads = s.reads
      /\ j.copies = s.copies /\ DOMAIN j = Fields
    BY <1>3 DEF Fields
<1> HIDE DEF j
<1>5. DOMAIN s.counts = {p} BY <1>1, <1>2 DEF JobOK, Shape
<1>6. DOMAIN s.copies = {} /\ s.reads = {} /\ s.target \subseteq Cidr \X Acl
    BY <1>1, <1>2 DEF JobOK, Shape, Counting
<1>7. JobOK(j, stocks, excludeAcl, groups)
    <2>1. s.kind = "servers" =>
             /\ DOMAIN s.copies = s.reads /\ s.add \X Acl \subseteq s.reads
           /\ s.add \subseteq Cidr /\ s.target \subseteq Group
        BY <1>2 DEF JobOK, Shape
    <2>2. IsJob(j) BY <1>2, <1>4 DEF JobOK, IsJob
    <2>3. \E q \in s.queue : DOMAIN s.counts = {q} BY <1>1, <1>2 DEF JobOK, Shape
    <2>4. Shape(j) BY <1>4, <1>6, <2>1, <2>3 DEF Shape, Counting
    <2> QED BY <1>4, <1>6, <2>2, <2>4 DEF JobOK, Whole, CopiesLabelled, Covered
<1>8. \A q : \A R, G : Waits(j, q, R, G) <=> Waits(s, q, R, G)
    BY <1>1, <1>4 DEF Waits, Counting
<1>9. saver'[w] = j /\ \A v \in Saver \ {w} : saver'[v] = saver[v]
    BY <1>1, SaverMove DEF Good
<1>10. AtPeace(p)' BY <1>4, <1>5, <1>9 DEF AtPeace
<1>11. DOMAIN products = Product /\ DOMAIN shown = Product BY DEF Good, Tables
<1>12. products'[p] = s.counts[p] /\ \A q \in Product \ {p} : products'[q] = products[q]
    BY <1>1, <1>11
<1>13. TaskCounts(w, p)'
    <2>1. TaskCounts(w, p) BY DEF Good, Counts
    <2>2. Stock(p)' = Stock(p) BY <1>1 DEF Stock
    <2>3. \A v \in Saver : Waits(saver[v], p, {}, groups) => Waits(saver'[v], p, {}, groups)
        BY <1>8, <1>9
    <2>4. Awaited(p, {}, groups) => Awaited(p, {}, groups)' BY <1>1, <2>3 DEF Awaited
    <2> QED BY <1>1, <1>4, <1>9, <1>12, <2>1, <2>2, <2>4 DEF TaskCounts
<1> QED BY <1>1, <1>4, <1>5, <1>7, <1>8, <1>10, <1>11, <1>12, <1>13, CountingStep

LEMMA CacheProductKeeps ==
    ASSUME Good, Apart', NEW w \in Saver, NEW p \in Product, CacheProduct(w, p)
    PROVE  Good'
<1> DEFINE s == saver[w]
           j == NextProduct(s, p)
<1>1. /\ saver' = [saver EXCEPT ![w] = j] /\ s.pc = "cache" /\ p \in DOMAIN s.counts
      /\ shown' = [shown EXCEPT ![p] = s.counts[p]]
      /\ UNCHANGED <<stocks, excludeAcl, groups, products, owed>>
    BY DEF CacheProduct, SetSaver
<1>2. JobOK(s, stocks, excludeAcl, groups) BY DEF Good, Jobs
<1>3. DOMAIN s.counts = {p} BY <1>1, <1>2 DEF JobOK, Shape
<1>4. /\ JobOK(j, stocks, excludeAcl, groups) /\ j.pc # "commit" /\ DOMAIN j.counts = {}
      /\ \A q \in Product \ {p} : \A R, G : Waits(j, q, R, G) <=> Waits(s, q, R, G)
    BY <1>1, <1>2, <1>3, NextOK DEF Counting
<1> HIDE DEF j
<1>5. saver'[w] = j /\ \A v \in Saver \ {w} : saver'[v] = saver[v]
    BY <1>1, SaverMove DEF Good
<1>6. DOMAIN products = Product /\ DOMAIN shown = Product BY DEF Good, Tables
<1>7. shown'[p] = s.counts[p] /\ \A q \in Product \ {p} : shown'[q] = shown[q]
    BY <1>1, <1>6
<1>8. TaskCounts(w, p)' BY <1>4, <1>5 DEF TaskCounts
<1>9. AtPeace(p)'
    <2>1. TaskCounts(w, p) BY DEF Good, Counts
    <2>2. Stock(p)' = Stock(p) BY <1>1 DEF Stock
    <2>3. ~Waits(s, p, {}, groups) BY <1>3 DEF Waits
    <2>4. \A v \in Saver : Waits(saver[v], p, {}, groups) => Waits(saver'[v], p, {}, groups)
        BY <1>5, <2>3
    <2>5. Awaited(p, {}, groups) => Awaited(p, {}, groups)' BY <1>1, <2>4 DEF Awaited
    <2> QED BY <1>1, <1>7, <2>1, <2>2, <2>5 DEF TaskCounts, AtPeace
<1> QED BY <1>1, <1>3, <1>4, <1>6, <1>7, <1>8, <1>9, CountingStep

(* What Publish makes of the job. *)
Published(s, rows, counts) == [s EXCEPT !.pc = "commit", !.copies = rows, !.counts = counts]

LEMMA PublishedFields ==
    ASSUME NEW s, NEW rows, NEW counts, DOMAIN s = Fields
    PROVE  LET j == Published(s, rows, counts)
           IN  /\ DOMAIN j = Fields /\ j.pc = "commit" /\ j.copies = rows /\ j.counts = counts
               /\ j.kind = s.kind /\ j.target = s.target /\ j.add = s.add /\ j.drop = s.drop
               /\ j.reads = s.reads /\ j.queue = s.queue
               /\ \A G : GroupsAfter(j, G) = GroupsAfter(s, G)
               /\ \A L : ListsAfter(j, L) = ListsAfter(s, L)
<1> DEFINE j == Published(s, rows, counts)
<1>1. /\ DOMAIN j = Fields /\ j.pc = "commit" /\ j.copies = rows /\ j.counts = counts
      /\ j.kind = s.kind /\ j.target = s.target /\ j.add = s.add /\ j.drop = s.drop
      /\ j.reads = s.reads /\ j.queue = s.queue
    BY DEF Published, Fields
<1> HIDE DEF j
<1>2. \A f : Changed(f, j) = Changed(f, s) BY <1>1 DEF Changed
<1>3. \A G : GroupsAfter(j, G) = GroupsAfter(s, G) BY <1>1, <1>2 DEF GroupsAfter
<1>4. \A L : ListsAfter(j, L) = ListsAfter(s, L) BY <1>1, <1>2 DEF ListsAfter
<1> QED BY <1>1, <1>3, <1>4 DEF j

LEMMA PublishStep ==
    ASSUME Good, Apart', NEW w \in Saver, NEW rows, NEW dirty, dirty \subseteq Product,
           Publish(w, rows, dirty), saver[w].pc = "save",
           \A counts : DOMAIN counts = dirty =>
               JobOK(Published(saver[w], rows, counts), stocks, excludeAcl, groups)
    PROVE  Good'
<1> DEFINE s == saver[w]
           counts == [p \in dirty |-> CountStock(Over(rows, stocks), GroupsOf(s), p)]
           j == Published(s, rows, counts)
<1>1. /\ saver' = [saver EXCEPT ![w] = j] /\ shown' = Over(counts, shown)
      /\ owed' = owed \ dirty /\ UNCHANGED <<stocks, excludeAcl, groups, products>>
    BY DEF Publish, SetSaver, Published
<1>2. DOMAIN counts = dirty OBVIOUS
<1>3. GroupsOf(s) = GroupsAfter(s, groups) BY DEF GroupsOf, GroupsAfter
<1>4. \A p \in dirty : counts[p] = CountStock(Over(rows, stocks), GroupsAfter(s, groups), p)
    BY <1>3
<1> HIDE DEF counts
<1>5. JobOK(j, stocks, excludeAcl, groups) BY <1>2
<1>6. JobOK(s, stocks, excludeAcl, groups) BY DEF Good, Jobs
<1>7. DOMAIN s = Fields /\ DOMAIN s.counts = {} BY <1>6 DEF JobOK, IsJob, Shape
<1>8. j.pc = "commit" /\ j.copies = rows /\ j.counts = counts
      /\ GroupsAfter(j, groups) = GroupsAfter(s, groups)
    BY <1>7, PublishedFields
<1> HIDE DEF j
<1>9. DOMAIN saver' = Saver /\ saver'[w] = j /\ \A v \in Saver \ {w} : saver'[v] = saver[v]
    BY <1>1, SaverMove DEF Good
<1>10. /\ DOMAIN shown' = Product /\ \A p \in dirty : shown'[p] = counts[p]
       /\ \A p \in Product \ dirty : shown'[p] = shown[p]
    <2>1. DOMAIN shown = Product BY DEF Good, Tables
    <2>2. DOMAIN Over(counts, shown) = Product BY <1>2, <2>1, OverFacts
    <2>3. \A p \in dirty : Over(counts, shown)[p] = counts[p] BY <1>2, OverFacts
    <2>4. \A p \in Product \ dirty : Over(counts, shown)[p] = shown[p]
        BY <1>2, <2>1, OverFacts
    <2> QED BY <1>1, <2>2, <2>3, <2>4
<1>11. Tables' /\ Labels' BY <1>1, <1>9, <1>10 DEF Good, Tables, Labels
<1>12. Jobs' BY <1>1, <1>5, <1>9 DEF Good, Jobs
<1>13. ASSUME NEW p \in dirty
       PROVE  AtPeace(p)' /\ \A v \in Saver : TaskCounts(v, p)' /\ TransactionCounts(v, p)'
    <2>1. p \in DOMAIN saver'[w].counts BY <1>2, <1>8, <1>9
    <2>2. AtPeace(p)' BY <2>1 DEF AtPeace
    <2>3. ASSUME NEW v \in Saver \ {w} PROVE p \notin DOMAIN saver'[v].counts
        <3>1. ~Together(saver'[v], saver'[w]) BY DEF Apart
        <3> QED BY <2>1, <3>1 DEF Together
    <2>4. StockAfter(w, p)' = counts[p]
        BY <1>1, <1>4, <1>8, <1>9 DEF StockAfter
    <2>5. TaskCounts(w, p)' /\ TransactionCounts(w, p)'
        BY <1>8, <1>9, <1>10, <2>4 DEF TaskCounts, TransactionCounts
    <2> QED BY <2>2, <2>3, <2>5 DEF TaskCounts, TransactionCounts
<1>14. ASSUME NEW p \in Product \ dirty
       PROVE  AtPeace(p)' /\ \A v \in Saver : TaskCounts(v, p)' /\ TransactionCounts(v, p)'
    <2>1. AtPeace(p) /\ \A v \in Saver : TaskCounts(v, p) /\ TransactionCounts(v, p)
        BY DEF Good, Counts
    <2>2. ASSUME NEW u \in Saver, NEW R, NEW G
          PROVE  Waits(saver'[u], p, R, G) <=> Waits(saver[u], p, R, G)
        BY <1>8, <1>9 DEF Waits, Counting
    <2>3. Awaited(p, {}, groups)' <=> Awaited(p, {}, groups) BY <1>1, <2>2 DEF Awaited
    <2>4. Stock(p)' = Stock(p) BY <1>1 DEF Stock
    <2>5. p \in owed' <=> p \in owed BY <1>1
    <2>6. p \notin DOMAIN saver[w].counts /\ p \notin DOMAIN saver'[w].counts
        BY <1>2, <1>7, <1>8, <1>9
    <2>7. AtPeace(p)' BY <1>1, <1>9, <1>10, <2>1, <2>3, <2>4, <2>5, <2>6 DEF AtPeace
    <2>8. ASSUME NEW v \in Saver PROVE TaskCounts(v, p)' /\ TransactionCounts(v, p)'
        <3>1. CASE v = w BY <2>6, <3>1 DEF TaskCounts, TransactionCounts
        <3>2. CASE v # w
            <4>1. saver'[v] = saver[v] BY <1>9, <3>2
            <4>2. StockAfter(v, p)' = StockAfter(v, p) BY <1>1, <4>1 DEF StockAfter
            <4>3. AwaitedAfter(v, p)' <=> AwaitedAfter(v, p)
                BY <1>1, <2>2, <4>1 DEF AwaitedAfter, Awaited
            <4>4. TaskCounts(v, p)'
                BY <1>1, <2>1, <2>3, <2>4, <2>5, <4>1 DEF TaskCounts
            <4>5. TransactionCounts(v, p)'
                BY <1>10, <2>1, <2>5, <4>1, <4>2, <4>3 DEF TransactionCounts
            <4> QED BY <4>4, <4>5
        <3> QED BY <3>1, <3>2
    <2> QED BY <2>7, <2>8
<1>15. Counts' BY <1>13, <1>14 DEF Counts
<1> QED BY <1>11, <1>12, <1>15 DEF Good

LEMMA ProductsType ==
    ASSUME NEW r \in Cidr \X Acl, NEW contents
    PROVE  ProductsOf(r, contents) \subseteq Product
BY DEF ProductsOf, Product

LEMMA SaveGivenBackKeeps ==
    ASSUME Good, Apart', NEW w \in Saver, SaveGivenBack(w)
    PROVE  Good'
<1> DEFINE s == saver[w]
           dirty == UNION {ProductsOf(r, groups) : r \in s.reads}
<1>1. s.kind = "return" /\ s.pc = "save" BY DEF SaveGivenBack
<1>2. JobOK(s, stocks, excludeAcl, groups) BY DEF Good, Jobs
<1>3. CASE s.reads \subseteq DOMAIN stocks
    <2>1. Publish(w, s.copies, dirty) BY <1>3 DEF SaveGivenBack
    <2>2. DOMAIN s = Fields /\ s.queue = {} /\ DOMAIN s.copies = s.reads
          /\ s.reads \subseteq Cidr \X Acl
        BY <1>1, <1>2 DEF JobOK, IsJob, Shape
    <2>3. dirty \subseteq Product BY <2>2, ProductsType
    <2>4. ASSUME NEW counts, DOMAIN counts = dirty
          PROVE  JobOK(Published(s, s.copies, counts), stocks, excludeAcl, groups)
        <3> DEFINE j == Published(s, s.copies, counts)
        <3>1. /\ DOMAIN j = Fields /\ j.pc = "commit" /\ j.copies = s.copies
              /\ j.counts = counts /\ j.kind = "return" /\ j.reads = s.reads /\ j.queue = {}
              /\ \A L : ListsAfter(j, L) = ListsAfter(s, L)
            BY <1>1, <2>2, PublishedFields
        <3> HIDE DEF j
        <3>2. IsJob(j) BY <1>2, <2>3, <2>4, <3>1 DEF JobOK, IsJob
        <3>3. Shape(j) BY <3>1 DEF Shape, Counting
        <3>4. \A r \in s.reads : r[1] \in DOMAIN excludeAcl BY <1>3 DEF Good, Tables
        <3>5. Whole(j, stocks, excludeAcl) BY <2>2, <3>1, <3>4 DEF Whole
        <3>6. CopiesLabelled(j, excludeAcl) BY <1>2, <3>1 DEF JobOK, CopiesLabelled
        <3>7. \A r \in s.reads : ProductsOf(r, groups) \subseteq dirty OBVIOUS
        <3>8. Covered(j, stocks, groups) BY <2>2, <2>4, <3>1, <3>7 DEF Covered
        <3> QED BY <3>2, <3>3, <3>5, <3>6, <3>8 DEF JobOK, j
    <2> QED BY <1>1, <2>1, <2>3, <2>4, PublishStep
<1>4. CASE ~(s.reads \subseteq DOMAIN stocks)
    <2>1. Refused(w) BY <1>4 DEF SaveGivenBack
    <2> QED BY <1>1, <2>1, RefusedKeeps
<1> QED BY <1>3, <1>4

LEMMA SaveLabelsKeeps ==
    ASSUME Good, Apart', NEW w \in Saver, SaveLabels(w)
    PROVE  Good'
<1> DEFINE s == saver[w]
           lists == ExcludedOf(s)
           rows == {r \in DOMAIN stocks : r[1] \in s.target}
           Copy(r) == [stocks[r] EXCEPT !.excludeLabel = r[2] \in lists[r[1]]]
           copies == [r \in rows |-> Copy(r)]
           dirty == UNION {ProductsOf(r, groups) : r \in rows}
<1>1. s.kind = "exclude" /\ s.pc = "save" BY DEF SaveLabels
<1>2. JobOK(s, stocks, excludeAcl, groups) BY DEF Good, Jobs
<1>3. CASE s.target \subseteq DOMAIN excludeAcl
    <2>1. Publish(w, copies, dirty) BY <1>3 DEF SaveLabels
    <2>2. DOMAIN s = Fields /\ s.queue = {} /\ s.reads = s.target \X Acl
          /\ s.reads \subseteq Cidr \X Acl
        BY <1>1, <1>2 DEF JobOK, IsJob, Shape
    <2>3. rows \subseteq Cidr \X Acl BY DEF Good, Tables
    <2>4. dirty \subseteq Product BY <2>3, ProductsType
    <2>5. ASSUME NEW r \in rows
          PROVE  Copy(r) \in Row /\ (Copy(r).excludeLabel <=> r[2] \in lists[r[1]])
        <3>1. stocks[r] \in Row BY DEF Good, Tables
        <3>2. \A b \in BOOLEAN : [stocks[r] EXCEPT !.excludeLabel = b] \in Row
                                  /\ [stocks[r] EXCEPT !.excludeLabel = b].excludeLabel = b
            BY <3>1 DEF Row
        <3>3. (r[2] \in lists[r[1]]) \in BOOLEAN OBVIOUS
        <3> QED BY <3>2, <3>3
    <2>6. lists = ListsAfter(s, excludeAcl) BY DEF ExcludedOf, ListsAfter
    <2>7. DOMAIN copies = rows /\ \A r \in rows : copies[r] = Copy(r) OBVIOUS
    <2>8. rows \subseteq s.reads BY <2>2, <2>3
    <2> HIDE DEF copies, Copy, lists
    <2>9. ASSUME NEW counts, DOMAIN counts = dirty
          PROVE  JobOK(Published(s, copies, counts), stocks, excludeAcl, groups)
        <3> DEFINE j == Published(s, copies, counts)
        <3>1. /\ DOMAIN j = Fields /\ j.pc = "commit" /\ j.copies = copies
              /\ j.counts = counts /\ j.kind = "exclude" /\ j.reads = s.reads /\ j.queue = {}
              /\ j.target = s.target /\ \A L : ListsAfter(j, L) = ListsAfter(s, L)
            BY <1>1, <2>2, PublishedFields
        <3> HIDE DEF j
        <3>2. IsJob(j) BY <2>2, <2>4, <2>5, <2>7, <2>8, <2>9, <3>1 DEF IsJob
        <3>3. Shape(j) BY <2>2, <3>1 DEF Shape, Counting
        <3>4. Whole(j, stocks, excludeAcl) BY <1>3, <2>7, <3>1 DEF Whole
        <3>5. CopiesLabelled(j, excludeAcl) BY <2>5, <2>6, <2>7, <3>1 DEF CopiesLabelled
        <3>6. \A r \in rows : ProductsOf(r, groups) \subseteq dirty OBVIOUS
        <3>7. Covered(j, stocks, groups) BY <2>7, <2>9, <3>1, <3>6 DEF Covered
        <3> QED BY <3>2, <3>3, <3>4, <3>5, <3>7 DEF JobOK, j
    <2> QED BY <1>1, <2>1, <2>4, <2>9, PublishStep
<1>4. CASE ~(s.target \subseteq DOMAIN excludeAcl)
    <2>1. Refused(w) BY <1>4 DEF SaveLabels
    <2> QED BY <1>1, <2>1, RefusedKeeps
<1> QED BY <1>3, <1>4

LEMMA SaveServersKeeps ==
    ASSUME Good, Apart', NEW w \in Saver, SaveServers(w)
    PROVE  Good'
<1> DEFINE s == saver[w]
           Copy(r) == IF r \in DOMAIN stocks
                      THEN [stocks[r] EXCEPT !.excludeLabel = s.copies[r].excludeLabel]
                      ELSE s.copies[r]
           copies == [r \in s.reads |-> Copy(r)]
           dirty == s.target \X Acl
<1>1. s.kind = "servers" /\ s.pc = "save" BY DEF SaveServers
<1>2. JobOK(s, stocks, excludeAcl, groups) BY DEF Good, Jobs
<1>3. CASE \A r \in s.reads : r[1] \in DOMAIN excludeAcl
    <2>1. Publish(w, copies, dirty) BY <1>3 DEF SaveServers
    <2>2. DOMAIN s = Fields /\ s.queue = {} /\ DOMAIN s.copies = s.reads
          /\ s.reads \subseteq Cidr \X Acl /\ s.add \X Acl \subseteq s.reads
          /\ s.add \subseteq Cidr /\ s.target \subseteq Group
        BY <1>1, <1>2 DEF JobOK, IsJob, Shape
    <2>3. dirty \subseteq Product BY <2>2 DEF Product
    <2>4. ASSUME NEW r \in s.reads
          PROVE  /\ Copy(r) \in Row
                 /\ Copy(r).excludeLabel <=> r[2] \in excludeAcl[r[1]]
                 /\ r \in DOMAIN stocks => Copy(r) = stocks[r]
        <3>1. s.copies[r] \in Row BY <1>2, <2>2 DEF JobOK, IsJob
        <3>2. s.copies[r].excludeLabel <=> r[2] \in excludeAcl[r[1]]
            BY <1>1, <1>2, <1>3, <2>2 DEF JobOK, CopiesLabelled, ListsAfter
        <3>3. CASE r \notin DOMAIN stocks BY <3>1, <3>2, <3>3
        <3>4. CASE r \in DOMAIN stocks
            <4>1. stocks[r] \in Row /\ (stocks[r].excludeLabel <=> r[2] \in excludeAcl[r[1]])
                BY <3>4 DEF Good, Tables, Labels
            <4>2. stocks[r].excludeLabel = s.copies[r].excludeLabel
                BY <3>1, <3>2, <4>1 DEF Row
            <4>3. [stocks[r] EXCEPT !.excludeLabel = s.copies[r].excludeLabel] = stocks[r]
                BY <4>1, <4>2 DEF Row
            <4> QED BY <3>4, <4>1, <4>3
        <3> QED BY <3>3, <3>4
    <2>5. DOMAIN copies = s.reads /\ \A r \in s.reads : copies[r] = Copy(r) OBVIOUS
    <2> HIDE DEF copies, Copy
    <2>6. ASSUME NEW counts, DOMAIN counts = dirty
          PROVE  JobOK(Published(s, copies, counts), stocks, excludeAcl, groups)
        <3> DEFINE j == Published(s, copies, counts)
        <3>1. /\ DOMAIN j = Fields /\ j.pc = "commit" /\ j.copies = copies
              /\ j.counts = counts /\ j.kind = "servers" /\ j.reads = s.reads /\ j.queue = {}
              /\ j.target = s.target /\ j.add = s.add
            BY <1>1, <2>2, PublishedFields
        <3> HIDE DEF j
        <3>2. IsJob(j) BY <2>2, <2>3, <2>4, <2>5, <2>6, <3>1 DEF IsJob
        <3>3. Shape(j) BY <2>2, <2>5, <3>1 DEF Shape, Counting
        <3>4. Whole(j, stocks, excludeAcl) BY <1>3, <2>5, <2>6, <3>1 DEF Whole
        <3>5. CopiesLabelled(j, excludeAcl)
            BY <2>4, <2>5, <3>1 DEF CopiesLabelled, ListsAfter
        <3>6. ASSUME NEW r \in s.reads, NEW p \in ProductsOf(r, groups) PROVE r \in DOMAIN stocks
            <4>1. r[2] \in Acl /\ r = <<r[1], r[2]>> BY <2>2
            <4>2. PICK g \in Group : r[1] \in groups[g] BY DEF ProductsOf
            <4>3. r \in groups[g] \X Acl BY <4>1, <4>2
            <4> QED BY <4>3 DEF Good, Tables
        <3>7. Covered(j, stocks, groups) BY <2>4, <2>5, <3>1, <3>6 DEF Covered
        <3> QED BY <3>2, <3>3, <3>4, <3>5, <3>7 DEF JobOK, j
    <2> QED BY <1>1, <2>1, <2>3, <2>6, PublishStep
<1>4. CASE ~ \A r \in s.reads : r[1] \in DOMAIN excludeAcl
    <2>1. Refused(w) BY <1>4 DEF SaveServers
    <2> QED BY <1>1, <2>1, RefusedKeeps
<1> QED BY <1>3, <1>4

LEMMA WaitsSame ==
    ASSUME NEW s, NEW p \in Product, NEW R, NEW G, NEW H, G[p[1]] = H[p[1]]
    PROVE  Waits(s, p, R, G) <=> Waits(s, p, R, H)
<1>1. \A r : p \in ProductsOf(r, G) <=> p \in ProductsOf(r, H) BY Sells
<1> QED BY <1>1 DEF Waits

LEMMA AfterSame ==
    ASSUME NEW s, NEW g \in Group, NEW G, NEW H, DOMAIN G = Group, DOMAIN H = Group,
           G[g] = H[g]
    PROVE  GroupsAfter(s, G)[g] = GroupsAfter(s, H)[g]
BY DEF GroupsAfter, Changed

(* What a transaction gives to a group is in the group, or is added and    *)
(* has all its rows in the copies.                                         *)
LEMMA SoldAfter ==
    ASSUME NEW s, NEW rows, NEW lists, JobOK(s, rows, lists, groups), DOMAIN groups = Group,
           NEW p \in Product, NEW r \in Cidr \X Acl, p \in ProductsOf(r, GroupsAfter(s, groups))
    PROVE  p \in ProductsOf(r, groups) \/ r \in DOMAIN s.copies
<1>1. p[1] \in Group BY DEF Product
<1>2. r[1] \in GroupsAfter(s, groups)[p[1]] /\ r[2] = p[2] BY Sells
<1>3. CASE r[1] \in groups[p[1]] BY <1>2, <1>3, Sells
<1>4. CASE r[1] \notin groups[p[1]]
    <2>1. s.kind = "servers" /\ r[1] \in s.add BY <1>1, <1>2, <1>4 DEF GroupsAfter, Changed
    <2>2. r \in s.add \X Acl BY <2>1
    <2> QED BY <2>1, <2>2 DEF JobOK, Shape
<1> QED BY <1>3, <1>4

(* Steps of an administrator: the products of the groups that change are   *)
(* owed, and no other one sells a row that changes.                        *)
LEMMA QuietStep ==
    ASSUME Good, UNCHANGED <<products, shown, saver>>, owed \subseteq owed', Tables', Labels',
           \A v \in Saver : JobOK(saver[v], stocks', excludeAcl', groups'),
           \A p \in Product \ owed' :
               /\ groups'[p[1]] = groups[p[1]]
               /\ \A r : p \in ProductsOf(r, groups) =>
                      /\ r \in DOMAIN stocks' <=> r \in DOMAIN stocks
                      /\ r \in DOMAIN stocks' => stocks'[r] = stocks[r]
    PROVE  Good'
<1>1. Apart' /\ Jobs' BY DEF Good, Apart, Jobs
<1>2. DOMAIN groups = Group /\ DOMAIN groups' = Group BY DEF Good, Tables
<1>3. ASSUME NEW p \in Product
      PROVE  AtPeace(p)' /\ \A v \in Saver : TaskCounts(v, p)' /\ TransactionCounts(v, p)'
    <2>1. AtPeace(p) /\ \A v \in Saver : TaskCounts(v, p) /\ TransactionCounts(v, p)
        BY DEF Good, Counts
    <2>2. CASE p \in owed'
        BY <2>1, <2>2 DEF AtPeace, TaskCounts, TransactionCounts
    <2>3. CASE p \notin owed'
        <3>1. p[1] \in Group BY DEF Product
        <3>2. groups'[p[1]] = groups[p[1]] BY <2>3
        <3>3. CountStock(stocks, groups, p) = CountStock(stocks', groups', p)
            BY <2>3, SameCount
        <3>4. Stock(p)' = Stock(p) BY <3>3 DEF Stock
        <3>5. \A v \in Saver : Waits(saver[v], p, {}, groups') <=> Waits(saver[v], p, {}, groups)
            BY <3>2, WaitsSame
        <3>6. Awaited(p, {}, groups)' <=> Awaited(p, {}, groups) BY <3>5 DEF Awaited
        <3>7. AtPeace(p)' BY <2>1, <2>3, <3>4, <3>6 DEF AtPeace
        <3>8. ASSUME NEW v \in Saver PROVE TransactionCounts(v, p)'
            <4> DEFINE s == saver[v]
                       R == DOMAIN s.copies
                       G == GroupsAfter(s, groups)
                       H == GroupsAfter(s, groups')
            <4>1. G[p[1]] = H[p[1]] BY <1>2, <3>1, <3>2, AfterSame
            <4>2. \A u \in Saver : Waits(saver[u], p, R, H) <=> Waits(saver[u], p, R, G)
                BY <4>1, WaitsSame
            <4>3. AwaitedAfter(v, p)' <=> AwaitedAfter(v, p)
                BY <4>2 DEF AwaitedAfter, Awaited
            <4>4. JobOK(s, stocks, excludeAcl, groups) BY DEF Good, Jobs
            <4>5. ASSUME NEW r, p \in ProductsOf(r, G)
                  PROVE  /\ r \in DOMAIN Over(s.copies, stocks) <=> r \in DOMAIN Over(s.copies, stocks')
                         /\ r \in DOMAIN Over(s.copies, stocks) =>
                                Over(s.copies, stocks)[r] = Over(s.copies, stocks')[r]
                <5>1. CASE r \in DOMAIN s.copies BY <5>1 DEF Over
                <5>2. CASE r \notin DOMAIN s.copies /\ r \in Cidr \X Acl
                    <6>1. p \in ProductsOf(r, groups) BY <1>2, <4>4, <4>5, <5>2, SoldAfter
                    <6> QED BY <2>3, <5>2, <6>1 DEF Over
                <5>3. CASE r \notin DOMAIN s.copies /\ r \notin Cidr \X Acl
                    <6>1. r \notin DOMAIN stocks /\ r \notin DOMAIN stocks'
                        BY <5>3 DEF Good, Tables
                    <6> QED BY <5>3, <6>1 DEF Over
                <5> QED BY <5>1, <5>2, <5>3
            <4>6. CountStock(Over(s.copies, stocks), G, p) = CountStock(Over(s.copies, stocks'), H, p)
                BY <4>1, <4>5, SameCount
            <4>7. StockAfter(v, p)' = StockAfter(v, p) BY <4>6 DEF StockAfter
            <4> QED BY <2>1, <2>3, <4>3, <4>7 DEF TransactionCounts
        <3>9. ASSUME NEW v \in Saver PROVE TaskCounts(v, p)'
            BY <2>1, <2>3, <3>4, <3>6 DEF TaskCounts
        <3> QED BY <3>7, <3>8, <3>9
    <2> QED BY <2>2, <2>3
<1>4. Counts' BY <1>3 DEF Counts
<1> QED BY <1>1, <1>4 DEF Good

LEMMA ClearServerKeeps ==
    ASSUME Good, NEW g \in Group, NEW c, ClearServer(g, c)
    PROVE  Good'
<1>1. /\ groups' = [groups EXCEPT ![g] = @ \ {c}] /\ owed' = owed \cup ({g} \X Acl)
      /\ UNCHANGED <<stocks, excludeAcl, products, shown, saver>>
    BY DEF ClearServer
<1>2. DOMAIN groups = Group BY DEF Good, Tables
<1>3. DOMAIN groups' = Group /\ groups'[g] = groups[g] \ {c}
      /\ \A h \in Group \ {g} : groups'[h] = groups[h]
    BY <1>1, <1>2
<1>4. \A h \in Group : groups'[h] \subseteq groups[h] BY <1>3
<1>5. Tables' /\ Labels' BY <1>1, <1>3, <1>4 DEF Good, Tables, Labels
<1>6. \A r : ProductsOf(r, groups') \subseteq ProductsOf(r, groups) BY <1>4 DEF ProductsOf
<1>7. \A v \in Saver : JobOK(saver[v], stocks', excludeAcl', groups')
    BY <1>1, <1>6 DEF Good, Jobs, JobOK, Covered
<1>8. ASSUME NEW p \in Product \ owed' PROVE groups'[p[1]] = groups[p[1]]
    <2>1. p[1] \in Group /\ p = <<p[1], p[2]>> /\ p[2] \in Acl BY DEF Product
    <2>2. p[1] # g BY <1>1, <2>1
    <2> QED BY <1>3, <2>1, <2>2
<1> QED BY <1>1, <1>5, <1>7, <1>8, QuietStep

LEMMA DeleteCidrKeeps ==
    ASSUME Good, NEW c, DeleteCidr(c)
    PROVE  Good'
<1>1. /\ \A w \in Saver : saver[w].pc = "commit" => \A r \in saver[w].reads : r[1] # c
      /\ DOMAIN stocks' = {s \in DOMAIN stocks : s[1] # c}
      /\ \A r \in DOMAIN stocks' : stocks'[r] = stocks[r]
      /\ DOMAIN excludeAcl' = DOMAIN excludeAcl \ {c}
      /\ \A d \in DOMAIN excludeAcl' : excludeAcl'[d] = excludeAcl[d]
      /\ DOMAIN groups' = Group /\ \A g \in Group : groups'[g] = groups[g] \ {c}
      /\ owed' = owed \cup ({g \in Group : c \in groups[g]} \X Acl)
      /\ UNCHANGED <<products, shown, saver>>
    BY DEF DeleteCidr
<1>2. \A r \in DOMAIN stocks : r[1] \in DOMAIN excludeAcl /\ r[2] \in Acl /\ r = <<r[1], r[2]>>
    BY DEF Good, Tables
<1>3. Tables'
    <2>1. DOMAIN stocks' \subseteq (DOMAIN excludeAcl') \X Acl BY <1>1, <1>2
    <2>2. ASSUME NEW g \in Group
          PROVE  groups'[g] \subseteq Cidr /\ groups'[g] \X Acl \subseteq DOMAIN stocks'
        <3>1. groups[g] \subseteq Cidr /\ groups[g] \X Acl \subseteq DOMAIN stocks
            BY DEF Good, Tables
        <3>2. ASSUME NEW r \in groups'[g] \X Acl PROVE r \in DOMAIN stocks'
            <4>1. r \in groups[g] \X Acl /\ r[1] # c BY <1>1
            <4> QED BY <1>1, <3>1, <4>1
        <3> QED BY <1>1, <3>1, <3>2
    <2> QED BY <1>1, <2>1, <2>2 DEF Good, Tables
<1>4. Labels' BY <1>1, <1>2 DEF Good, Labels
<1>5. \A r : ProductsOf(r, groups') \subseteq ProductsOf(r, groups) BY <1>1 DEF ProductsOf
<1>6. ASSUME NEW v \in Saver PROVE JobOK(saver[v], stocks', excludeAcl', groups')
    <2> DEFINE s == saver[v]
    <2>1. JobOK(s, stocks, excludeAcl, groups) BY DEF Good, Jobs
    <2>2. DOMAIN s.copies \subseteq s.reads BY <2>1 DEF JobOK, IsJob
    <2>3. s.pc = "commit" => \A r \in DOMAIN s.copies : r[1] # c BY <1>1, <2>2
    <2>4. Whole(s, stocks', excludeAcl') BY <1>1, <2>1, <2>3 DEF JobOK, Whole
    <2>5. \A d \in DOMAIN excludeAcl' :
              ListsAfter(s, excludeAcl')[d] = ListsAfter(s, excludeAcl)[d]
        BY <1>1 DEF ListsAfter, Changed
    <2>6. CopiesLabelled(s, excludeAcl') BY <1>1, <2>1, <2>5 DEF JobOK, CopiesLabelled
    <2>7. Covered(s, stocks', groups') BY <1>1, <1>5, <2>1, <2>3 DEF JobOK, Covered
    <2> QED BY <2>1, <2>4, <2>6, <2>7 DEF JobOK
<1>7. ASSUME NEW p \in Product \ owed'
      PROVE  /\ groups'[p[1]] = groups[p[1]]
             /\ \A r : p \in ProductsOf(r, groups) =>
                    /\ r \in DOMAIN stocks' <=> r \in DOMAIN stocks
                    /\ r \in DOMAIN stocks' => stocks'[r] = stocks[r]
    <2>1. p[1] \in Group /\ p = <<p[1], p[2]>> /\ p[2] \in Acl BY DEF Product
    <2>2. c \notin groups[p[1]] BY <1>1, <2>1
    <2>3. groups'[p[1]] = groups[p[1]]
        <3>1. \A S : c \notin S => S \ {c} = S OBVIOUS
        <3> QED BY <1>1, <2>1, <2>2, <3>1
    <2>4. \A r : p \in ProductsOf(r, groups) => r[1] # c BY <2>2, Sells
    <2> QED BY <1>1, <2>3, <2>4
<1> QED BY <1>1, <1>3, <1>4, <1>6, <1>7, QuietStep

LEMMA CommitKeeps ==
    ASSUME Good, NEW w \in Saver, Commit(w)
    PROVE  Good'
<1> DEFINE s == saver[w]
<1>1. /\ s.pc = "commit" /\ saver' = [saver EXCEPT ![w] = AtRest]
      /\ stocks' = Over(s.copies, stocks) /\ products' = Over(s.counts, products)
      /\ groups' = GroupsAfter(s, groups) /\ excludeAcl' = ListsAfter(s, excludeAcl)
      /\ shown' = shown /\ owed' = owed
    BY DEF Commit, SetSaver, GroupsOf, ExcludedOf, GroupsAfter, ListsAfter
<1>2. JobOK(s, stocks, excludeAcl, groups) BY DEF Good, Jobs
<1>3. /\ DOMAIN s.copies \subseteq s.reads /\ s.reads \subseteq Cidr \X Acl
      /\ \A r \in DOMAIN s.copies : s.copies[r] \in Row /\ r[1] \in DOMAIN excludeAcl
      /\ DOMAIN s.counts \subseteq Product
    BY <1>1, <1>2 DEF JobOK, IsJob, Whole
<1>4. DOMAIN groups = Group /\ DOMAIN products = Product BY DEF Good, Tables
<1>5. DOMAIN saver' = Saver /\ saver'[w] = AtRest /\ \A v \in Saver \ {w} : saver'[v] = saver[v]
    BY <1>1, SaverMove DEF Good
<1>6. DOMAIN excludeAcl' = DOMAIN excludeAcl /\ DOMAIN groups' = Group
    BY <1>1, <1>4 DEF GroupsAfter, ListsAfter, Changed
<1>7. /\ DOMAIN stocks' = DOMAIN s.copies \cup DOMAIN stocks
      /\ \A r \in DOMAIN s.copies : stocks'[r] = s.copies[r]
      /\ \A r \in DOMAIN stocks \ DOMAIN s.copies : stocks'[r] = stocks[r]
    BY <1>1 DEF Over
<1>8. /\ DOMAIN products' = Product
      /\ \A p \in DOMAIN s.counts : products'[p] = s.counts[p]
      /\ \A p \in Product \ DOMAIN s.counts : products'[p] = products[p]
    BY <1>1, <1>3, <1>4 DEF Over
<1>9. s.kind = "servers" => /\ s.add \X Acl \subseteq DOMAIN s.copies
                            /\ s.add \subseteq Cidr /\ DOMAIN s.counts = s.target \X Acl
    BY <1>1, <1>2 DEF JobOK, Shape, Whole
<1>10. s.kind = "exclude" => /\ s.reads = s.target \X Acl
                             /\ DOMAIN s.copies = {r \in DOMAIN stocks : r[1] \in s.target}
    BY <1>1, <1>2 DEF JobOK, Shape, Whole
<1>11. Tables'
    <2>1. DOMAIN stocks' \subseteq (DOMAIN excludeAcl') \X Acl
        <3>1. ASSUME NEW r \in DOMAIN s.copies PROVE r \in (DOMAIN excludeAcl) \X Acl
            <4>1. r = <<r[1], r[2]>> /\ r[2] \in Acl /\ r[1] \in DOMAIN excludeAcl BY <1>3
            <4> QED BY <4>1
        <3> QED BY <1>6, <1>7, <3>1 DEF Good, Tables
    <2>2. \A r \in DOMAIN stocks' : stocks'[r] \in Row BY <1>3, <1>7 DEF Good, Tables
    <2>3. ASSUME NEW g \in Group
          PROVE  groups'[g] \subseteq Cidr /\ groups'[g] \X Acl \subseteq DOMAIN stocks'
        <3>1. groups[g] \subseteq Cidr /\ groups[g] \X Acl \subseteq DOMAIN stocks
            BY DEF Good, Tables
        <3>2. CASE s.kind = "servers"
            <4>1. groups'[g] \subseteq groups[g] \cup s.add
                BY <1>1, <1>4, <3>2 DEF GroupsAfter, Changed
            <4>2. groups'[g] \subseteq Cidr BY <1>9, <3>1, <3>2, <4>1
            <4>3. ASSUME NEW r \in groups'[g] \X Acl PROVE r \in DOMAIN stocks'
                <5>1. r \in groups[g] \X Acl \/ r \in s.add \X Acl BY <4>1
                <5> QED BY <1>7, <1>9, <3>1, <3>2, <5>1
            <4> QED BY <4>2, <4>3
        <3>3. CASE s.kind # "servers" BY <1>1, <1>7, <3>1, <3>3 DEF GroupsAfter
        <3> QED BY <3>2, <3>3
    <2>4. DOMAIN excludeAcl' \subseteq Cidr BY <1>6 DEF Good, Tables
    <2>5. DOMAIN shown' = Product BY <1>1 DEF Good, Tables
    <2> QED BY <1>5, <1>6, <1>8, <2>1, <2>2, <2>3, <2>4, <2>5 DEF Tables
<1>12. \A c \in DOMAIN excludeAcl : c \notin s.target => excludeAcl'[c] = excludeAcl[c]
    BY <1>1 DEF ListsAfter, Changed
<1>13. s.kind # "exclude" => excludeAcl' = excludeAcl BY <1>1 DEF ListsAfter
<1>14. Labels'
    <2>1. ASSUME NEW r \in DOMAIN stocks'
          PROVE  stocks'[r].excludeLabel <=> r[2] \in excludeAcl'[r[1]]
        <3>1. CASE r \in DOMAIN s.copies
            BY <1>1, <1>2, <1>3, <1>7, <3>1 DEF JobOK, CopiesLabelled
        <3>2. CASE r \notin DOMAIN s.copies
            <4>1. r \in DOMAIN stocks /\ stocks'[r] = stocks[r] BY <1>7, <3>2
            <4>2. r[1] \in DOMAIN excludeAcl BY <4>1 DEF Good, Tables
            <4>3. excludeAcl'[r[1]] = excludeAcl[r[1]] BY <1>10, <1>12, <1>13, <3>2, <4>1, <4>2
            <4> QED BY <4>1, <4>3 DEF Good, Labels
        <3> QED BY <3>1, <3>2
    <2> QED BY <2>1 DEF Labels
<1>15. ASSUME NEW v \in Saver \ {w}
       PROVE  s.reads \cap saver[v].reads = {} /\ DOMAIN s.counts \cap DOMAIN saver[v].counts = {}
    <2>1. ~Together(s, saver[v]) BY DEF Good, Apart
    <2> QED BY <2>1 DEF Together
<1>16. ASSUME NEW v \in Saver \ {w} PROVE JobOK(saver[v], stocks', excludeAcl', groups')
    <2> DEFINE t == saver[v]
    <2>1. JobOK(t, stocks, excludeAcl, groups) BY DEF Good, Jobs
    <2>2. DOMAIN t.copies \subseteq t.reads /\ t.reads \subseteq Cidr \X Acl
        BY <2>1 DEF JobOK, IsJob
    <2>3. \A r \in DOMAIN t.copies : r \notin s.reads /\ r \notin DOMAIN s.copies
        BY <1>3, <1>15, <2>2
    <2>4. Whole(t, stocks', excludeAcl')
        <3>1. ASSUME t.pc = "commit", t.kind = "exclude", NEW r \in DOMAIN s.copies,
                     r[1] \in t.target
              PROVE  FALSE
            <4>1. t.reads = t.target \X Acl BY <2>1, <3>1 DEF JobOK, Shape
            <4>2. r \in s.reads /\ r = <<r[1], r[2]>> /\ r[2] \in Acl BY <1>3
            <4>3. r \in t.reads BY <3>1, <4>1, <4>2
            <4> QED BY <1>15, <4>2, <4>3
        <3>2. t.pc = "commit" /\ t.kind = "exclude" =>
                  {r \in DOMAIN stocks' : r[1] \in t.target} = {r \in DOMAIN stocks : r[1] \in t.target}
            BY <1>7, <3>1
        <3> QED BY <1>6, <2>1, <3>2 DEF JobOK, Whole
    <2>5. ASSUME NEW r \in DOMAIN t.copies, r[1] \in DOMAIN excludeAcl
          PROVE  ListsAfter(t, excludeAcl')[r[1]] = ListsAfter(t, excludeAcl)[r[1]]
        <3>1. r \in Cidr \X Acl BY <2>2
        <3>2. s.kind = "exclude" => r[1] \notin s.target
            <4>1. r[2] \in Acl /\ r = <<r[1], r[2]>> BY <3>1
            <4>2. s.kind = "exclude" /\ r[1] \in s.target => r \in s.reads BY <1>10, <4>1
            <4> QED BY <2>3, <4>2
        <3>3. excludeAcl'[r[1]] = excludeAcl[r[1]] BY <1>12, <1>13, <2>5, <3>2
        <3> QED BY <1>6, <2>5, <3>3 DEF ListsAfter, Changed
    <2>6. CopiesLabelled(t, excludeAcl') BY <1>6, <2>1, <2>5 DEF JobOK, CopiesLabelled
    <2>7. Covered(t, stocks', groups')
        <3>1. ASSUME NEW r \in DOMAIN t.copies, NEW p \in ProductsOf(r, groups')
              PROVE  p \in ProductsOf(r, groups)
            <4>1. r \in Cidr \X Acl BY <2>2
            <4>2. p \in Product BY <4>1, ProductsType
            <4>3. p \in ProductsOf(r, groups) \/ r \in DOMAIN s.copies
                BY <1>1, <1>2, <1>4, <3>1, <4>1, <4>2, SoldAfter
            <4> QED BY <2>3, <4>3
        <3> QED BY <1>7, <2>1, <2>3, <3>1 DEF JobOK, Covered
    <2> QED BY <2>1, <2>4, <2>6, <2>7 DEF JobOK
<1>17. Jobs' BY <1>5, <1>16, RestOK DEF Jobs
<1>18. ASSUME NEW v \in Saver, v # w PROVE ~Together(saver'[v], AtRest) /\ ~Together(AtRest, saver'[v])
    BY RestFacts DEF Together
<1>19. Apart' BY <1>5, <1>18 DEF Good, Apart
<1>20. ASSUME NEW p \in DOMAIN s.counts
       PROVE  AtPeace(p)' /\ \A v \in Saver : TaskCounts(v, p)' /\ TransactionCounts(v, p)'
    <2>1. TransactionCounts(w, p) BY <1>3 DEF Good, Counts
    <2>2. \A v \in Saver : p \notin DOMAIN saver'[v].counts BY <1>5, <1>15, RestFacts
    <2>3. Stock(p)' = StockAfter(w, p) BY <1>1 DEF Stock, StockAfter
    <2>4. AwaitedAfter(w, p) => Awaited(p, {}, groups)'
        <3>1. ASSUME NEW v \in Saver, Waits(saver[v], p, DOMAIN s.copies, GroupsAfter(s, groups))
              PROVE  Waits(saver'[v], p, {}, groups')
            <4>1. v # w BY <1>1, <3>1 DEF Waits, Counting
            <4> QED BY <1>1, <1>5, <3>1, <4>1 DEF Waits
        <3> QED BY <3>1 DEF AwaitedAfter, Awaited
    <2>5. AtPeace(p)' BY <1>1, <1>8, <2>1, <2>3, <2>4 DEF AtPeace, TransactionCounts
    <2> QED BY <2>2, <2>5 DEF TaskCounts, TransactionCounts
<1>21. ASSUME NEW p \in Product \ DOMAIN s.counts
       PROVE  AtPeace(p)' /\ \A v \in Saver : TaskCounts(v, p)' /\ TransactionCounts(v, p)'
    <2>1. AtPeace(p) /\ \A v \in Saver : TaskCounts(v, p) /\ TransactionCounts(v, p)
        BY DEF Good, Counts
    <2>2. p[1] \in Group /\ p = <<p[1], p[2]>> /\ p[2] \in Acl BY DEF Product
    <2>3. groups'[p[1]] = groups[p[1]]
        <3>1. s.kind = "servers" => p[1] \notin s.target BY <1>9, <2>2
        <3> QED BY <1>1, <1>4, <2>2, <3>1 DEF GroupsAfter, Changed
    <2>4. \A r : p \in ProductsOf(r, groups) =>
              /\ r \in DOMAIN stocks <=> r \in DOMAIN stocks'
              /\ r \in DOMAIN stocks => stocks[r] = stocks'[r]
        BY <1>1, <1>2, <1>7 DEF JobOK, Covered
    <2>5. CountStock(stocks, groups, p) = CountStock(stocks', groups', p)
        BY <2>3, <2>4, SameCount
    <2>6. Stock(p)' = Stock(p) BY <2>5 DEF Stock
    <2>7. ASSUME NEW R, NEW G, NEW u \in Saver
          PROVE  Waits(saver'[u], p, R, G) <=> Waits(saver[u], p, R, G)
        <3>1. ~Waits(s, p, R, G) BY <1>1 DEF Waits, Counting
        <3> QED BY <1>5, <3>1, RestWaits
    <2>8. \A u \in Saver : Waits(saver'[u], p, {}, groups') <=> Waits(saver[u], p, {}, groups)
        BY <2>3, <2>7, WaitsSame
    <2>9. Awaited(p, {}, groups)' <=> Awaited(p, {}, groups) BY <2>8 DEF Awaited
    <2>10. AtPeace(p)' BY <1>1, <1>5, <1>8, <2>1, <2>6, <2>9 DEF AtPeace
    <2>11. ASSUME NEW v \in Saver PROVE TaskCounts(v, p)'
        <3>1. CASE v = w BY <1>5, <3>1, RestFacts DEF TaskCounts
        <3>2. CASE v # w BY <1>1, <1>5, <1>8, <2>1, <2>6, <2>9, <3>2 DEF TaskCounts
        <3> QED BY <3>1, <3>2
    <2>12. ASSUME NEW v \in Saver \ {w} PROVE TransactionCounts(v, p)'
        <3> DEFINE t == saver[v]
                   R == DOMAIN t.copies
                   G == GroupsAfter(t, groups)
                   H == GroupsAfter(t, groups')
        <3>1. saver'[v] = t BY <1>5
        <3>2. G[p[1]] = H[p[1]] BY <1>4, <1>6, <2>2, <2>3, AfterSame
        <3>3. \A u \in Saver : Waits(saver'[u], p, R, H) <=> Waits(saver[u], p, R, G)
            BY <2>7, <3>2, WaitsSame
        <3>4. AwaitedAfter(v, p)' <=> AwaitedAfter(v, p)
            BY <3>1, <3>3 DEF AwaitedAfter, Awaited
        <3>5. JobOK(t, stocks, excludeAcl, groups) BY DEF Good, Jobs
        <3>6. DOMAIN t.copies \subseteq t.reads BY <3>5 DEF JobOK, IsJob
        <3>7. ASSUME NEW r, p \in ProductsOf(r, G)
              PROVE  /\ r \in DOMAIN Over(t.copies, stocks) <=> r \in DOMAIN Over(t.copies, stocks')
                     /\ r \in DOMAIN Over(t.copies, stocks) =>
                            Over(t.copies, stocks)[r] = Over(t.copies, stocks')[r]
            <4>1. CASE r \in DOMAIN t.copies BY <4>1 DEF Over
            <4>2. CASE r \notin DOMAIN t.copies /\ r \in Cidr \X Acl
                <5>1. p \in ProductsOf(r, groups) BY <1>4, <3>5, <3>7, <4>2, SoldAfter
                <5> QED BY <2>4, <4>2, <5>1 DEF Over
            <4>3. CASE r \notin DOMAIN t.copies /\ r \notin Cidr \X Acl
                <5>1. r \notin DOMAIN stocks /\ r \notin DOMAIN stocks'
                    BY <1>11, <4>3 DEF Good, Tables
                <5> QED BY <4>3, <5>1 DEF Over
            <4> QED BY <4>1, <4>2, <4>3
        <3>8. CountStock(Over(t.copies, stocks), G, p) = CountStock(Over(t.copies, stocks'), H, p)
            BY <3>2, <3>7, SameCount
        <3>9. StockAfter(v, p)' = StockAfter(v, p) BY <3>1, <3>8 DEF StockAfter
        <3> QED BY <1>1, <2>1, <3>1, <3>4, <3>9 DEF TransactionCounts
    <2>13. TransactionCounts(w, p)' BY <1>5, RestFacts DEF TransactionCounts
    <2> QED BY <2>10, <2>11, <2>12, <2>13
<1>22. Counts' BY <1>20, <1>21 DEF Counts
<1> QED BY <1>11, <1>14, <1>17, <1>19, <1>22 DEF Good

LEMMA StepKeeps ==
    ASSUME Good, Apart', ProductStep
    PROVE  Good'
<1>1. CASE \E w \in Saver :
        \/ \E r \in DOMAIN stocks : StartSale(w, r) \/ StartGiveBack(w, r)
        \/ \E r \in Cidr \X Acl : SaveRow(w, r)
    BY <1>1, StartSaleKeeps, StartGiveBackKeeps, SaveRowKeeps
<1>2. CASE \E w \in Saver, p \in Group \X Acl :
        CountProduct(w, p) \/ StoreProduct(w, p) \/ CacheProduct(w, p)
    BY <1>2, CountProductKeeps, StoreProductKeeps, CacheProductKeeps DEF Product
<1>3. CASE \E w \in Saver, c \in DOMAIN excludeAcl :
        \/ \E a \in Acl : StartExclusion(w, c, a)
        \/ \E g \in Group : StartServers(w, g, c)
    BY <1>3, StartExclusionKeeps, StartServersKeeps
<1>4. CASE \E w \in Saver :
        SaveGivenBack(w) \/ SaveLabels(w) \/ SaveServers(w) \/ Commit(w) \/ Fail(w)
    BY <1>4, SaveGivenBackKeeps, SaveLabelsKeeps, SaveServersKeeps, CommitKeeps, FailKeeps
<1>5. CASE \E c \in DOMAIN excludeAcl : DeleteCidr(c) \/ \E g \in Group : ClearServer(g, c)
    BY <1>5, DeleteCidrKeeps, ClearServerKeeps
<1> QED BY <1>1, <1>2, <1>3, <1>4, <1>5 DEF ProductStep

LEMMA InitGood == ProductInit => Good
<1> SUFFICES ASSUME ProductInit PROVE Good OBVIOUS
<1> DEFINE held == UNION {groups[g] : g \in Group}
<1>1. /\ groups \in [Group -> SUBSET Cidr]
      /\ stocks = [r \in held \X Acl |-> [free |-> Size, excludeLabel |-> FALSE]]
      /\ excludeAcl = [c \in Cidr |-> {}] /\ shown = products
      /\ products = [p \in Product |-> Stock(p)]
      /\ saver = [v \in Saver |-> AtRest]
    BY ProductStockAssumption DEF ProductInit, Product, Stock
<1>2. held \subseteq Cidr /\ \A g \in Group : groups[g] \subseteq held BY <1>1
<1> HIDE DEF held
<1>3. \A r \in DOMAIN stocks : stocks[r] \in Row BY <1>1, SizeType DEF Row
<1>4. Tables BY <1>1, <1>2, <1>3 DEF Tables
<1>5. Labels BY <1>1, <1>2 DEF Labels
<1>6. Jobs BY <1>1, RestOK DEF Jobs
<1>7. Apart BY <1>1, RestFacts DEF Apart, Together
<1>8. Counts BY <1>1, RestFacts DEF Counts, AtPeace, TaskCounts, TransactionCounts
<1> QED BY <1>4, <1>5, <1>6, <1>7, <1>8 DEF Good

LEMMA InvStep == StockInv /\ [ProductNext]_productVars => StockInv'
<1> SUFFICES ASSUME StockInv, [ProductNext]_productVars, ~mixed' PROVE Good'
    BY DEF StockInv
<1>1. CASE ProductNext
    <2>1. ~mixed BY <1>1 DEF ProductNext
    <2>2. Good BY <2>1 DEF StockInv
    <2>3. Apart' BY <1>1 DEF ProductNext, Apart
    <2> QED BY <1>1, <2>2, <2>3, StepKeeps DEF ProductNext
<1>2. CASE UNCHANGED productVars
    <2>1. Good BY <1>2 DEF StockInv, productVars
    <2>2. UNCHANGED <<stocks, excludeAcl, groups, products, shown, saver, owed>>
        BY <1>2 DEF productVars
    <2>3. Tables' BY <2>1, <2>2 DEF Good, Tables
    <2>4. Labels' BY <2>1, <2>2 DEF Good, Labels
    <2>5. \A v \in Saver : JobOK(saver[v], stocks', excludeAcl', groups')
        BY <2>1, <2>2 DEF Good, Jobs
    <2> QED BY <2>1, <2>2, <2>3, <2>4, <2>5, QuietStep
<1> QED BY <1>1, <1>2

(* The invariant of rows, labels, groups and counts: as long as no two     *)
(* jobs have met, whatever they interleave and wherever they end.          *)
THEOREM StockInvariant == ProductSpec => []StockInv
<1>1. ProductInit => StockInv BY InitGood DEF StockInv
<1> QED BY <1>1, InvStep, PTL DEF ProductSpec

LEMMA GoodShows == StockInv => ShownIsStock
<1> SUFFICES ASSUME StockInv, ~mixed, \A w \in Saver : saver[w] = AtRest,
                    NEW p \in Product \ owed
             PROVE  products[p] = OnSale(p) /\ shown[p] = OnSale(p)
    BY DEF ShownIsStock, Product
<1>1. Good BY DEF StockInv
<1>2. ~Awaited(p, {}, groups) BY RestWaits DEF Awaited
<1>3. \A v \in Saver : p \notin DOMAIN saver[v].counts BY RestFacts
<1>4. products[p] = Stock(p) /\ shown[p] = Stock(p) BY <1>1, <1>2, <1>3 DEF Good, Counts, AtPeace
<1> DEFINE A == {r \in DOMAIN stocks :
        r[1] \in groups[p[1]] /\ r[2] = p[2] /\ ~stocks[r].excludeLabel}
<1> DEFINE B == {r \in DOMAIN stocks :
        r[1] \in groups[p[1]] /\ r[2] = p[2] /\ r[2] \notin excludeAcl[r[1]]}
<1>5. A = B BY <1>1 DEF Good, Labels
<1>6. [r \in A |-> stocks[r].free] = [r \in B |-> stocks[r].free] BY <1>5
<1>7. Stock(p) = OnSale(p) BY <1>6 DEF Stock, CountStock, OnSale
<1> QED BY <1>4, <1>7

(* When no job runs, each product shows what is on sale, in its row and in *)
(* the hash, unless jobs have met or no recount was called for the change. *)
THEOREM StockIsShown == ProductSpec => []ShownIsStock
BY StockInvariant, GoodShows, PTL
=============================================================================
