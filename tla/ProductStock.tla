---------------------------- MODULE ProductStock -----------------------------
(***************************************************************************)
(* The stock a product shows: a row of product_stock and its copy in the   *)
(* redis hash product_stocks, recounted by the signal handlers of          *)
(* proxy_server/models.py after each save of a stock row and after each    *)
(* change of the servers of a group.  A delivery saves in autocommit mode  *)
(* and interleaves at each access; a return, a change of exclude_acl and   *)
(* one of servers are transactions, whose writes to the hash show at once. *)
(* One cart_step, one variant to a group; the servers of a group are the   *)
(* ranges they have.                                                       *)
(***************************************************************************)
EXTENDS Naturals

LOCAL INSTANCE Functions

CONSTANTS
    Cidr,           \* address ranges
    Acl,            \* access lists
    Group,          \* server groups, each with a variant that sells it
    Size,           \* subnets of a range
    FirstGroups,    \* possible first contents of the groups
    Saver,          \* requests and workers
    MaxSavers       \* bound on jobs

ASSUME ProductStockAssumption ==
    /\ Size \in Nat \ {0} /\ MaxSavers \in Nat
    /\ FirstGroups \subseteq [Group -> SUBSET Cidr]

VARIABLES
    stocks,         \* ip_stock: [subset of Cidr \X Acl -> free, excludeLabel]
    excludeAcl,     \* [the existing ranges -> their exclude_acl]
    groups,         \* [Group -> the ranges of its servers]
    products,       \* product_stock: [Group \X Acl -> stock]
    shown,          \* the hash product_stocks
    saver,          \* [Saver -> what it is doing]
    saves,          \* jobs so far
    mixed,          \* history: two jobs held one row, or counts of one product
    owed            \* history: products without a recount since a change that
                    \* calls none or since a job that did not end

productVars == <<stocks, excludeAcl, groups, products, shown, saver, saves, mixed, owed>>

(* The locals of a job: the row, range or group it is about, and what it   *)
(* adds and drops there; the rows it has read, and as it will save them;   *)
(* the products it has yet to count, and its counts.                       *)
AtRest == [kind |-> "none", pc |-> "idle", target |-> {}, add |-> {}, drop |-> {},
           reads |-> {}, copies |-> <<>>, queue |-> {}, counts |-> <<>>]

SetSaver(w, s) == saver' = [saver EXCEPT ![w] = s]

(* A table with some of its rows written. *)
Over(rows, table) ==
    [x \in DOMAIN rows \cup DOMAIN table |-> IF x \in DOMAIN rows THEN rows[x] ELSE table[x]]

(* count_stock of the product p, if these were the rows and the groups. *)
CountStock(rows, contents, p) ==
    SumFunction([r \in {s \in DOMAIN rows :
        s[1] \in contents[p[1]] /\ s[2] = p[2] /\ ~rows[s].excludeLabel} |-> rows[r].free])

(* proxy_stock_updated_post: the products whose group has the range. *)
ProductsOf(r, contents) == {g \in Group : r[1] \in contents[g]} \X {r[2]}

(* The rows and products a transaction has written until it commits. *)
LockedStocks == UNION {DOMAIN saver[w].copies : w \in {v \in Saver : saver[v].pc = "commit"}}
LockedProducts == UNION {DOMAIN saver[w].counts : w \in {v \in Saver : saver[v].pc = "commit"}}

(* Two jobs hold copies of one row or counts of one product. *)
Together(s, t) ==
    s.reads \cap t.reads # {} \/ DOMAIN s.counts \cap DOMAIN t.counts # {}

ProductInit ==
    /\ groups \in FirstGroups
    /\ stocks = [r \in (UNION {groups[g] : g \in Group}) \X Acl |->
                    [free |-> Size, excludeLabel |-> FALSE]]
    /\ excludeAcl = [c \in Cidr |-> {}]
    /\ products = [p \in Group \X Acl |-> CountStock(stocks, groups, p)]
    /\ shown = products
    /\ saver = [w \in Saver |-> AtRest]
    /\ saves = 0 /\ mixed = FALSE /\ owed = {}

StartSaver(w, s) ==
    /\ saver[w].pc = "idle"
    /\ saves < MaxSavers
    /\ saves' = saves + 1
    /\ SetSaver(w, s)

-----------------------------------------------------------------------------
(* A delivery reads a row and saves it, a subnet less or as it was.        *)

StartSale(w, r) ==
    /\ \E free \in {stocks[r].free - 1, stocks[r].free} \cap 0..Size :
          StartSaver(w, [AtRest EXCEPT !.kind = "sale", !.pc = "rows", !.reads = {r},
                             !.copies = [s \in {r} |-> [stocks[r] EXCEPT !.free = free]]])
    /\ UNCHANGED <<stocks, excludeAcl, groups, products, shown, owed>>

(* stock.save() of the whole copy; a row deleted meanwhile is inserted     *)
(* again, which fails for lack of its range.                               *)
SaveRow(w, r) ==
    /\ saver[w].pc = "rows" /\ r \in DOMAIN saver[w].copies
    /\ r \notin LockedStocks
    /\ IF r \in DOMAIN stocks
       THEN /\ stocks' = [stocks EXCEPT ![r] = saver[w].copies[r]]
            /\ SetSaver(w, [AtRest EXCEPT !.kind = "sale", !.pc = "count",
                                          !.target = {r}, !.queue = Group \X {r[2]}])
       ELSE SetSaver(w, AtRest) /\ UNCHANGED stocks
    /\ UNCHANGED <<excludeAcl, groups, products, shown, saves, owed>>

(* Without the product p the job has nothing left to count, or goes on. *)
NextProduct(s, p) ==
    IF s.queue = {p} THEN AtRest
    ELSE [s EXCEPT !.pc = "count", !.queue = @ \ {p}, !.counts = <<>>]

(* product_stock.save(), if the group has the range of the row: count_stock *)
(* of pre_save.                                                             *)
CountProduct(w, p) ==
    LET s == saver[w]
    IN  /\ s.pc = "count" /\ p \in s.queue
        /\ IF \E r \in s.target : p \in ProductsOf(r, groups)
           THEN /\ SetSaver(w, [s EXCEPT !.pc = "store",
                        !.counts = [q \in {p} |-> CountStock(stocks, groups, p)]])
                /\ owed' = owed \ {p}
           ELSE SetSaver(w, NextProduct(s, p)) /\ UNCHANGED owed
        /\ UNCHANGED <<stocks, excludeAcl, groups, products, shown, saves>>

(* The row of the product is written. *)
StoreProduct(w, p) ==
    /\ saver[w].pc = "store" /\ p \in DOMAIN saver[w].counts
    /\ p \notin LockedProducts
    /\ products' = [products EXCEPT ![p] = saver[w].counts[p]]
    /\ SetSaver(w, [saver[w] EXCEPT !.pc = "cache"])
    /\ UNCHANGED <<stocks, excludeAcl, groups, shown, saves, owed>>

(* update_product_stock_cache of post_save: hset of the count. *)
CacheProduct(w, p) ==
    /\ saver[w].pc = "cache" /\ p \in DOMAIN saver[w].counts
    /\ shown' = [shown EXCEPT ![p] = saver[w].counts[p]]
    /\ SetSaver(w, NextProduct(saver[w], p))
    /\ UNCHANGED <<stocks, excludeAcl, groups, products, saves, owed>>

-----------------------------------------------------------------------------
(* Transactions.                                                           *)

(* A many-to-many relation after the change of the job. *)
Changed(relation, s) ==
    [x \in DOMAIN relation |->
        IF x \in s.target THEN (relation[x] \cup s.add) \ s.drop ELSE relation[x]]

GroupsOf(s) == IF s.kind = "servers" THEN Changed(groups, s) ELSE groups
ExcludedOf(s) == IF s.kind = "exclude" THEN Changed(excludeAcl, s) ELSE excludeAcl

(* The job saves rows, which it locks, counts the products in its own view *)
(* of rows and groups, saves them and writes the counts to the hash.       *)
Publish(w, rows, dirty) ==
    LET counts == [p \in dirty |-> CountStock(Over(rows, stocks), GroupsOf(saver[w]), p)]
    IN  /\ DOMAIN rows \cap LockedStocks = {}
        /\ dirty \cap LockedProducts = {}
        /\ shown' = Over(counts, shown)
        /\ owed' = owed \ dirty
        /\ SetSaver(w, [saver[w] EXCEPT !.pc = "commit", !.copies = rows, !.counts = counts])
        /\ UNCHANGED <<stocks, excludeAcl, groups, products, saves>>

(* A range was deleted: an error, and the transaction is rolled back. *)
Refused(w) ==
    SetSaver(w, AtRest) /\ UNCHANGED <<stocks, excludeAcl, groups, products, shown, saves, owed>>

(* return_subnet on a row read by the task. *)
StartGiveBack(w, r) ==
    /\ stocks[r].free < Size
    /\ StartSaver(w, [AtRest EXCEPT !.kind = "return", !.pc = "save", !.reads = {r},
                          !.copies = [s \in {r} |-> [stocks[r] EXCEPT !.free = @ + 1]]])
    /\ UNCHANGED <<stocks, excludeAcl, groups, products, shown, owed>>

SaveGivenBack(w) ==
    /\ saver[w].kind = "return" /\ saver[w].pc = "save"
    /\ IF saver[w].reads \subseteq DOMAIN stocks
       THEN Publish(w, saver[w].copies,
                    UNION {ProductsOf(r, groups) : r \in saver[w].reads})
       ELSE Refused(w)

(* exclude_acl of a range gets or loses a list. *)
StartExclusion(w, c, a) ==
    /\ LET change == IF a \in excludeAcl[c] THEN [AtRest EXCEPT !.drop = {a}]
                                            ELSE [AtRest EXCEPT !.add = {a}]
       IN  StartSaver(w, [change EXCEPT !.kind = "exclude", !.pc = "save",
                                        !.target = {c}, !.reads = {c} \X Acl])
    /\ UNCHANGED <<stocks, excludeAcl, groups, products, shown, owed>>

(* Mutant: labels are only set, as update_ip_stock does. *)
SaveSetLabels(w) ==
    LET s     == saver[w]
        lists == ExcludedOf(s)
        rows  == {r \in DOMAIN stocks : r[1] \in s.target}
    IN  /\ s.kind = "exclude" /\ s.pc = "save"
        /\ IF s.target \subseteq DOMAIN excludeAcl
           THEN Publish(w, [r \in rows |-> [stocks[r] EXCEPT !.excludeLabel =
                                                @ \/ r[2] \in lists[r[1]]]],
                        UNION {ProductsOf(r, groups) : r \in rows})
           ELSE Refused(w)

(* The handler labels and saves all rows of the range. *)
SaveLabels(w) ==
    LET s     == saver[w]
        lists == ExcludedOf(s)
        rows  == {r \in DOMAIN stocks : r[1] \in s.target}
    IN  /\ s.kind = "exclude" /\ s.pc = "save"
        /\ IF s.target \subseteq DOMAIN excludeAcl
           THEN Publish(w, [r \in rows |-> [stocks[r] EXCEPT !.excludeLabel =
                                                r[2] \in lists[r[1]]]],
                        UNION {ProductsOf(r, groups) : r \in rows})
           ELSE Refused(w)

(* A group gets or loses servers with a range: the handler gives its       *)
(* variant the ranges and calls update_ip_stock, which reads the rows and  *)
(* the exclude_acl of the ranges.  Labels are set, but never cleared; rows *)
(* that are missing are made with all subnets.                             *)
StartServers(w, g, c) ==
    LET s    == [AtRest EXCEPT !.kind = "servers", !.pc = "save", !.target = {g},
                               !.add = {c} \ groups[g], !.drop = {c} \cap groups[g]]
        rows == Changed(groups, s)[g] \X Acl
        Read(r) == IF r \in DOMAIN stocks THEN stocks[r]
                   ELSE [free |-> Size, excludeLabel |-> FALSE]
    IN  /\ StartSaver(w, [s EXCEPT !.reads = rows, !.copies = [r \in rows |->
               [Read(r) EXCEPT !.excludeLabel = @ \/ r[2] \in excludeAcl[r[1]]]]])
        /\ UNCHANGED <<stocks, excludeAcl, groups, products, shown, owed>>

(* bulk_create, bulk_update of the labels - no signals -, and a save of    *)
(* the products of the variant.  A second row, if another job has made the *)
(* missing one meanwhile, is left out: the jobs are mixed.                 *)
SaveServers(w) ==
    LET s == saver[w]
    IN  /\ s.kind = "servers" /\ s.pc = "save"
        /\ IF \A r \in s.reads : r[1] \in DOMAIN excludeAcl
           THEN Publish(w, [r \in s.reads |->
                    IF r \in DOMAIN stocks
                    THEN [stocks[r] EXCEPT !.excludeLabel = s.copies[r].excludeLabel]
                    ELSE s.copies[r]], s.target \X Acl)
           ELSE Refused(w)

Commit(w) ==
    LET s == saver[w]
    IN  /\ s.pc = "commit"
        /\ stocks' = Over(s.copies, stocks)
        /\ products' = Over(s.counts, products)
        /\ groups' = GroupsOf(s)
        /\ excludeAcl' = ExcludedOf(s)
        /\ SetSaver(w, AtRest)
        /\ UNCHANGED <<shown, saves, owed>>

-----------------------------------------------------------------------------

(* An exception or a crash ends the job, a transaction is rolled back. *)
Fail(w) ==
    /\ saver[w].pc # "idle"
    /\ owed' = owed \cup saver[w].queue \cup DOMAIN saver[w].counts
    /\ SetSaver(w, AtRest)
    /\ UNCHANGED <<stocks, excludeAcl, groups, products, shown, saves>>

(* The update of a server clears its ranges first: no handler is called    *)
(* for post_clear.  Those it keeps are added again by StartServers.        *)
ClearServer(g, c) ==
    /\ c \in groups[g]
    /\ groups' = [groups EXCEPT ![g] = @ \ {c}]
    /\ owed' = owed \cup ({g} \X Acl)
    /\ UNCHANGED <<stocks, excludeAcl, products, shown, saver, saves>>

(* An administrator deletes a range: its rows go with it, uncounted. *)
DeleteCidr(c) ==
    /\ \A w \in Saver : saver[w].pc = "commit" => c \notin {r[1] : r \in saver[w].reads}
    /\ stocks' = [r \in {s \in DOMAIN stocks : s[1] # c} |-> stocks[r]]
    /\ excludeAcl' = [d \in DOMAIN excludeAcl \ {c} |-> excludeAcl[d]]
    /\ groups' = [g \in Group |-> groups[g] \ {c}]
    /\ owed' = owed \cup ({g \in Group : c \in groups[g]} \X Acl)
    /\ UNCHANGED <<products, shown, saver, saves>>

ProductStep ==
    \/ \E w \in Saver :
        \/ \E r \in DOMAIN stocks : StartSale(w, r) \/ StartGiveBack(w, r)
        \/ \E r \in Cidr \X Acl : SaveRow(w, r)
        \/ \E p \in Group \X Acl :
               CountProduct(w, p) \/ StoreProduct(w, p) \/ CacheProduct(w, p)
        \/ \E c \in DOMAIN excludeAcl :
               \/ \E a \in Acl : StartExclusion(w, c, a)
               \/ \E g \in Group : StartServers(w, g, c)
        \/ SaveGivenBack(w) \/ SaveLabels(w) \/ SaveServers(w) \/ Commit(w) \/ Fail(w)
    \/ \E c \in DOMAIN excludeAcl : DeleteCidr(c) \/ \E g \in Group : ClearServer(g, c)

ProductNext ==
    /\ ProductStep
    /\ mixed' = (mixed \/ \E v, w \in Saver : v # w /\ Together(saver'[v], saver'[w]))

ProductSpec == ProductInit /\ [][ProductNext]_productVars

-----------------------------------------------------------------------------
(* Properties.                                                             *)

(* What a customer could be sold of the product. *)
OnSale(p) ==
    SumFunction([r \in {s \in DOMAIN stocks :
        s[1] \in groups[p[1]] /\ s[2] = p[2] /\ s[2] \notin excludeAcl[s[1]]} |-> stocks[r].free])

(* When no job is running, a product shows - in its row and in the hash -  *)
(* what is on sale: each path that changes a row, a label or a group       *)
(* recounts all products it changes, including those of other groups with  *)
(* the same range.  The exceptions are jobs that held one row or counted   *)
(* one product at the same time (nothing orders their writes, nor the      *)
(* hash's and the table's), and the changes recorded in owed.              *)
ShownIsStock ==
    (~mixed /\ \A w \in Saver : saver[w] = AtRest) =>
        \A p \in (Group \X Acl) \ owed : products[p] = OnSale(p) /\ shown[p] = OnSale(p)
=============================================================================
